------------------------------ MODULE MCRevset ------------------------------
(***************************************************************************)
(* The revset streams and the skiplist index on small commit graphs.  An   *)
(* initial state is either one walk of AncestorStreams, beside indexers    *)
(* that fill the index, or one combinator of NodeStreams over any valid    *)
(* inputs.  Both kinds of stream use the same par, drain, out and status.  *)
(***************************************************************************)
EXTENDS AncestorStreams

CONSTANTS Item, NotReady, Finished, Failed

VARIABLES op, given, feed, fails, state, current, acc

S == INSTANCE NodeStreams

combVars == <<op, given, feed, fails, state, current, acc>>
vars == <<par, index, job, walkVars, combVars>>

\* 1 - 2 - 3 - 4 - 5 - 6: long enough for an edge that skips four.
Line == [c \in 1..6 |-> IF c = 1 THEN {} ELSE {c - 1}]
\* A diamond 1 - {2, 3} - 4 with the branch 3 - 5, and a merge of 4 and 5.
Diamond == [c \in 1..6 |-> CASE c = 1 -> {} [] c \in {2, 3} -> {1}
                             [] c = 4 -> {2, 3} [] c = 5 -> {3} [] c = 6 -> {4, 5}]
\* Two roots, 1 and 3; a merge of unequal generations and a commit above it.
TwoRoots == [c \in 1..6 |-> CASE c \in {1, 3} -> {} [] c = 2 -> {1}
                              [] c = 4 -> {2} [] c = 5 -> {3, 4} [] c = 6 -> {5}]
WalkGraphs == {Line, Diamond, TwoRoots}

ExcludedSets == {{}, {3}, {5}, {2, 4}, {4, 5}}

WalkInputs ==
  {<<"ancestors", {h}, {}>> : h \in {5, 6}}
    \cup {<<"difference", hs, ex>> : hs \in {{6}, {2, 5}}, ex \in ExcludedSets}
    \cup {<<"range", {h}, {s}>> : h \in {4, 6}, s \in 1..6}
    \cup {<<w, {6}, {s}>> : w \in Queries, s \in 1..6}

MCWalk ==
  \E g \in WalkGraphs, i \in WalkInputs :
    /\ IndexInit(g) /\ WalkInit(i[1], i[2], i[3])
    /\ op = "none" /\ given = <<>> /\ feed = <<>> /\ fails = {} /\ state = <<>>
    /\ current = 0 /\ acc = <<>>

\* 1 - {2, 3}, 2 - {4, 5}: two generations with two changesets.
Fan == [c \in 1..5 |-> CASE c = 1 -> {} [] c \in {2, 3} -> {1} [] OTHER -> {2}]

ValidSeqs(g) ==
  {s \in UNION {[1..n -> DOMAIN g] : n \in 0..3} : S!Valid(s, Generation(g))}

MCCombine ==
  /\ par = Fan /\ index = [c \in 1..5 |-> None] /\ job = [x \in Indexers |-> None]
  /\ walk = "none" /\ heads = {} /\ excluded = {} /\ next = {} /\ pending = {}
  /\ level = 0 /\ frontier = {} /\ target = 0 /\ edges = {}
  /\ \E o \in {"union", "intersect", "difference"}, broken \in {{}, {2}} :
     \E a, b \in ValidSeqs(Fan) : S!StreamInit(Fan, o, <<a, b>>, broken)

MCInit == MCWalk \/ MCCombine

\* The index is only used by the excluded frontier and the queries.  Two
\* indexers run beside one of the queries, one beside the others.
Active == IF walk = "reach" /\ excluded = {2} THEN Indexers ELSE {CHOOSE x \in Indexers : TRUE}
Indexing == walk \in {"difference"} \cup Queries /\ excluded # {}
            /\ IndexNext(Active, {4, 6}, {3, 6})

MCNext ==
  \/ WalkNext /\ UNCHANGED combVars
  \/ Indexing /\ UNCHANGED <<walkVars, combVars>>
  \/ S!StreamNext /\ UNCHANGED <<index, job, walk, heads, excluded, next, pending,
                                 level, frontier, target, edges>>

MCSpec == MCInit /\ [][MCNext]_vars
          /\ WF_vars(WalkNext /\ UNCHANGED combVars)
          /\ WF_vars(S!StreamNext /\ UNCHANGED <<index, job, walk, heads, excluded, next,
                                    pending, level, frontier, target, edges>>)

\* A union, intersection or difference yields exactly the set it stands for, and every
\* stream keeps the two revset invariants of ValidateNodeStream all along: "The
\* generation number never increases" and "No hash is seen twice".
CombinedExact == S!Valid(out, gen) /\ (walk = "none" => S!CombinedExact)

\* Every stream that is read to its end, ends.
StreamEnds == <>(status \in {"end", "error", "yes", "no"})
=============================================================================
