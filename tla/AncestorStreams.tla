-------------------------- MODULE AncestorStreams ---------------------------
(***************************************************************************)
(* The streams of revset that walk the commit graph:                       *)
(*   - DifferenceOfUnionsOfAncestorsNodeStream, ancestors of some heads    *)
(*     that are not ancestors of others; the frontier of the excluded      *)
(*     heads is moved down by the skiplist index, which may be filling up  *)
(*     while the stream is read;                                           *)
(*   - AncestorsNodeStream, the same walk from one head without exclusion; *)
(*   - RangeNodeStream, the changesets between two of them;                *)
(* and the two queries that run the index's frontier walk to its end,      *)
(* query_reachability and is_ancestor.                                     *)
(* Fetches of parents and generations complete one at a time, in any       *)
(* order.  A BTreeMap from generations to sets together with the heap of   *)
(* its keys is the set of the changesets in it.                            *)
(***************************************************************************)
EXTENDS Skiplist

VARIABLES walk,       \* "ancestors", "difference", "range", "reach", "is_ancestor",
                      \* or "none" beside another kind of stream
          heads,      \* the changesets it starts from
          excluded,   \* those whose ancestors are left out; range: start_node;
                      \* queries: the possible ancestor
          next,       \* next_generation; range: output_nodes
          pending,    \* the changesets whose parents are to be fetched
          level,      \* current_generation, 0 before the first
          drain,      \* what is left of that generation
          frontier,   \* the excluded frontier
          target,     \* the generation lca_hint is moving it to, 0 for no call
          edges,      \* range: the pairs <<parent, child>> collected
          out,        \* what the stream has yielded
          status      \* "walk", "drain" (range: stage 2), "end", "error"; "yes", "no"

walkVars == <<walk, heads, excluded, next, pending, level, drain, frontier,
              target, edges, out, status>>
fixedVars == <<par, index, job, walk, heads, excluded>>

Queries == {"reach", "is_ancestor"}
Only(S) == CHOOSE s \in S : TRUE
start == Only(excluded)

WalkInit(w, hs, ex) ==
  /\ walk = w /\ heads = hs /\ excluded = ex
  /\ next = IF w = "difference" THEN hs ELSE {}
  /\ pending = IF w \in {"ancestors", "range"} THEN hs ELSE {}
  /\ drain = IF w = "ancestors" THEN hs ELSE {}
  /\ frontier = IF w \in Queries THEN hs ELSE IF w = "difference" THEN ex ELSE {}
  /\ target = IF w \in Queries THEN gen[Only(ex)] ELSE 0
  /\ level = 0 /\ edges = {} /\ out = <<>> /\ status = "walk"

-----------------------------------------------------------------------------
\* AncestorsNodeStream yields the drain first; the fetches of the parents of the
\* whole generation are already set up.
AncestorsEmit ==
  /\ walk = "ancestors"
  /\ \E c \in drain : drain' = drain \ {c} /\ out' = Append(out, c)
  /\ UNCHANGED <<next, pending, level, frontier, target, edges, status, fixedVars>>

\* Mutant: the parents replace what is known instead of joining it.
FetchParentsReplacing ==
  /\ walk \in {"ancestors", "difference"} /\ drain = {}
  /\ \E c \in pending : pending' = pending \ {c} /\ next' = par[c]
  /\ UNCHANGED <<level, drain, frontier, target, edges, out, status, fixedVars>>

\* The parents of a changeset arrive.
FetchParents ==
  /\ walk \in {"ancestors", "difference"} /\ drain = {}
  /\ \E c \in pending : pending' = pending \ {c} /\ next' = next \cup par[c]
  /\ UNCHANGED <<level, drain, frontier, target, edges, out, status, fixedVars>>

Highest(S) == {c \in S : gen[c] = MaxGen(S)}

\* All parents of the last generation are known: the next one is taken up.
NextGeneration ==
  /\ walk \in {"ancestors", "difference"}
  /\ drain = {} /\ pending = {} /\ next # {}
  /\ level' = MaxGen(next)
  /\ drain' = Highest(next)
  /\ next' = next \ Highest(next)
  /\ pending' = IF walk = "ancestors" THEN drain' ELSE {}
  /\ UNCHANGED <<frontier, target, edges, out, status, fixedVars>>

WalkEnd ==
  /\ walk \in {"ancestors", "difference"}
  /\ drain = {} /\ pending = {} /\ next = {}
  /\ status' = "end"
  /\ UNCHANGED <<next, pending, level, drain, frontier, target, edges, out, fixedVars>>

-----------------------------------------------------------------------------
(***************************************************************************)
(* exclude_node: a frontier above the current generation is first moved    *)
(* down to it with lca_hint; then the changeset is left out if it is in    *)
(* the frontier, and otherwise yielded.                                    *)
(***************************************************************************)
CallHint ==
  /\ walk = "difference" /\ drain # {} /\ target = 0
  /\ MaxGen(frontier) > level
  /\ target' = level
  /\ UNCHANGED <<next, pending, level, drain, frontier, edges, out, status, fixedVars>>

HintStep ==
  /\ target # 0 /\ ~Settled(frontier, target)
  /\ frontier' \in Advanced(frontier, target)
  /\ UNCHANGED <<next, pending, level, drain, target, edges, out, status, fixedVars>>

HintDone ==
  /\ walk = "difference" /\ target # 0 /\ Settled(frontier, target)
  /\ target' = 0
  /\ UNCHANGED <<next, pending, level, drain, frontier, edges, out, status, fixedVars>>

ExcludeNode(c) == MaxGen(frontier) = level /\ c \in frontier

DifferenceStep ==
  /\ walk = "difference" /\ target = 0 /\ MaxGen(frontier) <= level
  /\ \E c \in drain :
       /\ drain' = drain \ {c}
       /\ IF ExcludeNode(c) THEN UNCHANGED <<pending, out>>
          ELSE pending' = pending \cup {c} /\ out' = Append(out, c)
  /\ UNCHANGED <<next, level, frontier, target, edges, status, fixedVars>>

-----------------------------------------------------------------------------
(***************************************************************************)
(* RangeNodeStream.  Stage 1: an edge to a parent is kept if the child is  *)
(* not below the start, and followed if the parent is above it.            *)
(***************************************************************************)
RangeFetch ==
  /\ walk = "range" /\ status = "walk"
  /\ \E c \in pending :
       /\ edges' = edges \cup (IF gen[c] >= gen[start]
                                 THEN {<<p, c>> : p \in par[c]} ELSE {})
       /\ pending' = (pending \ {c}) \cup {p \in par[c] : gen[p] > gen[start]}
  /\ UNCHANGED <<next, level, drain, frontier, target, out, status, fixedVars>>

\* build_output_nodes: forward from the start along the edges collected.
OutputNodes ==
  LET reach[n \in Nat] ==
        IF n = 0 THEN {start}
        ELSE reach[n - 1] \cup {e[2] : e \in {f \in edges : f[1] \in reach[n - 1]}}
  IN  IF edges = {} THEN {} ELSE reach[Cardinality(DOMAIN par)]

RangeBuild ==
  /\ walk = "range" /\ status = "walk" /\ pending = {}
  /\ next' = OutputNodes
  /\ status' = "drain"
  /\ UNCHANGED <<pending, level, drain, frontier, target, edges, out, fixedVars>>

RangeEmit ==
  /\ status = "drain" /\ next # {}
  /\ \E c \in Highest(next) : next' = next \ {c} /\ out' = Append(out, c)
  /\ UNCHANGED <<pending, level, drain, frontier, target, edges, status, fixedVars>>

RangeEnd ==
  /\ status = "drain" /\ next = {}
  /\ status' = "end"
  /\ UNCHANGED <<next, pending, level, drain, frontier, target, edges, out, fixedVars>>

-----------------------------------------------------------------------------
\* is_ancestor answers at once if the generations rule it out, equal ones (and
\* so a changeset and itself) included; query_reachability always walks.
IsAncestorByGeneration ==
  /\ walk = "is_ancestor" /\ gen[start] >= gen[Only(heads)]
  /\ status' = "no"
  /\ UNCHANGED <<next, pending, level, drain, frontier, target, edges, out, fixedVars>>

QueryAnswer ==
  /\ walk \in Queries /\ Settled(frontier, target)
  /\ walk = "is_ancestor" => gen[start] < gen[Only(heads)]
  /\ status' = IF start \in frontier THEN "yes" ELSE "no"
  /\ UNCHANGED <<next, pending, level, drain, frontier, target, edges, out, fixedVars>>

\* A fetch fails: the error is returned and the caller reads no further.
FetchFails ==
  /\ status = "walk" /\ (target # 0 \/ (drain = {} /\ pending # {}))
  /\ status' = "error"
  /\ UNCHANGED <<next, pending, level, drain, frontier, target, edges, out, fixedVars>>

Step ==
  \/ AncestorsEmit \/ FetchParents \/ NextGeneration \/ WalkEnd
  \/ CallHint \/ HintStep \/ HintDone \/ DifferenceStep
  \/ RangeFetch \/ RangeBuild \/ RangeEmit \/ RangeEnd
  \/ IsAncestorByGeneration \/ QueryAnswer \/ FetchFails

WalkNext == status \in {"walk", "drain"} /\ Step

-----------------------------------------------------------------------------
Between(a, b) == {c \in Ancestors(par, b) : a \in Ancestors(par, c)}

\* What the stream is to yield.  RangeNodeStream is the definition the
\* pushrebase model uses.
Expected ==
  CASE walk = "ancestors"  -> AncestorsOf(heads)
    [] walk = "difference" -> AncestorsOf(heads) \ AncestorsOf(excluded)
    [] walk = "range"      -> RangeNodeStream(par, start, Only(heads))
    [] OTHER               -> {}

\* A walk yields nothing it should not, at any moment, and when it ends without
\* an error it has yielded everything; a range from a proper ancestor is what
\* lies between the two.
WalkExact ==
  /\ walk # "none" => ToSet(out) \subseteq Expected
  /\ walk # "none" /\ status = "end" => ToSet(out) = Expected
  /\ walk = "range" /\ start \in AncestorsOf(heads) \ heads
       => Expected = Between(start, Only(heads))

\* The queries answer yes exactly for an ancestor; query_reachability counts a
\* changeset as its own ancestor and is_ancestor does not.
QueryExact ==
  status \in {"yes", "no"} =>
    (status = "yes" <=> /\ start \in AncestorsOf(heads)
                        /\ walk = "is_ancestor" => start \notin heads)
=============================================================================
