------------------------------ MODULE Skiplist ------------------------------
(***************************************************************************)
(* The skiplist reachability index: a concurrent map from changesets to    *)
(* skip edges or parent edges, filled by lazy_index_node while queries     *)
(* (process_frontier) walk the graph along it.  An indexer looks for the   *)
(* nodes to index, fetches their parents and then inserts the entries one  *)
(* by one, lowest generation first; other indexers and the queries see the *)
(* entries as they appear.                                                 *)
(***************************************************************************)
EXTENDS CommitGraph, Sequences, SequencesExt

CONSTANTS SkipEdges,     \* skip_edges_per_node
          Indexers,      \* concurrent calls of add_node
          None

VARIABLES par,      \* the commit graph
          index,    \* index[c]: None, or [kind |-> "skip" | "parents", edges |-> Seq]
          job       \* job[x]: None before the call; the layer and the depth left of the
                    \* search, and the nodes seen and still to be inserted

indexVars == <<par, index, job>>

gen == Generation(par)
Indexed == {c \in DOMAIN par : index[c] # None}

\* nth_node_or_last; the index i of the code starts at 0.
NthOrLast(edges, i) == edges[IF i < Len(edges) THEN i + 1 ELSE Len(edges)]

\* compute_skip_edges: from the parent on, the i-th edge of the node reached so
\* far (or its last), until an unindexed node, one with parent edges, or the
\* limit.  The limit is tested after the push, so there are at least two edges
\* if the parent has skip edges.
ComputeSkipEdges(parent) ==
  LET more(s) == /\ index[Last(s)] # None
                 /\ index[Last(s)].kind = "skip"
                 /\ index[Last(s)].edges # <<>>
                 /\ (Len(s) = 1 \/ Len(s) < SkipEdges)
      \* s has i + 1 elements when the loop looks at the i-th edge
      next(s) == IF more(s)
                   THEN Append(s, NthOrLast(index[Last(s)].edges, Len(s) - 1)) ELSE s
      run[n \in Nat] == IF n = 0 THEN <<parent>> ELSE next(run[n - 1])
  IN  run[Cardinality(DOMAIN par)]

\* Mutant: a merge gets skip edges through one of its parents.
EntryOfAnyParent(c) ==
  IF par[c] # {}
    THEN [kind |-> "skip", edges |-> ComputeSkipEdges(CHOOSE p \in par[c] : TRUE)]
    ELSE [kind |-> "parents", edges |-> <<>>]

Entry(c) ==
  IF Cardinality(par[c]) = 1
    THEN [kind |-> "skip", edges |-> ComputeSkipEdges(CHOOSE p \in par[c] : TRUE)]
    ELSE [kind |-> "parents", edges |-> SetToSeq(par[c])]

\* add_node and the start of find_nodes_to_index.
AddNode(x, start, depth) ==
  /\ job[x] = None
  /\ job' = [job EXCEPT ![x] =
               [layer |-> IF depth = 0 THEN {} ELSE {start} \ Indexed,
                seen |-> {}, depth |-> depth, inserting |-> FALSE]]
  /\ UNCHANGED <<par, index>>

\* A layer of the breadth-first search: nodes indexed by now are left out; when
\* none is left or the depth is used up, the insertion starts.
SearchLayer(x) ==
  LET j == job[x]
      layer == j.layer \ Indexed
      seen == j.seen \cup layer
  IN  /\ j # None /\ ~j.inserting
      /\ job' = [job EXCEPT ![x] =
                   IF j.depth = 0 \/ layer = {}
                     THEN [j EXCEPT !.layer = {}, !.inserting = TRUE]
                     ELSE [j EXCEPT !.layer = UNION {par[c] : c \in layer} \ seen,
                                    !.seen = seen, !.depth = @ - 1]]
      /\ UNCHANGED <<par, index>>

\* One round of the insertion loop.  Nodes of equal generation come in the
\* arbitrary order of a HashSet.
InsertEntry(x) ==
  /\ job[x] # None /\ job[x].inserting
  /\ \E c \in job[x].seen :
       /\ \A d \in job[x].seen : gen[c] <= gen[d]
       /\ index' = [index EXCEPT ![c] = Entry(c)]
       /\ job' = [job EXCEPT ![x].seen = @ \ {c}]
  /\ UNCHANGED par

IndexInit(g) ==
  /\ par = g
  /\ index = [c \in DOMAIN g |-> None]
  /\ job = [x \in Indexers |-> None]

IndexNext(xs, starts, depths) ==
             \E x \in xs :
               \/ \E start \in starts, depth \in depths : AddNode(x, start, depth)
               \/ SearchLayer(x)
               \/ InsertEntry(x)

-----------------------------------------------------------------------------
(***************************************************************************)
(* One node of process_frontier's loop: a node of the highest generation,  *)
(* above max, is replaced by the farthest of its skip edges that does not  *)
(* pass max, by its parent edges, or, if there is neither, by its parents. *)
(* (An iteration treats all nodes of that generation, in any order; what   *)
(* they add is of a lower generation, so one node at a time is the same,   *)
(* and entries that appear between two look-ups are seen.)                 *)
(***************************************************************************)
\* Mutant: always the farthest edge.
FarthestEdge(edges, max) == IF edges = <<>> THEN {} ELSE {Last(edges)}

BestEdge(edges, max) ==
  LET fits == {i \in DOMAIN edges : \A j \in 1..i : gen[edges[j]] >= max}
  IN  IF fits = {} THEN {} ELSE {edges[Max(fits)]}

Moved(c, max) ==
  IF index[c] = None THEN par[c]
  ELSE IF index[c].kind = "parents" THEN ToSet(index[c].edges)
  ELSE IF BestEdge(index[c].edges, max) # {} THEN BestEdge(index[c].edges, max)
  ELSE par[c]

MaxGen(frontier) == Max({0} \cup {gen[c] : c \in frontier})
Settled(frontier, max) == MaxGen(frontier) <= max

\* The frontiers one step away.
Advanced(frontier, max) ==
  {(frontier \ {c}) \cup Moved(c, max) :
     c \in {d \in frontier : gen[d] = MaxGen(frontier) /\ gen[d] > max}}

-----------------------------------------------------------------------------
AncestorsOf(S) == UNION {Ancestors(par, c) : c \in S}

\* An entry leads only where it may: whatever is an ancestor of the node, of a
\* generation at or below that of the edge's end, is an ancestor of the end
\* (a skip edge never jumps over a merge), and parent edges are the parents.
EdgesAreSafe ==
  \A c \in Indexed :
    IF index[c].kind = "parents"
      THEN ToSet(index[c].edges) = par[c]
      ELSE \A i \in DOMAIN index[c].edges :
             LET e == index[c].edges[i]
             IN  /\ e \in Ancestors(par, c) \ {c}
                 /\ \A a \in Ancestors(par, c) \ {c} :
                      gen[a] <= gen[e] => a \in Ancestors(par, e)

=============================================================================
