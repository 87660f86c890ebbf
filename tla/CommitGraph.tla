---------------------------- MODULE CommitGraph -----------------------------
(***************************************************************************)
(* The commit graph as the server reads it: changesets numbered in the     *)
(* order they were added, par[c] the set of the parents of c, and the      *)
(* generation numbers of the changesets table.  RangeNodeStream is the     *)
(* walk that pushrebase and others take between two changesets.            *)
(***************************************************************************)
EXTENDS Naturals, FiniteSets, FiniteSetsExt

\* Max({}) + 1 = 1 is the generation of a root (changesets::add).
Generation(par) ==
  LET gen[c \in DOMAIN par] == 1 + Max({0} \cup {gen[p] : p \in par[c]})
  IN  gen

Ancestors(par, c) ==
  LET anc[d \in DOMAIN par] == {d} \cup UNION {anc[p] : p \in par[d]}
  IN  anc[c]

IsAncestor(par, a, c) == a \in Ancestors(par, c)

\* Stage 1 walks back from the end as long as the generation is above that of
\* the start and collects the edges it crosses; stage 2 walks forward from the
\* start along those edges.  No edge at all: the stream is empty.
RangeEdges(par, start, end) ==
  LET gen == Generation(par)
      seen == {end} \cup {a \in Ancestors(par, end) : gen[a] > gen[start]}
  IN  {<<p, c>> \in (DOMAIN par) \X seen : p \in par[c] /\ gen[c] >= gen[start]}

RangeNodeStream(par, start, end) ==
  LET edges == RangeEdges(par, start, end)
      fwd[c \in DOMAIN par] ==
        c = start \/ \E e \in edges : e[2] = c /\ fwd[e[1]]
  IN  IF edges = {} THEN {} ELSE {c \in DOMAIN par : fwd[c]}
=============================================================================
