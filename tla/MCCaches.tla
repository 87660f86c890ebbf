------------------------------ MODULE MCCaches ------------------------------
(***************************************************************************)
(* The two users of memcache: the cache in front of a blobstore, and the   *)
(* phases.  An initial state chooses one, the other rests.                 *)
(*                                                                         *)
(* Phases on two commit graphs: on a line of two commits two clients race  *)
(* for the phase of the second one; on a diamond one client pulls a merge  *)
(* and walks down to its public roots.  The bookmark moves meanwhile.      *)
(***************************************************************************)
EXTENDS CacheBlobstore

CONSTANTS None, MaxMoves,   \* see Phases
          c1, c2

VARIABLES which,   \* "blobs" or "phases"
          par, cached, heads, moves, wasPublic, table, replica, memcache, asking

\* asking holds the calls of the clients of the phases.
P == INSTANCE Phases WITH call <- asking

Line == [c \in 1..2 |-> IF c = 1 THEN {} ELSE {1}]
\* 1 - {2, 3} - 4
Diamond == [c \in 1..4 |-> CASE c = 1 -> {} [] c \in {2, 3} -> {1} [] c = 4 -> {2, 3}]

ph_vars == <<par, cached, heads, moves, wasPublic, table, replica, memcache, asking>>
allVars == <<which, vars, ph_vars>>

MCInit ==
    \/ which = "blobs" /\ Init /\ P!PhasesInit(Line, {1}) /\ cached
    \/ /\ which = "phases" /\ Init /\ layer = "memcache" /\ ~store
       /\ \E g \in {Line, Diamond}, hs \in {{1}, {2}} : P!PhasesInit(g, hs)

Active == IF par = Line THEN Clients ELSE {c1}

PhasesNext ==
    \/ P!Replicate
    \/ \E x \in P!Cs : P!Expire(x)
    \/ \E hs \in (IF par = Line THEN {{}, {1}, {2}} ELSE {{}, {2}, {3}}) : P!MoveBookmark(hs)
    \/ \E c \in Active :
         \/ P!CallStep(c) \/ P!CallFails(c)
         \/ P!Known(c, IF par = Line THEN {2} ELSE {1, 3})
         \/ par = Diamond /\ P!Pull(c, {4})
         \/ P!Push(c, 2)

Blobs(A) == which = "blobs" /\ A /\ UNCHANGED <<which, ph_vars>>
OfPhases(A) == which = "phases" /\ A /\ UNCHANGED <<which, vars>>

MCNext == Blobs(Next) \/ OfPhases(PhasesNext)

\* The executor polls every task that can make progress, locks expire, and so
\* do entries with an expiry time.  which never changes, so a disjunction
\* stands for one condition on either cache.
Polled(c) == Blobs(Step(c) /\ UNCHANGED layer) \/ OfPhases(P!CallStep(c))
Expires(x) == x \in P!Cs /\ P!Expire(x)

MCSpec ==
    /\ MCInit /\ [][MCNext]_allVars
    /\ \A c \in Clients : WF_allVars(Polled(c))
    /\ WF_allVars(Blobs(Fill(c1) /\ UNCHANGED layer) \/ OfPhases(Expires(1)))
    /\ WF_allVars(Blobs(Fill(c2) /\ UNCHANGED layer) \/ OfPhases(Expires(2)))
    /\ WF_allVars(Blobs(Expire /\ UNCHANGED layer) \/ OfPhases(Expires(3)))
    /\ WF_allVars(OfPhases(Expires(4)))
-----------------------------------------------------------------------------
(* The properties of the phases. *)

\* What is kept for good is right for good: rows of the phases table, and
\* memcache entries without expiry (CachingHintPhases).
PermanentIsRight == P!PermanentIsRight

\* While no bookmark moves every answer about phases is exact.
ExactWhenStill == P!ExactWhenStill

\* The public roots a pull sends cut off all that was not answered Draft,
\* although bookmarks move (calculate_public_roots).
RootsCut == P!RootsCut

\* A changeset that the bookmarks reach for good is not called Draft by
\* memcache for ever (TTL_DRAFT_SEC, set_phases_to_memcache).
StaleDraftFades == P!StaleDraftFades
=============================================================================
