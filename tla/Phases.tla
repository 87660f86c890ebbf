------------------------------- MODULE Phases -------------------------------
(***************************************************************************)
(* Whether a changeset is public.  It is if a bookmark points to it or to  *)
(* one of its descendants; a changeset found to be public is recorded in   *)
(* SQL (written to the master, read from a replica) and stays public.      *)
(* CachingHintPhases also keeps phases in memcache, drafts with an expiry  *)
(* time; HintPhases has no memcache.  A call looks in memcache, then in    *)
(* SQL, and computes the rest from the bookmarks and the commit graph.     *)
(*                                                                         *)
(* Three callers: `known` asks for phases; a pull asks for the phases of   *)
(* its heads and then walks from the draft ones to their public roots      *)
(* (getbundle_response); a pushrebase, which has just moved the bookmark,  *)
(* records the new head as public.                                         *)
(***************************************************************************)
EXTENDS Naturals, FiniteSets, TLC, CommitGraph

CONSTANTS Clients, None, MaxMoves

VARIABLES par,       \* the commit graph
          cached,    \* CachingHintPhases or HintPhases
          heads,     \* where the bookmarks point, on the master
          moves,     \* number of bookmark moves so far
          wasPublic, \* ghost: every changeset a bookmark has ever reached
          table,     \* the rows <<changeset, phase>> of the phases table
          replica,   \* the rows its replica has
          memcache,  \* per changeset: None or [phase, ttl]
          call

phVars == <<par, cached, heads, moves, wasPublic, table, replica, memcache, call>>

Cs == DOMAIN par
Reached(hs) == UNION {Ancestors(par, h) : h \in hs}
Idle == [stage |-> "idle"]
Public == "Public"
Draft == "Draft"
With(pairs, phase) == {p[1] : p \in {q \in pairs : q[2] = phase}}

PhasesInit(g, hs) ==
  /\ par = g /\ cached \in BOOLEAN
  /\ heads = hs /\ moves = 0 /\ wasPublic = UNION {Ancestors(g, h) : h \in hs}
  /\ table = {} /\ replica = {} /\ memcache = [x \in DOMAIN g |-> None]
  /\ call = [c \in Clients |-> Idle]

Becomes(c, new) == call' = [call EXCEPT ![c] = new]
UnchangedStores == UNCHANGED <<table, replica, memcache>>
UnchangedRepo == UNCHANGED <<par, cached, heads, moves, wasPublic>>

\* ON DUPLICATE KEY UPDATE
Upsert(rows) == {r \in table : ~\E n \in rows : n[1] = r[1]} \cup rows

\* Drafts are set with TTL_DRAFT_SEC.
Entry(phase) == [phase |-> phase, ttl |-> phase = Draft]

\* Any of the sets may fail; the error is dropped.
SetPhases(pairs) ==
  \E stored \in SUBSET pairs :
    memcache' = [x \in Cs |-> IF \E p \in stored : p[1] = x
                                THEN Entry((CHOOSE p \in stored : p[1] = x)[2])
                                ELSE memcache[x]]

-----------------------------------------------------------------------------
(* get_all_with_bookmarks.                                                 *)

Asking(op, ask, publicHeads) ==
  [op |-> op, ask |-> ask, publicHeads |-> publicHeads, found |-> {}, fromDb |-> {},
   calculated |-> {}, stage |-> IF cached THEN "memcache" ELSE "db"]

Unknown(c) == call[c].ask \ {p[1] : p \in call[c].found \cup call[c].fromDb}

GetFromMemcache(c) ==
  /\ call[c].stage = "memcache"
  /\ \E hits \in SUBSET {x \in call[c].ask : memcache[x] # None} :
       Becomes(c, [call[c] EXCEPT !.found = {<<x, memcache[x].phase>> : x \in hits},
                                  !.stage = "db"])
  /\ UnchangedStores /\ UnchangedRepo

GetFromDb(c) ==
  /\ call[c].stage = "db"
  /\ Becomes(c, [call[c] EXCEPT !.fromDb = {r \in replica : r[1] \in Unknown(c)},
                                !.stage = "heads"])
  /\ UnchangedStores /\ UnchangedRepo

\* Mutant of Hint: nothing is reachable but the heads themselves.
HintHeadsOnly(x, hs) == IF x \in hs THEN Public ELSE Draft

\* PhasesReachabilityHint::get, against the heads the call has read.
Hint(x, hs) ==
  IF x \in hs \/ \E h \in hs : IsAncestor(par, x, h) THEN Public ELSE Draft

Calculate(c) ==
  LET hs == IF call[c].publicHeads # None THEN call[c].publicHeads
            ELSE IF Unknown(c) = {} THEN None ELSE heads IN
    /\ call[c].stage = "heads"
    /\ Becomes(c, [call[c] EXCEPT
         !.publicHeads = hs, !.stage = "record",
         !.calculated = IF hs = None THEN {} ELSE {<<x, Hint(x, hs)>> : x \in Unknown(c)}])
    /\ UnchangedStores /\ UnchangedRepo

\* Mutant of ToRecord: drafts are recorded too.
ToRecordAll(pairs) == pairs

\* Public ones only.
ToRecord(pairs) == {p \in pairs : p[2] = Public}

Record(c) ==
  /\ call[c].stage = "record"
  /\ table' = Upsert(ToRecord(call[c].calculated))
  /\ Becomes(c, [call[c] EXCEPT !.stage = IF cached THEN "fill" ELSE "got",
                                !.found = @ \cup call[c].fromDb \cup call[c].calculated])
  /\ UNCHANGED <<replica, memcache>> /\ UnchangedRepo

\* Mutant of ToFill: the whole answer is written back.
ToFillAll(c) == call[c].found

\* What was found in memcache is not written back to it.
ToFill(c) == call[c].calculated \cup call[c].fromDb

FillMemcache(c) ==
  /\ call[c].stage = "fill"
  /\ SetPhases(ToFill(c))
  /\ Becomes(c, [call[c] EXCEPT !.stage = "got"])
  /\ UNCHANGED <<table, replica>> /\ UnchangedRepo

\* A query fails, or the caller's timeout expires and the call is dropped where it is.
CallFails(c) ==
  /\ call[c].stage \notin {"idle", "answered", "failed", "got"}
  /\ Becomes(c, [stage |-> "failed", op |-> call[c].op])
  /\ UnchangedStores /\ UnchangedRepo

-----------------------------------------------------------------------------
(* The callers.                                                            *)

Known(c, ask) ==
  /\ call[c].stage = "idle"
  /\ Becomes(c, Asking("known", ask, None))
  /\ UnchangedStores /\ UnchangedRepo

KnownGot(c) ==
  /\ call[c].stage = "got" /\ call[c].op = "known"
  /\ Becomes(c, [call[c] EXCEPT !.stage = "answered"])
  /\ UnchangedStores /\ UnchangedRepo

\* prepare_phases_stream, calculate_public_roots
Pull(c, hs) ==
  /\ call[c].stage = "idle"
  /\ Becomes(c, Asking("pull", hs, None))
  /\ UnchangedStores /\ UnchangedRepo

PullGot(c) ==
  /\ call[c].stage = "got" /\ call[c].op = "pull"
  /\ Becomes(c, [op |-> "roots", stage |-> "loop", publicHeads |-> call[c].publicHeads,
                 phases |-> call[c].found, drafts |-> With(call[c].found, Draft),
                 walked |-> With(call[c].found, Draft), roots |-> {}, visited |-> {}])
  /\ UnchangedStores /\ UnchangedRepo

\* The state the walk carries from one round to the next.
Walk(c) == [f \in {"phases", "roots", "walked", "visited"} |-> call[c][f]]

RootsLoop(c) ==
  LET parents == UNION {par[d] : d \in call[c].drafts} \ call[c].visited IN
    /\ call[c].stage = "loop"
    /\ IF call[c].drafts = {} \/ call[c].publicHeads = {}
         THEN Becomes(c, [call[c] EXCEPT !.stage = "answered"])
         ELSE Becomes(c, Asking("roots", parents, call[c].publicHeads)
                           @@ [Walk(c) EXCEPT !.visited = @ \cup parents])
    /\ UnchangedStores /\ UnchangedRepo

\* Mutant of NewPublic: roots that the bookmarks have left are dropped.
NewPublicReached(c) ==
  LET hs == call[c].publicHeads IN
    With(call[c].found, Public) \cap (IF hs = None THEN Cs ELSE Reached(hs))

\* What this round found to be public, and the drafts the next one goes on from.
NewPublic(c) == With(call[c].found, Public)
NextDrafts(c) == With(call[c].found, Draft)

RootsGot(c) ==
  /\ call[c].stage = "got" /\ call[c].op = "roots"
  /\ Becomes(c, [Walk(c) EXCEPT !.roots = @ \cup NewPublic(c),
                                !.walked = @ \cup NextDrafts(c)]
                  @@ [op |-> "roots", stage |-> "loop", drafts |-> NextDrafts(c),
                      publicHeads |-> call[c].publicHeads])
  /\ UnchangedStores /\ UnchangedRepo

MovedTo(hs) ==
  /\ moves < MaxMoves /\ hs # heads
  /\ heads' = hs /\ moves' = moves + 1
  /\ wasPublic' = wasPublic \cup Reached(hs)

\* The bookmark is moved, or deleted, by a push that does not record phases.
MoveBookmark(hs) == MovedTo(hs) /\ UNCHANGED <<par, cached, call>> /\ UnchangedStores

\* A pushrebase has moved the bookmark: prepare_pushrebase_response.
Push(c, x) ==
  /\ call[c].stage = "idle"
  /\ MovedTo({x})
  /\ Becomes(c, [op |-> "add", row |-> <<x, Public>>,
                 stage |-> IF cached THEN "addMemcache" ELSE "addDb"])
  /\ UNCHANGED <<par, cached>> /\ UnchangedStores

AddReadMemcache(c) ==
  LET x == call[c].row[1] IN
    /\ call[c].stage = "addMemcache"
    /\ \/ Becomes(c, [call[c] EXCEPT !.stage = "addSet"])
       \/ /\ memcache[x] # None /\ memcache[x].phase = Public
          /\ Becomes(c, [call[c] EXCEPT !.stage = "answered"])
    /\ UnchangedStores /\ UnchangedRepo

AddSetMemcache(c) ==
  /\ call[c].stage = "addSet"
  /\ SetPhases({call[c].row})
  /\ Becomes(c, [call[c] EXCEPT !.stage = "addDb"])
  /\ UNCHANGED <<table, replica>> /\ UnchangedRepo

AddToDb(c) ==
  /\ call[c].stage = "addDb"
  /\ table' = Upsert({call[c].row})
  /\ Becomes(c, [call[c] EXCEPT !.stage = "answered"])
  /\ UNCHANGED <<replica, memcache>> /\ UnchangedRepo

Return(c) ==
  /\ call[c].stage \in {"answered", "failed"}
  /\ Becomes(c, Idle)
  /\ UnchangedStores /\ UnchangedRepo

Replicate ==
  \E r \in table \ replica :
    /\ replica' = replica \cup {r}
    /\ UNCHANGED <<table, memcache, call>> /\ UnchangedRepo

Expire(x) ==
  /\ memcache[x] # None /\ memcache[x].ttl
  /\ memcache' = [memcache EXCEPT ![x] = None]
  /\ UNCHANGED <<table, replica, call>> /\ UnchangedRepo

CallStep(c) ==
  \/ GetFromMemcache(c) \/ GetFromDb(c) \/ Calculate(c) \/ Record(c) \/ FillMemcache(c)
  \/ KnownGot(c) \/ PullGot(c) \/ RootsLoop(c) \/ RootsGot(c)
  \/ AddReadMemcache(c) \/ AddSetMemcache(c) \/ AddToDb(c) \/ Return(c)

-----------------------------------------------------------------------------
\* What is kept for good is right for good: the rows of the phases table and the
\* memcache entries without expiry are Public, and the changeset was reached by
\* a bookmark at some time.  A phase computed from bookmarks that have moved
\* since is only ever kept as an entry that expires (CachingHintPhases).
PermanentIsRight ==
  /\ \A r \in table : r[2] = Public /\ r[1] \in wasPublic
  /\ \A x \in Cs : memcache[x] # None /\ ~memcache[x].ttl =>
       memcache[x].phase = Public /\ x \in wasPublic

\* While no bookmark moves every answer is exact, by whatever mixture of caches,
\* lagging replica and computation it came about: all that was asked for, and
\* Public exactly for what the bookmarks reach; and the public roots of a pull
\* are exactly the public parents of the drafts below its heads.
ExactWhenStill ==
  \A c \in Clients : moves = 0 =>
    /\ call[c].stage = "answered" /\ call[c].op = "known" =>
         call[c].found = {<<x, IF x \in Reached(heads) THEN Public ELSE Draft>> :
                            x \in call[c].ask}
    /\ call[c].stage = "answered" /\ call[c].op = "roots" /\ heads # {} =>
         LET drafts == UNION {Ancestors(par, d) : d \in With(call[c].phases, Draft)}
                         \ Reached(heads) IN
           call[c].roots = UNION {par[d] : d \in drafts} \cap Reached(heads)

\* Bookmarks may move during a pull.  The walk still ends with a clean cut: an
\* ancestor of a draft head was itself answered Draft, or lies at or below one
\* of the public roots sent to the client (calculate_public_roots).  This is not
\* said of a pull that finds no bookmark at all: the "precaution" for that case
\* breaks the loop at once, with no roots, although commits that a deleted
\* bookmark reached may be recorded as public below the draft heads.
RootsCut ==
  \A c \in Clients :
    call[c].stage = "answered" /\ call[c].op = "roots" /\ call[c].publicHeads # {} =>
      \A d \in With(call[c].phases, Draft) :
        Ancestors(par, d) \subseteq call[c].walked \cup Reached(call[c].roots)

\* A changeset that the bookmarks reach for good is not called Draft by memcache
\* for ever: entries that were computed before the bookmark moved run out, and
\* reading one does not renew it (TTL_DRAFT_SEC, set_phases_to_memcache).
StaleDraftFades ==
  <>[](\A x \in Reached(heads) : memcache[x] = None \/ memcache[x].phase = Public)
=============================================================================
