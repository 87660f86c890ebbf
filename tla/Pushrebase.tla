----------------------------- MODULE Pushrebase -----------------------------
(***************************************************************************)
(* Pushrebase (bundle2_resolver/pushrebase): each pusher has sent a stack  *)
(* of commits; the server rebases it on the onto bookmark and moves the    *)
(* bookmark with a transaction that fails when the bookmark has moved,     *)
(* then checks only what is new and tries again.                           *)
(*                                                                         *)
(* The bookmark transaction is the one of BookmarksContract; commits are   *)
(* content addressed.  Others move the bookmark at any time.               *)
(***************************************************************************)
EXTENDS CommitGraph, Sequences, SequencesExt

CONSTANTS Pushers,
          Stack,            \* Stack[p]: how many commits p has pushed
          Base,             \* Base[p]: 1 or 2, the parent of its first commit
          FileSets,         \* what a commit may change: sets of paths (sequences)
          OtherFileSets,    \* and one that somebody else lands
          RewriteDates,     \* PushrebaseParams.rewritedates
          CreateIfNotExists,\* OntoBookmarkParams.create_if_not_exists
          RecursionLimit,   \* PushrebaseParams.recursion_limit
          MAX_REBASE_ATTEMPTS,
          MaxEvents         \* bound: moves of others and failing transactions

None == 0

VARIABLES par,     \* par[c]: parents of commit c
          files,   \* files[c]: the paths c changes
          orig,    \* orig[c]: <<p, i>> for the i-th commit of p and its rebased forms
          bm,      \* the onto bookmark, None when it does not exist
          pc, root, latest, retry, bval, new, \* per pusher, rebase_in_loop
          moves, lands, merges, forces, errors

graph == <<par, files, orig>>
pvars == <<pc, root, latest, retry, bval, new>>
bounds == <<lands, merges, forces, errors>>
vars == <<graph, bm, pvars, moves, bounds>>

Server == <<"server", 0>>
Ids == DOMAIN par
Client(p) == {c \in Ids : \E i \in 1..Stack[p] : orig[c] = <<p, i>>}

ASSUME PushrebaseAssumption ==
  /\ \A p \in Pushers : Stack[p] \in Nat \ {0} /\ Base[p] \in {1, 2}
  /\ RewriteDates \in BOOLEAN /\ CreateIfNotExists \in BOOLEAN
  /\ {RecursionLimit, MAX_REBASE_ATTEMPTS, MaxEvents} \subseteq Nat

\* Two paths conflict when one is the other or a directory of it.
Conflict(f, g) == IsPrefix(f, g) \/ IsPrefix(g, f)
Clash(F, G) == \E f \in F, g \in G : Conflict(f, g)

\* CaseConflictTrie on paths that are added: the first elements in which they
\* differ are equal in lower case.  Element 100 + e is e in upper case.
CaseConflict(f, g) ==
  \E i \in 1..Len(f) : /\ i <= Len(g)
                        /\ SubSeq(f, 1, i - 1) = SubSeq(g, 1, i - 1)
                        /\ f[i] # g[i]
                        /\ f[i] % 100 = g[i] % 100
CaseClash(F) == \E f, g \in F : CaseConflict(f, g)

\* The initial graph: 1 <- 2 on the server, and the stacks of the pushers.
Order == SetToSeq(Pushers)
Keys == FoldLeft(LAMBDA s, p : s \o [i \in 1..Stack[p] |-> <<p, i>>], <<>>, Order)
IdOf(k) == 2 + CHOOSE i \in 1..Len(Keys) : Keys[i] = k
Head0(p) == IdOf(<<p, Stack[p]>>)

Init ==
  /\ orig = <<Server, Server>> \o Keys
  /\ par = <<{}, {1}>> \o [i \in 1..Len(Keys) |->
             IF Keys[i][2] = 1 THEN {Base[Keys[i][1]]} ELSE {i + 1}]
  /\ files \in {<<{}>> \o f : f \in [1..(1 + Len(Keys)) -> FileSets]}
  /\ bm \in IF CreateIfNotExists THEN {None, 2} ELSE {2}
  /\ pc = [p \in Pushers |-> "start"]
  /\ root = [p \in Pushers |-> None]
  /\ latest = [p \in Pushers |-> None]
  /\ retry = [p \in Pushers |-> 0]
  /\ bval = [p \in Pushers |-> None]
  /\ new = [p \in Pushers |-> None]
  /\ moves = 0 /\ lands = 0 /\ merges = 0 /\ forces = 0 /\ errors = 0

-----------------------------------------------------------------------------
\* find_closest_ancestor_root: back from the bookmark along single parents.
ClosestRoot(c, roots) ==
  LET walk[depth \in 0..RecursionLimit] ==
        IF depth = 0 THEN c
        ELSE LET d == walk[depth - 1]
             IN  IF d = None \/ par[d] = {} \/ d \in roots \/ Cardinality(par[d]) > 1
                   THEN None ELSE CHOOSE q \in par[d] : TRUE
      hits == {walk[i] : i \in 0..(RecursionLimit - 1)} \cap roots
  IN  IF hits = {} THEN None ELSE CHOOSE r \in hits : TRUE

FindRoot(p) ==
  /\ pc[p] = "start"
  /\ LET roots == {Base[p]}
         r == IF bm # None THEN ClosestRoot(bm, roots)
              ELSE IF CreateIfNotExists THEN Base[p] ELSE None
     IN  /\ root' = [root EXCEPT ![p] = r]
         /\ latest' = [latest EXCEPT ![p] = r]
         /\ retry' = [retry EXCEPT ![p] = 0]
         /\ pc' = [pc EXCEPT ![p] = IF r = None THEN "failed" ELSE "read"]
  /\ UNCHANGED <<graph, bm, bval, new, moves, bounds>>

\* get_onto_bookmark_value.
ReadBookmark(p) ==
  /\ pc[p] = "read"
  /\ IF bm = None /\ ~CreateIfNotExists
       THEN pc' = [pc EXCEPT ![p] = "failed"] /\ UNCHANGED bval
       ELSE pc' = [pc EXCEPT ![p] = "check"] /\ bval' = [bval EXCEPT ![p] = bm]
  /\ UNCHANGED <<graph, bm, root, latest, retry, new, moves, bounds>>

Onto(p) == IF bval[p] = None THEN root[p] ELSE bval[p]

Changed(C) == UNION {files[c] : c \in C}

\* Mutant: only the commit the bookmark points at.
NewOnServerTip(p) == {Onto(p)}

\* Mutant: rebased forms of the pushed commits themselves are left out.
NewOnServerForeign(p) ==
  {c \in RangeNodeStream(par, latest[p], Onto(p)) : orig[c][1] # p}

\* What the server has that the last attempt had not.
NewOnServer(p) == RangeNodeStream(par, latest[p], Onto(p))

\* check_case_conflicts, then find_changed_files with reject_merges, then
\* intersect_changed_files.
Check(p) ==
  /\ pc[p] = "check"
  /\ LET server == NewOnServer(p)
         client == RangeNodeStream(par, root[p], Head0(p))
         fine == /\ ~CaseClash(Changed(server \cup client))
                 /\ \A c \in server \ {latest[p]} : Cardinality(par[c]) <= 1
                 /\ ~Clash(Changed(server \ {latest[p]}), Changed(client \ {root[p]}))
     IN  pc' = [pc EXCEPT ![p] = IF fine THEN "rebase" ELSE "failed"]
  /\ UNCHANGED <<graph, bm, root, latest, retry, bval, new, moves, bounds>>

\* rebase_changeset on every commit of the rebased set, parents first, and
\* save_bonsai_changesets.  A commit with the same parents, content and date
\* has the same id.
RebaseOne(st, c) ==
  LET ps == {IF q \in DOMAIN st.map THEN st.map[q] ELSE q : q \in par[c]}
      same == {d \in DOMAIN st.par : /\ st.par[d] = ps /\ st.orig[d] = orig[c]
                                     /\ ~RewriteDates}
      id == IF same = {} THEN Len(st.par) + 1 ELSE CHOOSE d \in same : TRUE
  IN  [map   |-> [d \in DOMAIN st.map \cup {c} |-> IF d = c THEN id ELSE st.map[d]],
       par   |-> IF same = {} THEN Append(st.par, ps) ELSE st.par,
       files |-> IF same = {} THEN Append(st.files, files[c]) ELSE st.files,
       orig  |-> IF same = {} THEN Append(st.orig, orig[c]) ELSE st.orig]

RebasedSet(p) ==
  SetToSortSeq(RangeNodeStream(par, root[p], Head0(p)) \ {root[p]},
               LAMBDA c, d : Generation(par)[c] < Generation(par)[d])

Rebase(p) ==
  /\ pc[p] = "rebase"
  /\ LET st == FoldLeft(RebaseOne,
                 [map |-> [d \in {root[p]} |-> Onto(p)],
                  par |-> par, files |-> files, orig |-> orig], RebasedSet(p))
     IN  /\ par' = st.par /\ files' = st.files /\ orig' = st.orig
         /\ new' = [new EXCEPT ![p] = st.map[Head0(p)]]
  /\ pc' = [pc EXCEPT ![p] = "update"]
  /\ UNCHANGED <<bm, root, latest, retry, bval, moves, bounds>>

MoreEvents == lands + merges + forces + errors < MaxEvents

MoveTo(c) == bm' = c /\ moves' = moves + 1

\* Mutant: force_set instead of update / create.
UpdateBlind(p) ==
  /\ pc[p] = "update"
  /\ MoveTo(new[p])
  /\ pc' = [pc EXCEPT ![p] = "done"]
  /\ UNCHANGED <<graph, root, latest, retry, bval, new, bounds>>

\* try_update_bookmark, try_create_bookmark: commit() returns true ...
Update(p) ==
  /\ pc[p] = "update"
  /\ bm = bval[p]
  /\ MoveTo(new[p])
  /\ pc' = [pc EXCEPT ![p] = "done"]
  /\ UNCHANGED <<graph, root, latest, retry, bval, new, bounds>>

\* ... or false: the bookmark has moved.  Check what is new and rebase again.
Retry(p) ==
  /\ pc[p] = "update"
  /\ bm # bval[p]
  /\ IF retry[p] < MAX_REBASE_ATTEMPTS
       THEN /\ latest' = [latest EXCEPT ![p] = Onto(p)]
            /\ retry' = [retry EXCEPT ![p] = @ + 1]
            /\ pc' = [pc EXCEPT ![p] = "read"]
       ELSE pc' = [pc EXCEPT ![p] = "toomany"] /\ UNCHANGED <<latest, retry>>
  /\ UNCHANGED <<graph, bm, root, bval, new, moves, bounds>>

\* Mutant: an error is taken for false.
UpdateErrorRetries(p) ==
  /\ pc[p] = "update"
  /\ MoreEvents /\ retry[p] < MAX_REBASE_ATTEMPTS
  /\ errors' = errors + 1
  /\ latest' = [latest EXCEPT ![p] = Onto(p)]
  /\ retry' = [retry EXCEPT ![p] = @ + 1]
  /\ pc' = [pc EXCEPT ![p] = "read"]
  /\ UNCHANGED <<graph, bm, root, bval, new, moves, lands, merges, forces>>

\* ... or an error, whether or not the transaction took effect.
UpdateError(p) ==
  /\ pc[p] = "update"
  /\ MoreEvents
  /\ errors' = errors + 1
  /\ \/ bm = bval[p] /\ MoveTo(new[p])
     \/ UNCHANGED <<bm, moves>>
  /\ pc' = [pc EXCEPT ![p] = "error"]
  /\ UNCHANGED <<graph, root, latest, retry, bval, new, lands, merges, forces>>

\* The client pushes the same commits again.
PushAgain(p) ==
  /\ pc[p] = "error"
  /\ pc' = [pc EXCEPT ![p] = "start"]
  /\ UNCHANGED <<graph, bm, root, latest, retry, bval, new, moves, bounds>>

-----------------------------------------------------------------------------
\* Others: a plain push of one commit on top of the bookmark, of a merge of the
\* bookmark with some other commit, and bookmark moves that are not
\* fast-forward (force_set, delete).
AddServer(ps, f) ==
  /\ par' = Append(par, ps)
  /\ files' = Append(files, f)
  /\ orig' = Append(orig, Server)
  /\ MoveTo(Len(par) + 1)

Land ==
  /\ MoreEvents
  /\ bm # None
  /\ \E f \in OtherFileSets : AddServer({bm}, f)
  /\ lands' = lands + 1
  /\ UNCHANGED <<pvars, merges, forces, errors>>

LandMerge ==
  /\ MoreEvents
  /\ bm # None
  /\ \E c \in Ids \ Ancestors(par, bm), f \in OtherFileSets : AddServer({bm, c}, f)
  /\ merges' = merges + 1
  /\ UNCHANGED <<pvars, lands, forces, errors>>

ForceMove ==
  /\ MoreEvents
  /\ \E c \in {d \in Ids : orig[d] = Server} \cup {None} : c # bm /\ MoveTo(c)
  /\ forces' = forces + 1
  /\ UNCHANGED <<graph, pvars, lands, merges, errors>>

Push(p) ==
  \/ FindRoot(p) \/ ReadBookmark(p) \/ Check(p) \/ Rebase(p)
  \/ Update(p) \/ Retry(p)

Next ==
  \/ \E p \in Pushers : Push(p) \/ UpdateError(p) \/ PushAgain(p)
  \/ Land \/ LandMerge \/ ForceMove

Spec == Init /\ [][Next]_vars

-----------------------------------------------------------------------------
History == IF bm = None THEN {} ELSE Ancestors(par, bm)

\* As long as nobody forces the bookmark, a push that has been answered with
\* success stays in the bookmark's history, whoever else lands at the same time
\* (the old value in try_update_bookmark, the absence in try_create_bookmark).
LandedStays ==
  forces = 0 => \A p \in Pushers : pc[p] = "done" => new[p] \in History

\* As long as nobody forces the bookmark, what is landed on commits the client
\* did not know touches none of the paths they touch, nor a path that differs
\* from theirs in case only: the checks of all the attempts together cover
\* everything between the root and the commit rebased on (rebase_in_loop).
\* Not claimed when the bookmark was absent first and somebody else has created it
\* meanwhile without the root in its history: the range from the root to it holds
\* none of its commits then, and the stack lands over them unchecked.
LandedWithoutConflict ==
  forces = 0 => \A p \in Pushers :
    pc[p] = "done" /\ IsAncestor(par, root[p], Onto(p)) =>
    LET mine == {c \in Client(p) : IsAncestor(par, c, new[p])}
        behind == Ancestors(par, Onto(p)) \ Ancestors(par, root[p])
    IN  /\ ~Clash(Changed(behind), Changed(mine))
        /\ ~\E f \in Changed(behind \cup mine), g \in Changed(mine) : CaseConflict(f, g)

\* A stack is in the bookmark's history as a whole or not at all, and once, even
\* when the client pushes it again because the answer to the first push was an
\* error: the paths of its own commits stop it (intersect_changed_files).  Nothing
\* stops a stack of empty commits, which lands again with every such push.
LandedOnceAndWhole ==
  forces = 0 /\ merges = 0 =>
    \A p \in Pushers :
      LET n(i) == Cardinality({c \in History : orig[c] = <<p, i>>})
      IN  /\ \A i \in 1..Stack[p] : n(i) = n(1)
          /\ Changed(Client(p)) # {} => n(1) <= 1

\* A push tries again only because somebody else moved the bookmark: it gives
\* up only after more than MAX_REBASE_ATTEMPTS moves.
RetriesAreMoves ==
  \A p \in Pushers : /\ retry[p] <= moves
                      /\ pc[p] = "toomany" => moves > MAX_REBASE_ATTEMPTS
=============================================================================
