------------------------------ MODULE Resolver ------------------------------
(***************************************************************************)
(* unbundle: bundle2_resolver/src/resolver.rs with the hooks it runs.      *)
(* A push is a stream of parts.  The resolver reads them in a fixed order, *)
(* uploads the commits while later parts are still on the way, and moves   *)
(* bookmarks at the very end: with a transaction of BookmarksContract      *)
(* (push, bookmark-only pushrebase), or by a pushrebase, here one step     *)
(* whose inside is in module Pushrebase.  Of the upload of a commit, whose *)
(* inside is in CreateChangeset, the last two steps are kept: the mapping  *)
(* that makes it known, and its row.                                       *)
(***************************************************************************)
EXTENDS CommitGraph, Sequences, SequencesExt

CONSTANTS Pushes,
          Names,          \* bookmarks
          FfOnly,         \* fastforward_only_bookmarks
          None, Unread,
          MaxCommits,     \* bound: commits, pushed and rebased
          BlockMerges,    \* PushrebaseParams.block_merges
          Preserve,       \* is the raw bundle kept (maybe_full_content)?
          BookmarkHooks,  \* [Names -> set of hooks], bookmark_hooks
          RegexHooks,     \* set of <<names that match, hooks>>, regex_hooks
          FileHooks,      \* the hooks of type PerAddedOrModifiedFile
          Bypass,         \* [hook -> [by : {"none", "message", "pushvar"}, ...]]
          MaxFaults       \* bound: errors, timeouts and crashes

VARIABLES bundle,   \* what a push sends: its parts, and is the stream cut short?
          par, files, message, \* the commit graph; changed files; strings in the message
          mapped, stored,      \* commits with a bonsai <-> hg mapping; with a row
          bm, ops, result,     \* the bookmarks, see BookmarksContract
          lock,     \* the repo_lock row of the repository, on the replica that is read
          memo,     \* verdicts of file hooks: HookManager.cache
          saved, queued, public, \* raw bundles, commits told to scribe, phases
          st,       \* per push, the future of resolve
          log,      \* every move of a bookmark, in order
          faults

data == <<bundle, message>>
graph == <<par, files, mapped, stored>>
bookmarkVars == <<bm, ops, result, log>>
after == <<saved, queued, public>>
vars == <<data, graph, bookmarkVars, lock, memo, after, st, faults>>

B == INSTANCE BookmarksContract WITH Txns <- Pushes, Commits <- 1..MaxCommits

\* A move that a pushkey part asks for, and what is known of it so far.
Move(k) == [name |-> k.name, asked |-> <<k.old, k.new>>,
            old |-> Unread, new |-> Unread, allowed |-> FALSE]

\* What the hooks are like: files they reject, bypass strings, see MC module.
CONSTANT Rejects(_, _, _)  \* hook, commit, file (None for a changeset hook)

ASSUME ResolverAssumption ==
  /\ FfOnly \subseteq Names /\ MaxCommits \in Nat /\ MaxFaults \in Nat
  /\ BlockMerges \in BOOLEAN /\ Preserve \in BOOLEAN
  /\ None \notin 1..MaxCommits

ResolverInit(bundles, g, fs, ms, known, marks) ==
  /\ bundle = bundles
  /\ par = g /\ files = fs /\ message = ms /\ mapped = known /\ stored = known
  /\ bm = marks
  /\ ops = [p \in Pushes |-> [n \in Names |-> B!NoOp]]
  /\ result = [p \in Pushes |-> "open"]
  /\ lock = "MononokeWrite" /\ memo = <<>>
  /\ saved = {} /\ queued = {} /\ public = {}
  /\ st = [p \in Pushes |->
             [pc |-> "begin", rest |-> bundles[p].parts, readonly |-> FALSE, closed |-> FALSE,
              rebase |-> FALSE, vars |-> {}, cg |-> None, done |-> {}, moves |-> <<>>,
              verdicts |-> <<>>, head |-> None, landed |-> {}]]
  /\ log = <<>> /\ faults = 0

-----------------------------------------------------------------------------
(* Reading parts. *)

Goto(p, pc) == st' = [st EXCEPT ![p].pc = pc]
Refuse(p) == Goto(p, "failed")

\* The next item of the stream, "end" for None, "broken" for an error.
NextItem(p) ==
  IF st[p].rest # <<>> THEN Head(st[p].rest).part
  ELSE IF bundle[p].cut THEN "broken" ELSE "end"

Others == <<data, graph, bookmarkVars, lock, memo, after, faults>>

\* The read-only state, of the configuration or the database; not to know it is
\* to be read-only.
ReadOnlyState(s) == s # "MononokeWrite"

Begin(p) ==
  /\ st[p].pc = "begin"
  /\ \/ st' = [st EXCEPT ![p].pc = "start", ![p].readonly = ReadOnlyState(lock),
                         ![p].closed = ReadOnlyState(lock)]
        /\ UNCHANGED faults
     \/ faults < MaxFaults /\ faults' = faults + 1
        /\ st' = [st EXCEPT ![p].pc = "start", ![p].readonly = TRUE,
                            ![p].closed = ReadOnlyState(lock)]
  /\ UNCHANGED <<data, graph, bookmarkVars, lock, memo, after>>

ResolveStartAndReplycaps(p) ==
  /\ st[p].pc = "start"
  /\ LET r == st[p].rest IN
       IF Len(r) >= 2 /\ r[1].part = "start" /\ r[2].part = "replycaps"
         THEN st' = [st EXCEPT ![p].pc = "commonheads", ![p].rest = SubSeq(r, 3, Len(r))]
         ELSE Refuse(p)
  /\ UNCHANGED Others

\* The part that marks a pushrebase.
MaybeResolveCommonheads(p) ==
  /\ st[p].pc = "commonheads"
  /\ CASE NextItem(p) \in {"end", "broken"} -> Refuse(p)
       [] NextItem(p) = "commonheads" ->
            st' = [st EXCEPT ![p].pc = "pushvars", ![p].rebase = TRUE, ![p].rest = Tail(@)]
       [] OTHER -> Goto(p, "pushvars")
  /\ UNCHANGED Others

MayWrite(p, v) == st[p].readonly => "BYPASS_READONLY" \in v

MaybeResolvePushvars(p) ==
  /\ st[p].pc = "pushvars"
  /\ LET given == NextItem(p) = "pushvars"
         v == IF given THEN Head(st[p].rest).vars ELSE {} IN
       IF NextItem(p) = "broken" \/ ~MayWrite(p, v) THEN Refuse(p)
       ELSE st' = [st EXCEPT ![p].pc = "dispatch", ![p].vars = v,
                             ![p].rest = IF given THEN Tail(@) ELSE @]
  /\ UNCHANGED Others

\* is_next_part_pushkey, and the three ways to go on.
Dispatch(p) ==
  /\ st[p].pc = "dispatch"
  /\ CASE NextItem(p) = "broken" -> Refuse(p)
       [] ~st[p].rebase -> Goto(p, "changegroup")
       [] st[p].rebase /\ NextItem(p) = "pushkey" -> Goto(p, "pushkeys")
       [] OTHER -> Goto(p, "treegroup")
  /\ UNCHANGED Others

\* A pushrebase cannot do without a changegroup that says onto what.
MaybeResolveChangegroup(p) ==
  /\ st[p].pc = "changegroup"
  /\ LET given == NextItem(p) = "changegroup"
         cg == IF given THEN Head(st[p].rest) ELSE None IN
       IF NextItem(p) \in {"end", "broken"} \/ (st[p].rebase /\ (cg = None \/ cg.onto = None))
         THEN Refuse(p)
         ELSE st' = [st EXCEPT ![p].pc = IF st[p].rebase THEN "upload" ELSE "pushkeys",
                               ![p].cg = cg, ![p].rest = IF given THEN Tail(@) ELSE @]
  /\ UNCHANGED Others

ResolveB2xtreegroup2(p) ==
  /\ st[p].pc = "treegroup"
  /\ IF NextItem(p) # "treegroup" THEN Refuse(p)
     ELSE st' = [st EXCEPT ![p].pc = IF st[p].rebase THEN "changegroup" ELSE "upload",
                           ![p].rest = Tail(@)]
  /\ UNCHANGED Others

\* resolve_multiple_parts with maybe_resolve_pushkey: all the pushkey parts.
PushkeyCount(r) == Max({i \in 0..Len(r) : \A j \in 1..i : r[j].part = "pushkey"})

IsBookmark(k) == k.namespace = "bookmarks"

\* What each kind of push allows among its pushkeys.
PushkeysAllowed(p, keys) ==
  LET marks == SelectSeq(keys, IsBookmark) IN
    CASE ~st[p].rebase -> TRUE
      [] st[p].rebase /\ st[p].cg = None -> Len(keys) = 1 /\ Len(marks) = 1
      [] OTHER -> Len(marks) <= 1 /\ \A k \in ToSet(marks) : k.name = st[p].cg.onto

ResolvePushkeys(p) ==
  /\ st[p].pc = "pushkeys"
  /\ LET r == st[p].rest
         n == PushkeyCount(r)
         keys == SubSeq(r, 1, n)
         marks == SelectSeq(keys, IsBookmark) IN
       IF \/ n = Len(r) /\ bundle[p].cut
          \/ \E k \in ToSet(keys) : k.namespace \notin {"phases", "bookmarks"}
          \/ ~PushkeysAllowed(p, keys)
         THEN Refuse(p)
         ELSE st' = [st EXCEPT ![p].rest = SubSeq(r, n + 1, Len(r)),
                               ![p].moves = [i \in 1..Len(marks) |-> Move(marks[i])],
                               ![p].pc = IF st[p].rebase THEN "finish"
                                         ELSE IF st[p].cg # None THEN "treegroup" ELSE "scratch"]
  /\ UNCHANGED Others

MaybeResolveInfinitepushBookmarks(p) ==
  /\ st[p].pc = "scratch"
  /\ CASE NextItem(p) = "infinitepushbookmarks" ->
            st' = [st EXCEPT ![p].pc = "finish", ![p].rest = Tail(@)]
       [] NextItem(p) = "end" -> Goto(p, "finish")
       [] OTHER -> Refuse(p)
  /\ UNCHANGED Others

\* Mutant: what follows the parts that were expected is not looked at.
StreamFinishedUnread(p) == TRUE

StreamFinished(p) == NextItem(p) = "end"

EnsureStreamFinished(p) ==
  /\ st[p].pc = "finish"
  /\ IF StreamFinished(p) THEN Goto(p, "save") ELSE Refuse(p)
  /\ UNCHANGED Others

\* The bookmark log refers to the bundle that is saved here.
MaybeSaveFullContentBundle2(p) ==
  /\ st[p].pc = "save"
  /\ saved' = IF Preserve THEN saved \cup {p} ELSE saved
  /\ Goto(p, IF st[p].rebase /\ st[p].cg # None THEN "hooks" ELSE "bookmarks")
  /\ UNCHANGED <<data, graph, bookmarkVars, lock, memo, queued, public, faults>>

-----------------------------------------------------------------------------
(* Uploading. *)

\* The parents in the bundle are complete, and the others are known.
ParentsComplete(p, c) ==
  \A q \in par[c] : q \in IF q \in st[p].cg.commits THEN st[p].done ELSE mapped

\* The commits of the changegroup, all at once; each becomes known ...
AddMapping(p) ==
  /\ st[p].pc = "upload"
  /\ \E c \in st[p].cg.commits \ mapped :
       ParentsComplete(p, c) /\ mapped' = mapped \cup {c}
  /\ UNCHANGED <<data, par, files, stored, bookmarkVars, lock, memo, after, st, faults>>

\* ... and then gets its row, if all its parents have theirs.
AddChangeset(p) ==
  /\ st[p].pc = "upload"
  /\ \E c \in (st[p].cg.commits \cap mapped) \ st[p].done :
       /\ ParentsComplete(p, c)
       /\ IF par[c] \subseteq stored
            THEN stored' = stored \cup {c} /\ st' = [st EXCEPT ![p].done = @ \cup {c}]
            ELSE Refuse(p) /\ UNCHANGED stored
  /\ UNCHANGED <<data, par, files, mapped, bookmarkVars, lock, memo, after, faults>>

\* Mutant: the uploads have been started, which is not to say that they are done.
UploadedScheduled(p) == TRUE

Uploaded(p) == st[p].cg.commits \subseteq st[p].done

ChangesetsUploaded(p) ==
  /\ st[p].pc = "upload"
  /\ Uploaded(p)
  /\ Goto(p, IF st[p].rebase THEN "pushkeys" ELSE "scratch")
  /\ UNCHANGED Others

\* A parent that neither the bundle nor the repository has: ready_cs_handle fails.
ParentMissing(p) ==
  /\ st[p].pc = "upload"
  /\ \E c \in st[p].cg.commits : ~(par[c] \subseteq mapped \cup st[p].cg.commits)
  /\ Refuse(p)
  /\ UNCHANGED Others

-----------------------------------------------------------------------------
(* Moving bookmarks with a transaction. *)

\* get_bonsai_from_hg: an id the repository does not know is no commit at all.
BonsaiFromHg(h) == IF h \in mapped THEN h ELSE None

ReadOld(p, i) ==
  /\ st[p].pc = "bookmarks" /\ st[p].moves[i].old = Unread
  /\ st' = [st EXCEPT ![p].moves[i].old = BonsaiFromHg(st[p].moves[i].asked[1])]
  /\ UNCHANGED Others

ReadNew(p, i) ==
  /\ st[p].pc = "bookmarks" /\ st[p].moves[i].new = Unread
  /\ st' = [st EXCEPT ![p].moves[i].new = BonsaiFromHg(st[p].moves[i].asked[2])]
  /\ UNCHANGED Others

\* Mutant: the client's NON_FAST_FORWARD also holds for protected bookmarks.
BlockNonFastForwardUnlessAsked(p, n) == "NON_FAST_FORWARD" \notin st[p].vars

BlockNonFastForward(p, n) == n \in FfOnly \/ "NON_FAST_FORWARD" \notin st[p].vars

\* is_ancestor fails for a commit without a row.
Allowed(p, m) ==
  CASE m.old # None /\ m.new # None /\ m.old # m.new /\ BlockNonFastForward(p, m.name) ->
         {m.old, m.new} \subseteq stored /\ IsAncestor(par, m.old, m.new)
    [] m.old # None /\ m.new = None -> m.name \notin FfOnly
    [] OTHER -> TRUE

CheckBookmarkPushAllowed(p, i) ==
  LET m == st[p].moves[i] IN
    /\ st[p].pc = "bookmarks"
    /\ Unread \notin {m.old, m.new} /\ ~m.allowed
    /\ IF Allowed(p, m) THEN st' = [st EXCEPT ![p].moves[i].allowed = TRUE] ELSE Refuse(p)
    /\ UNCHANGED Others

\* add_bookmark_to_transaction: the operation for a move.
OpOf(m) ==
  CASE m.new # None /\ m.old # None -> [kind |-> "update", old |-> m.old, new |-> m.new]
    [] m.new # None /\ m.old = None -> [kind |-> "create", old |-> None, new |-> m.new]
    [] m.new = None /\ m.old # None -> [kind |-> "delete", old |-> m.old, new |-> None]
    [] OTHER -> B!NoOp

\* A bookmark may be used once in a transaction.
AddBookmarksToTransaction(p) ==
  LET real == SelectSeq(st[p].moves, LAMBDA m : OpOf(m) # B!NoOp)
      names == [i \in DOMAIN real |-> real[i].name] IN
    /\ st[p].pc = "bookmarks"
    /\ \A i \in DOMAIN st[p].moves : st[p].moves[i].allowed
    /\ IF ~IsInjective(names) THEN Refuse(p) /\ UNCHANGED ops
       ELSE /\ ops' = [ops EXCEPT ![p] = [n \in Names |->
                         IF n \in ToSet(names)
                           THEN OpOf(real[CHOOSE i \in DOMAIN real : real[i].name = n])
                           ELSE B!NoOp]]
            /\ Goto(p, "commit")
    /\ UNCHANGED <<data, graph, bm, result, log, lock, memo, after, faults>>

\* The moves of a step as log entries: who, what, from where and to where.
Logged(p) ==
  LET moved == {n \in Names : bm'[n] # bm[n]}
      entry(n) == [by |-> p, name |-> n, old |-> bm[n], new |-> bm'[n]]
  IN  log' = log \o SetToSeq({entry(n) : n \in moved})

CommitSucceeds(p) ==
  /\ st[p].pc = "commit"
  /\ B!Succeed(p) /\ Logged(p)
  /\ Goto(p, "respond")
  /\ UNCHANGED <<data, graph, lock, memo, after, faults>>

\* Mutant: commit() answered, so the bookmarks have moved.
AfterRefusalGoesOn(p) == "respond"

AfterRefusal(p) == "failed"

CommitRefused(p) ==
  /\ st[p].pc = "commit"
  /\ B!Refuse(p) /\ UNCHANGED log
  /\ Goto(p, AfterRefusal(p))
  /\ UNCHANGED <<data, graph, lock, memo, after, faults>>

\* An error, or a timeout while the database works: nobody knows.
CommitFails(p) ==
  /\ st[p].pc = "commit" /\ faults < MaxFaults
  /\ B!Fail(p) /\ Logged(p)
  /\ Refuse(p) /\ faults' = faults + 1
  /\ UNCHANGED <<data, graph, lock, memo, after>>

\* prepare_push_response, prepare_push_bookmark_response.
PreparePushResponse(p) ==
  /\ st[p].pc = "respond"
  /\ Goto(p, "ok")
  /\ UNCHANGED Others

-----------------------------------------------------------------------------
(* Hooks (hooks/src/lib.rs) and pushrebase. *)

HooksForBookmark(n) == BookmarkHooks[n] \cup UNION {r[2] : r \in {x \in RegexHooks : n \in x[1]}}

IsHookBypassed(h, c, vs) ==
  CASE Bypass[h].by = "message" -> Bypass[h].text \in message[c]
    [] Bypass[h].by = "pushvar" -> Bypass[h].text \in vs
    [] Bypass[h].by = "none" -> FALSE

\* Deleted files are not shown to file hooks.
FilesFor(h, c) ==
  IF h \in FileHooks THEN {f.path : f \in {x \in files[c] : x.ty # "deleted"}} ELSE {None}

\* ChangesetHookExecutionID and FileHookExecutionID: every hook on every commit.
Executions(p) ==
  {<<h, c, f>> \in HooksForBookmark(st[p].cg.onto) \X st[p].cg.commits
                    \X (UNION {FilesFor(h, c) : h \in HooksForBookmark(st[p].cg.onto),
                                                c \in st[p].cg.commits}) :
     ~IsHookBypassed(h, c, st[p].vars) /\ f \in FilesFor(h, c)}

\* Mutant: the cache knows a file by its path.
CacheKeyPath(e) == <<e[1], e[3]>>

CacheKey(e) == e

\* Changeset hooks are run, file hooks are looked up in the cache first.
RunHook(p, e) ==
  LET cached == e[1] \in FileHooks /\ CacheKey(e) \in DOMAIN memo
      rejected == IF cached THEN memo[CacheKey(e)] ELSE Rejects(e[1], e[2], e[3])
      with(f, k) == [x \in DOMAIN f \cup {k} |-> IF x = k THEN rejected ELSE f[x]] IN
    /\ st[p].pc = "hooks" /\ e \notin DOMAIN st[p].verdicts
    /\ st' = [st EXCEPT ![p].verdicts = with(@, e)]
    /\ memo' = IF e[1] \in FileHooks THEN with(memo, CacheKey(e)) ELSE memo
    /\ UNCHANGED <<data, graph, bookmarkVars, lock, after, faults>>

\* All of them have to be through; a merge may be refused all the same.
HooksDone(p) ==
  LET merge == \E c \in st[p].cg.commits : Cardinality(par[c]) = 2 IN
    /\ st[p].pc = "hooks"
    /\ Executions(p) \subseteq DOMAIN st[p].verdicts
    /\ IF (\E e \in DOMAIN st[p].verdicts : st[p].verdicts[e]) \/ (BlockMerges /\ merge)
         THEN Refuse(p) ELSE Goto(p, "pushrebase")
    /\ UNCHANGED Others

\* The stack of p, oldest first, and its parent.
StackOf(p) == SetToSortSeq(st[p].cg.commits, <)
BaseOf(p) == UNION {par[c] : c \in st[p].cg.commits} \ st[p].cg.commits

\* do_pushrebase begins with the root, for which the bookmark is read a first time.
FindClosestRoot(p) ==
  LET onto == st[p].cg.onto IN
    /\ st[p].pc = "pushrebase"
    /\ st[p].cg.commits \subseteq mapped /\ Cardinality(BaseOf(p)) = 1
    /\ IF bm[onto] = None THEN st[p].cg.newhead
       ELSE bm[onto] \in stored /\ \E b \in BaseOf(p) : IsAncestor(par, b, bm[onto])
    /\ Goto(p, "rebase")
    /\ UNCHANGED Others

\* rebase_in_loop as others see it: the stack is put on top of the bookmark,
\* wherever that is by now, and the bookmark moves to its head.  A stack that is
\* there already is not rewritten.
DoPushrebase(p, answered) ==
  LET onto == st[p].cg.onto
      stack == StackOf(p)
      dest == IF bm[onto] = None THEN CHOOSE b \in BaseOf(p) : TRUE ELSE bm[onto]
      same == BaseOf(p) = {dest}
      n == Len(par)
      ids == [i \in DOMAIN stack |-> IF same THEN stack[i] ELSE n + i]
      new == IF same THEN {} ELSE DOMAIN stack IN
    /\ st[p].pc = "rebase"
    /\ IF bm[onto] = None THEN st[p].cg.newhead ELSE bm[onto] \in stored
    /\ n + Cardinality(new) <= MaxCommits
    /\ par' = par \o [i \in new |-> IF i = 1 THEN {dest} ELSE {n + i - 1}]
    /\ files' = files \o [i \in new |-> files[stack[i]]]
    /\ stored' = stored \cup {n + i : i \in new}
    /\ bm' = [bm EXCEPT ![onto] = ids[Len(ids)]]
    /\ Logged(p)
    /\ st' = [st EXCEPT ![p].pc = IF answered THEN "scribe" ELSE "failed",
                        ![p].head = ids[Len(ids)], ![p].landed = ToSet(ids)]
    /\ UNCHANGED <<data, mapped, ops, result, lock, memo, after>>

PushrebaseLands(p) == DoPushrebase(p, TRUE) /\ UNCHANGED faults

\* The last transaction is answered with an error although it took effect.
PushrebaseLandsUnheard(p) ==
  faults < MaxFaults /\ DoPushrebase(p, FALSE) /\ faults' = faults + 1

\* Conflicts, no common root, too many attempts.
PushrebaseFails(p) ==
  /\ st[p].pc \in {"pushrebase", "rebase"}
  /\ Refuse(p)
  /\ UNCHANGED Others

LogCommitsToScribe(p) ==
  /\ st[p].pc = "scribe"
  /\ queued' = queued \cup st[p].landed
  /\ Goto(p, "phases")
  /\ UNCHANGED <<data, graph, bookmarkVars, lock, memo, saved, public, faults>>

\* prepare_pushrebase_response: the new head is public, and its Mercurial form and
\* those of its ancestors are derived, before the client hears of it.
PreparePushrebaseResponse(p) ==
  /\ st[p].pc = "phases"
  /\ public' = public \cup {st[p].head}
  /\ mapped' = mapped \cup Ancestors(par, st[p].head)
  /\ Goto(p, "ok")
  /\ UNCHANGED <<data, par, files, stored, bookmarkVars, lock, memo, saved, queued, faults>>

-----------------------------------------------------------------------------
Ended == {"begin", "ok", "failed"}

\* An error of a call, a timeout of unbundle, or the end of the server: what was
\* done stays, the rest is dropped.
Break(p) ==
  /\ st[p].pc \notin Ended /\ faults < MaxFaults
  /\ Refuse(p) /\ faults' = faults + 1
  /\ UNCHANGED <<data, graph, bookmarkVars, lock, memo, after>>

\* Somebody locks the repository.
SetLock ==
  /\ lock = "MononokeWrite" /\ lock' = "HgWrite"
  /\ UNCHANGED <<data, graph, bookmarkVars, memo, after, st, faults>>

ReadParts(p) ==
  \/ Begin(p) \/ ResolveStartAndReplycaps(p) \/ MaybeResolveCommonheads(p)
  \/ MaybeResolvePushvars(p) \/ Dispatch(p) \/ MaybeResolveChangegroup(p)
  \/ ResolveB2xtreegroup2(p) \/ ResolvePushkeys(p)
  \/ MaybeResolveInfinitepushBookmarks(p) \/ EnsureStreamFinished(p)
  \/ MaybeSaveFullContentBundle2(p)

ResolveStep(p) ==
  \/ ReadParts(p)
  \/ AddMapping(p) \/ AddChangeset(p) \/ ChangesetsUploaded(p) \/ ParentMissing(p)
  \/ \E i \in DOMAIN st[p].moves : ReadOld(p, i) \/ ReadNew(p, i) \/ CheckBookmarkPushAllowed(p, i)
  \/ AddBookmarksToTransaction(p)
  \/ CommitSucceeds(p) \/ CommitRefused(p) \/ CommitFails(p) \/ PreparePushResponse(p)
  \/ st[p].pc = "hooks" /\ \E e \in Executions(p) : RunHook(p, e)
  \/ HooksDone(p)
  \/ FindClosestRoot(p) \/ PushrebaseLands(p) \/ PushrebaseLandsUnheard(p) \/ PushrebaseFails(p)
  \/ LogCommitsToScribe(p) \/ PreparePushrebaseResponse(p)
  \/ Break(p)

Next == SetLock \/ \E p \in Pushes : ResolveStep(p)

-----------------------------------------------------------------------------
(* Properties. *)

\* A bookmark that may only move forward does, and is not deleted, whatever the
\* client asks for; any other one moves elsewhere only for a client that asked for
\* it.  The check is made against the value the client names and long before the
\* move; it is the transaction that makes this the value the bookmark really had
\* (check_bookmark_push_allowed, add_bookmark_to_transaction, Transaction::commit).
MovesForward ==
  \A i \in DOMAIN log : LET e == log[i] IN
    /\ e.new = None => e.name \notin FfOnly
    /\ e.old # None /\ e.new # None =>
         \/ IsAncestor(par, e.old, e.new)
         \/ e.name \notin FfOnly /\ "NON_FAST_FORWARD" \in st[e.by].vars

\* The bundles resolve can act on, as sequences of parts.
Optional(part) == {<<>>, <<part>>}
Keys == {<<>>, <<"pushkey">>, <<"pushkey", "pushkey">>, <<"pushkey", "pushkey", "pushkey">>}
Opening == <<"start", "replycaps">>
PushShapes ==
  {Opening \o v \o <<"changegroup">> \o k \o <<"treegroup">> \o s :
     v \in Optional("pushvars"), k \in Keys, s \in Optional("infinitepushbookmarks")}
  \cup {Opening \o v \o k \o s :
     v \in Optional("pushvars"), k \in Keys, s \in Optional("infinitepushbookmarks")}
RebaseShapes ==
  {Opening \o <<"commonheads">> \o v \o <<"treegroup", "changegroup">> \o k :
     v \in Optional("pushvars"), k \in Keys}
  \cup {Opening \o <<"commonheads">> \o v \o <<"pushkey">> : v \in Optional("pushvars")}
Shape(p) == [i \in DOMAIN bundle[p].parts |-> bundle[p].parts[i].part]

\* A bookmark is moved only by a push whose bundle arrived whole, with the parts in
\* one of the orders the protocol knows and nothing after them, in a repository that
\* was open when the push began unless the client overrode that, and only after the
\* bundle was kept for replaying; up to that point a push may fail at any step
\* (ensure_stream_finished, the read-only check in resolve).
MovesAreEarned ==
  \A i \in DOMAIN log : LET p == log[i].by IN
    /\ Shape(p) \in PushShapes \cup RebaseShapes /\ ~bundle[p].cut
    /\ st[p].closed => "BYPASS_READONLY" \in st[p].vars
    /\ Preserve => p \in saved

\* A bookmark is moved to a commit whose ancestors are all known, and all in the
\* changesets table, although pushes upload concurrently, fail half way and name in
\* their pushkeys commits of their own or of other pushes.  The one exception: a
\* bookmark that is new, or moved by a client that asked for NON_FAST_FORWARD, may be
\* put on a commit that another push has not finished, as its id is known before its
\* row is written (upload_changesets, BonsaiBookmarkPush::new).
TargetsStored ==
  \A i \in DOMAIN log : LET e == log[i]
                            own == IF st[e.by].cg = None THEN {} ELSE st[e.by].cg.commits IN
    e.new # None =>
      /\ Ancestors(par, e.new) \subseteq mapped \cup stored
      /\ \/ Ancestors(par, e.new) \subseteq stored
         \/ /\ e.old = None \/ "NON_FAST_FORWARD" \in st[e.by].vars
            /\ e.new \notin own

\* No commit lands by pushrebase that a hook of the bookmark rejects, for the commit or
\* for one of the files it adds or changes, unless that hook was bypassed for that
\* commit, no matter which verdicts of other pushes the cache holds
\* (run_hooks, HookManager).
HooksGate ==
  \A p \in Pushes : st[p].landed # {} =>
    \A c \in st[p].cg.commits, h \in HooksForBookmark(st[p].cg.onto) :
      IsHookBypassed(h, c, st[p].vars) \/ \A f \in FilesFor(h, c) : ~Rejects(h, c, f)

LogOf(p) == {log[i] : i \in {j \in DOMAIN log : log[j].by = p}}

\* The moves of a push that change something, as BonsaiBookmarkPush::new read them: an
\* id that the mapping did not have at that moment counts as none.
Wanted(p) ==
  {[by |-> p, name |-> m.name, old |-> m.old, new |-> m.new] :
     m \in {x \in ToSet(st[p].moves) : x.old # x.new}}

\* A push that is answered with success has done what it set out to do: its commits are
\* stored, its bookmarks have moved as its pushkeys were read, or to the head of the
\* rebased stack, which is public and queued; and no push, however answered, moves some
\* of its bookmarks only (resolve_push, resolve_pushrebase,
\* resolve_bookmark_only_pushrebase).  What was read need not be what the client asked
\* for, see SuccessIsAsAsked.
AnswerIsTrue ==
  \A p \in Pushes :
    LET landing == st[p].rebase /\ st[p].cg # None IN
      /\ st[p].pc = "ok" =>
           /\ st[p].cg # None => st[p].cg.commits \subseteq stored
           /\ IF landing
                THEN /\ {<<e.name, e.new>> : e \in LogOf(p)} = {<<st[p].cg.onto, st[p].head>>}
                     /\ st[p].head \in public /\ st[p].landed \subseteq queued
                ELSE LogOf(p) = Wanted(p)
      /\ ~landing => LogOf(p) \in {{}, Wanted(p)}

\* "changegroup part saying that the push was successful" (prepare_push_response): when
\* a push that only moves bookmarks, or moves them without a rebase, is answered with
\* success, each of its bookmarks was moved from and to the commits its pushkey names.
SuccessIsAsAsked ==
  \A p \in Pushes :
    st[p].pc = "ok" /\ ~(st[p].rebase /\ st[p].cg # None) =>
      \A m \in ToSet(st[p].moves) : m.asked[1] # m.asked[2] =>
        [by |-> p, name |-> m.name, old |-> m.asked[1], new |-> m.asked[2]] \in LogOf(p)
=============================================================================
