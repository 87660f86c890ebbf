---------------------------- MODULE SqlBookmarks ----------------------------
(***************************************************************************)
(* SqlBookmarks (bookmarks/dbbookmarks): bookmark transactions on a SQL    *)
(* table, each logged in bookmarks_update_log.                             *)
(*                                                                         *)
(* commit() runs its statements one after the other inside a SQL           *)
(* transaction.  The database is modelled by how the code uses it: a       *)
(* statement that writes a row holds its lock until the transaction ends   *)
(* and sees the committed value; a plain SELECT takes no lock; what a      *)
(* transaction wrote is visible to others once it commits; AUTOINCREMENT   *)
(* ids are given out when a row is inserted, not when it is committed; a   *)
(* statement that waits for a lock may be failed (deadlock, timeout).      *)
(***************************************************************************)
EXTENDS Naturals, FiniteSets

CONSTANTS Names,      \* bookmark names
          Commits,    \* changeset ids
          None,       \* no changeset
          Txns,       \* transactions
          NoTxn,      \* the holder of a free lock
          Start,      \* the bookmarks when the log began
          Kinds       \* the operations that are used, see AllOps

VARIABLES bm,       \* table bookmarks, as committed
          log,      \* table bookmarks_update_log, as committed
          nextId,   \* its AUTOINCREMENT counter
          ops,      \* per transaction, what it does to each bookmark
          pc,       \* per transaction, where commit() is
          todo,     \* per transaction, the bookmarks its statements have yet to reach
          held,     \* per transaction, the log rows it has inserted
          lock      \* per bookmark, the transaction that has written its row

vars == <<bm, log, nextId, ops, pc, todo, held, lock>>

Contract == INSTANCE BookmarksContract WITH
              result <- [t \in Txns |-> IF pc[t] \in {"true", "false", "err"}
                                        THEN pc[t] ELSE "open"]

Value == Commits \cup {None}
NoOp == Contract!NoOp

\* update with new_cs == old_cs is an operation of its own to commit().
IsNoop(o) == o.kind = "update" /\ o.old = o.new
AllOps == {o \in Contract!Op : (IF IsNoop(o) THEN "noop" ELSE o.kind) \in Kinds}

Row == [id : Nat \ {0}, name : Names, from : Value, to : Value, txn : Txns]
PC == {"new", "stmts", "log", "commit", "true", "false", "err"}

ASSUME BookmarksAssumption ==
  /\ None \notin Commits
  /\ NoTxn \notin Txns
  /\ Start \in [Names -> Commits \cup {None}]
  /\ Kinds \subseteq {"force_set", "create", "update", "noop", "force_delete", "delete"}

Used(t) == {n \in Names : ops[t][n] # NoOp}

Init ==
  /\ bm = Start
  /\ log = {}
  /\ nextId = 1
  /\ ops = [t \in Txns |-> [n \in Names |-> NoOp]]
  /\ pc = [t \in Txns |-> "new"]
  /\ todo = [t \in Txns |-> {}]
  /\ held = [t \in Txns |-> {}]
  /\ lock = [n \in Names |-> NoTxn]

\* The operations are collected in five maps; check_if_bookmark_already_used
\* keeps a bookmark in at most one of them.  commit() starts the transaction.
Begin(t) ==
  /\ pc[t] = "new"
  /\ \E o \in [Names -> AllOps \cup {NoOp}] :
       /\ o # [n \in Names |-> NoOp]
       /\ ops' = [ops EXCEPT ![t] = o]
       /\ todo' = [todo EXCEPT ![t] = {n \in Names : o[n] # NoOp}]
  /\ pc' = [pc EXCEPT ![t] = "stmts"]
  /\ UNCHANGED <<bm, log, nextId, held, lock>>

\* The order of the statements: REPLACE, INSERT, the updates, the deletes.
Rank(o) == CASE o.kind = "force_set" -> 1 [] o.kind = "create" -> 2
             [] o.kind = "update" -> 3 [] o.kind = "force_delete" -> 4
             [] o.kind = "delete" -> 5 [] OTHER -> 6

\* The transaction is dropped, and with it its locks and what it wrote.
Release(t) == lock' = [n \in Names |-> IF lock[n] = t THEN NoTxn ELSE lock[n]]
End(t, r) ==
  /\ pc' = [pc EXCEPT ![t] = r]
  /\ todo' = [todo EXCEPT ![t] = {}]
  /\ held' = [held EXCEPT ![t] = {}]
  /\ Release(t)

Advance(t, n) ==
  /\ todo' = [todo EXCEPT ![t] = IF @ = {n} THEN Used(t) ELSE @ \ {n}]
  /\ pc' = [pc EXCEPT ![t] = IF todo[t] = {n} THEN "log" ELSE @]

\* Mutant: UPDATE ... WHERE name, without the old value.
MatchesBlind(o, v) == o.kind \in {"create", "delete"} => v = o.old

\* The affected_rows of a statement are what was asked for.
Matches(o, v) == o.kind \in {"create", "update", "delete"} => v = o.old

\* The next statement reaches bookmark n: it locks the row, or it affects no
\* row and the transaction is given up with Ok(false).
Statement(t, n) ==
  /\ pc[t] = "stmts"
  /\ n \in todo[t]
  /\ \A m \in todo[t] : Rank(ops[t][n]) <= Rank(ops[t][m])
  /\ ~IsNoop(ops[t][n])
  /\ lock[n] = NoTxn
  /\ IF Matches(ops[t][n], bm[n])
       THEN Advance(t, n) /\ lock' = [lock EXCEPT ![n] = t] /\ UNCHANGED held
       ELSE End(t, "false")
  /\ UNCHANGED <<bm, log, nextId, ops>>

\* The no-op update: SELECT the bookmark and compare.  No lock is taken.
NoopStatement(t, n) ==
  /\ pc[t] = "stmts"
  /\ n \in todo[t]
  /\ \A m \in todo[t] : Rank(ops[t][n]) <= Rank(ops[t][m])
  /\ IsNoop(ops[t][n])
  /\ IF bm[n] = ops[t][n].new
       THEN Advance(t, n) /\ UNCHANGED <<lock, held>>
       ELSE End(t, "false")
  /\ UNCHANGED <<bm, log, nextId, ops>>

\* Mutant: start the transaction again after an error.
StatementFailsRetries(t) ==
  /\ pc[t] \in {"stmts", "log"}
  /\ pc' = [pc EXCEPT ![t] = "stmts"]
  /\ todo' = [todo EXCEPT ![t] = Used(t)]
  /\ held' = [held EXCEPT ![t] = {}]
  /\ Release(t)
  /\ UNCHANGED <<bm, log, nextId, ops>>

\* A statement fails, for instance because it waits in a circle: the bookmarks
\* of a HashMap come in any order.  commit() returns the error.
StatementFails(t) ==
  /\ pc[t] \in {"stmts", "log"}
  /\ End(t, "err")
  /\ UNCHANGED <<bm, log, nextId, ops>>

\* Mutant: a forced move is logged from its new value.
MoveRowFromNew(t, n, f) ==
  [id |-> nextId, name |-> n, to |-> ops[t][n].new, txn |-> t,
   from |-> IF ops[t][n].kind = "force_set" THEN ops[t][n].new ELSE f]

\* Mutant: a forced move is logged from a value that was read earlier.
MoveRowFromStale(t, n, f) ==
  [id |-> nextId, name |-> n, to |-> ops[t][n].new, txn |-> t,
   from |-> IF ops[t][n].kind = "force_set"
              THEN CHOOSE c \in Commits : c # ops[t][n].new ELSE f]

\* A row of the log.
MoveRow(t, n, f) == [id |-> nextId, name |-> n, from |-> f, to |-> ops[t][n].new, txn |-> t]

\* log_bookmark_moves: one INSERT per bookmark, with its bundle replay data.
\* from is unknown to force_set, create and force_delete.
LogMove(t, n) ==
  /\ pc[t] = "log"
  /\ n \in todo[t]
  /\ held' = [held EXCEPT ![t] = @ \cup {MoveRow(t, n, ops[t][n].old)}]
  /\ nextId' = nextId + 1
  /\ todo' = [todo EXCEPT ![t] = @ \ {n}]
  /\ pc' = [pc EXCEPT ![t] = IF todo[t] = {n} THEN "commit" ELSE @]
  /\ UNCHANGED <<bm, log, ops, lock>>

\* The rows of the bookmarks that t has written, hence locked.
Written(t) == [n \in Names |-> IF lock[n] = t THEN ops[t][n].new ELSE bm[n]]

\* The moves and the rows of the log become visible together.
Publish(t) == bm' = Written(t) /\ log' = log \cup held[t]

Commit(t) ==
  /\ pc[t] = "commit"
  /\ Publish(t)
  /\ End(t, "true")
  /\ UNCHANGED <<nextId, ops>>

\* COMMIT fails, before or after it has taken effect.
CommitFails(t) ==
  /\ pc[t] = "commit"
  /\ Publish(t) \/ UNCHANGED <<bm, log>>
  /\ End(t, "err")
  /\ UNCHANGED <<nextId, ops>>

Step(t) ==
  \/ Begin(t)
  \/ \E n \in Names : Statement(t, n) \/ NoopStatement(t, n) \/ LogMove(t, n)
  \/ Commit(t)

Next == \E t \in Txns : Step(t) \/ StatementFails(t) \/ CommitFails(t)

Spec == Init /\ [][Next]_vars

\* The statement of t that comes next waits for another transaction.
Waiting(t) ==
  /\ pc[t] = "stmts"
  /\ \A n \in todo[t] :
       (\A m \in todo[t] : Rank(ops[t][n]) <= Rank(ops[t][m]))
         => ~IsNoop(ops[t][n]) /\ lock[n] # NoTxn

\* What can run runs, and a lock wait that does not end is failed by the
\* database.  When a transaction begins is up to its caller.
Fairness ==
  \A t \in Txns : /\ WF_vars(pc[t] # "new" /\ Step(t))
                  /\ WF_vars(Waiting(t) /\ StatementFails(t))
FairSpec == Spec /\ Fairness

-----------------------------------------------------------------------------
\* Every variable has its type.
TypeOK ==
  /\ bm \in [Names -> Value]
  /\ log \subseteq Row
  /\ nextId \in Nat \ {0}
  /\ ops \in [Txns -> [Names -> Contract!Op \cup {NoOp}]]
  /\ pc \in [Txns -> PC]
  /\ todo \in [Txns -> SUBSET Names]
  /\ held \in [Txns -> SUBSET Row]
  /\ lock \in [Names -> Txns \cup {NoTxn}]

\* A bookmark at v after row r is replayed the way its operation was carried out: an
\* update or delete only where its from is found, the others, which log none, anywhere.
Replayed(r, v) == IF r.from \in {None, v} THEN r.to ELSE v

\* The values bookmark n goes through when the log is replayed: Replay(n)[i] is the one
\* after the rows up to id i.
RowsAt(n, i) == {r \in log : r.name = n /\ r.id = i}
Replay(n) ==
  LET value[i \in Nat] ==
        IF i = 0 THEN Start[n]
        ELSE IF RowsAt(n, i) = {} THEN value[i - 1]
        ELSE Replayed(CHOOSE r \in RowsAt(n, i) : TRUE, value[i - 1])
  IN  value

\* Whoever replays all of bookmarks_update_log in the order of its ids, each row under
\* the condition it names, ends with the bookmarks as they are, although ids are given
\* out before the transactions commit and transactions overlap (commit,
\* log_bookmark_moves).  The condition matters: the row of a no-op update, whose check
\* takes no lock, may have a higher id than a move it did not see, and whoever sets the
\* bookmark to the "to" of every row would end at the overtaken value.
LogReplays == \A n \in Names : Replay(n)[nextId - 1] = bm[n]

\* The rows of a set of log rows that may move bookmark n: all but those of no-op
\* updates, which have a from and lead back to it.
IsMove(r) == r.from # r.to \/ r.to = None
Moves(R, n) == {r \in R : r.name = n /\ IsMove(r)}

\* An update or a delete that moves a bookmark starts where the move logged before it
\* ended: no move is lost between two rows, so of two updates from one value at most one
\* succeeds (the "AND changeset_id = old" of the UPDATE and DELETE).
LogChains ==
  \A n \in Names : \A r, s \in Moves(log, n) :
    /\ r.id < s.id
    /\ s.from # None
    /\ ~\E m \in Moves(log, n) : r.id < m.id /\ m.id < s.id
    => s.from = r.to

\* A transaction is one atomic step that is taken when all its conditions hold,
\* or is refused at a moment when one does not (the Transaction trait).
ImplementsContract == Contract!CSpec

\* commit() comes back, whatever the order in which the transactions lock rows.
CommitReturns ==
  \A t \in Txns : pc[t] = "stmts" ~> pc[t] \in {"true", "false", "err"}

-----------------------------------------------------------------------------
\* The inductive invariant behind LogReplays and LogChains.  What a running
\* transaction has checked is locked, so it is still so when it commits; the
\* log rows it holds were numbered after every committed move of that bookmark.
Running(t) == pc[t] \in {"stmts", "log", "commit"}
Touched(t, n) == /\ n \in Used(t)
                 /\ pc[t] = "stmts" => n \notin todo[t]
                 /\ ~IsNoop(ops[t][n])
LockSound ==
  \A n \in Names, t \in Txns :
    /\ lock[n] = t => Running(t) /\ Touched(t, n)
    /\ Running(t) /\ Touched(t, n) => lock[n] = t /\ Contract!Possible(ops[t][n], bm[n])
HeldSound ==
  \A t \in Txns : \A r \in held[t] :
    /\ pc[t] \in {"log", "commit"}
    /\ r.id < nextId
    /\ r.txn = t
    /\ r.name \in Used(t)
    /\ pc[t] = "log" => r.name \notin todo[t]
    /\ r.from = ops[t][r.name].old
    /\ r.to = ops[t][r.name].new
    /\ IsMove(r) => \A s \in Moves(log, r.name) : s.id < r.id
HeldComplete ==
  \A t \in Txns : \A n \in Used(t) :
    pc[t] = "commit" \/ (pc[t] = "log" /\ n \notin todo[t])
      => \E r \in held[t] : r.name = n
HeldOnce ==
  \A t \in Txns : \A r, s \in held[t] : r.name = s.name => r = s
LogSound == \A r \in log : r.id < nextId
IdsDiffer ==
  /\ \A r, s \in log : r.id = s.id => r = s
  /\ \A t \in Txns : \A r \in held[t] : \A s \in log : r.id # s.id
  /\ \A t, u \in Txns : \A r \in held[t], s \in held[u] : r.id = s.id => r = s
LastMoveLeads ==
  \A n \in Names : \A r \in Moves(log, n) :
    (\A s \in Moves(log, n) : s.id <= r.id) => r.to = bm[n]
FirstMoveStarts ==
  \A n \in Names :
    /\ Moves(log, n) = {} => bm[n] = Start[n]
    /\ \A r \in Moves(log, n) :
         r.from # None /\ (\A s \in Moves(log, n) : r.id <= s.id) => r.from = Start[n]
TodoSound == \A t \in Txns : todo[t] \subseteq Used(t)
BookmarksInv ==
  /\ TypeOK /\ TodoSound /\ LockSound /\ HeldSound /\ HeldComplete /\ HeldOnce /\ LogSound
  /\ IdsDiffer /\ LastMoveLeads /\ FirstMoveStarts /\ LogChains
=============================================================================
