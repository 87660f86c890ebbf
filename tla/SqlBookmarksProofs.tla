-------------------------- MODULE SqlBookmarksProofs ------------------------
(***************************************************************************)
(* The update log tells the bookmarks' story, for every number of          *)
(* transactions and bookmarks: LogReplays and LogChains of SqlBookmarks.   *)
(***************************************************************************)
EXTENDS SqlBookmarks, FunctionTheorems, TLAPS

\* What an operation of any kind looks like.
LEMMA OpFacts ==
  \A o \in Contract!Op \cup {NoOp} :
    /\ o.old \in Value /\ o.new \in Value
    /\ o.old # None => o.kind \in {"update", "delete"}
    /\ o = NoOp <=> o.kind = "none"
    /\ ~IsNoop(o) /\ o # NoOp => o.old # o.new \/ o.new = None
    /\ IsNoop(o) => o.old = o.new /\ o.new # None
  BY BookmarksAssumption DEF Contract!Op, NoOp, Contract!NoOp, Value, IsNoop

\* The initial states satisfy the invariant.
LEMMA InitInv == Init => BookmarksInv
  <1> SUFFICES ASSUME Init PROVE BookmarksInv
    OBVIOUS
  <1>1. TypeOK
    BY BookmarksAssumption DEF Init, TypeOK, NoOp, PC, Value
  <1>2. \A t \in Txns : Used(t) = {} /\ ~Running(t) /\ held[t] = {}
    BY DEF Init, Used, Running
  <1>3. LockSound
    BY <1>2, BookmarksAssumption DEF LockSound, Init, Touched
  <1>6. TodoSound
    BY <1>2 DEF TodoSound, Init
  <1>4. HeldSound /\ HeldComplete /\ HeldOnce /\ LogSound
    BY <1>2 DEF HeldSound, HeldComplete, HeldOnce, LogSound, Init
  <1>5. LastMoveLeads /\ FirstMoveStarts /\ LogChains
    BY DEF LastMoveLeads, FirstMoveStarts, LogChains, Moves, Init
  <1>7. IdsDiffer
    BY <1>2 DEF IdsDiffer, Init
  <1> QED
    BY <1>1, <1>3, <1>4, <1>5, <1>6, <1>7 DEF BookmarksInv

\* Types are preserved by every step.
LEMMA TypeStep == TypeOK /\ [Next]_vars => TypeOK'
  <1> SUFFICES ASSUME TypeOK, [Next]_vars PROVE TypeOK'
    OBVIOUS
  <1> USE DEF TypeOK
  <1>1. ASSUME NEW t \in Txns, NEW r \in {"true", "false", "err"}, End(t, r)
        PROVE  /\ pc' \in [Txns -> PC] /\ todo' \in [Txns -> SUBSET Names]
               /\ held' \in [Txns -> SUBSET Row]
               /\ lock' \in [Names -> Txns \cup {NoTxn}]
    BY <1>1 DEF End, Release, PC
  <1>2. ASSUME NEW t \in Txns, NEW n \in Names, Advance(t, n)
        PROVE  pc' \in [Txns -> PC] /\ todo' \in [Txns -> SUBSET Names]
    BY <1>2 DEF Advance, PC, Used
  <1>3. ASSUME NEW t \in Txns PROVE Written(t) \in [Names -> Value]
    BY OpFacts DEF Written
  <1>4. ASSUME NEW t \in Txns, Begin(t) PROVE TypeOK'
    <2>1. PICK o \in [Names -> AllOps \cup {NoOp}] :
            /\ ops' = [ops EXCEPT ![t] = o]
            /\ todo' = [todo EXCEPT ![t] = {n \in Names : o[n] # NoOp}]
      BY <1>4 DEF Begin
    <2>2. o \in [Names -> Contract!Op \cup {NoOp}]
      BY DEF AllOps
    <2> QED
      BY <1>4, <2>1, <2>2 DEF Begin, PC
  <1>5. ASSUME NEW t \in Txns, NEW n \in Names, Statement(t, n) PROVE TypeOK'
    <2>1. CASE Matches(ops[t][n], bm[n])
      BY <1>5, <2>1, <1>2 DEF Statement
    <2>2. CASE ~Matches(ops[t][n], bm[n])
      BY <1>5, <2>2, <1>1 DEF Statement
    <2> QED
      BY <2>1, <2>2
  <1>6. ASSUME NEW t \in Txns, NEW n \in Names, NoopStatement(t, n) PROVE TypeOK'
    <2>1. CASE bm[n] = ops[t][n].new
      BY <1>6, <2>1, <1>2 DEF NoopStatement
    <2>2. CASE bm[n] # ops[t][n].new
      BY <1>6, <2>2, <1>1 DEF NoopStatement
    <2> QED
      BY <2>1, <2>2
  <1>7. ASSUME NEW t \in Txns, NEW n \in Names, LogMove(t, n) PROVE TypeOK'
    <2> DEFINE row == [id |-> nextId, name |-> n, from |-> ops[t][n].old,
                       to |-> ops[t][n].new, txn |-> t]
    <2>1. row \in Row
      BY OpFacts DEF Row
    <2>2. held' = [held EXCEPT ![t] = @ \cup {row}]
      BY <1>7 DEF LogMove, MoveRow
    <2> HIDE DEF row
    <2> QED
      BY <1>7, <2>1, <2>2 DEF LogMove, MoveRow, PC
  <1>8. ASSUME NEW t \in Txns, Commit(t) PROVE TypeOK'
    BY <1>8, <1>1, <1>3 DEF Commit, Publish
  <1>9. ASSUME NEW t \in Txns, StatementFails(t) PROVE TypeOK'
    BY <1>9, <1>1 DEF StatementFails
  <1>10. ASSUME NEW t \in Txns, CommitFails(t) PROVE TypeOK'
    BY <1>10, <1>1, <1>3 DEF CommitFails, Publish
  <1>11. CASE UNCHANGED vars
    BY <1>11 DEF vars
  <1> QED
    BY <1>4, <1>5, <1>6, <1>7, <1>8, <1>9, <1>10, <1>11 DEF Next, Step

\* A transaction that is given up leaves everything sound.
LEMMA QuitStep ==
  ASSUME BookmarksInv, TypeOK', NEW t \in Txns, NEW r \in {"false", "err"}, End(t, r),
         UNCHANGED <<bm, log, nextId, ops>>
  PROVE  BookmarksInv'
  <1> USE DEF BookmarksInv, TypeOK
  <1>1. \A u \in Txns : Used(u)' = Used(u)
    BY DEF Used
  <1>2. \A u \in Txns : u # t => pc'[u] = pc[u] /\ todo'[u] = todo[u] /\ held'[u] = held[u]
    BY DEF End
  <1>3. pc'[t] = r /\ held'[t] = {} /\ ~Running(t)'
    BY DEF End, Running
  <1>4. \A u \in Txns : u # t => /\ Running(u)' <=> Running(u)
                                 /\ \A n \in Names : Touched(u, n)' <=> Touched(u, n)
    BY <1>1, <1>2 DEF Running, Touched
  <1>5. \A n \in Names : lock'[n] = IF lock[n] = t THEN NoTxn ELSE lock[n]
    BY DEF End, Release
  <1>6. LockSound'
    BY <1>3, <1>4, <1>5, BookmarksAssumption DEF LockSound
  <1>7. HeldSound' /\ HeldComplete' /\ HeldOnce'
    <2>1. \A n \in Names : Moves(log, n)' = Moves(log, n)
      BY DEF Moves
    <2>2. HeldSound'
      <3> SUFFICES ASSUME NEW u \in Txns, NEW s \in held'[u]
                   PROVE  /\ pc'[u] \in {"log", "commit"} /\ s.id < nextId' /\ s.txn = u
                          /\ s.name \in Used(u)' /\ (pc'[u] = "log" => s.name \notin todo'[u])
                          /\ s.from = ops'[u][s.name].old /\ s.to = ops'[u][s.name].new
                          /\ IsMove(s) => \A m \in Moves(log', s.name) : m.id < s.id
        BY DEF HeldSound, Moves
      <3>1. u # t /\ s \in held[u]
        BY <1>2, <1>3
      <3> QED
        BY <3>1, <1>1, <1>2, <2>1 DEF HeldSound, Moves
    <2>3. HeldComplete'
      BY <1>1, <1>2, <1>3 DEF HeldComplete
    <2>4. HeldOnce'
      BY <1>2, <1>3 DEF HeldOnce
    <2> QED
      BY <2>2, <2>3, <2>4
  <1>8. LogSound' /\ LastMoveLeads' /\ FirstMoveStarts' /\ LogChains'
    BY DEF LogSound, LastMoveLeads, FirstMoveStarts, LogChains, Moves
  <1>9. IdsDiffer'
    <2>1. \A u \in Txns : held'[u] \subseteq held[u]
      BY <1>2, <1>3
    <2> QED
      BY <2>1 DEF IdsDiffer
  <1>14. TodoSound'
    BY <1>1, <1>2 DEF TodoSound, End
  <1> QED
    BY <1>14, <1>6, <1>7, <1>8, <1>9

\* A transaction begins: it has touched nothing.
LEMMA BeginStep ==
  ASSUME BookmarksInv, TypeOK', NEW t \in Txns, Begin(t)
  PROVE  BookmarksInv'
  <1> USE DEF BookmarksInv, TypeOK
  <1>1. PICK o \in [Names -> AllOps \cup {NoOp}] :
          /\ ops' = [ops EXCEPT ![t] = o]
          /\ todo' = [todo EXCEPT ![t] = {n \in Names : o[n] # NoOp}]
    BY DEF Begin
  <1>2. \A u \in Txns : u # t => /\ pc'[u] = pc[u] /\ todo'[u] = todo[u] /\ ops'[u] = ops[u]
                                 /\ Used(u)' = Used(u)
    BY <1>1 DEF Begin, Used
  <1>3. pc[t] = "new" /\ pc'[t] = "stmts" /\ todo'[t] = Used(t)'
    BY <1>1 DEF Begin, Used
  <1>4. UNCHANGED <<bm, log, nextId, held, lock>>
    BY DEF Begin
  <1>5. held[t] = {}
    BY <1>3 DEF HeldSound
  <1>6. \A u \in Txns : u # t => /\ Running(u)' <=> Running(u)
                                 /\ \A n \in Names : Touched(u, n)' <=> Touched(u, n)
    BY <1>2 DEF Running, Touched
  <1>7. LockSound'
    <2>1. \A n \in Names : lock[n] # t
      BY <1>3 DEF LockSound, Running
    <2>3. \A n \in Names : ~Touched(t, n)'
      BY <1>3 DEF Touched
    <2>2. \A n \in Names, u \in Txns : u # t /\ Contract!Possible(ops[u][n], bm[n])
                                           => Contract!Possible(ops'[u][n], bm'[n])
      BY <1>2, <1>4
    <2> QED
      BY <2>1, <2>2, <2>3, <1>4, <1>6 DEF LockSound
  <1>8. HeldSound'
    BY <1>2, <1>3, <1>4, <1>5 DEF HeldSound, Moves
  <1>9. HeldComplete' /\ HeldOnce'
    BY <1>2, <1>3, <1>4 DEF HeldComplete, HeldOnce
  <1>10. LogSound' /\ LastMoveLeads' /\ FirstMoveStarts' /\ LogChains'
    BY <1>4 DEF LogSound, LastMoveLeads, FirstMoveStarts, LogChains, Moves
  <1>11. IdsDiffer'
    BY <1>4 DEF IdsDiffer
  <1>14. TodoSound'
    BY <1>2, <1>3 DEF TodoSound
  <1> QED
    BY <1>14, <1>7, <1>8, <1>9, <1>10, <1>11

\* A statement that goes through: t has reached n, and holds its lock unless
\* the update is a no-op.
LEMMA AdvanceStep ==
  ASSUME BookmarksInv, TypeOK', NEW t \in Txns, NEW n \in Names,
         pc[t] = "stmts", n \in todo[t], Advance(t, n),
         UNCHANGED <<bm, log, nextId, ops, held>>,
         \/ IsNoop(ops[t][n]) /\ UNCHANGED lock
         \/ /\ ~IsNoop(ops[t][n]) /\ lock[n] = NoTxn
            /\ Contract!Possible(ops[t][n], bm[n])
            /\ lock' = [lock EXCEPT ![n] = t],
         n \in Used(t)
  PROVE  BookmarksInv'
  <1> USE DEF BookmarksInv, TypeOK
  <1>1. \A u \in Txns : Used(u)' = Used(u)
    BY DEF Used
  <1>2. \A u \in Txns : u # t => pc'[u] = pc[u] /\ todo'[u] = todo[u]
    BY DEF Advance
  <1>3. /\ todo'[t] = IF todo[t] = {n} THEN Used(t) ELSE todo[t] \ {n}
        /\ pc'[t] = IF todo[t] = {n} THEN "log" ELSE "stmts"
    BY DEF Advance
  <1>4. held[t] = {}
    BY DEF HeldSound
  <1>5. \A u \in Txns : u # t => /\ Running(u)' <=> Running(u)
                                 /\ \A m \in Names : Touched(u, m)' <=> Touched(u, m)
    BY <1>1, <1>2 DEF Running, Touched
  <1>6. /\ Running(t) /\ Running(t)'
        /\ \A m \in Names : m # n => (Touched(t, m)' <=> Touched(t, m))
        /\ Touched(t, n)' <=> ~IsNoop(ops[t][n])
    BY <1>1, <1>3 DEF Running, Touched
  <1>7. LockSound'
    <2>1. \A m \in Names : m # n => lock'[m] = lock[m]
      OBVIOUS
    <2>2. ASSUME NEW m \in Names, NEW u \in Txns, m # n \/ u # t, lock'[m] = u
          PROVE  lock[m] = u
      BY <2>2, <2>1
    <2>3. ASSUME NEW m \in Names, NEW u \in Txns, lock[m] = u PROVE lock'[m] = u
      BY <2>3, BookmarksAssumption
    <2>4. ASSUME NEW m \in Names, NEW u \in Txns, m # n \/ u # t
          PROVE  /\ lock'[m] = u => Running(u)' /\ Touched(u, m)'
                 /\ Running(u)' /\ Touched(u, m)' =>
                      lock'[m] = u /\ Contract!Possible(ops[u][m], bm[m])
      BY <2>2, <2>3, <2>4, <1>5, <1>6 DEF LockSound
    <2>5. /\ lock'[n] = t => Running(t)' /\ Touched(t, n)'
          /\ Running(t)' /\ Touched(t, n)' =>
               lock'[n] = t /\ Contract!Possible(ops[t][n], bm[n])
      BY <1>6 DEF LockSound, Touched
    <2> QED
      BY <2>4, <2>5 DEF LockSound
  <1>8. HeldSound'
    BY <1>1, <1>2, <1>4 DEF HeldSound, Moves
  <1>9. HeldComplete' /\ HeldOnce'
    BY <1>1, <1>2, <1>3 DEF HeldComplete, HeldOnce
  <1>10. LogSound' /\ LastMoveLeads' /\ FirstMoveStarts' /\ LogChains'
    BY DEF LogSound, LastMoveLeads, FirstMoveStarts, LogChains, Moves
  <1>11. IdsDiffer'
    BY DEF IdsDiffer
  <1>14. TodoSound'
    BY <1>1, <1>2, <1>3 DEF TodoSound
  <1> QED
    BY <1>14, <1>7, <1>8, <1>9, <1>10, <1>11

\* A log row is inserted: its id is above every committed one.
LEMMA LogMoveStep ==
  ASSUME BookmarksInv, TypeOK', NEW t \in Txns, NEW n \in Names, LogMove(t, n), n \in Used(t)
  PROVE  BookmarksInv'
  <1> USE DEF BookmarksInv, TypeOK
  <1> DEFINE row == [id |-> nextId, name |-> n, from |-> ops[t][n].old,
                     to |-> ops[t][n].new, txn |-> t]
  <1>1. /\ row.id = nextId /\ row.name = n /\ row.txn = t
        /\ row.from = ops[t][n].old /\ row.to = ops[t][n].new
    OBVIOUS
  <1>2. held' = [held EXCEPT ![t] = @ \cup {row}]
    BY DEF LogMove, MoveRow
  <1> HIDE DEF row
  <1>3. /\ UNCHANGED <<bm, log, ops, lock>> /\ nextId' = nextId + 1
        /\ pc[t] = "log" /\ n \in todo[t]
        /\ todo'[t] = todo[t] \ {n}
        /\ pc'[t] = IF todo[t] = {n} THEN "commit" ELSE "log"
        /\ held'[t] = held[t] \cup {row}
    BY <1>2 DEF LogMove, MoveRow
  <1>4. \A u \in Txns : u # t => pc'[u] = pc[u] /\ todo'[u] = todo[u] /\ held'[u] = held[u]
    BY <1>2 DEF LogMove, MoveRow
  <1>5. \A u \in Txns : Used(u)' = Used(u)
    BY <1>3 DEF Used
  <1>6. LockSound'
    <2>1. \A u \in Txns : /\ Running(u)' <=> Running(u)
                          /\ \A m \in Names : Touched(u, m)' <=> Touched(u, m)
      BY <1>3, <1>4, <1>5 DEF Running, Touched
    <2> QED
      BY <2>1, <1>3 DEF LockSound
  <1>7. HeldSound'
    <2> SUFFICES ASSUME NEW u \in Txns, NEW s \in held'[u]
                 PROVE  /\ pc'[u] \in {"log", "commit"} /\ s.id < nextId' /\ s.txn = u
                        /\ s.name \in Used(u)' /\ (pc'[u] = "log" => s.name \notin todo'[u])
                        /\ s.from = ops'[u][s.name].old /\ s.to = ops'[u][s.name].new
                        /\ IsMove(s) => \A m \in Moves(log', s.name) : m.id < s.id
      BY DEF HeldSound, Moves
    <2>1. CASE u = t /\ s = row
      BY <2>1, <1>1, <1>3, <1>5 DEF LogSound, Moves
    <2>2. CASE s \in held[u]
      <3>1. s.id \in Nat /\ s.id < nextId
        BY <2>2 DEF HeldSound, Row
      <3>2. \A m \in Moves(log', s.name) : m \in Moves(log, s.name)
        BY <1>3 DEF Moves
      <3> QED
        BY <2>2, <3>1, <3>2, <1>3, <1>4, <1>5 DEF HeldSound
    <2> QED
      BY <2>1, <2>2, <1>3, <1>4
  <1>8. HeldComplete'
    BY <1>1, <1>3, <1>4, <1>5 DEF HeldComplete
  <1>9. HeldOnce'
    BY <1>1, <1>3, <1>4 DEF HeldOnce, HeldSound
  <1>10. LogSound'
    BY <1>3 DEF LogSound, Row
  <1>11. LastMoveLeads' /\ FirstMoveStarts' /\ LogChains'
    BY <1>3 DEF LastMoveLeads, FirstMoveStarts, LogChains, Moves
  <1>12. IdsDiffer'
    <2>1. \A u \in Txns : \A s \in held'[u] : s \in held[u] \/ s = row
      BY <1>3, <1>4
    <2>2. \A u \in Txns : \A s \in held[u] : s.id \in Nat /\ s.id < nextId
      BY DEF HeldSound, Row
    <2>3. \A s \in log : s.id \in Nat /\ s.id < nextId
      BY DEF LogSound, Row
    <2>4. \A u \in Txns : \A s \in held'[u] : \A r \in log : s.id # r.id
      <3> SUFFICES ASSUME NEW u \in Txns, NEW s \in held'[u], NEW r \in log PROVE s.id # r.id
        OBVIOUS
      <3>1. CASE s = row
        <4>1. r.id \in Nat /\ r.id < nextId /\ nextId \in Nat
          BY <2>3
        <4> QED
          BY <4>1, <3>1, <1>1
      <3>2. CASE s \in held[u]
        BY <3>2 DEF IdsDiffer
      <3> QED
        BY <3>1, <3>2, <2>1
    <2>5. \A u, v \in Txns : \A s \in held'[u], r \in held'[v] : s.id = r.id => s = r
      BY <2>1, <2>2, <1>1 DEF IdsDiffer
    <2> QED
      BY <2>4, <2>5, <1>3 DEF IdsDiffer
  <1>14. TodoSound'
    BY <1>3, <1>4, <1>5 DEF TodoSound
  <1> QED
    BY <1>14, <1>6, <1>7, <1>8, <1>9, <1>10, <1>11, <1>12

\* Whoever holds a row of the log that moves a bookmark holds its lock.
LEMMA MoverLocks ==
  ASSUME BookmarksInv, NEW t \in Txns, NEW r \in held[t], IsMove(r)
  PROVE  /\ r.name \in Names /\ lock[r.name] = t
         /\ Contract!Possible(ops[t][r.name], bm[r.name])
  <1> USE DEF BookmarksInv, TypeOK
  <1>1. /\ pc[t] \in {"log", "commit"} /\ r.name \in Used(t) /\ r.name \in Names
        /\ r.from = ops[t][r.name].old /\ r.to = ops[t][r.name].new
    BY DEF HeldSound, Row
  <1>2. ops[t][r.name] \in Contract!Op \cup {NoOp}
    BY <1>1
  <1>3. ~IsNoop(ops[t][r.name])
    BY <1>1, <1>2, OpFacts DEF IsMove
  <1> QED
    BY <1>1, <1>3 DEF LockSound, Running, Touched

\* The rows of a bookmark that t has locked, once t commits: one more, the last.
LEMMA NewMove ==
  ASSUME BookmarksInv, NEW t \in Txns, pc[t] = "commit", NEW n \in Names, lock[n] = t
  PROVE  \E h \in held[t] :
           /\ Moves(log \cup held[t], n) = Moves(log, n) \cup {h}
           /\ \A s \in Moves(log, n) : s.id < h.id
           /\ h.to = ops[t][n].new /\ h.id \in Nat
           /\ h.from # None => h.from = bm[n]
  <1> USE DEF BookmarksInv, TypeOK
  <1>1. Touched(t, n) /\ Running(t) /\ n \in Used(t) /\ ~IsNoop(ops[t][n])
    BY DEF LockSound, Touched
  <1>2. PICK h \in held[t] : h.name = n
    BY <1>1 DEF HeldComplete
  <1>3. h.from = ops[t][n].old /\ h.to = ops[t][n].new /\ h.id \in Nat
    BY <1>2 DEF HeldSound, Row
  <1>4. ops[t][n] \in Contract!Op \cup {NoOp} /\ ops[t][n] # NoOp
    BY <1>1 DEF Used
  <1>5. IsMove(h)
    BY <1>1, <1>3, <1>4, OpFacts DEF IsMove
  <1>6. \A s \in Moves(log, n) : s.id < h.id
    BY <1>2, <1>5 DEF HeldSound
  <1>7. \A s \in held[t] : s.name = n => s = h
    BY <1>2 DEF HeldOnce
  <1>8. Moves(log \cup held[t], n) = Moves(log, n) \cup {h}
    BY <1>2, <1>5, <1>7 DEF Moves
  <1>9. h.from # None => h.from = bm[n]
    <2>1. Contract!Possible(ops[t][n], bm[n])
      BY <1>1 DEF LockSound
    <2> QED
      BY <2>1, <1>3, <1>4, OpFacts DEF Contract!Possible
  <1> QED
    BY <1>3, <1>6, <1>8, <1>9

\* The commit publishes moves and rows together.
LEMMA PublishStep ==
  ASSUME BookmarksInv, TypeOK', NEW t \in Txns, NEW r \in {"true", "err"},
         pc[t] = "commit", Publish(t), End(t, r), UNCHANGED <<nextId, ops>>
  PROVE  BookmarksInv'
  <1> USE DEF BookmarksInv, TypeOK
  <1>1. \A u \in Txns : Used(u)' = Used(u)
    BY DEF Used
  <1>2. \A u \in Txns : u # t => pc'[u] = pc[u] /\ todo'[u] = todo[u] /\ held'[u] = held[u]
    BY DEF End
  <1>3. pc'[t] = r /\ held'[t] = {} /\ ~Running(t)'
    BY DEF End, Running
  <1>4. \A u \in Txns : u # t => /\ Running(u)' <=> Running(u)
                                 /\ \A n \in Names : Touched(u, n)' <=> Touched(u, n)
    BY <1>1, <1>2 DEF Running, Touched
  <1>5. \A n \in Names : /\ lock'[n] = IF lock[n] = t THEN NoTxn ELSE lock[n]
                         /\ bm'[n] = IF lock[n] = t THEN ops[t][n].new ELSE bm[n]
    BY DEF End, Release, Publish, Written
  <1>6. log' = log \cup held[t]
    BY DEF Publish
  <1>7. \A n \in Names : lock[n] # t => Moves(log', n) = Moves(log, n)
    BY <1>6, MoverLocks DEF Moves
  <1>8. LockSound'
    <2>1. \A n \in Names, u \in Txns : Running(u)' /\ Touched(u, n)' =>
            lock'[n] = u /\ bm'[n] = bm[n] /\ Contract!Possible(ops[u][n], bm[n])
      BY <1>3, <1>4, <1>5 DEF LockSound
    <2>2. \A n \in Names, u \in Txns : lock'[n] = u => Running(u)' /\ Touched(u, n)'
      BY <1>3, <1>4, <1>5, BookmarksAssumption DEF LockSound
    <2> QED
      BY <2>1, <2>2 DEF LockSound
  <1>9. HeldSound'
    <2> SUFFICES ASSUME NEW u \in Txns, NEW s \in held'[u]
                 PROVE  /\ pc'[u] \in {"log", "commit"} /\ s.id < nextId' /\ s.txn = u
                        /\ s.name \in Used(u)' /\ (pc'[u] = "log" => s.name \notin todo'[u])
                        /\ s.from = ops'[u][s.name].old /\ s.to = ops'[u][s.name].new
                        /\ IsMove(s) => \A m \in Moves(log', s.name) : m.id < s.id
      BY DEF HeldSound, Moves
    <2>1. u # t /\ s \in held[u]
      BY <1>2, <1>3
    <2>2. ASSUME IsMove(s), NEW m \in Moves(log', s.name) PROVE m.id < s.id
      BY <2>1, <2>2, <1>7, MoverLocks DEF HeldSound
    <2> QED
      BY <2>1, <2>2, <1>1, <1>2 DEF HeldSound
  <1>10. HeldComplete' /\ HeldOnce'
    BY <1>1, <1>2, <1>3 DEF HeldComplete, HeldOnce
  <1>11. LogSound'
    BY <1>6 DEF LogSound, HeldSound
  <1>12. LastMoveLeads'
    <2> SUFFICES ASSUME NEW n \in Names, NEW s \in Moves(log', n),
                        \A m \in Moves(log', n) : m.id <= s.id
                 PROVE  s.to = bm'[n]
      BY DEF LastMoveLeads, Moves
    <2>1. CASE lock[n] # t
      BY <2>1, <1>5, <1>7 DEF LastMoveLeads
    <2>2. CASE lock[n] = t
      <3>1. PICK h \in held[t] :
              /\ Moves(log \cup held[t], n) = Moves(log, n) \cup {h}
              /\ \A m \in Moves(log, n) : m.id < h.id
              /\ h.to = ops[t][n].new /\ h.id \in Nat
              /\ h.from # None => h.from = bm[n]
        BY <2>2, NewMove
      <3>2. \A m \in Moves(log, n) : m.id \in Nat
        BY DEF Moves, Row
      <3>6. Moves(log', n) = Moves(log, n) \cup {h}
        BY <3>1, <1>6
      <3>3. s = h
        BY <3>1, <3>2, <3>6
      <3> QED
        BY <3>1, <3>3, <2>2, <1>5
    <2> QED
      BY <2>1, <2>2
  <1>13. LogChains'
    <2> SUFFICES ASSUME NEW n \in Names, NEW p \in Moves(log', n), NEW s \in Moves(log', n),
                        p.id < s.id, s.from # None,
                        ~\E m \in Moves(log', n) : p.id < m.id /\ m.id < s.id
                 PROVE  s.from = p.to
      BY DEF LogChains, Moves
    <2>1. CASE lock[n] # t
      BY <2>1, <1>7 DEF LogChains
    <2>2. CASE lock[n] = t
      <3>1. PICK h \in held[t] :
              /\ Moves(log \cup held[t], n) = Moves(log, n) \cup {h}
              /\ \A m \in Moves(log, n) : m.id < h.id
              /\ h.to = ops[t][n].new /\ h.id \in Nat
              /\ h.from # None => h.from = bm[n]
        BY <2>2, NewMove
      <3>2. \A m \in Moves(log, n) : m.id \in Nat
        BY DEF Moves, Row
      <3>6. Moves(log', n) = Moves(log, n) \cup {h}
        BY <3>1, <1>6
      <3>3. p \in Moves(log, n)
        BY <3>1, <3>2, <3>6
      <3>4. CASE s = h
        <4>1. \A m \in Moves(log, n) : m.id <= p.id
          BY <3>1, <3>2, <3>3, <3>4, <3>6
        <4>2. p.to = bm[n]
          BY <4>1, <3>3 DEF LastMoveLeads
        <4> QED
          BY <4>2, <3>1, <3>4
      <3>5. CASE s \in Moves(log, n)
        BY <3>1, <3>3, <3>5, <3>6 DEF LogChains
      <3> QED
        BY <3>1, <3>4, <3>5, <3>6
    <2> QED
      BY <2>1, <2>2
  <1>14. TodoSound'
    BY <1>1, <1>2 DEF TodoSound, End
  <1>15. FirstMoveStarts'
    <2> SUFFICES ASSUME NEW n \in Names
                 PROVE  /\ Moves(log', n) = {} => bm'[n] = Start[n]
                        /\ \A s \in Moves(log', n) :
                             s.from # None /\ (\A m \in Moves(log', n) : s.id <= m.id)
                               => s.from = Start[n]
      BY DEF FirstMoveStarts, Moves
    <2>1. CASE lock[n] # t
      BY <2>1, <1>5, <1>7 DEF FirstMoveStarts
    <2>2. CASE lock[n] = t
      <3>1. PICK h \in held[t] :
              /\ Moves(log \cup held[t], n) = Moves(log, n) \cup {h}
              /\ \A m \in Moves(log, n) : m.id < h.id
              /\ h.to = ops[t][n].new /\ h.id \in Nat
              /\ h.from # None => h.from = bm[n]
        BY <2>2, NewMove
      <3>2. \A m \in Moves(log, n) : m.id \in Nat
        BY DEF Moves, Row
      <3>3. Moves(log', n) = Moves(log, n) \cup {h}
        BY <3>1, <1>6
      <3>4. ASSUME NEW s \in Moves(log', n), s.from # None,
                   \A m \in Moves(log', n) : s.id <= m.id
            PROVE  s.from = Start[n]
        <4>1. CASE s \in Moves(log, n)
          BY <4>1, <3>3, <3>4 DEF FirstMoveStarts
        <4>2. CASE s = h
          <5>1. Moves(log, n) = {}
            BY <4>2, <3>1, <3>2, <3>3, <3>4
          <5> QED
            BY <4>2, <5>1, <3>1, <3>4 DEF FirstMoveStarts
        <4> QED
          BY <4>1, <4>2, <3>3
      <3> QED
        BY <3>3, <3>4
    <2> QED
      BY <2>1, <2>2
  <1>16. IdsDiffer'
    <2>1. \A r1, s1 \in log' : r1.id = s1.id => r1 = s1
      BY <1>6 DEF IdsDiffer
    <2>2. \A u \in Txns : held'[u] \subseteq held[u] /\ (u = t => held'[u] = {})
      BY <1>2, <1>3
    <2>3. \A u \in Txns : \A s \in held'[u] : \A m \in log' : s.id # m.id
      <3> SUFFICES ASSUME NEW u \in Txns, NEW s \in held'[u], NEW m \in log', s.id = m.id
                   PROVE  FALSE
        OBVIOUS
      <3>1. u # t /\ s \in held[u]
        BY <2>2
      <3>2. m \in held[t]
        BY <3>1, <1>6 DEF IdsDiffer
      <3>3. s = m
        BY <3>1, <3>2 DEF IdsDiffer
      <3> QED
        BY <3>1, <3>2, <3>3 DEF HeldSound
    <2> QED
      BY <2>1, <2>2, <2>3 DEF IdsDiffer
  <1> QED
    BY <1>14, <1>8, <1>9, <1>10, <1>11, <1>12, <1>13, <1>15, <1>16

\* Every step preserves the invariant.
LEMMA NextInv == BookmarksInv /\ [Next]_vars => BookmarksInv'
  <1> SUFFICES ASSUME BookmarksInv, [Next]_vars PROVE BookmarksInv'
    OBVIOUS
  <1>1. TypeOK'
    BY TypeStep DEF BookmarksInv
  <1>2. ASSUME NEW t \in Txns, Begin(t) PROVE BookmarksInv'
    BY <1>1, <1>2, BeginStep
  <1>3. ASSUME NEW t \in Txns, NEW n \in Names, Statement(t, n) PROVE BookmarksInv'
    <2>1. n \in Used(t)
      BY <1>3 DEF Statement, BookmarksInv, TodoSound
    <2>2. CASE Matches(ops[t][n], bm[n])
      <3>1. Contract!Possible(ops[t][n], bm[n])
        BY <2>2 DEF Matches, Contract!Possible
      <3> QED
        BY <1>1, <1>3, <2>1, <2>2, <3>1, AdvanceStep DEF Statement
    <2>3. CASE ~Matches(ops[t][n], bm[n])
      BY <1>1, <1>3, <2>3, QuitStep DEF Statement
    <2> QED
      BY <2>2, <2>3
  <1>4. ASSUME NEW t \in Txns, NEW n \in Names, NoopStatement(t, n) PROVE BookmarksInv'
    <2>1. n \in Used(t)
      BY <1>4 DEF NoopStatement, BookmarksInv, TodoSound
    <2>2. CASE bm[n] = ops[t][n].new
      BY <1>1, <1>4, <2>1, <2>2, AdvanceStep DEF NoopStatement
    <2>3. CASE bm[n] # ops[t][n].new
      BY <1>1, <1>4, <2>3, QuitStep DEF NoopStatement
    <2> QED
      BY <2>2, <2>3
  <1>5. ASSUME NEW t \in Txns, NEW n \in Names, LogMove(t, n) PROVE BookmarksInv'
    <2>1. n \in Used(t)
      BY <1>5 DEF LogMove, MoveRow, BookmarksInv, TodoSound
    <2> QED
      BY <1>1, <1>5, <2>1, LogMoveStep
  <1>6. ASSUME NEW t \in Txns, Commit(t) PROVE BookmarksInv'
    BY <1>1, <1>6, PublishStep DEF Commit
  <1>7. ASSUME NEW t \in Txns, StatementFails(t) PROVE BookmarksInv'
    BY <1>1, <1>7, QuitStep DEF StatementFails
  <1>8. ASSUME NEW t \in Txns, CommitFails(t) PROVE BookmarksInv'
    BY <1>1, <1>8, PublishStep, QuitStep DEF CommitFails
  <1>9. CASE UNCHANGED vars
    <2>1. UNCHANGED <<bm, log, nextId, ops, pc, todo, held, lock>>
      BY <1>9 DEF vars
    <2>2. \A t \in Txns : /\ Used(t)' = Used(t) /\ (Running(t)' <=> Running(t))
                          /\ \A n \in Names : Touched(t, n)' <=> Touched(t, n)
      BY <2>1 DEF Used, Running, Touched
    <2>3. TodoSound' /\ HeldComplete' /\ HeldOnce' /\ LogSound'
      BY <2>1, <2>2 DEF BookmarksInv, TodoSound, HeldComplete, HeldOnce, LogSound
    <2>5. HeldSound'
      BY <2>1, <2>2 DEF BookmarksInv, HeldSound, Moves
    <2>6. LastMoveLeads' /\ FirstMoveStarts' /\ LogChains' /\ IdsDiffer'
      BY <2>1 DEF BookmarksInv, LastMoveLeads, FirstMoveStarts, LogChains, IdsDiffer, Moves
    <2>4. LockSound'
      BY <2>1, <2>2 DEF BookmarksInv, LockSound
    <2> QED
      BY <1>1, <2>3, <2>4, <2>5, <2>6 DEF BookmarksInv
  <1> QED
    BY <1>2, <1>3, <1>4, <1>5, <1>6, <1>7, <1>8, <1>9 DEF Next, Step

\* The invariant BookmarksInv holds of every behaviour of commit() on any number
\* of transactions and bookmarks.
THEOREM BookmarksInvariant == Spec => []BookmarksInv
  BY InitInv, NextInv, PTL DEF Spec

-----------------------------------------------------------------------------
(* From the invariant to the replay of the log. *)

\* What holds of 0, and with each number of the next, holds of all of them: otherwise the
\* numbers up to one that is left out would be as many as those after 0.
LEMMA Climb ==
  ASSUME NEW S, 0 \in S, \A n \in Nat : n \in S => n + 1 \in S
  PROVE  Nat \subseteq S
  <1> SUFFICES ASSUME NEW n \in Nat, n \notin S PROVE FALSE
    OBVIOUS
  <1> DEFINE f == [i \in 1 .. n + 1 |-> IF i - 1 \in S THEN i ELSE i - 1]
  <1>1. f \in [1 .. n + 1 -> 1 .. n]
    <2> SUFFICES ASSUME NEW i \in 1 .. n + 1
                 PROVE  (IF i - 1 \in S THEN i ELSE i - 1) \in 1 .. n
      OBVIOUS
    <2>1. CASE i - 1 \in S
      <3>1. i # n + 1
        BY <2>1
      <3> QED
        BY <2>1, <3>1
    <2>2. CASE i - 1 \notin S
      <3>1. i # 1
        BY <2>2
      <3> QED
        BY <2>2, <3>1
    <2> QED
      BY <2>1, <2>2
  <1>2. ASSUME NEW i \in 1 .. n + 1, NEW j \in 1 .. n + 1, f[i] = f[j] PROVE i = j
    <2>1. i - 1 \in Nat /\ j - 1 \in Nat /\ (i - 1) + 1 = i /\ (j - 1) + 1 = j
      OBVIOUS
    <2>2. (i - 1 \in S => i \in S) /\ (j - 1 \in S => j \in S)
      BY <2>1
    <2>3. (IF i - 1 \in S THEN i ELSE i - 1) = (IF j - 1 \in S THEN j ELSE j - 1)
      BY <1>2
    <2> QED
      BY <2>1, <2>2, <2>3
  <1> HIDE DEF f
  <1>3. f \in Injection(1 .. n + 1, 1 .. n)
    BY <1>1, <1>2, Fun_IsInj
  <1>4. ExistsInjection(1 .. n + 1, 1 .. n)
    BY <1>3 DEF ExistsInjection
  <1>5. n + 1 <= n
    BY <1>4, Fun_NatInjLeq
  <1> QED
    BY <1>5

\* v is where the moves of bookmark n up to id i leave it.
Ends(n, i, v) ==
  \/ \E r \in Moves(log, n) : /\ r.id <= i /\ r.to = v
                             /\ \A s \in Moves(log, n) : s.id <= i => s.id <= r.id
  \/ (\A s \in Moves(log, n) : ~(s.id <= i)) /\ v = Start[n]

\* One row of the log, the one with id i + 1, or none, takes a bookmark from one end to the
\* next: a move because the log chains, the row of a no-op update since it leads nowhere.
LEMMA EndsStep ==
  ASSUME BookmarksInv, NEW n \in Names, NEW i \in Nat, NEW v, Ends(n, i, v)
  PROVE  Ends(n, i + 1, IF RowsAt(n, i + 1) = {} THEN v
                        ELSE Replayed(CHOOSE r \in RowsAt(n, i + 1) : TRUE, v))
  <1> USE DEF BookmarksInv, TypeOK
  <1>1. \A r \in log : r.id \in Nat
    BY DEF Row
  <1>2. \A r \in Moves(log, n) : r \in log /\ r.name = n /\ r.id \in Nat /\ IsMove(r)
    BY <1>1 DEF Moves
  <1>3. ASSUME \A r \in Moves(log, n) : r.id # i + 1 PROVE Ends(n, i + 1, v)
    <2>1. \A r \in Moves(log, n) : r.id <= i + 1 <=> r.id <= i
      <3> SUFFICES ASSUME NEW r \in Moves(log, n) PROVE r.id <= i + 1 <=> r.id <= i
        OBVIOUS
      <3>1. r.id \in Nat /\ r.id # i + 1
        BY <1>2, <1>3
      <3>2. \A a \in Nat : a # i + 1 => (a <= i + 1 <=> a <= i)
        OBVIOUS
      <3> QED
        BY <3>1, <3>2, Zenon
    <2> QED
      BY <2>1 DEF Ends
  <1>4. CASE RowsAt(n, i + 1) = {}
    <2>1. \A r \in Moves(log, n) : r.id # i + 1
      BY <1>2, <1>4 DEF RowsAt
    <2> QED
      BY <2>1, <1>3, <1>4
  <1>5. CASE RowsAt(n, i + 1) # {}
    <2> DEFINE row == CHOOSE r \in RowsAt(n, i + 1) : TRUE
    <2>1. row \in RowsAt(n, i + 1)
      BY <1>5
    <2> HIDE DEF row
    <2>2. row \in log /\ row.name = n /\ row.id = i + 1
      BY <2>1 DEF RowsAt
    <2>3. CASE ~IsMove(row)
      <3>1. \A r \in Moves(log, n) : r.id # i + 1
        BY <1>2, <2>2, <2>3 DEF IdsDiffer
      <3>2. Replayed(row, v) = v
        BY <2>3 DEF Replayed, IsMove
      <3> QED
        BY <1>3, <1>5, <3>1, <3>2 DEF row
    <2>4. CASE IsMove(row)
      <3>1. row \in Moves(log, n)
        BY <2>2, <2>4 DEF Moves
      <3>2. row.from # None => row.from = v
        <4> SUFFICES ASSUME row.from # None PROVE row.from = v
          OBVIOUS
        <4>1. CASE \A s \in Moves(log, n) : ~(s.id <= i)
          <5>1. v = Start[n]
            BY <4>1 DEF Ends
          <5>2. \A s \in Moves(log, n) : row.id <= s.id
            BY <4>1, <1>2, <2>2
          <5> QED
            BY <5>1, <5>2, <3>1 DEF FirstMoveStarts
        <4>2. CASE \E s \in Moves(log, n) : s.id <= i
          <5>1. PICK p \in Moves(log, n) :
                  p.id <= i /\ p.to = v /\ \A s \in Moves(log, n) : s.id <= i => s.id <= p.id
            BY <4>2 DEF Ends
          <5>2. p.id < row.id /\ ~\E m \in Moves(log, n) : p.id < m.id /\ m.id < row.id
            BY <5>1, <1>2, <2>2
          <5> QED
            BY <5>1, <5>2, <3>1 DEF LogChains
        <4> QED
          BY <4>1, <4>2
      <3>3. Replayed(row, v) = row.to
        BY <3>2 DEF Replayed
      <3>4. \A s \in Moves(log, n) : s.id <= i + 1 => s.id <= row.id
        BY <1>2, <2>2
      <3>5. Ends(n, i + 1, row.to)
        BY <3>1, <3>4, <2>2, <1>2 DEF Ends
      <3> QED
        BY <1>5, <3>3, <3>5 DEF row
    <2> QED
      BY <2>3, <2>4
  <1> QED
    BY <1>4, <1>5

\* There is no more than one such end, since ids differ.
LEMMA EndsOnce ==
  ASSUME BookmarksInv, NEW n \in Names, NEW i \in Nat, NEW v, Ends(n, i, v), NEW w, Ends(n, i, w)
  PROVE  v = w
  <1> USE DEF BookmarksInv, TypeOK
  <1>1. \A r \in Moves(log, n) : r \in log /\ r.id \in Nat
    BY DEF Moves, Row
  <1>2. CASE \A s \in Moves(log, n) : ~(s.id <= i)
    BY <1>2 DEF Ends
  <1>3. CASE \E s \in Moves(log, n) : s.id <= i
    <2>1. PICK p \in Moves(log, n) :
            p.id <= i /\ p.to = v /\ \A s \in Moves(log, n) : s.id <= i => s.id <= p.id
      BY <1>3 DEF Ends
    <2>2. PICK q \in Moves(log, n) :
            q.id <= i /\ q.to = w /\ \A s \in Moves(log, n) : s.id <= i => s.id <= q.id
      BY <1>3 DEF Ends
    <2>3. p = q
      <3>1. p.id <= q.id /\ q.id <= p.id /\ p.id \in Nat /\ q.id \in Nat
        BY <1>1, <2>1, <2>2
      <3>2. \A a, b \in Nat : a <= b /\ b <= a => a = b
        OBVIOUS
      <3>3. p.id = q.id
        BY <3>1, <3>2, Zenon
      <3> QED
        BY <3>3, <1>1 DEF IdsDiffer
    <2> QED
      BY <2>1, <2>2, <2>3
  <1> QED
    BY <1>2, <1>3

\* The replay of the log goes from end to end.
LEMMA ReplayEnds ==
  ASSUME BookmarksInv, NEW n \in Names
  PROVE  \A i \in Nat : Ends(n, i, Replay(n)[i])
  <1> USE DEF BookmarksInv, TypeOK
  <1> DEFINE Body(g) == [i \in Nat |-> IF i = 0 THEN Start[n]
                                       ELSE IF RowsAt(n, i) = {} THEN g[i - 1]
                                       ELSE Replayed(CHOOSE r \in RowsAt(n, i) : TRUE, g[i - 1])]
             After(i, v) == IF RowsAt(n, i) = {} THEN v
                            ELSE Replayed(CHOOSE r \in RowsAt(n, i) : TRUE, v)
             w == [i \in Nat |-> CHOOSE v : Ends(n, i, v)]
  <1>1. Ends(n, 0, Start[n])
    <2>1. \A s \in Moves(log, n) : s.id \in Nat \ {0}
      BY DEF Moves, Row
    <2> QED
      BY <2>1 DEF Ends
  <1>2. ASSUME NEW i \in Nat, NEW v, Ends(n, i, v) PROVE Ends(n, i + 1, After(i + 1, v))
    BY <1>2, EndsStep
  <1>3. ASSUME NEW i \in Nat PROVE \E v : Ends(n, i, v)
    <2> DEFINE S == {k \in Nat : \E v : Ends(n, k, v)}
    <2>1. 0 \in S
      BY <1>1
    <2>2. \A k \in Nat : k \in S => k + 1 \in S
      <3> SUFFICES ASSUME NEW k \in Nat, k \in S PROVE k + 1 \in S
        OBVIOUS
      <3>1. PICK v : Ends(n, k, v)
        OBVIOUS
      <3>2. Ends(n, k + 1, After(k + 1, v))
        BY <3>1, <1>2
      <3> QED
        BY <3>2
    <2> HIDE DEF S
    <2>3. Nat \subseteq S
      BY <2>1, <2>2, Climb
    <2> QED
      BY <2>3 DEF S
  <1>4. ASSUME NEW i \in Nat PROVE Ends(n, i, w[i])
    BY <1>3
  <1>5. ASSUME NEW g
        PROVE  Body(g) = [i \in Nat |-> IF i = 0 THEN Start[n] ELSE After(i, g[i - 1])]
    OBVIOUS
  <1> HIDE DEF After
  <1>6. w = [i \in Nat |-> IF i = 0 THEN Start[n] ELSE After(i, w[i - 1])]
    <2>1. w[0] = Start[n]
      BY <1>1, <1>4, EndsOnce
    <2>2. ASSUME NEW i \in Nat, i # 0 PROVE w[i] = After(i, w[i - 1])
      <3>1. i - 1 \in Nat /\ (i - 1) + 1 = i
        BY <2>2
      <3>2. Ends(n, i - 1, w[i - 1])
        BY <3>1, <1>4
      <3>3. Ends(n, i, After(i, w[i - 1]))
        BY <3>1, <3>2, <1>2
      <3> QED
        BY <3>3, <1>4, EndsOnce
    <2>3. w = [i \in Nat |-> w[i]]
      OBVIOUS
    <2> HIDE DEF w
    <2> QED
      BY <2>1, <2>2, <2>3
  <1> HIDE DEF w
  <1>7. w = Body(w)
    BY <1>5, <1>6
  <1>8. Replay(n) = CHOOSE g : g = Body(g)
    BY DEF Replay
  <1> HIDE DEF Body
  <1>9. Replay(n) = Body(Replay(n))
    BY <1>7, <1>8
  <1> DEFINE T == {i \in Nat : Ends(n, i, Replay(n)[i])}
  <1>10. /\ Replay(n)[0] = Start[n]
         /\ \A i \in Nat : Replay(n)[i + 1] = After(i + 1, Replay(n)[i])
    BY <1>5, <1>9
  <1>11. 0 \in T
    BY <1>1, <1>10
  <1>12. \A i \in Nat : i \in T => i + 1 \in T
    BY <1>2, <1>10
  <1> HIDE DEF T
  <1>13. Nat \subseteq T
    BY <1>11, <1>12, Climb
  <1> QED
    BY <1>13 DEF T

\* Replaying all rows of bookmarks_update_log in the order of their ids, each under the
\* condition it names, gives the bookmarks (SqlBookmarksTransaction::commit).
THEOREM LogReplaysHolds == Spec => []LogReplays
  <1>1. BookmarksInv => LogReplays
    <2> SUFFICES ASSUME BookmarksInv, NEW n \in Names PROVE Replay(n)[nextId - 1] = bm[n]
      BY DEF LogReplays
    <2>1. nextId - 1 \in Nat /\ \A r \in Moves(log, n) : r.id <= nextId - 1
      BY DEF BookmarksInv, TypeOK, LogSound, Moves, Row
    <2>2. Ends(n, nextId - 1, Replay(n)[nextId - 1])
      BY <2>1, ReplayEnds
    <2> QED
      BY <2>1, <2>2 DEF Ends, BookmarksInv, LastMoveLeads, FirstMoveStarts
  <1> QED
    BY <1>1, BookmarksInvariant, PTL

\* An update or delete in the log starts where the move before it ended.
THEOREM LogChainsHolds == Spec => []LogChains
  <1>1. BookmarksInv => LogChains
    BY DEF BookmarksInv
  <1> QED
    BY <1>1, BookmarksInvariant, PTL
=============================================================================
