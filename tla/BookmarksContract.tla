------------------------- MODULE BookmarksContract --------------------------
(***************************************************************************)
(* What the Transaction trait of bookmarks/src/lib.rs promises: a          *)
(* transaction is a set of operations on different bookmarks; commit()     *)
(* applies all of them at one moment at which every one of them is         *)
(* possible (true), or finds at some moment that one is not and applies    *)
(* none (false), or fails (error), when nothing is known.                  *)
(***************************************************************************)
CONSTANTS Names,     \* bookmark names
          Commits,   \* changeset ids
          None,      \* no changeset: the bookmark does not exist
          Txns       \* transactions

VARIABLES bm,       \* [Names -> Commits \cup {None}]
          ops,      \* per transaction, what it does to each bookmark
          result    \* per transaction: "open", "true", "false", "err"

cvars == <<bm, ops, result>>

Value == Commits \cup {None}

\* An operation.  old: the value it requires ("any" when it requires none);
\* new: the value it leaves.  update requires old \in Commits, create None.
NoOp == [kind |-> "none", old |-> None, new |-> None]
Op == [kind : {"force_set"}, old : {None}, new : Commits]
      \cup [kind : {"create"}, old : {None}, new : Commits]
      \cup [kind : {"update"}, old : Commits, new : Commits]
      \cup [kind : {"force_delete"}, old : {None}, new : {None}]
      \cup [kind : {"delete"}, old : Commits, new : {None}]

\* Is operation o possible on a bookmark whose value is v?
Possible(o, v) == o.kind \in {"create", "update", "delete"} => v = o.old

\* An update that changes nothing is a question about an earlier moment: the
\* transaction need not be refused when the answer has changed since.
IsNoop(o) == o.kind = "update" /\ o.old = o.new
AllPossible(o) == \A n \in Names : IsNoop(o[n]) \/ Possible(o[n], bm[n])

Used(t) == {n \in Names : ops[t][n] # NoOp}
Apply(f, o) == [n \in Names |-> IF o[n] = NoOp \/ IsNoop(o[n]) THEN f[n] ELSE o[n].new]

CInit ==
  /\ bm \in [Names -> Value]
  /\ ops = [t \in Txns |-> [n \in Names |-> NoOp]]
  /\ result = [t \in Txns |-> "open"]

\* update, create, force_set, delete and force_delete fill the transaction.
Ask(t) ==
  /\ result[t] = "open"
  /\ Used(t) = {}
  /\ \E o \in [Names -> Op \cup {NoOp}] : ops' = [ops EXCEPT ![t] = o]
  /\ UNCHANGED <<bm, result>>

Succeed(t) ==
  /\ result[t] = "open"
  /\ AllPossible(ops[t])
  /\ bm' = Apply(bm, ops[t])
  /\ result' = [result EXCEPT ![t] = "true"]
  /\ UNCHANGED ops

Refuse(t) ==
  /\ result[t] = "open"
  /\ \E n \in Names : ~Possible(ops[t][n], bm[n])
  /\ result' = [result EXCEPT ![t] = "false"]
  /\ UNCHANGED <<bm, ops>>

Fail(t) ==
  /\ result[t] = "open"
  /\ \/ UNCHANGED bm
     \/ AllPossible(ops[t]) /\ bm' = Apply(bm, ops[t])
  /\ result' = [result EXCEPT ![t] = "err"]
  /\ UNCHANGED ops

CNext == \E t \in Txns : Ask(t) \/ Succeed(t) \/ Refuse(t) \/ Fail(t)

CSpec == CInit /\ [][CNext]_cvars
=============================================================================
