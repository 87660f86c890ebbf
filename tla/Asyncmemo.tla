----------------------------- MODULE Asyncmemo -----------------------------
(***************************************************************************)
(* The asynchronous memoizing cache (asyncmemo/src): one shard, a          *)
(* BoundedHash behind a mutex, and tasks that poll MemoFutures.  Between   *)
(* two uses of the mutex other tasks run.  A computation is the shared     *)
(* future that the filler returned; it makes progress when a task polls it *)
(* and wakes all tasks that wait for it when it is ready.                  *)
(***************************************************************************)
EXTENDS Naturals, Sequences, FiniteSets, SequencesExt

CONSTANTS
    Keys,         \* keys of one shard
    Tasks,        \* tasks, each of which gets one key at a time
    Weight,       \* Weight[k]: the weight of the value of key k
    EntryLimit,   \* limit on the number of entries
    WeightLimit,  \* limit on the weight of the entries
    MaxAgain,     \* bound on how often tasks ask again after an answer
    MaxFills      \* bound on the number of computations

ASSUME MemoAssumption ==
    /\ Weight \in [Keys -> Nat]
    /\ EntryLimit \in Nat /\ WeightLimit \in Nat /\ MaxFills \in Nat
    /\ MaxAgain \in Nat

VARIABLES
    hash,     \* entries of the BoundedHash, oldest first
    size,     \* entrysizes
    comps,    \* the computations, in the order in which they were started
    pc,       \* what each task is about to do
    stage,    \* stage[t]: which of the three steps of handle() t is in
    fut,      \* fut[t]: the computation that t holds, 0 if none
    got,      \* got[t]: the answer of t, a value or a computation whose error t got
    woken,    \* tasks that will be polled
    want,     \* want[t]: the key that task t gets
    again,    \* how often tasks asked again
    recent    \* keys of the hash, least recently used first

vars == <<hash, size, comps, pc, stage, fut, got, woken, want, again, recent>>
cache == <<hash, size, recent>>
asked == <<want, again>>

Computations == 1..Len(comps)
None == 0
Value == MaxFills + 1

\* An entry is waiting for a computation, or complete (comp = None).
Entry(k, f) == [key |-> k, comp |-> f]
SlotWeight(e) == IF e.comp = None THEN Weight[e.key] ELSE 0

TypeOK ==
    /\ hash \in Seq([key : Keys, comp : 0..MaxFills])
    /\ size \in Nat
    /\ comps \in Seq([key : Keys, state : {"running", "ok", "err", "moved"}, waiters : SUBSET Tasks])
    /\ pc \in [Tasks -> {"poll", "lookup", "fill", "real", "insert", "complete", "remove", "take",
                         "done", "panic"}]
    /\ stage \in [Tasks -> 1..3]
    /\ fut \in [Tasks -> 0..MaxFills]
    /\ got \in [Tasks -> 0..Value]
    /\ woken \subseteq Tasks
    /\ again \in 0..MaxAgain
    /\ recent \in Seq(Keys)
    /\ want \in [Tasks -> Keys]

Init ==
    /\ hash = <<>> /\ size = 0 /\ recent = <<>>
    /\ comps = <<>>
    /\ pc = [t \in Tasks |-> "poll"]
    /\ stage = [t \in Tasks |-> 1]
    /\ fut = [t \in Tasks |-> None]
    /\ got = [t \in Tasks |-> None]
    /\ woken = Tasks
    /\ want \in [Tasks -> Keys]
    /\ again = 0
-----------------------------------------------------------------------------
(* BoundedHash *)

KeysOf(h) == [i \in DOMAIN h |-> h[i].key]
SumOf(h) == FoldSeq(LAMBDA e, acc : SlotWeight(e) + acc, 0, h)
Complete(h, k) == \E i \in DOMAIN h : h[i] = Entry(k, None)

HashRemove(h, k) == SelectSeq(h, LAMBDA e : e.key # k)

\* trim_entries and trim_weight pop entries from the front until there is
\* room for n new entries of weight w.
Trim(h, sz, n, w) ==
    LET enough == {i \in 0..Len(h) :
            /\ Len(h) - i <= EntryLimit - n
            /\ i = Len(h) \/ sz - SumOf(SubSeq(h, 1, i)) <= WeightLimit - w}
    IN  SubSeq(h, Min(enough) + 1, Len(h))

\* insert, which fails if the entry can never fit; the key is gone then.
Fits(e) == EntryLimit >= 1 /\ SlotWeight(e) <= WeightLimit

Insert(h, e) ==
    LET rest == HashRemove(h, e.key)
        sz == size - SumOf(SelectSeq(h, LAMBDA x : x.key = e.key))
    IN  IF EntryLimit < 1 THEN rest
        ELSE IF ~Fits(e) THEN Trim(rest, 0, 1, 0)
        ELSE Append(Trim(rest, sz, 1, SlotWeight(e)), e)

\* Mutant: a complete value that was replaced is not put back.
SlotInsertPlain(e) == Insert(hash, e)

\* slot_insert: a complete value that was replaced is put back; it still
\* fits.
SlotInsert(e) ==
    IF Fits(e) /\ Complete(hash, e.key)
    THEN Append(HashRemove(Insert(hash, e), e.key), Entry(e.key, None))
    ELSE Insert(hash, e)

\* Mutant: the weight of removed entries stays in the sum.
ResizedUp(new) == size + SumOf(SelectSeq(new, LAMBDA e : e \notin ToSet(hash)))

\* remove_one and insert keep the sum of the weights up to date.
Resized(new) ==
    (size - SumOf(SelectSeq(hash, LAMBDA e : e \notin ToSet(new))))
        + SumOf(SelectSeq(new, LAMBDA e : e \notin ToSet(hash)))

\* The hash becomes new; k was used now.
Update(new, k) ==
    LET keys == ToSet(KeysOf(new)) IN
    /\ hash' = new
    /\ size' = Resized(new)
    /\ recent' = SelectSeq(recent, LAMBDA x : x # k /\ x \in keys)
                    \o (IF k \in keys THEN <<k>> ELSE <<>>)
-----------------------------------------------------------------------------
(* MemoFuture::handle, one task's poll. *)

Goto(t, step) == pc' = [pc EXCEPT ![t] = step]

\* 1) Poll the internal future if there is one.
Start(t) ==
    /\ pc[t] = "poll" /\ t \in woken
    /\ woken' = woken \ {t}
    /\ stage' = [stage EXCEPT ![t] = 1]
    /\ Goto(t, IF fut[t] # None THEN "real" ELSE "lookup")
    /\ UNCHANGED <<cache, comps, fut, got, asked>>

\* 2) Look the key up (slot_present), and poll the computation in the slot.
Lookup(t) ==
    LET hits == {i \in DOMAIN hash : hash[i].key = want[t]} IN
    /\ pc[t] = "lookup"
    /\ stage' = [stage EXCEPT ![t] = 2]
    /\ \/ /\ hits = {}
          /\ Goto(t, "fill")
          /\ UNCHANGED <<cache, fut, got>>
       \/ \E i \in hits :
          /\ Update(hash, want[t])
          /\ \/ /\ hash[i].comp = None
                /\ Goto(t, "done")
                /\ got' = [got EXCEPT ![t] = Value]
                /\ UNCHANGED fut
             \/ /\ hash[i].comp # None
                /\ Goto(t, "real")
                /\ fut' = [fut EXCEPT ![t] = hash[i].comp]
                /\ UNCHANGED got
    /\ UNCHANGED <<comps, woken, asked>>

NewComp(k) == [key |-> k, state |-> "running", waiters |-> {}]

\* 3) The filler makes a new computation, which is polled at once.
Fill(t) ==
    /\ pc[t] = "fill" /\ Len(comps) < MaxFills
    /\ comps' = Append(comps, NewComp(want[t]))
    /\ fut' = [fut EXCEPT ![t] = Len(comps) + 1]
    /\ stage' = [stage EXCEPT ![t] = 3]
    /\ Goto(t, "real")
    /\ UNCHANGED <<cache, got, woken, asked>>

\* Mutant: only the task that started a computation hears of its end.
RegisterOwner(t) == IF stage[t] = 3 THEN {t} ELSE {}

\* The shared future registers every task that polls it before it is ready.
Register(t) == {t}

\* poll_real_future polls the computation.
PollReal(t) ==
    LET f == fut[t] IN
    /\ pc[t] = "real"
    /\ \/ /\ comps[f].state = "running"
          /\ comps' = [comps EXCEPT ![f].waiters = @ \cup Register(t)]
          /\ Goto(t, "insert")
       \/ /\ comps[f].state = "ok"
          /\ Goto(t, "complete")
          /\ UNCHANGED comps
       \/ /\ comps[f].state \in {"err", "moved"}
          /\ Goto(t, "remove")
          /\ UNCHANGED comps
    /\ UNCHANGED <<cache, stage, fut, got, woken, asked>>

\* NotReady: the slot says that the value is on its way.
InsertWaiting(t) ==
    /\ pc[t] = "insert"
    /\ Update(SlotInsert(Entry(want[t], fut[t])), want[t])
    /\ Goto(t, "poll")
    /\ UNCHANGED <<comps, stage, fut, got, woken, asked>>

\* Ready: the slot gets the value.
InsertComplete(t) ==
    /\ pc[t] = "complete"
    /\ Update(SlotInsert(Entry(want[t], None)), want[t])
    /\ Goto(t, "done")
    /\ got' = [got EXCEPT ![t] = Value]
    /\ fut' = [fut EXCEPT ![t] = None]
    /\ UNCHANGED <<comps, stage, woken, asked>>

\* Err: the slot is removed, whatever it holds by now ...
RemoveSlot(t) ==
    /\ pc[t] = "remove"
    /\ Update(HashRemove(hash, want[t]), want[t])
    /\ Goto(t, "take")
    /\ UNCHANGED <<comps, stage, fut, got, woken, asked>>

\* ... and the first task to come takes the error.  The others go on with
\* the next step of handle(), which panics after the third.
TakeError(t) ==
    LET f == fut[t] IN
    /\ pc[t] = "take"
    /\ fut' = [fut EXCEPT ![t] = None]
    /\ \/ /\ comps[f].state = "err"
          /\ comps' = [comps EXCEPT ![f].state = "moved"]
          /\ got' = [got EXCEPT ![t] = f]
          /\ Goto(t, "done")
       \/ /\ comps[f].state = "moved"
          /\ Goto(t, <<"lookup", "fill", "panic">>[stage[t]])
          /\ UNCHANGED <<comps, got>>
    /\ UNCHANGED <<cache, stage, woken, asked>>
-----------------------------------------------------------------------------
\* A computation ends; the tasks that wait for it are woken.
Finish(f, result) ==
    /\ comps[f].state = "running"
    /\ comps' = [comps EXCEPT ![f].state = result, ![f].waiters = {}]
    /\ woken' = woken \cup comps[f].waiters
    /\ UNCHANGED <<cache, pc, stage, fut, got, asked>>

\* A task asks again after it got an answer.
Again(t, k) ==
    /\ pc[t] = "done"
    /\ again < MaxAgain /\ again' = again + 1
    /\ want' = [want EXCEPT ![t] = k]
    /\ Goto(t, "poll")
    /\ woken' = woken \cup {t}
    /\ got' = [got EXCEPT ![t] = None]
    /\ UNCHANGED <<cache, comps, stage, fut>>

Invalidate(k) ==
    /\ k \in ToSet(KeysOf(hash))
    /\ Update(HashRemove(hash, k), k)
    /\ UNCHANGED <<comps, pc, stage, fut, got, woken, asked>>

Clear ==
    /\ hash # <<>>
    /\ hash' = <<>> /\ size' = 0 /\ recent' = <<>>
    /\ UNCHANGED <<comps, pc, stage, fut, got, woken, asked>>

Step(t) ==
    \/ Start(t) \/ Lookup(t) \/ Fill(t) \/ PollReal(t)
    \/ InsertWaiting(t) \/ InsertComplete(t) \/ RemoveSlot(t) \/ TakeError(t)

Next ==
    \/ \E t \in Tasks : Step(t) \/ \E k \in Keys : Again(t, k)
    \/ \E f \in Computations, result \in {"ok", "err"} : Finish(f, result)
    \/ \E k \in Keys : Invalidate(k)
    \/ Clear

Spec == Init /\ [][Next]_vars

\* Woken tasks are polled and computations end.
FairSpec ==
    /\ Spec
    /\ \A t \in Tasks : WF_vars(Step(t))
    /\ \A f \in 1..MaxFills :
          WF_vars(f \in Computations /\ \E result \in {"ok", "err"} : Finish(f, result))
-----------------------------------------------------------------------------
(* Properties. *)

\* The weight that BoundedHash keeps is that of its entries, no key has two
\* entries, and both limits hold, after any sequence of insertions that
\* replace, put back and trim.
LimitsHold ==
    /\ TypeOK
    /\ size = SumOf(hash) /\ size <= WeightLimit
    /\ Len(hash) <= EntryLimit
    /\ \A i, j \in DOMAIN hash : hash[i].key = hash[j].key => i = j

\* Every get that is not answered from the cache is answered in the end:
\* no wake-up is lost between polling a computation and waiting for it, and
\* handle() does not panic, since nobody else can take the error of a
\* computation that was just started.
GetReturns == \A t \in Tasks : pc[t] = "poll" ~> pc[t] = "done"

\* An entry that is complete does not go back to waiting, even when a task
\* that polled an older computation stores its state after the value.
NoRegress ==
    [][\A k \in Keys : Complete(hash, k) /\ k \in ToSet(KeysOf(hash')) =>
          \E i \in DOMAIN hash' : hash'[i] = Entry(k, None)]_vars

\* boundedhash.rs says entries are trimmed with an LRU policy: the first
\* entry to go is the one not used for the longest time.
LruOrder == KeysOf(hash) = recent
=============================================================================
