---------------------------- MODULE NodeStreams -----------------------------
(***************************************************************************)
(* The set combinators of revset: UnionNodeStream, IntersectNodeStream and *)
(* SetDifferenceNodeStream.  Each reads input streams of changesets whose  *)
(* generations never increase and which repeat no changeset, and has to    *)
(* produce a stream with the same two properties, whatever the order in    *)
(* which its inputs become ready and even if one of them fails.            *)
(*                                                                         *)
(* A step is one pass of the loop in poll(); where poll() returns NotReady *)
(* the next call starts the loop again from the same state.  The order of  *)
(* a HashSet's iterator is arbitrary: an element of drain is chosen.       *)
(***************************************************************************)
EXTENDS CommitGraph, Sequences, SequencesExt

CONSTANTS Item,       \* slot holding an item (the head of its feed)
          NotReady,   \* Ok(Async::NotReady)
          Finished,   \* Ok(Async::Ready(None))
          Failed      \* Err(_)

VARIABLES par,      \* the commit graph
          op,       \* "union", "intersect" or "difference"
          given,    \* the inputs as they were passed to new()
          feed,     \* feed[i]: what input i has still to yield, its item included
          fails,    \* the inputs that end in an error
          state,    \* state[i]: the last poll of input i
          current,  \* current_generation (remove_generation), 0 for None
          acc,      \* accumulator: how many inputs hold each changeset (remove_nodes)
          drain,    \* the changesets of the drain, {} for None
          out,      \* what the stream has yielded
          status    \* "open", "end" (Ready(None)) or "error"

streamVars == <<par, op, given, feed, fails, state, current, acc, drain, out, status>>
frozen == <<par, op, given, fails>>

Inputs == DOMAIN state
gen == Generation(par)
ItemOf(i) == Head(feed[i])
Holding(st) == {i \in Inputs : st[i] = Item}

\* What polling input i answers once it is ready (add_generations_by_bonsai
\* only adds the generation, and fails with the input).
Answer(i) == IF feed[i] # <<>> THEN Item
             ELSE IF i \in fails THEN Failed ELSE Finished

\* poll_all_inputs: the inputs in ready answer, the others stay NotReady.
Polled(ready) ==
  [i \in Inputs |-> IF state[i] = NotReady /\ i \in ready THEN Answer(i) ELSE state[i]]

\* The items of the inputs in S are taken out of their slots.
Take(st, S) ==
  /\ state' = [i \in Inputs |-> IF i \in S THEN NotReady ELSE st[i]]
  /\ feed' = [i \in Inputs |-> IF i \in S THEN Tail(feed[i]) ELSE feed[i]]

Emit(c) == out' = Append(out, c)
Ends(s) == status' = s /\ UNCHANGED <<feed, current, acc, drain, out>>

\* accumulate_nodes: one more count for every changeset held by an input of S.
Counted(S) ==
  [c \in DOMAIN par |-> acc[c] + Cardinality({i \in S : ItemOf(i) = c})]
NoCount == [c \in DOMAIN par |-> 0]
Accumulated == {c \in DOMAIN par : acc[c] > 0}

Waiting(st) == \E i \in Inputs : st[i] = NotReady

\* "Return any errors", then "wait for them all to be ready".
Fail(st) == /\ \E i \in Inputs : st[i] = Failed
            /\ state' = st
            /\ Ends("error")
Wait(st) == /\ \A i \in Inputs : st[i] # Failed
            /\ Waiting(st)
            /\ state' = st
            /\ UNCHANGED <<feed, current, acc, drain, out, status>>
AllReady(st) == \A i \in Inputs : st[i] \in {Item, Finished}

-----------------------------------------------------------------------------
(***************************************************************************)
(* UnionNodeStream: the highest generation among the items is gathered     *)
(* until no input has one of it, then drained.                             *)
(***************************************************************************)
UnionGeneration(st) == Max({0} \cup {gen[ItemOf(i)] : i \in Holding(st)})

UnionDrain(st) ==
  \E c \in drain : /\ Emit(c)
                   /\ drain' = drain \ {c}
                   /\ state' = st
                   /\ UNCHANGED <<feed, current, acc, status>>

\* Mutant: never finds itself finished.
UnionChooseForever(st) ==
  /\ current = 0 /\ Accumulated = {}
  /\ current' = UnionGeneration(st)
  /\ state' = st
  /\ UNCHANGED <<feed, acc, drain, out, status>>

\* gc_finished_inputs removes finished inputs, so the last test of the loop is
\* that no input holds an item and nothing is accumulated or drained.
UnionChoose(st) ==
  /\ current = 0 /\ Accumulated = {}
  /\ current' = UnionGeneration(st)
  /\ status' = IF Holding(st) = {} THEN "end" ELSE "open"
  /\ state' = st
  /\ UNCHANGED <<feed, acc, drain, out>>

FillDrain(st) ==
  /\ current = 0 /\ Accumulated # {}
  /\ drain' = Accumulated
  /\ acc' = NoCount
  /\ state' = st
  /\ UNCHANGED <<feed, current, out, status>>

UnionAccumulate(st) ==
  LET found == {i \in Holding(st) : gen[ItemOf(i)] = current}
  IN  /\ current # 0
      /\ acc' = Counted(found)
      /\ current' = IF found = {} THEN 0 ELSE current
      /\ Take(st, found)
      /\ UNCHANGED <<drain, out, status>>

UnionPoll ==
  /\ op = "union" /\ status = "open"
  /\ \E ready \in SUBSET Inputs :
       LET st == Polled(ready)
       IN  \/ UnionDrain(st)
           \/ drain = {} /\ Fail(st)
           \/ drain = {} /\ Wait(st)
           \/ drain = {} /\ AllReady(st)
                /\ (UnionChoose(st) \/ FillDrain(st) \/ UnionAccumulate(st))
  /\ UNCHANGED frozen

-----------------------------------------------------------------------------
(***************************************************************************)
(* IntersectNodeStream: items above the lowest generation cannot be in all *)
(* inputs and are dropped; a changeset is kept that every input counted.   *)
(* The drain is filtered on filling it: the inputs do not change meanwhile. *)
(***************************************************************************)
MinOrZero(S) == IF S = {} THEN 0 ELSE Min(S)
IntersectGeneration(st) == MinOrZero({gen[ItemOf(i)] : i \in Holding(st)})

AnyFinished(st) == \E i \in Inputs : st[i] = Finished

IntersectChoose(st) ==
  /\ current = 0 /\ Accumulated = {}
  /\ current' = IntersectGeneration(st)
  /\ status' = IF AnyFinished(st) THEN "end" ELSE "open"
  /\ state' = st
  /\ UNCHANGED <<feed, acc, drain, out>>

InAll(counts) == {c \in DOMAIN par : counts[c] = Cardinality(Inputs)}

IntersectDrain(st) ==
  /\ current = 0 /\ Accumulated # {}
  /\ drain' = InAll(acc)
  /\ acc' = NoCount
  /\ state' = st
  /\ UNCHANGED <<feed, current, out, status>>

\* Mutant: ends with the first input, whatever is still accumulated.
IntersectAccumulateCut(st) ==
  LET taken == {i \in Holding(st) : gen[ItemOf(i)] >= current}
      equal == {i \in Holding(st) : gen[ItemOf(i)] = current}
  IN  /\ current # 0
      /\ acc' = Counted(equal)
      /\ current' = IF taken = {} THEN 0 ELSE current
      /\ Take(st, taken)
      /\ status' = IF AnyFinished(st) THEN "end" ELSE "open"
      /\ UNCHANGED <<drain, out>>

IntersectAccumulate(st) ==
  LET taken == {i \in Holding(st) : gen[ItemOf(i)] >= current}
      equal == {i \in Holding(st) : gen[ItemOf(i)] = current}
  IN  /\ current # 0
      /\ acc' = Counted(equal)
      /\ current' = IF taken = {} THEN 0 ELSE current
      /\ Take(st, taken)
      /\ status' = IF acc' = NoCount /\ AnyFinished(st) THEN "end" ELSE "open"
      /\ UNCHANGED <<drain, out>>

IntersectPoll ==
  /\ op = "intersect" /\ status = "open"
  /\ \E ready \in SUBSET Inputs :
       LET st == Polled(ready)
       IN  \/ UnionDrain(st)
           \/ drain = {} /\ Fail(st)
           \/ drain = {} /\ Wait(st)
           \/ drain = {} /\ AllReady(st)
                /\ (IntersectChoose(st) \/ IntersectDrain(st) \/ IntersectAccumulate(st))
  /\ UNCHANGED frozen

-----------------------------------------------------------------------------
(***************************************************************************)
(* SetDifferenceNodeStream: input 1 is keep_input, input 2 remove_input.   *)
(***************************************************************************)
KeepGen == gen[ItemOf(1)]

NextKeep ==
  /\ state[1] = NotReady
  /\ state' = [state EXCEPT ![1] = Answer(1)]
  /\ IF Answer(1) = Item
       THEN UNCHANGED <<feed, current, acc, drain, out, status>>
       ELSE Ends(IF Answer(1) = Failed THEN "error" ELSE "end")

NextRemove ==
  /\ state[1] = Item /\ state[2] = NotReady
  /\ state' = [state EXCEPT ![2] = Answer(2)]
  /\ IF Answer(2) = Failed
       THEN Ends("error")
       ELSE UNCHANGED <<feed, current, acc, drain, out, status>>

\* "Clear nodes that won't affect future results"
Remembered == IF current = KeepGen THEN acc ELSE NoCount

Gather ==
  /\ state[1] = Item /\ state[2] = Item
  /\ gen[ItemOf(2)] >= KeepGen
  /\ acc' = IF gen[ItemOf(2)] = KeepGen
              THEN [Remembered EXCEPT ![ItemOf(2)] = 1] ELSE Remembered
  /\ current' = KeepGen
  /\ Take(state, {2})
  /\ UNCHANGED <<drain, out, status>>

Keep ==
  /\ state[1] = Item
  /\ state[2] = Finished \/ (state[2] = Item /\ gen[ItemOf(2)] < KeepGen)
  /\ acc' = Remembered
  /\ current' = KeepGen
  /\ Take(state, {1})
  /\ out' = IF Remembered[ItemOf(1)] = 0 THEN Append(out, ItemOf(1)) ELSE out
  /\ UNCHANGED <<drain, status>>

DifferencePoll ==
  /\ op = "difference" /\ status = "open"
  /\ NextKeep \/ NextRemove \/ Gather \/ Keep
  /\ UNCHANGED frozen

-----------------------------------------------------------------------------
\* A stream that revset accepts as an input: ValidateNodeStream's assertions.
Valid(s, g) == /\ IsInjective(s)
               /\ \A i, j \in DOMAIN s : i < j => g[s[i]] >= g[s[j]]

\* inputs is a sequence of valid streams, broken a set of inputs that fail
\* once they have yielded them.
StreamInit(g, o, inputs, broken) ==
  /\ par = g /\ op = o /\ given = inputs /\ feed = inputs /\ fails = broken
  /\ state = [i \in DOMAIN inputs |-> NotReady]
  /\ current = 0 /\ acc = [c \in DOMAIN g |-> 0] /\ drain = {}
  /\ out = <<>> /\ status = "open"

StreamNext == UnionPoll \/ IntersectPoll \/ DifferencePoll

-----------------------------------------------------------------------------
Combined ==
  CASE op = "union"      -> UNION {ToSet(given[i]) : i \in Inputs}
    [] op = "intersect"  -> {c \in DOMAIN par : \A i \in Inputs : c \in ToSet(given[i])}
    [] op = "difference" -> ToSet(given[1]) \ ToSet(given[2])

\* Whatever the order in which the inputs became ready, the stream yields only
\* changesets of the union, intersection or difference of its inputs, and has
\* yielded all of them when it ends; an input's error is returned before that,
\* unless the rest of that input cannot matter any more.
CombinedExact == /\ ToSet(out) \subseteq Combined
                 /\ status = "end" => ToSet(out) = Combined
=============================================================================
