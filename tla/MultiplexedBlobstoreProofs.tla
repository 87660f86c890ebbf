--------------------- MODULE MultiplexedBlobstoreProofs ---------------------
(***************************************************************************)
(* Safety of the multiplexed blobstore for every set of stores, keys and   *)
(* operations and every number of faults.                                  *)
(***************************************************************************)
EXTENDS MultiplexedBlobstore, TLAPS

\* The base invariant holds when nothing has been put and nothing is read.
LEMMA BaseInit == Init => BaseInv
  BY MultiplexAssumption
     DEF Init, BaseInv, TypeOK, EntrySound, PutSound, ReadSound, ReqState,
         Answer, Result, AckedKey, Acked

\* What was acknowledged stays acknowledged: every step of a put leaves the
\* requests that are done as they are, and the key of a put once it has begun.
LEMMA AckedStable ==
  ASSUME BaseInv, NEW p \in Puts, PutNext(p), NEW k \in Keys, AckedKey(k)
  PROVE  AckedKey(k)'
<1>1. PICK q \in Puts, t \in Stores : pkey[q] = k /\ req[q][t] = "done"
  BY DEF AckedKey, Acked
<1>2. pkey'[q] = k /\ req'[q][t] = "done"
  BY <1>1, MultiplexAssumption
     DEF PutNext, PutStart, StorePut, StorePutFails, LateStorePut, OnPut, OnPutFails,
         PutCrash, BaseInv, TypeOK, ReqState
<1>3. QED
  BY <1>2 DEF AckedKey, Acked

\* A key becomes acknowledged only by an on_put of a put of that key.
LEMMA AckOrigin ==
  ASSUME BaseInv, NEW p \in Puts, PutNext(p), NEW k \in Keys, AckedKey(k)'
  PROVE  AckedKey(k) \/ \E s \in Stores : OnPut(p, s) /\ pkey[p] = k
<1> USE DEF BaseInv, TypeOK, ReqState
<1>1. PICK q \in Puts, t \in Stores : pkey'[q] = k /\ req'[q][t] = "done"
  BY DEF AckedKey, Acked
<1>2. CASE \E j \in Keys : PutStart(p, j)
  <2>1. req[q][t] = "done" /\ pkey[q] = k
    BY <1>1, <1>2 DEF PutStart
  <2>2. QED
    BY <2>1 DEF AckedKey, Acked
<1>3. ASSUME NEW s \in Stores,
             StorePut(p, s) \/ StorePutFails(p, s) \/ LateStorePut(p, s) \/ OnPutFails(p, s)
      PROVE  AckedKey(k)
  <2>1. PICK x \in {"stored", "lost", "failed"} : pkey' = pkey /\ req' = [req EXCEPT ![p][s] = x]
    BY <1>3 DEF StorePut, StorePutFails, LateStorePut, OnPutFails
  <2>2. req[q][t] = "done" /\ pkey[q] = k
    BY <1>1, <2>1
  <2>3. QED
    BY <2>2 DEF AckedKey, Acked
<1>4. ASSUME NEW s \in Stores, OnPut(p, s) PROVE AckedKey(k) \/ pkey[p] = k
  <2>1. pkey[q] = k /\ (req[q][t] = "done" \/ q = p)
    BY <1>1, <1>4 DEF OnPut
  <2>2. QED
    BY <2>1 DEF AckedKey, Acked
<1>5. CASE PutCrash(p)
  <2>1. req[q][t] = "done" /\ pkey[q] = k
    BY <1>1, <1>5 DEF PutCrash
  <2>2. QED
    BY <2>1 DEF AckedKey, Acked
<1>6. QED
  BY <1>2, <1>3, <1>4, <1>5 DEF PutNext

\* on_put leaves a row for its key.
LEMMA OnPutRow ==
  ASSUME NEW p \in Puts, NEW s \in Stores, OnPut(p, s)
  PROVE  \E e \in queue' : e.key = pkey[p]
<1> DEFINE new == [id |-> nextId, key |-> pkey[p], store |-> s, age |-> 0]
<1>1. new \in queue' /\ new.key = pkey[p]
  BY DEF OnPut, AddEntry
<1> HIDE DEF new
<1>2. QED
  BY <1>1

-----------------------------------------------------------------------------
(* Every step of a put or a read preserves the base invariant *)

LEMMA PutType ==
  ASSUME BaseInv, NEW p \in Puts, PutNext(p)
  PROVE  TypeOK'
<1> USE MultiplexAssumption DEF BaseInv, TypeOK, pvars, rvars, ReqState
<1>1. CASE \E k \in Keys : PutStart(p, k)
  BY <1>1 DEF PutStart
<1>2. ASSUME NEW s \in Stores, StorePut(p, s) PROVE TypeOK'
  BY <1>2 DEF StorePut, PutSound
<1>3. ASSUME NEW s \in Stores, StorePutFails(p, s) PROVE TypeOK'
  BY <1>3 DEF StorePutFails, Fault
<1>4. ASSUME NEW s \in Stores, LateStorePut(p, s) PROVE TypeOK'
  BY <1>4 DEF LateStorePut, PutSound
<1>5. ASSUME NEW s \in Stores, OnPut(p, s) PROVE TypeOK'
  BY <1>5 DEF OnPut, AddEntry, Entry, PutSound
<1>6. ASSUME NEW s \in Stores, OnPutFails(p, s) PROVE TypeOK'
  BY <1>6 DEF OnPutFails, Fault
<1>7. CASE PutCrash(p)
  BY <1>7 DEF PutCrash, Fault
<1>8. QED
  BY <1>1, <1>2, <1>3, <1>4, <1>5, <1>6, <1>7 DEF PutNext

LEMMA ReadType ==
  ASSUME BaseInv, NEW r \in Reads, ReadNext(r)
  PROVE  TypeOK'
<1> USE MultiplexAssumption DEF BaseInv, TypeOK, pvars, rvars, Answer, Result
<1>1. CASE \E k \in Keys : ReadStart(r, k)
  BY <1>1 DEF ReadStart, AckedKey
<1>2. ASSUME NEW s \in Stores, NEW a \in {"some", "none", "err"}, Answered(r, s, a)
      PROVE  ans' \in [Reads -> [Stores -> Answer]] /\ res' \in [Reads -> Result]
  BY <1>2 DEF Answered, Settle
<1>3. ASSUME NEW s \in Stores, ReadAnswer(r, s) PROVE TypeOK'
  <2> DEFINE a == IF rkey[r] \in blobs[s] THEN "some" ELSE "none"
  <2>1. a \in {"some", "none", "err"} /\ Answered(r, s, a)
    BY <1>3 DEF ReadAnswer
  <2>2. ans' \in [Reads -> [Stores -> Answer]] /\ res' \in [Reads -> Result]
    BY <2>1, <1>2
  <2>3. QED
    BY <1>3, <2>2 DEF ReadAnswer, Answered
<1>4. ASSUME NEW s \in Stores, ReadFails(r, s) PROVE TypeOK'
  <2>1. Answered(r, s, "err") /\ Fault
    BY <1>4 DEF ReadFails
  <2>2. ans' \in [Reads -> [Stores -> Answer]] /\ res' \in [Reads -> Result]
    BY <2>1, <1>2
  <2>3. QED
    BY <2>1, <2>2 DEF Answered, Fault
<1>5. CASE ReadQueue(r)
  BY <1>5 DEF ReadQueue
<1>6. CASE ReadQueueFails(r)
  BY <1>6 DEF ReadQueueFails, Fault
<1>7. QED
  BY <1>1, <1>3, <1>4, <1>5, <1>6 DEF ReadNext

\* Blobs only accumulate, so what is stored stays stored.
LEMMA PutSoundness ==
  ASSUME BaseInv, NEW p \in Puts, PutNext(p)
  PROVE  EntrySound' /\ PutSound' /\ (\A s \in Stores : blobs[s] \subseteq blobs'[s])
<1> USE MultiplexAssumption
    DEF BaseInv, TypeOK, EntrySound, PutSound, pvars, rvars, ReqState, Entry
<1>1. CASE \E k \in Keys : PutStart(p, k)
  BY <1>1 DEF PutStart
<1>2. CASE \E s \in Stores : StorePut(p, s)
  BY <1>2 DEF StorePut
<1>3. CASE \E s \in Stores : StorePutFails(p, s)
  BY <1>3 DEF StorePutFails
<1>4. CASE \E s \in Stores : LateStorePut(p, s)
  BY <1>4 DEF LateStorePut
<1>5. CASE \E s \in Stores : OnPut(p, s)
  BY <1>5 DEF OnPut, AddEntry
<1>6. CASE \E s \in Stores : OnPutFails(p, s)
  BY <1>6 DEF OnPutFails
<1>7. CASE PutCrash(p)
  BY <1>7 DEF PutCrash
<1>8. QED
  BY <1>1, <1>2, <1>3, <1>4, <1>5, <1>6, <1>7 DEF PutNext

\* A step of a put leaves every read as it is.
LEMMA PutBase ==
  ASSUME BaseInv, NEW p \in Puts, PutNext(p)
  PROVE  BaseInv'
<1>1. UNCHANGED rvars
  BY DEF PutNext, PutStart, StorePut, StorePutFails, LateStorePut, OnPut, OnPutFails,
         PutCrash
<1>2. ReadSound'
  BY <1>1, AckedStable, PutSoundness DEF ReadSound, BaseInv, TypeOK, rvars
<1>3. QED
  BY <1>2, PutType, PutSoundness DEF BaseInv

\* A step of a read changes nothing but that read.
LEMMA ReadBase ==
  ASSUME BaseInv, NEW r \in Reads, ReadNext(r)
  PROVE  BaseInv'
<1>1. UNCHANGED <<blobs, queue, nextId, pvars>>
  BY DEF ReadNext, ReadStart, ReadAnswer, ReadFails, Answered, ReadQueue, ReadQueueFails
<1>2. EntrySound' /\ PutSound'
  BY <1>1 DEF BaseInv, EntrySound, PutSound, pvars
<1>3. \A k : AckedKey(k)' = AckedKey(k)
  BY <1>1 DEF AckedKey, Acked, pvars
<1>4. ReadSound'
  <2> USE <1>1, <1>3 DEF BaseInv, TypeOK, ReadSound, pvars, rvars, Answer, Result
  <2>1. ASSUME NEW k \in Keys, ReadStart(r, k) PROVE ReadSound'
    <3>1. AckedKey(k) => \E s \in Stores : k \in blobs[s]
      BY DEF AckedKey, Acked, PutSound
    <3>2. QED
      BY <2>1, <3>1 DEF ReadStart
  <2>2. ASSUME NEW s \in Stores, ReadAnswer(r, s) PROVE ReadSound'
    BY <2>2 DEF ReadAnswer, Answered
  <2>3. ASSUME NEW s \in Stores, ReadFails(r, s) PROVE ReadSound'
    BY <2>3 DEF ReadFails, Answered
  <2>4. CASE ReadQueue(r) \/ ReadQueueFails(r)
    BY <2>4 DEF ReadQueue, ReadQueueFails
  <2>5. QED
    BY <2>1, <2>2, <2>3, <2>4 DEF ReadNext
<1>5. QED
  BY <1>2, <1>4, ReadType DEF BaseInv

-----------------------------------------------------------------------------
(* The blobstore without a healer *)

\* An acknowledged key has a row: on_put adds it before the request is done,
\* and no row is ever deleted.
LEMMA AckedInQueueStep ==
  ASSUME MultiplexInv, [Next]_vars
  PROVE  AckedInQueue'
<1> USE DEF MultiplexInv, AckedInQueue, EntriesOf
<1>1. queue \subseteq queue'
  BY DEF Next, PutNext, ReadNext, PutStart, StorePut, StorePutFails, LateStorePut, OnPut,
         OnPutFails, PutCrash, ReadStart, ReadAnswer, ReadFails, Answered, ReadQueue,
         ReadQueueFails, AddEntry, vars
<1>2. CASE UNCHANGED pvars
  BY <1>1, <1>2 DEF AckedKey, Acked, pvars
<1>3. ASSUME NEW p \in Puts, PutNext(p) PROVE AckedInQueue'
  BY <1>1, <1>3, AckOrigin, OnPutRow
<1>4. ASSUME NEW r \in Reads, ReadNext(r) PROVE UNCHANGED pvars
  BY <1>4 DEF ReadNext, ReadStart, ReadAnswer, ReadFails, Answered, ReadQueue, ReadQueueFails
<1>5. QED
  BY <1>2, <1>3, <1>4 DEF Next, vars

\* A read that must find its key is not answered None: not by the stores,
\* because one of them holds the blob, and not by the queue.
LEMMA GetAfterPutStep ==
  ASSUME MultiplexInv, [Next]_vars
  PROVE  GetAfterPut'
<1> USE DEF MultiplexInv, BaseInv, TypeOK, GetAfterPut, rvars
<1>1. CASE UNCHANGED rvars
  BY <1>1
<1>2. ASSUME NEW p \in Puts, PutNext(p) PROVE UNCHANGED rvars
  BY <1>2 DEF PutNext, PutStart, StorePut, StorePutFails, LateStorePut, OnPut, OnPutFails,
              PutCrash
<1>3. ASSUME NEW r \in Reads, ReadNext(r) PROVE GetAfterPut'
  <2>1. ASSUME NEW k \in Keys, ReadStart(r, k) PROVE GetAfterPut'
    BY <2>1 DEF ReadStart
  <2>2. ASSUME NEW s \in Stores, ReadAnswer(r, s) \/ ReadFails(r, s) PROVE GetAfterPut'
    <3>1. ReadSound'
      BY <1>3, ReadBase DEF BaseInv
    <3>2. ReadSound' /\ TypeOK'
      BY <1>3, <3>1, ReadType
    <3>3. res'[r] = Settle(ans'[r]) /\ \A q \in Reads \ {r} : res'[q] = res[q] /\ must'[q] = must[q]
      BY <2>2 DEF ReadAnswer, ReadFails, Answered
    <3>4. res'[r] = "none" => \A t \in Stores : ans'[r][t] = "none"
      BY <3>3 DEF Settle
    <3>5. QED
      BY <3>2, <3>3, <3>4 DEF ReadSound
  <2>3. CASE ReadQueue(r)
    BY <2>3 DEF ReadQueue, ReadSound, AckedInQueue
  <2>4. CASE ReadQueueFails(r)
    BY <2>4 DEF ReadQueueFails
  <2>5. QED
    BY <1>3, <2>1, <2>2, <2>3, <2>4 DEF ReadNext
<1>4. QED
  BY <1>1, <1>2, <1>3 DEF Next, vars

\* MultiplexInv is inductive.
THEOREM MultiplexInvariant == Spec => []MultiplexInv
<1>1. Init => MultiplexInv
  BY BaseInit DEF MultiplexInv, AckedInQueue, GetAfterPut, AckedKey, Acked, Init
<1>2. MultiplexInv /\ [Next]_vars => MultiplexInv'
  <2> SUFFICES ASSUME MultiplexInv, [Next]_vars PROVE MultiplexInv'
    OBVIOUS
  <2>1. BaseInv'
    <3>1. CASE UNCHANGED vars
      BY <3>1 DEF MultiplexInv, BaseInv, TypeOK, EntrySound, PutSound, ReadSound, AckedKey,
                  Acked, vars, pvars, rvars
    <3>2. QED
      BY <3>1, PutBase, ReadBase DEF Next, MultiplexInv
  <2>2. QED
    BY <2>1, AckedInQueueStep, GetAfterPutStep DEF MultiplexInv
<1>3. QED
  BY <1>1, <1>2, PTL DEF Spec

\* Guarantee 3 of the Blobstore trait, for MultiplexedBlobstore with no healer
\* at work: get and is_present never answer None for a key whose put had been
\* acknowledged before they began; and every row of the sync queue is true.
THEOREM GetAfterPutHolds == Spec => []GetAfterPut /\ []EntrySound /\ []TypeOK
<1>1. MultiplexInv => GetAfterPut /\ EntrySound /\ TypeOK
  BY DEF MultiplexInv, BaseInv
<1>2. QED
  BY <1>1, MultiplexInvariant, PTL
=============================================================================
