----------------------- MODULE CacheBlobstoreProofs -----------------------
(***************************************************************************)
(* The cache is never ahead of the store, and the cached blobstore keeps   *)
(* the promises of the trait Blobstore, for every number of clients and of *)
(* faults and for both layers.                                             *)
(***************************************************************************)
EXTENDS CacheBlobstore, TLAPS

\* A cold cache over a store with or without the value satisfies CacheInv.
LEMMA InitInv == Init => CacheInv
  <1> SUFFICES ASSUME Init PROVE CacheInv
    OBVIOUS
  <1>1. TypeOK
    <2>1. /\ store \in BOOLEAN /\ late \in BOOLEAN /\ issued \in BOOLEAN
          /\ blob \in BOOLEAN /\ lease \in BOOLEAN /\ down \in BOOLEAN
      BY Zenon DEF Init
    <2>2. faults \in 0..MaxFaults
      BY CacheAssumption DEF Init
    <2> QED BY <2>1, <2>2, Zenon DEF Init, TypeOK, Steps
  <1>2. CacheNeverAhead
    BY DEF Init, CacheNeverAhead
  <1>3. \A c \in Clients : CallSound(c)
    BY DEF Init, CallSound, PutSteps, GetSteps
  <1>4. late \/ store => issued
    BY DEF Init
  <1> QED BY <1>1, <1>2, <1>3, <1>4 DEF CacheInv

\* A step of one call that stays within the cache or asks the store
\* preserves CacheInv.
LEMMA ReadStep ==
  ASSUME CacheInv, NEW c \in Clients,
         \/ CheckPresence(c) \/ CheckBlob(c) \/ Wait(c)
         \/ CacheGet(c) \/ StoreGet(c) \/ StoreCheck(c)
  PROVE  CacheInv'
  <1> USE CacheAssumption DEF CacheInv, TypeOK, CacheNeverAhead, CallSound, Steps,
          PutSteps, GetSteps, Works, Fails, Fault, Goto, Return,
          store_vars, cache_vars, call_vars
  <1>1. CASE CheckPresence(c)
    BY <1>1 DEF CheckPresence, Present
  <1>2. CASE CheckBlob(c)
    BY <1>2 DEF CheckBlob, Present, NotPresent
  <1>3. CASE Wait(c)
    BY <1>3 DEF Wait
  <1>4. CASE CacheGet(c)
    BY <1>4 DEF CacheGet
  <1>5. CASE StoreGet(c)
    BY <1>5 DEF StoreGet
  <1>6. CASE StoreCheck(c)
    BY <1>6 DEF StoreCheck
  <1> QED BY <1>1, <1>2, <1>3, <1>4, <1>5, <1>6

\* A step of a put, from the lease to its release, preserves CacheInv.
LEMMA PutStep ==
  ASSUME CacheInv, NEW c \in Clients,
         \/ TryLease(c) \/ StorePut(c) \/ StorePutFails(c)
         \/ Release(c) \/ Unlease(c) \/ Finish(c)
  PROVE  CacheInv'
  <1> USE CacheAssumption DEF CacheInv, TypeOK, CacheNeverAhead, CallSound, Steps,
          PutSteps, GetSteps, Works, Fails, Fault, Goto, Return,
          store_vars, cache_vars, call_vars
  <1>1. CASE TryLease(c)
    <2>1. lease' \in BOOLEAN
      BY <1>1, Zenon DEF TryLease
    <2> QED BY <1>1, <2>1 DEF TryLease
  <1>2. CASE StorePut(c)
    BY <1>2 DEF StorePut
  <1>3. CASE StorePutFails(c)
    BY <1>3 DEF StorePutFails
  <1>4. CASE Release(c)
    <2>1. lease' \in BOOLEAN
      BY <1>4, Zenon DEF Release, ReleaseLease
    <2> QED BY <1>4, <2>1 DEF Release, ReleaseLease
  <1>5. CASE Unlease(c)
    <2>1. lease' \in BOOLEAN
      BY <1>5, Zenon DEF Unlease, ReleaseLease
    <2> QED BY <1>5, <2>1 DEF Unlease, ReleaseLease
  <1>6. CASE Finish(c)
    BY <1>6 DEF Finish
  <1> QED BY <1>1, <1>2, <1>3, <1>4, <1>5, <1>6

\* New calls, cache fills, dropped futures and the environment preserve
\* CacheInv.
LEMMA OtherStep ==
  ASSUME CacheInv,
         \/ \E c \in Clients, op \in {"put", "get", "is_present"} : Ask(c, op)
         \/ \E c \in Clients : Fill(c) \/ Drop(c)
         \/ LateWrite \/ Expire \/ Evict \/ CacheDies
  PROVE  CacheInv'
  <1> USE CacheAssumption DEF CacheInv, TypeOK, CacheNeverAhead, CallSound, Steps,
          PutSteps, GetSteps, Works, Fails, Fault, Goto, Return,
          store_vars, cache_vars, call_vars
  <1>1. ASSUME NEW c \in Clients, NEW op \in {"put", "get", "is_present"}, Ask(c, op)
        PROVE  CacheInv'
    BY <1>1 DEF Ask
  <1>2. ASSUME NEW c \in Clients, FillPresence(c) PROVE CacheInv'
    BY <1>2 DEF FillPresence
  <1>3. ASSUME NEW c \in Clients, FillBlob(c) PROVE CacheInv'
    <2>1. blob' \in BOOLEAN
      BY <1>3, Zenon DEF FillBlob
    <2> QED BY <1>3, <2>1 DEF FillBlob
  <1>4. ASSUME NEW c \in Clients, Drop(c) PROVE CacheInv'
    BY <1>4 DEF Drop
  <1>5. CASE LateWrite
    BY <1>5 DEF LateWrite
  <1>6. CASE Expire
    BY <1>6 DEF Expire
  <1>7. CASE Evict
    <2>1. blob' \in BOOLEAN
      BY <1>7, Zenon DEF Evict
    <2> QED BY <1>7, <2>1 DEF Evict
  <1>8. CASE CacheDies
    BY <1>8 DEF CacheDies
  <1> QED BY <1>1, <1>2, <1>3, <1>4, <1>5, <1>6, <1>7, <1>8 DEF Fill

\* Every step preserves CacheInv.
LEMMA NextInv == CacheInv /\ [Next]_vars => CacheInv'
  <1> SUFFICES ASSUME CacheInv, [Next]_vars PROVE CacheInv'
    OBVIOUS
  <1>1. CASE UNCHANGED vars
    BY <1>1 DEF vars, CacheInv, TypeOK, CacheNeverAhead, CallSound
  <1>2. CASE Next
    BY <1>2, ReadStep, PutStep, OtherStep DEF Next, Step
  <1> QED BY <1>1, <1>2

\* CacheInv holds in every reachable state.
THEOREM CacheInvariant == Spec => []CacheInv
  BY InitInv, NextInv, PTL DEF Spec

\* Presence known to the cache is presence in the store, however locks
\* expire, calls get lost and entries are evicted.
THEOREM CacheNeverAheadHolds == Spec => []CacheNeverAhead
  <1>1. CacheInv => CacheNeverAhead
    BY DEF CacheInv
  <1> QED BY <1>1, CacheInvariant, PTL
-----------------------------------------------------------------------------
\* A step of a call is a step of the contract, or changes nothing it sees.
LEMMA StepRefines ==
  ASSUME CacheInv, NEW c \in Clients, Step(c)
  PROVE  [Contract!CNext]_(Contract!cvars)
  <1> USE DEF CacheInv, TypeOK, CacheNeverAhead, CallSound, PutSteps, GetSteps,
          Works, Fails, Fault, Goto, Return, store_vars, cache_vars, call_vars,
          Contract!CNext, Contract!cvars, Contract!Answer, Contract!Answers,
          Contract!Allowed, Contract!Store
  <1>1. CASE TryLease(c)
    BY <1>1 DEF TryLease
  <1>2. CASE CheckPresence(c) \/ CheckBlob(c)
    BY <1>2 DEF CheckPresence, CheckBlob, Present, NotPresent
  <1>3. CASE Wait(c)
    BY <1>3 DEF Wait
  <1>4. CASE StorePut(c)
    BY <1>4 DEF StorePut
  <1>5. CASE StorePutFails(c)
    BY <1>5 DEF StorePutFails
  <1>6. CASE Release(c)
    BY <1>6 DEF Release, ReleaseLease
  <1>7. CASE Unlease(c)
    BY <1>7 DEF Unlease, ReleaseLease
  <1>8. CASE Finish(c)
    BY <1>8 DEF Finish
  <1>9. CASE CacheGet(c)
    BY <1>9 DEF CacheGet
  <1>10. CASE StoreGet(c) \/ StoreCheck(c)
    BY <1>10 DEF StoreGet, StoreCheck
  <1> QED BY <1>1, <1>2, <1>3, <1>4, <1>5, <1>6, <1>7, <1>8, <1>9, <1>10 DEF Step

\* So is every other step.
LEMMA NextRefines ==
  ASSUME CacheInv, [Next]_vars
  PROVE  [Contract!CNext]_(Contract!cvars)
  <1> USE DEF CacheInv, TypeOK, CallSound, Fault, Goto, Return, store_vars,
          cache_vars, call_vars, Contract!CNext, Contract!cvars
  <1>1. ASSUME NEW c \in Clients, NEW op \in {"put", "get", "is_present"}, Ask(c, op)
        PROVE  Contract!CNext
    BY <1>1 DEF Ask, Contract!Ask, Contract!Calls
  <1>2. ASSUME NEW c \in Clients, Fill(c) PROVE UNCHANGED Contract!cvars
    BY <1>2 DEF Fill, FillPresence, FillBlob
  <1>3. ASSUME NEW c \in Clients, Drop(c) PROVE Contract!CNext
    BY <1>3 DEF Drop, Contract!Answer, Contract!Answers, Contract!Allowed
  <1>4. CASE LateWrite
    BY <1>4 DEF LateWrite, Contract!Store
  <1>5. CASE Expire \/ Evict \/ CacheDies
    BY <1>5 DEF Expire, Evict, CacheDies
  <1>6. CASE UNCHANGED vars
    BY <1>6 DEF vars
  <1> QED BY <1>1, <1>2, <1>3, <1>4, <1>5, <1>6, StepRefines DEF Next

\* The cached blobstore implements the trait's contract.
THEOREM CacheImplementsContract == Spec => ImplementsContract
  <1>1. Init => Contract!CInit
    BY DEF Init, Contract!CInit
  <1> QED BY <1>1, CacheInvariant, NextRefines, PTL
          DEF Spec, ImplementsContract, Contract!CSpec
=============================================================================
