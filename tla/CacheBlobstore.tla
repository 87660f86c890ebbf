-------------------------- MODULE CacheBlobstore --------------------------
(***************************************************************************)
(* CacheBlobstore (blobstore/cacheblob): a cache of blob contents and blob *)
(* presence in front of a blobstore, with a lease that keeps the users of  *)
(* the cache from writing the same blob at the same time.  The variable    *)
(* layer is one of the two layers the server stacks:                       *)
(*   "memcache"  MemcacheOps as cache and as lease.  The lock and the      *)
(*               presence bit share one memcache key, locks have a TTL,    *)
(*               and clients are tasks of any number of hosts;             *)
(*   "cachelib"  CachelibOps with InProcessLease: clients are tasks of one *)
(*               process, and the lease is a map entry without a timeout.  *)
(* One key is modelled, since keys share nothing.  The store behind the    *)
(* cache is any blobstore that keeps the trait's promises.                 *)
(***************************************************************************)
EXTENDS Naturals, FiniteSets

CONSTANTS
    Clients,      \* tasks that call the blobstore
    MaxFaults,    \* bound on lost cache calls, evictions, errors and drops
    DropLayers    \* the layers on which the future of a put may be dropped

ASSUME CacheAssumption ==
    /\ MaxFaults \in Nat
    /\ DropLayers \subseteq {"memcache", "cachelib"}

VARIABLES
    layer,   \* "memcache" or "cachelib"
    store,   \* does the blobstore behind the cache have the value?
    late,    \* a failed or dropped store put may still take effect
    issued,  \* has a put been called?
    slot,    \* the presence key: "empty", "locked" or "uploaded"
    blob,    \* is a copy of the value in the cache?
    lease,   \* InProcessLease: is there an entry for the key?
    pc,      \* pc[c]: where the call of c stands
    fill,    \* fill[c]: progress of c's CacheOps::put
    call, missing, answer,  \* as in BlobstoreContract
    down,    \* the cache has stopped answering
    faults

store_vars == <<store, late>>
cache_vars == <<slot, blob, lease>>
call_vars == <<call, missing, answer, issued>>
vars == <<layer, store, late, issued, slot, blob, lease, pc, fill, call, missing, answer, down, faults>>

Steps == {"idle", "lease", "check", "check_blob", "wait", "waiting", "store",
          "release", "unlease", "finish", "cache_get", "store_get", "store_check"}

\* The type invariant.
TypeOK ==
    /\ store \in BOOLEAN /\ late \in BOOLEAN /\ issued \in BOOLEAN
    /\ slot \in {"empty", "locked", "uploaded"}
    /\ blob \in BOOLEAN /\ lease \in BOOLEAN
    /\ pc \in [Clients -> Steps]
    /\ fill \in [Clients -> {"none", "presence", "blob"}]
    /\ call \in [Clients -> {"none", "put", "get", "is_present"}]
    /\ missing \in [Clients -> BOOLEAN]
    /\ answer \in [Clients -> {"none", "ok", "some", "absent", "error"}]
    /\ down \in BOOLEAN
    /\ faults \in 0..MaxFaults

\* The cache starts cold over a store that may have the value already.
Init ==
    /\ layer \in {"memcache", "cachelib"}
    /\ store \in BOOLEAN
    /\ late = FALSE
    /\ issued = store
    /\ slot = "empty" /\ blob = FALSE /\ lease = FALSE
    /\ pc = [c \in Clients |-> "idle"]
    /\ fill = [c \in Clients |-> "none"]
    /\ call = [c \in Clients |-> "none"]
    /\ missing = [c \in Clients |-> FALSE]
    /\ answer = [c \in Clients |-> "none"]
    /\ down = FALSE
    /\ faults = 0
-----------------------------------------------------------------------------
(* Calls to the cache: each one works, or returns an error. *)

Fault == faults < MaxFaults /\ faults' = faults + 1
Works == ~down /\ UNCHANGED faults
Fails == Fault \/ (down /\ UNCHANGED faults)

Goto(c, step) == pc' = [pc EXCEPT ![c] = step]

Return(c, a) ==
    /\ pc' = [pc EXCEPT ![c] = "idle"]
    /\ call' = [call EXCEPT ![c] = "none"]
    /\ answer' = [answer EXCEPT ![c] = a]
    /\ UNCHANGED <<missing, issued>>

Ask(c, op) ==
    /\ pc[c] = "idle"
    /\ fill[c] = "none"   \* bound: one detached CacheOps::put per client
    /\ call' = [call EXCEPT ![c] = op]
    /\ missing' = [missing EXCEPT ![c] = ~store]
    /\ answer' = [answer EXCEPT ![c] = "none"]
    /\ issued' = (issued \/ op = "put")
    /\ Goto(c, CASE op = "put" -> "lease"
                 [] op = "get" -> "cache_get"
                 [] op = "is_present" -> "check")
    /\ UNCHANGED <<store_vars, cache_vars, fill, down, faults>>
-----------------------------------------------------------------------------
(* put: take_put_lease, the store's put, then cache fill and release. *)

\* LeaseOps::try_add_put_lease; an error counts as "not leased", although
\* the memcache add may have taken effect.
TryLease(c) ==
    /\ pc[c] = "lease"
    /\ \/ /\ layer = "cachelib"
          /\ Goto(c, IF lease THEN "check" ELSE "store")
          /\ lease' = TRUE
          /\ UNCHANGED <<slot, faults>>
       \/ /\ layer = "memcache"
          /\ Works
          /\ Goto(c, IF slot = "empty" THEN "store" ELSE "check")
          /\ slot' = IF slot = "empty" THEN "locked" ELSE slot
          /\ UNCHANGED lease
       \/ /\ layer = "memcache"
          /\ Fails
          /\ Goto(c, "check")
          /\ slot' \in {slot} \cup (IF slot = "empty" /\ ~down THEN {"locked"} ELSE {})
          /\ UNCHANGED lease
    /\ UNCHANGED <<store_vars, blob, fill, call_vars, down>>

\* What CacheOps::check_present leads to: a put is done when the value is
\* known to be present and waits otherwise, is_present asks the store.
Present(c) == Return(c, IF call[c] = "put" THEN "ok" ELSE "some")
NotPresent(c) ==
    /\ Goto(c, IF call[c] = "put" THEN "wait" ELSE "store_check")
    /\ UNCHANGED call_vars

\* Mutant: a lock is taken for presence.
CheckPresenceAnyState(c) ==
    /\ pc[c] = "check"
    /\ Works
    /\ IF slot # "empty" THEN Present(c) ELSE Goto(c, "check_blob") /\ UNCHANGED call_vars
    /\ UNCHANGED <<store_vars, cache_vars, fill, down>>

\* check_present looks at the presence key first; an error there is a miss.
CheckPresence(c) ==
    /\ pc[c] = "check"
    /\ \/ Works /\ slot = "uploaded" /\ Present(c)
       \/ /\ (Works /\ slot # "uploaded") \/ Fails
          /\ Goto(c, "check_blob")
          /\ UNCHANGED call_vars
    /\ UNCHANGED <<store_vars, cache_vars, fill, down>>

\* ... and then at the cached blob.
CheckBlob(c) ==
    /\ pc[c] = "check_blob"
    /\ \/ Works /\ blob /\ Present(c)
       \/ ((Works /\ ~blob) \/ Fails) /\ NotPresent(c)
    /\ UNCHANGED <<store_vars, cache_vars, fill, down>>

\* Mutant: poll the presence key, and never ask for the lease again unless
\* another writer has succeeded.
WaitForUpload(c) ==
    /\ pc[c] = "wait"
    /\ Goto(c, IF slot = "uploaded" THEN "lease" ELSE "wait")
    /\ UNCHANGED <<store_vars, cache_vars, fill, call_vars, down, faults>>

\* wait_for_other_leases: a timer for memcache; InProcessLease waits for the
\* release of the lease it finds, if it finds one.
Wait(c) ==
    /\ pc[c] = "wait"
    /\ Goto(c, IF layer = "cachelib" /\ lease THEN "waiting" ELSE "lease")
    /\ UNCHANGED <<store_vars, cache_vars, fill, call_vars, down, faults>>

\* release_lease(put_success): InProcessLease removes the entry and wakes
\* everyone who waits for it; memcache sets or deletes the presence key,
\* whoever holds the lock by then, and the call may get lost.
ReleaseLease(c, success, next) ==
    \/ /\ layer = "cachelib"
       /\ lease' = FALSE
       /\ pc' = [d \in Clients |-> IF d = c THEN next
                                   ELSE IF pc[d] = "waiting" THEN "lease" ELSE pc[d]]
       /\ UNCHANGED <<slot, faults>>
    \/ /\ layer = "memcache"
       /\ \/ Works /\ slot' = (IF success THEN "uploaded" ELSE "empty")
          \/ Fails /\ UNCHANGED slot
       /\ Goto(c, next)
       /\ UNCHANGED lease

\* The store's put succeeds, and the cache is told.
StorePut(c) ==
    /\ pc[c] = "store"
    /\ store' = TRUE
    /\ Goto(c, "release")
    /\ fill' = [fill EXCEPT ![c] = "presence"]
    /\ UNCHANGED <<late, cache_vars, call_vars, down, faults>>

\* The store's put fails; what it wrote may still arrive.
StorePutFails(c) ==
    /\ pc[c] = "store"
    /\ Fault
    /\ late' = TRUE
    /\ Goto(c, "unlease")
    /\ UNCHANGED <<store, cache_vars, fill, call_vars, down>>

LateWrite ==
    /\ late
    /\ store' = TRUE
    /\ late' = FALSE
    /\ UNCHANGED <<cache_vars, pc, fill, call_vars, down, faults>>

\* Cache fill and release are joined: memcache answers in any order, while
\* cachelib's put is done when it returns, before the lease is touched.
Release(c) ==
    /\ pc[c] = "release"
    /\ layer = "cachelib" => fill[c] = "none"
    /\ ReleaseLease(c, TRUE, "finish")
    /\ UNCHANGED <<store_vars, blob, fill, call_vars, down>>

Finish(c) ==
    /\ pc[c] = "finish"
    /\ fill[c] = "none"
    /\ Return(c, "ok")
    /\ UNCHANGED <<store_vars, cache_vars, fill, down, faults>>

\* Mutant: the failure path passes put_success = true.
UnleaseAsSuccess(c) ==
    /\ pc[c] = "unlease"
    /\ ReleaseLease(c, TRUE, "idle")
    /\ call' = [call EXCEPT ![c] = "none"]
    /\ answer' = [answer EXCEPT ![c] = "error"]
    /\ UNCHANGED <<store_vars, blob, fill, missing, issued, down>>

Unlease(c) ==
    /\ pc[c] = "unlease"
    /\ ReleaseLease(c, FALSE, "idle")
    /\ call' = [call EXCEPT ![c] = "none"]
    /\ answer' = [answer EXCEPT ![c] = "error"]
    /\ UNCHANGED <<store_vars, blob, fill, missing, issued, down>>

\* CacheOps::put: the presence key first, then the blob.  Either write may
\* be refused, and a blob above MEMCACHE_MAX_SIZE is not written.
FillPresence(c) ==
    /\ fill[c] = "presence"
    /\ \/ Works /\ slot' = "uploaded"
       \/ Fails /\ UNCHANGED slot
    /\ fill' = [fill EXCEPT ![c] = "blob"]
    /\ UNCHANGED <<store_vars, blob, lease, pc, call_vars, down>>

FillBlob(c) ==
    /\ fill[c] = "blob"
    /\ \/ Works /\ blob' = TRUE
       \/ Fails /\ UNCHANGED blob
    /\ fill' = [fill EXCEPT ![c] = "none"]
    /\ UNCHANGED <<store_vars, slot, lease, pc, call_vars, down>>
-----------------------------------------------------------------------------
(* get and is_present. *)

CacheGet(c) ==
    /\ pc[c] = "cache_get"
    /\ \/ Works /\ blob /\ Return(c, "some")
       \/ /\ (Works /\ ~blob) \/ Fails
          /\ Goto(c, "store_get")
          /\ UNCHANGED call_vars
    /\ UNCHANGED <<store_vars, cache_vars, fill, down>>

\* A value read from the store is given to the cache by a detached task.
StoreGet(c) ==
    /\ pc[c] = "store_get"
    /\ \/ /\ Return(c, IF store THEN "some" ELSE "absent")
          /\ fill' = [fill EXCEPT ![c] = IF store THEN "presence" ELSE "none"]
          /\ UNCHANGED faults
       \/ Fault /\ Return(c, "error") /\ UNCHANGED fill
    /\ UNCHANGED <<store_vars, cache_vars, down>>

StoreCheck(c) ==
    /\ pc[c] = "store_check"
    /\ \/ Return(c, IF store THEN "some" ELSE "absent") /\ UNCHANGED faults
       \/ Fault /\ Return(c, "error")
    /\ UNCHANGED <<store_vars, cache_vars, fill, down>>
-----------------------------------------------------------------------------
(* The environment. *)

\* The future of a call is dropped: nothing releases what it holds, and a
\* store put it had started may still arrive.
Drop(c) ==
    /\ layer \in DropLayers
    /\ pc[c] # "idle"
    /\ Fault
    /\ late' = (late \/ pc[c] = "store")
    /\ fill' = [fill EXCEPT ![c] = "none"]
    /\ Return(c, "error")
    /\ UNCHANGED <<store, cache_vars, down>>

\* A memcache lock outlives its TTL of 10 seconds.
Expire ==
    /\ slot = "locked"
    /\ slot' = "empty"
    /\ UNCHANGED <<store_vars, blob, lease, pc, fill, call_vars, down, faults>>

Evict ==
    /\ Fault
    /\ \/ slot = "uploaded" /\ slot' = "empty" /\ UNCHANGED blob
       \/ blob /\ blob' = FALSE /\ UNCHANGED slot
    /\ UNCHANGED <<store_vars, lease, pc, fill, call_vars, down>>

CacheDies ==
    /\ ~down
    /\ down' = TRUE
    /\ UNCHANGED <<store_vars, cache_vars, pc, fill, call_vars, faults>>

Step(c) ==
    \/ TryLease(c) \/ CheckPresence(c) \/ CheckBlob(c) \/ Wait(c)
    \/ StorePut(c) \/ StorePutFails(c) \/ Release(c) \/ Unlease(c) \/ Finish(c)
    \/ CacheGet(c) \/ StoreGet(c) \/ StoreCheck(c)

Fill(c) == FillPresence(c) \/ FillBlob(c)

Next ==
    /\ \/ \E c \in Clients, op \in {"put", "get", "is_present"} : Ask(c, op)
       \/ \E c \in Clients : Step(c) \/ Fill(c) \/ Drop(c)
       \/ LateWrite \/ Expire \/ Evict \/ CacheDies
    /\ UNCHANGED layer

Spec == Init /\ [][Next]_vars

\* The executor polls every task that can make progress, and locks expire.
Fairness ==
    /\ \A c \in Clients : WF_vars(Step(c) /\ UNCHANGED layer) /\ WF_vars(Fill(c) /\ UNCHANGED layer)
    /\ WF_vars(Expire /\ UNCHANGED layer)

FairSpec == Spec /\ Fairness
-----------------------------------------------------------------------------
(* Properties. *)

\* The cache is never ahead of the store: an entry in the Present or Known
\* state means that the store has the value, although locks expire under
\* their holder and a release hits whatever the presence key holds by then.
CacheNeverAhead == slot = "uploaded" \/ blob => store

PutSteps == {"lease", "wait", "waiting", "store", "release", "unlease", "finish"}
GetSteps == {"cache_get", "store_get"}

\* What every step of a call knows: the store has the value once it has to
\* be released as a success or given to the cache, and a call that still
\* finds the store without the value has found it so from its start.
CallSound(c) ==
    /\ pc[c] = "idle" <=> call[c] = "none"
    /\ pc[c] \in PutSteps => call[c] = "put"
    /\ pc[c] \in GetSteps => call[c] = "get"
    /\ pc[c] = "store_check" => call[c] = "is_present"
    /\ pc[c] \in {"check", "check_blob"} => call[c] \in {"put", "is_present"}
    /\ call[c] = "put" => issued
    /\ pc[c] \in {"release", "finish"} => store
    /\ fill[c] # "none" => store
    /\ call[c] # "none" /\ ~store => missing[c]

\* The inductive invariant: types, the cache is never ahead of the store,
\* every call knows what its step requires, and only puts write.
CacheInv ==
    /\ TypeOK
    /\ CacheNeverAhead
    /\ \A c \in Clients : CallSound(c)
    /\ late \/ store => issued

Contract == INSTANCE BlobstoreContract WITH data <- store

\* With a cache that loses, delays and evicts, the blobstore still keeps the
\* promises of the trait: a put that returns Ok has stored the value, also
\* when it was skipped because the cache knew it, and no get misses it then.
ImplementsContract == Contract!CSpec

\* Every put returns, unless the cache stops answering: a lock whose holder
\* failed or is gone does not block the others for good.
PutReturns == \A c \in Clients : pc[c] = "lease" ~> (pc[c] = "idle" \/ down)
=============================================================================
