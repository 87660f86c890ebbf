------------------------ MODULE MultiplexedBlobstore ------------------------
(***************************************************************************)
(* MultiplexedBlobstore (blobstore/multiplexedblob): one logical blobstore *)
(* over several underlying ones, plus the SQL table blobstore_sync_queue   *)
(* that records which underlying store is known to hold which key.         *)
(*                                                                         *)
(* A put writes to every store at once and succeeds with the first store   *)
(* whose write AND queue insertion succeeded; the other requests carry on  *)
(* in the background.  A get (or is_present) asks every store and, when    *)
(* some stores failed and all others said None, asks the queue.            *)
(*                                                                         *)
(* A key names one value for ever (Blobstore, blobstore/src/lib.rs), so a  *)
(* store is the set of keys it holds.                                      *)
(***************************************************************************)
EXTENDS Naturals, FiniteSets

CONSTANTS Stores,       \* the BlobstoreIds of the configuration
          Keys,         \* blobstore keys
          NoKey,        \* the key of an operation that has not begun
          Puts,         \* put operations, each used once
          Reads,        \* get and is_present operations, each used once
          MaxFaults     \* bound: how many store or queue requests may fail

ASSUME MultiplexAssumption ==
  /\ Stores # {}
  /\ NoKey \notin Keys
  /\ MaxFaults \in Nat

VARIABLES blobs,    \* [Stores -> SUBSET Keys]: what each store holds
          queue,    \* rows of blobstore_sync_queue
          nextId,   \* its AUTOINCREMENT counter
          pkey,     \* per put, the key (NoKey before it begins)
          req,      \* per put, the state of its request to each store
          rkey,     \* per read, the key
          ans,      \* per read, what each store has answered
          res,      \* per read, its state and result
          must,     \* per read: was the key acknowledged when it began?
          faults    \* faults so far

pvars == <<pkey, req>>
rvars == <<rkey, ans, res, must>>
vars == <<blobs, queue, nextId, pvars, rvars, faults>>

\* A row.  age is its add_timestamp relative to the healer's deadline
\* (two minutes ago): 0 younger, 1 the very second of the deadline, 2 older.
Entry == [id : Nat, key : Keys, store : Stores, age : 0..2]

\* One request of a put.  "stored": the store has written, on_put is still
\* to come.  "lost": failed or timed out, the write may still land.
ReqState == {"idle", "sent", "stored", "lost", "done", "failed"}

Answer == {"idle", "pending", "some", "none", "err"}
Result == {"idle", "running", "queue", "some", "none", "err"}

(***************************************************************************)
(* What the caller of a put has been told.  select_ok: success with the    *)
(* first request that is done, an error once no request can succeed.       *)
(***************************************************************************)
Acked(p) == \E s \in Stores : req[p][s] = "done"
PutErr(p) == \A s \in Stores : req[p][s] \in {"lost", "failed"}
AckedKey(k) == \E p \in Puts : pkey[p] = k /\ Acked(p)

EntriesOf(k) == {e \in queue : e.key = k}

Init ==
  /\ blobs = [s \in Stores |-> {}]
  /\ queue = {}
  /\ nextId = 1
  /\ pkey = [p \in Puts |-> NoKey]
  /\ req = [p \in Puts |-> [s \in Stores |-> "idle"]]
  /\ rkey = [r \in Reads |-> NoKey]
  /\ ans = [r \in Reads |-> [s \in Stores |-> "idle"]]
  /\ res = [r \in Reads |-> "idle"]
  /\ must = [r \in Reads |-> FALSE]
  /\ faults = 0

Fault == faults < MaxFaults /\ faults' = faults + 1

-----------------------------------------------------------------------------
(* put *)

\* put() sends the blob to every store.
PutStart(p, k) ==
  /\ pkey[p] = NoKey
  /\ pkey' = [pkey EXCEPT ![p] = k]
  /\ req' = [req EXCEPT ![p] = [s \in Stores |-> "sent"]]
  /\ UNCHANGED <<blobs, queue, nextId, rvars, faults>>

\* Store s has written the blob and says so.
StorePut(p, s) ==
  /\ req[p][s] = "sent"
  /\ blobs' = [blobs EXCEPT ![s] = @ \cup {pkey[p]}]
  /\ req' = [req EXCEPT ![p][s] = "stored"]
  /\ UNCHANGED <<pkey, queue, nextId, rvars, faults>>

\* The request fails or exceeds REQUEST_TIMEOUT: its future is dropped.
StorePutFails(p, s) ==
  /\ req[p][s] = "sent"
  /\ Fault
  /\ req' = [req EXCEPT ![p][s] = "lost"]
  /\ UNCHANGED <<pkey, blobs, queue, nextId, rvars>>

\* The write of a request that was given up reaches the store after all.
LateStorePut(p, s) ==
  /\ req[p][s] = "lost"
  /\ blobs' = [blobs EXCEPT ![s] = @ \cup {pkey[p]}]
  /\ req' = [req EXCEPT ![p][s] = "failed"]
  /\ UNCHANGED <<pkey, queue, nextId, rvars, faults>>

\* SqlBlobstoreSyncQueue::add.  The table has no key but its id, so the
\* INSERT OR IGNORE always inserts.
AddEntry(k, s) ==
  /\ queue' = queue \cup {[id |-> nextId, key |-> k, store |-> s, age |-> 0]}
  /\ nextId' = nextId + 1

\* QueueBlobstorePutHandler::on_put, run after the store's success; only
\* with its success does the request count.
OnPut(p, s) ==
  /\ req[p][s] = "stored"
  /\ AddEntry(pkey[p], s)
  /\ req' = [req EXCEPT ![p][s] = "done"]
  /\ UNCHANGED <<pkey, blobs, rvars, faults>>

\* Mutant: a failing queue insertion is ignored.
OnPutFailsIgnored(p, s) ==
  /\ req[p][s] = "stored"
  /\ Fault
  /\ req' = [req EXCEPT ![p][s] = "done"]
  /\ UNCHANGED <<pkey, blobs, queue, nextId, rvars>>

\* The queue insertion fails: so does the request, though the blob is there.
OnPutFails(p, s) ==
  /\ req[p][s] = "stored"
  /\ Fault
  /\ req' = [req EXCEPT ![p][s] = "failed"]
  /\ UNCHANGED <<pkey, blobs, queue, nextId, rvars>>

\* The server process dies with requests of p in flight: those sent may still
\* land, those stored will never be put in the queue.
PutCrash(p) ==
  /\ \E s \in Stores : req[p][s] \in {"sent", "stored"}
  /\ Fault
  /\ req' = [req EXCEPT ![p] = [s \in Stores |->
               CASE @[s] = "sent" -> "lost"
                 [] @[s] = "stored" -> "failed"
                 [] OTHER -> @[s]]]
  /\ UNCHANGED <<pkey, blobs, queue, nextId, rvars>>

-----------------------------------------------------------------------------
(* get and is_present *)

ReadStart(r, k) ==
  /\ res[r] = "idle"
  /\ rkey' = [rkey EXCEPT ![r] = k]
  /\ ans' = [ans EXCEPT ![r] = [s \in Stores |-> "pending"]]
  /\ res' = [res EXCEPT ![r] = "running"]
  /\ must' = [must EXCEPT ![r] = AckedKey(k)]
  /\ UNCHANGED <<blobs, queue, nextId, pvars, faults>>

\* Mutant: one None among errors is taken for the answer.
SettleEager(a) ==
  CASE \E s \in Stores : a[s] = "some" -> "some"
    [] \E s \in Stores : a[s] = "pending" -> "running"
    [] \A s \in Stores : a[s] = "err" -> "err"
    [] OTHER -> "none"

\* The select_all loop after one more answer: Some ends it; with the last
\* answer, no error means None, all errors AllFailed, a mixture is settled
\* by the queue.
Settle(a) ==
  CASE \E s \in Stores : a[s] = "some" -> "some"
    [] \E s \in Stores : a[s] = "pending" -> "running"
    [] \A s \in Stores : a[s] = "none" -> "none"
    [] \A s \in Stores : a[s] = "err" -> "err"
    [] OTHER -> "queue"

Answered(r, s, a) ==
  /\ res[r] = "running"
  /\ ans[r][s] = "pending"
  /\ ans' = [ans EXCEPT ![r][s] = a]
  /\ res' = [res EXCEPT ![r] = Settle(ans'[r])]
  /\ UNCHANGED <<rkey, must, blobs, queue, nextId, pvars>>

\* Store s answers with what it holds at that moment.
ReadAnswer(r, s) ==
  /\ Answered(r, s, IF rkey[r] \in blobs[s] THEN "some" ELSE "none")
  /\ UNCHANGED faults

\* Store s fails; a get also fails when REQUEST_TIMEOUT passes.
ReadFails(r, s) == Fault /\ Answered(r, s, "err")

\* Some stores failed and the others returned None: no row for the key means
\* a true None, otherwise the only replica holding it has failed.
ReadQueue(r) ==
  /\ res[r] = "queue"
  /\ res' = [res EXCEPT ![r] =
                IF EntriesOf(rkey[r]) = {} THEN "none" ELSE "err"]
  /\ UNCHANGED <<rkey, ans, must, blobs, queue, nextId, pvars, faults>>

ReadQueueFails(r) ==
  /\ res[r] = "queue"
  /\ Fault
  /\ res' = [res EXCEPT ![r] = "err"]
  /\ UNCHANGED <<rkey, ans, must, blobs, queue, nextId, pvars>>

-----------------------------------------------------------------------------
PutNext(p) ==
  \/ \E k \in Keys : PutStart(p, k)
  \/ \E s \in Stores : \/ StorePut(p, s) \/ StorePutFails(p, s)
                       \/ LateStorePut(p, s)
                       \/ OnPut(p, s) \/ OnPutFails(p, s)
  \/ PutCrash(p)

ReadNext(r) ==
  \/ \E k \in Keys : ReadStart(r, k)
  \/ \E s \in Stores : ReadAnswer(r, s) \/ ReadFails(r, s)
  \/ ReadQueue(r)
  \/ ReadQueueFails(r)

Next == (\E p \in Puts : PutNext(p)) \/ (\E r \in Reads : ReadNext(r))

Spec == Init /\ [][Next]_vars

-----------------------------------------------------------------------------
TypeOK ==
  /\ blobs \in [Stores -> SUBSET Keys]
  /\ queue \in SUBSET Entry
  /\ nextId \in Nat
  /\ pkey \in [Puts -> Keys \cup {NoKey}]
  /\ req \in [Puts -> [Stores -> ReqState]]
  /\ rkey \in [Reads -> Keys \cup {NoKey}]
  /\ ans \in [Reads -> [Stores -> Answer]]
  /\ res \in [Reads -> Result]
  /\ must \in [Reads -> BOOLEAN]
  /\ faults \in Nat

\* Every row of the sync queue tells the truth: the store it names holds the
\* key (on_put runs only after the store's own put has succeeded).
EntrySound == \A e \in queue : e.key \in blobs[e.store]

\* Guarantee 3 of the Blobstore trait: a read that began after a put of its
\* key was acknowledged never answers None (it may fail).
GetAfterPut == \A r \in Reads : res[r] = "none" => ~must[r]

-----------------------------------------------------------------------------
(* The inductive invariant *)

\* A request that got past its store has left the blob there.
PutSound ==
  \A p \in Puts, s \in Stores :
    /\ req[p][s] # "idle" => pkey[p] \in Keys
    /\ req[p][s] \in {"stored", "done"} => pkey[p] \in blobs[s]

\* A read that must find its key still has a store that can tell it so.
ReadSound ==
  \A r \in Reads :
    /\ res[r] # "idle" => rkey[r] \in Keys
    /\ must[r] =>
         /\ AckedKey(rkey[r])
         /\ \E s \in Stores : rkey[r] \in blobs[s] /\ ans[r][s] # "none"

\* Shared by the blobstore alone and the blobstore with its healer.
BaseInv == TypeOK /\ EntrySound /\ PutSound /\ ReadSound

\* As long as no row is ever deleted, an acknowledged key has one.
AckedInQueue == \A k \in Keys : AckedKey(k) => EntriesOf(k) # {}

MultiplexInv == BaseInv /\ AckedInQueue /\ GetAfterPut
=============================================================================
