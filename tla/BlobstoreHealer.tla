-------------------------- MODULE BlobstoreHealer ---------------------------
(***************************************************************************)
(* The blobstore healer (cmds/blobstore_healer) beside the multiplexed     *)
(* blobstore it repairs.  In a loop, it reads a slice of the sync queue,   *)
(* copies every blob of the slice to the stores its rows do not name, and  *)
(* deletes the rows of the blobs that are now everywhere.  It runs in a    *)
(* process of its own, with no lock against the servers that put and get.  *)
(*                                                                         *)
(* The healer and the servers are configured with the same set of stores.  *)
(***************************************************************************)
EXTENDS MultiplexedBlobstore

CONSTANTS Limits,    \* what --sync-queue-limit may be, in distinct keys
          MaxRuns    \* bound: runs of consecutive rows one key may come in

ASSUME HealerAssumption == Limits \subseteq Nat \ {0} /\ MaxRuns \in Nat \ {0}

VARIABLES hpc,      \* "idle", "healing", "cleaning" or "stopped"
          groups,   \* heal_blob futures, each named by its group of rows
          left,     \* per future, the seen stores fetch_blob may still try
          fetched,  \* the futures that have the blob, or need not fetch it
          copy,     \* per future and store, how far healing that store is
          cleaned   \* rows being deleted by cleanup_after_healing

tvars == <<groups, left, fetched, copy>>
hvars == <<hpc, tvars, cleaned>>
allvars == <<vars, hvars>>

\* "seen" in the rows of the group; or the state of the healing put and of the
\* row that report_partial_heal adds for it.
Copy == {"seen", "todo", "ok", "err", "reported"}

KeyOf(g) == (CHOOSE e \in g : TRUE).key
Seen(g) == {e.store : e \in g}

HInit ==
  /\ Init
  /\ hpc = "idle"
  /\ groups = {} /\ left = [g \in {} |-> {}] /\ fetched = {} /\ copy = [g \in {} |-> {}]
  /\ cleaned = {}

\* The heal_blob futures are gone.
ClearTasks ==
  groups' = {} /\ left' = [g \in {} |-> {}] /\ fetched' = {} /\ copy' = [g \in {} |-> {}]

-----------------------------------------------------------------------------
(* heal: read a slice of the queue *)

\* GetRangeOfEntries: up to the limit, keys with a row at or past the deadline,
\* chosen in no particular order.  Every round may have its own limit, which
\* includes the rounds of a process, all with the one it was started with.
Slices ==
  LET old == {e.key : e \in {x \in queue : x.age >= 1}} IN
  {K \in SUBSET old : \E limit \in Limits :
                        \/ Cardinality(K) = limit
                        \/ Cardinality(K) < limit /\ K = old}

\* group_by on the rows: they come in no particular order, so the rows of a
\* key may fall into several runs when another key's rows come in between.
Rows(K) == {e \in queue : e.key \in K}
GroupBy(K, run) ==
  {{e \in Rows(K) : e.key = k /\ run[e] = i} : k \in K, i \in 1..MaxRuns} \ {{}}
Groupings(K) ==
  {GroupBy(K, run) : run \in {h \in [Rows(K) -> 1..MaxRuns] :
                               Cardinality(K) > 1 \/ \A e \in Rows(K) : h[e] = 1}}

\* heal_blob ignores a group none of whose rows is strictly older than the
\* deadline, unless it names every store and there is nothing left to do.
Eligible(g) == Seen(g) = Stores \/ \E e \in g : e.age = 2

HealStart ==
  /\ hpc = "idle"
  /\ \E K \in Slices : \E G \in Groupings(K) : groups' = {g \in G : Eligible(g)}
  /\ left' = [g \in groups' |-> Seen(g)]
  /\ fetched' = {g \in groups' : Seen(g) = Stores}
  /\ copy' = [g \in groups' |->
                [s \in Stores |-> IF s \in Seen(g) THEN "seen" ELSE "todo"]]
  /\ hpc' = "healing"
  /\ UNCHANGED <<vars, cleaned>>

\* The query fails: heal() returns an error, which ends
\* schedule_everlasting_healing and with it the process.
HealStartFails ==
  /\ hpc = "idle"
  /\ Fault
  /\ hpc' = "stopped"
  /\ UNCHANGED <<blobs, queue, nextId, pvars, rvars, tvars, cleaned>>

-----------------------------------------------------------------------------
(* heal_blob: fetch the blob, put it where it is missing.  The rate limiter's *)
(* worker runs these futures even after heal() has returned an error.         *)

\* An error of one future is the error of heal().
Stop == hpc' = "stopped"

\* fetch_blob asks seen store s.  None "even though it should contain data"
\* is an error.
Fetch(g, s) ==
  /\ g \notin fetched
  /\ s \in left[g]
  /\ IF KeyOf(g) \in blobs[s]
       THEN fetched' = fetched \cup {g} /\ UNCHANGED <<left, hpc>>
       ELSE left' = [left EXCEPT ![g] = {}] /\ Stop /\ UNCHANGED fetched
  /\ UNCHANGED <<vars, groups, copy, cleaned>>

\* Mutant: with no store left to try, the future never resolves.
FetchHangs(g, s) ==
  /\ g \notin fetched
  /\ s \in left[g]
  /\ Fault
  /\ left' = [left EXCEPT ![g] = @ \ {s}]
  /\ UNCHANGED <<blobs, queue, nextId, pvars, rvars, hpc, groups, fetched, copy, cleaned>>

\* Store s fails: the next one is tried, after the last one heal() fails.
FetchFails(g, s) ==
  /\ g \notin fetched
  /\ s \in left[g]
  /\ Fault
  /\ left' = [left EXCEPT ![g] = @ \ {s}]
  /\ IF left[g] = {s} THEN Stop ELSE UNCHANGED hpc
  /\ UNCHANGED <<blobs, queue, nextId, pvars, rvars, groups, fetched, copy, cleaned>>

HealPut(g, s) ==
  /\ g \in fetched
  /\ copy[g][s] = "todo"
  /\ blobs' = [blobs EXCEPT ![s] = @ \cup {KeyOf(g)}]
  /\ copy' = [copy EXCEPT ![g][s] = "ok"]
  /\ UNCHANGED <<queue, nextId, pvars, rvars, faults, hpc, groups, left, fetched, cleaned>>

\* The put fails, perhaps after having written.
HealPutFails(g, s) ==
  /\ g \in fetched
  /\ copy[g][s] = "todo"
  /\ Fault
  /\ \E landed \in {{}, {KeyOf(g)}} :
       blobs' = [blobs EXCEPT ![s] = @ \cup landed]
  /\ copy' = [copy EXCEPT ![g][s] = "err"]
  /\ UNCHANGED <<queue, nextId, pvars, rvars, hpc, groups, left, fetched, cleaned>>

\* Some store could not be healed: report_partial_heal adds a row for each
\* one that could, once all have answered.
Partial(g) ==
  /\ g \in fetched
  /\ \A s \in Stores : copy[g][s] # "todo"
  /\ \E s \in Stores : copy[g][s] = "err"

Report(g, s) ==
  /\ Partial(g)
  /\ copy[g][s] = "ok"
  /\ AddEntry(KeyOf(g), s)
  /\ copy' = [copy EXCEPT ![g][s] = "reported"]
  /\ UNCHANGED <<blobs, pvars, rvars, faults, hpc, groups, left, fetched, cleaned>>

ReportFails(g, s) ==
  /\ Partial(g)
  /\ copy[g][s] = "ok"
  /\ Fault
  /\ Stop
  /\ UNCHANGED <<blobs, queue, nextId, pvars, rvars, tvars, cleaned>>

-----------------------------------------------------------------------------
(* heal: delete the rows of the blobs that are everywhere *)

Healed(g) == g \in fetched /\ \A s \in Stores : copy[g][s] \in {"seen", "ok"}

Finished(g) ==
  Healed(g) \/ (Partial(g) /\ \A s \in Stores : copy[g][s] # "ok")

\* futures_unordered(..).collect() has every result: the rows of the groups
\* that are healed are to be deleted.
Collect ==
  /\ hpc = "healing"
  /\ \A g \in groups : Finished(g)
  /\ cleaned' = UNION {g \in groups : Healed(g)}
  /\ ClearTasks
  /\ hpc' = "cleaning"
  /\ UNCHANGED vars

\* SqlBlobstoreSyncQueue::del: one DELETE by id per row, in any order.  After
\* a failure the others may still be on their way.
Delete(e) ==
  /\ e \in cleaned
  /\ queue' = {x \in queue : x.id # e.id}
  /\ cleaned' = cleaned \ {e}
  /\ UNCHANGED <<blobs, nextId, pvars, rvars, faults, hpc, tvars>>

DeleteFails ==
  /\ hpc = "cleaning"
  /\ cleaned # {}
  /\ Fault
  /\ Stop
  /\ UNCHANGED <<blobs, queue, nextId, pvars, rvars, tvars, cleaned>>

HealDone ==
  /\ hpc = "cleaning"
  /\ cleaned = {}
  /\ hpc' = "idle"
  /\ UNCHANGED <<vars, tvars, cleaned>>

-----------------------------------------------------------------------------
(* The process and the clock *)

\* The process dies; puts in flight may still land, deletions may not.
HealerCrash ==
  /\ hpc # "stopped"
  /\ Fault
  /\ \E L \in SUBSET fetched :
       blobs' = [s \in Stores |->
                   blobs[s] \cup {KeyOf(g) : g \in {x \in L : copy[x][s] = "todo"}}]
  /\ hpc' = "stopped"
  /\ ClearTasks
  /\ cleaned' = {}
  /\ UNCHANGED <<queue, nextId, pvars, rvars>>

\* The process ends (runtime shutdown) and its supervisor starts it again.
HealerRestart ==
  /\ hpc = "stopped"
  /\ hpc' = "idle"
  /\ ClearTasks
  /\ cleaned' = {}
  /\ UNCHANGED vars

\* Time passes.  The servers' clocks differ, so rows age independently.
Age(e) ==
  /\ e \in queue
  /\ e.age < 2
  /\ queue' = (queue \ {e}) \cup {[e EXCEPT !.age = @ + 1]}
  /\ UNCHANGED <<blobs, nextId, pvars, rvars, faults, hvars>>

-----------------------------------------------------------------------------
TaskNext(g, s) ==
  \/ Fetch(g, s) \/ FetchFails(g, s)
  \/ HealPut(g, s) \/ HealPutFails(g, s)
  \/ Report(g, s) \/ ReportFails(g, s)

HealerNext ==
  \/ HealStart \/ HealStartFails
  \/ \E g \in groups, s \in Stores : TaskNext(g, s)
  \/ Collect
  \/ (\E e \in cleaned : Delete(e)) \/ DeleteFails
  \/ HealDone
  \/ HealerCrash \/ HealerRestart

HNext ==
  \/ Next /\ UNCHANGED hvars
  \/ HealerNext
  \/ \E e \in queue : Age(e)

HSpec == HInit /\ [][HNext]_allvars

\* What a healer that runs, and is restarted when it stops, does in the end:
\* faults are bounded (MaxFaults), so requests succeed in the end.
HealerStep ==
  \/ HealStart
  \/ \E g \in groups, s \in Stores : Fetch(g, s) \/ HealPut(g, s) \/ Report(g, s)
  \/ Collect
  \/ \E e \in cleaned : Delete(e)
  \/ HealDone
  \/ HealerRestart

HFairness == WF_allvars(HealerStep) /\ WF_allvars(\E e \in queue : Age(e))

-----------------------------------------------------------------------------
HTypeOK ==
  /\ TypeOK
  /\ hpc \in {"idle", "healing", "cleaning", "stopped"}
  /\ groups \subseteq SUBSET Entry
  /\ left \in [groups -> SUBSET Stores]
  /\ fetched \subseteq groups
  /\ copy \in [groups -> [Stores -> Copy]]
  /\ cleaned \subseteq Entry

InAllStores(k) == \A s \in Stores : k \in blobs[s]

\* No acknowledged blob is forgotten: once a put of the key has succeeded, the
\* blob is in every store or the sync queue still has a row that makes a healer
\* copy it, whatever puts, healing rounds, failures and crashes came between.
Durable == \A k \in Keys : AckedKey(k) => EntriesOf(k) # {} \/ InAllStores(k)

\* What is left of guarantee 3 with a healer running: a read can answer None
\* for a key acknowledged before it began only when every store holds the blob
\* by then, so that the wrong answer is over with the read that gave it.
StaleNoneIsTransient ==
  \A r \in Reads :
    res[r] = "none" /\ must[r] => InAllStores(rkey[r])

\* The healer gives up no row whose blob is still missing somewhere: every row
\* that del has been handed belongs to a blob that all stores hold.
CleanOnlyHealed == \A e \in cleaned : InAllStores(e.key)

\* Healing converges: once requests stop failing, the sync queue is drained for
\* good and every acknowledged blob is in every store, even though a failure in
\* one blob abandons the whole round and no fairness is assumed of the servers.
HealingConverges ==
  <>[](queue = {} /\ \A k \in Keys : AckedKey(k) => InAllStores(k))

-----------------------------------------------------------------------------
(* The inductive invariant *)

\* A heal_blob future is about one key, and what it believes is stored is.
TaskSound ==
  \A g \in groups :
    /\ g # {}
    /\ \A e \in g : e.key = KeyOf(g)
    /\ \A s \in Stores :
         copy[g][s] \in {"seen", "ok", "reported"} => KeyOf(g) \in blobs[s]

\* The rows the healer has in hand.
Held == cleaned \cup UNION groups

\* Ids are not reused, so that a row held by the healer and a row of the queue
\* with the same id are about the same key.
IdSound ==
  /\ \A e \in queue \cup Held : e.id < nextId
  /\ \A x \in queue, y \in queue \cup Held : x.id = y.id => x.key = y.key

HealerInv ==
  /\ BaseInv
  /\ HTypeOK
  /\ TaskSound
  /\ IdSound
  /\ CleanOnlyHealed
  /\ Durable
  /\ StaleNoneIsTransient
=============================================================================
