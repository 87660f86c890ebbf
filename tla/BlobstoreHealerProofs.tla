----------------------- MODULE BlobstoreHealerProofs ------------------------
(***************************************************************************)
(* No acknowledged blob is forgotten by the healer, for every set of       *)
(* stores, keys and operations and every number of faults.                 *)
(***************************************************************************)
EXTENDS BlobstoreHealer, MultiplexedBlobstoreProofs

\* The key of a group is the key of its rows.
LEMMA KeyOfGroup ==
  ASSUME NEW g \in SUBSET Entry, g # {}, NEW k, \A e \in g : e.key = k
  PROVE  KeyOf(g) = k
  BY DEF KeyOf

LEMMA HealerInit == HInit => HealerInv
  BY BaseInit
     DEF HInit, Init, HealerInv, HTypeOK, BaseInv, TaskSound, IdSound, Held, CleanOnlyHealed,
         Durable, StaleNoneIsTransient, AckedKey, Acked

\* A new row has an id that no row of the queue or of the healer has.
LEMMA AddEntryIds ==
  ASSUME IdSound, nextId \in Nat, NEW k \in Keys, NEW s \in Stores, AddEntry(k, s),
         Held' \subseteq Held, queue \subseteq Entry, Held \subseteq Entry
  PROVE  IdSound'
<1> DEFINE new == [id |-> nextId, key |-> k, store |-> s, age |-> 0]
<1>1. new.id = nextId /\ new.key = k
  OBVIOUS
<1>2. queue' = queue \cup {new} /\ nextId' = nextId + 1
  BY DEF AddEntry
<1> HIDE DEF new
<1>3. \A e \in queue \cup Held : e.id \in Nat
  BY DEF Entry
<1>4. \A e \in queue' \cup Held' : e.id < nextId'
  BY <1>1, <1>2, <1>3 DEF IdSound
<1>5. QED
  BY <1>1, <1>2, <1>3, <1>4 DEF IdSound

-----------------------------------------------------------------------------
(* Steps of the servers *)

\* A step of a put adds blobs and at most one row, with a new id.
LEMMA PutStepHealer ==
  ASSUME HealerInv, NEW p \in Puts, PutNext(p), UNCHANGED hvars
  PROVE  HealerInv'
<1> USE DEF HealerInv
<1>1. BaseInv' /\ (\A s \in Stores : blobs[s] \subseteq blobs'[s])
  BY PutBase, PutSoundness
<1>2. UNCHANGED rvars
  BY DEF PutNext, PutStart, StorePut, StorePutFails, LateStorePut, OnPut, OnPutFails,
         PutCrash
<1>3. HTypeOK' /\ TaskSound' /\ CleanOnlyHealed'
  BY <1>1 DEF HTypeOK, BaseInv, TaskSound, CleanOnlyHealed, InAllStores, hvars, tvars
<1>4. StaleNoneIsTransient'
  BY <1>1, <1>2 DEF StaleNoneIsTransient, InAllStores, rvars
<1>5. CASE UNCHANGED <<queue, nextId>> /\ ~\E s \in Stores : OnPut(p, s)
  <2>1. IdSound'
    BY <1>5 DEF IdSound, Held, hvars, tvars
  <2>2. Durable'
    BY <1>1, <1>5, AckOrigin DEF Durable, InAllStores, EntriesOf
  <2>3. QED
    BY <1>1, <1>3, <1>4, <2>1, <2>2
<1>6. ASSUME NEW s \in Stores, OnPut(p, s) PROVE HealerInv'
  <2>1. AddEntry(pkey[p], s) /\ pkey[p] \in Keys /\ nextId \in Nat
    BY <1>6 DEF OnPut, BaseInv, PutSound, TypeOK
  <2>2. IdSound'
    BY <2>1, AddEntryIds DEF Held, HTypeOK, TypeOK, hvars, tvars
  <2>3. Durable'
    <3>1. queue \subseteq queue'
      BY <2>1 DEF AddEntry
    <3>2. QED
      BY <1>1, <1>6, <3>1, AckOrigin, OnPutRow DEF Durable, InAllStores, EntriesOf
  <2>4. QED
    BY <1>1, <1>3, <1>4, <2>2, <2>3
<1>7. QED
  BY <1>5, <1>6 DEF PutNext, PutStart, StorePut, StorePutFails, LateStorePut, OnPutFails,
                    PutCrash

\* A read answers None, for a key it must find, only with the queue's word that
\* no row is left, and then the blob is in every store.
LEMMA ReadStepHealer ==
  ASSUME HealerInv, NEW r \in Reads, ReadNext(r), UNCHANGED hvars
  PROVE  HealerInv'
<1> USE DEF HealerInv
<1>1. BaseInv' /\ UNCHANGED <<blobs, queue, nextId, pvars>>
  BY ReadBase
     DEF ReadNext, ReadStart, ReadAnswer, ReadFails, Answered, ReadQueue, ReadQueueFails
<1>2. HTypeOK' /\ TaskSound' /\ CleanOnlyHealed' /\ IdSound' /\ Durable'
  BY <1>1 DEF HTypeOK, BaseInv, TaskSound, CleanOnlyHealed, InAllStores, IdSound, Held,
              Durable, AckedKey, Acked, EntriesOf, hvars, tvars, pvars
<1>3. StaleNoneIsTransient'
  <2> USE DEF StaleNoneIsTransient, InAllStores, BaseInv, TypeOK
  <2>1. ASSUME NEW k \in Keys, ReadStart(r, k) PROVE StaleNoneIsTransient'
    BY <2>1 DEF ReadStart
  <2>2. ASSUME NEW s \in Stores, ReadAnswer(r, s) \/ ReadFails(r, s)
        PROVE  StaleNoneIsTransient'
    <3>1. res'[r] = Settle(ans'[r])
          /\ \A q \in Reads \ {r} : res'[q] = res[q] /\ must'[q] = must[q] /\ rkey'[q] = rkey[q]
      BY <2>2 DEF ReadAnswer, ReadFails, Answered
    <3>2. res'[r] = "none" => \A t \in Stores : ans'[r][t] = "none"
      BY <3>1 DEF Settle
    <3>3. QED
      BY <1>1, <3>1, <3>2 DEF ReadSound
  <2>3. CASE ReadQueue(r)
    BY <2>3 DEF ReadQueue, ReadSound, Durable
  <2>4. CASE ReadQueueFails(r)
    BY <2>4 DEF ReadQueueFails
  <2>5. QED
    BY <2>1, <2>2, <2>3, <2>4 DEF ReadNext
<1>4. QED
  BY <1>1, <1>2, <1>3

-----------------------------------------------------------------------------
(* Steps of the healer *)

\* Most steps of the healer leave the servers' state alone but for blobs, which
\* only accumulate.
LEMMA BlobsGrow ==
  ASSUME HealerInv, UNCHANGED <<queue, nextId, pvars, rvars>>, faults' \in Nat,
         blobs' \in [Stores -> SUBSET Keys], \A s \in Stores : blobs[s] \subseteq blobs'[s]
  PROVE  BaseInv' /\ Durable' /\ StaleNoneIsTransient'
<1> USE DEF HealerInv, BaseInv, pvars, rvars
<1>1. TypeOK' /\ EntrySound' /\ PutSound'
  BY DEF TypeOK, EntrySound, Entry, PutSound
<1>2. \A k : AckedKey(k)' = AckedKey(k) /\ EntriesOf(k)' = EntriesOf(k)
  BY DEF AckedKey, Acked, EntriesOf
<1>3. ReadSound'
  BY <1>2 DEF ReadSound
<1>4. Durable' /\ StaleNoneIsTransient'
  BY <1>2 DEF Durable, StaleNoneIsTransient, InAllStores
<1>5. QED
  BY <1>1, <1>3, <1>4

\* The groups of a round: rows of one key each, taken from the queue.
LEMMA RoundGroups ==
  ASSUME NEW K, NEW G \in Groupings(K), NEW g \in G
  PROVE  g # {} /\ g \subseteq queue /\ \E k : \A e \in g : e.key = k
<1>1. PICK run \in [Rows(K) -> 1..MaxRuns] : G = GroupBy(K, run)
  BY DEF Groupings
<1>2. PICK k \in K, i \in 1..MaxRuns : g = {e \in Rows(K) : e.key = k /\ run[e] = i}
  BY <1>1 DEF GroupBy
<1>3. g # {}
  BY <1>1 DEF GroupBy
<1>4. QED
  BY <1>2, <1>3 DEF Rows

LEMMA HealStartStep ==
  ASSUME HealerInv, HealStart
  PROVE  HealerInv'
<1> USE DEF HealerInv
<1>1. BaseInv' /\ Durable' /\ StaleNoneIsTransient' /\ CleanOnlyHealed'
  BY BlobsGrow DEF HealStart, vars, BaseInv, TypeOK, CleanOnlyHealed, InAllStores
<1>2. PICK K \in Slices : \E G \in Groupings(K) : groups' = {g \in G : Eligible(g)}
  BY DEF HealStart
<1>3. \A g \in groups' : g # {} /\ g \subseteq queue /\ \A e \in g : e.key = KeyOf(g)
  <2>1. queue \subseteq Entry
    BY DEF BaseInv, TypeOK
  <2>2. PICK G \in Groupings(K) : groups' = {g \in G : Eligible(g)}
    BY <1>2
  <2>3. QED
    BY <2>1, <2>2, RoundGroups, KeyOfGroup
<1>4. \A g \in groups' : Seen(g) \subseteq Stores
  BY <1>3 DEF Seen, Entry, BaseInv, TypeOK
<1>5. HTypeOK'
  BY <1>1, <1>3, <1>4 DEF HealStart, HTypeOK, BaseInv, TypeOK, vars, Copy
<1>6. TaskSound'
  <2>1. ASSUME NEW g \in groups', NEW s \in Stores, copy'[g][s] \in {"seen", "ok", "reported"}
        PROVE  KeyOf(g) \in blobs'[s]
    <3>1. s \in Seen(g)
      BY <2>1 DEF HealStart
    <3>2. PICK e \in g : e.store = s
      BY <3>1 DEF Seen
    <3>3. QED
      BY <1>3, <3>2 DEF EntrySound, BaseInv, HealStart, vars
  <2>2. QED
    BY <1>3, <2>1 DEF TaskSound, KeyOf
<1>7. IdSound'
  <2>1. Held' \subseteq queue \cup Held /\ UNCHANGED <<queue, nextId>>
    BY <1>3 DEF Held, HealStart, vars
  <2>2. QED
    BY <2>1 DEF IdSound
<1>8. QED
  BY <1>1, <1>5, <1>6, <1>7

\* The key a heal_blob future is about.
LEMMA TaskKey ==
  ASSUME HealerInv, NEW g \in groups
  PROVE  KeyOf(g) \in Keys /\ g # {} /\ g \subseteq Entry
  BY DEF HealerInv, TaskSound, HTypeOK, Entry

LEMMA FetchStep ==
  ASSUME HealerInv, NEW g \in groups, NEW s \in Stores, Fetch(g, s) \/ FetchFails(g, s)
  PROVE  HealerInv'
<1> USE DEF HealerInv
<1>1. UNCHANGED <<blobs, queue, nextId, pvars, rvars, groups, copy, cleaned>> /\ faults' \in Nat
  BY DEF Fetch, FetchFails, Fault, vars, BaseInv, TypeOK
<1>2. BaseInv' /\ Durable' /\ StaleNoneIsTransient'
  BY <1>1, BlobsGrow DEF BaseInv, TypeOK
<1>3. HTypeOK'
  BY <1>1, <1>2 DEF HTypeOK, BaseInv, Fetch, FetchFails, Stop
<1>4. TaskSound' /\ IdSound' /\ CleanOnlyHealed'
  BY <1>1 DEF TaskSound, IdSound, CleanOnlyHealed, InAllStores, Held, KeyOf
<1>5. QED
  BY <1>2, <1>3, <1>4

LEMMA HealPutStep ==
  ASSUME HealerInv, NEW g \in groups, NEW s \in Stores, HealPut(g, s) \/ HealPutFails(g, s)
  PROVE  HealerInv'
<1> USE DEF HealerInv
<1>1. UNCHANGED <<queue, nextId, pvars, rvars, hpc, groups, left, fetched, cleaned>>
      /\ faults' \in Nat
  BY DEF HealPut, HealPutFails, Fault, BaseInv, TypeOK
<1>2. blobs' \in [Stores -> SUBSET Keys] /\ \A t \in Stores : blobs[t] \subseteq blobs'[t]
  <2>1. PICK L \in SUBSET Keys : blobs' = [blobs EXCEPT ![s] = @ \cup L]
    <3>1. {} \in SUBSET Keys /\ {KeyOf(g)} \in SUBSET Keys
      BY TaskKey
    <3>2. QED
      BY <3>1 DEF HealPut, HealPutFails
  <2>2. QED
    BY <2>1 DEF BaseInv, TypeOK
<1>3. BaseInv' /\ Durable' /\ StaleNoneIsTransient'
  BY <1>1, <1>2, BlobsGrow
<1>4. copy' \in [groups -> [Stores -> Copy]]
  BY DEF HealPut, HealPutFails, HTypeOK, Copy
<1>5. HTypeOK' /\ IdSound' /\ CleanOnlyHealed'
  BY <1>1, <1>2, <1>3, <1>4 DEF HTypeOK, BaseInv, IdSound, CleanOnlyHealed, InAllStores, Held
<1>6. TaskSound'
  <2>1. ASSUME NEW h \in groups, NEW t \in Stores, copy'[h][t] \in {"seen", "ok", "reported"}
        PROVE  copy[h][t] = copy'[h][t] \/ (h = g /\ t = s /\ HealPut(g, s))
    BY <2>1 DEF HealPut, HealPutFails, HTypeOK
  <2>2. HealPut(g, s) => KeyOf(g) \in blobs'[s]
    BY DEF HealPut, BaseInv, TypeOK
  <2>3. QED
    BY <1>1, <1>2, <2>1, <2>2 DEF TaskSound
<1>7. QED
  BY <1>3, <1>5, <1>6

\* report_partial_heal adds a true row with a new id.
LEMMA ReportStep ==
  ASSUME HealerInv, NEW g \in groups, NEW s \in Stores, Report(g, s)
  PROVE  HealerInv'
<1> USE DEF HealerInv
<1>1. UNCHANGED <<blobs, pvars, rvars, faults, hpc, groups, left, fetched, cleaned>>
      /\ AddEntry(KeyOf(g), s) /\ copy[g][s] = "ok"
      /\ copy' = [copy EXCEPT ![g][s] = "reported"]
  BY DEF Report
<1>2. KeyOf(g) \in Keys /\ KeyOf(g) \in blobs[s]
  BY <1>1, TaskKey DEF TaskSound
<1>3. TypeOK' /\ EntrySound'
  BY <1>1, <1>2 DEF AddEntry, Entry, BaseInv, TypeOK, EntrySound, pvars, rvars
<1>4. PutSound' /\ ReadSound'
  BY <1>1 DEF BaseInv, PutSound, ReadSound, AckedKey, Acked, pvars, rvars
<1>5. IdSound'
  BY <1>1, <1>2, AddEntryIds DEF Held, HTypeOK, TypeOK
<1>6. HTypeOK' /\ TaskSound' /\ CleanOnlyHealed'
  BY <1>1, <1>3 DEF HTypeOK, Copy, TaskSound, CleanOnlyHealed, InAllStores
<1>7. Durable' /\ StaleNoneIsTransient'
  <2>1. queue \subseteq queue'
    BY <1>1 DEF AddEntry
  <2>2. QED
    BY <1>1, <2>1 DEF Durable, StaleNoneIsTransient, InAllStores, EntriesOf, AckedKey, Acked,
                      pvars, rvars
<1>8. QED
  BY <1>3, <1>4, <1>5, <1>6, <1>7 DEF BaseInv

\* Only groups that are in every store are handed to del.
LEMMA CollectStep ==
  ASSUME HealerInv, Collect
  PROVE  HealerInv'
<1> USE DEF HealerInv
<1>1. BaseInv' /\ Durable' /\ StaleNoneIsTransient'
  BY BlobsGrow DEF Collect, vars, BaseInv, TypeOK
<1>2. cleaned' \subseteq Held /\ cleaned' \subseteq Entry
  BY DEF Collect, Held, HTypeOK
<1>3. CleanOnlyHealed'
  BY DEF Collect, Healed, TaskSound, CleanOnlyHealed, InAllStores, vars
<1>4. HTypeOK' /\ TaskSound'
  BY <1>1, <1>2 DEF Collect, ClearTasks, HTypeOK, BaseInv, TaskSound
<1>5. IdSound'
  BY <1>2 DEF Collect, ClearTasks, IdSound, Held, vars
<1>6. QED
  BY <1>1, <1>3, <1>4, <1>5

\* Deleting by id takes rows of one key away, and that key is in every store.
LEMMA DeleteStep ==
  ASSUME HealerInv, NEW e \in cleaned, Delete(e)
  PROVE  HealerInv'
<1> USE DEF HealerInv
<1>1. UNCHANGED <<blobs, nextId, pvars, rvars, faults, hpc, groups, left, fetched, copy>>
      /\ queue' = {x \in queue : x.id # e.id} /\ cleaned' = cleaned \ {e}
  BY DEF Delete, tvars
<1>2. TypeOK' /\ EntrySound' /\ PutSound' /\ ReadSound'
  BY <1>1 DEF BaseInv, TypeOK, EntrySound, PutSound, ReadSound, AckedKey, Acked, pvars, rvars
<1>3. HTypeOK' /\ TaskSound' /\ CleanOnlyHealed' /\ StaleNoneIsTransient'
  BY <1>1, <1>2 DEF HTypeOK, TaskSound, CleanOnlyHealed, StaleNoneIsTransient, InAllStores,
                    rvars
<1>4. IdSound'
  BY <1>1 DEF IdSound, Held
<1>5. Durable'
  <2>1. ASSUME NEW k \in Keys, EntriesOf(k) # {}, EntriesOf(k)' = {} PROVE InAllStores(k)
    <3>1. PICK x \in queue : x.key = k /\ x.id = e.id
      BY <1>1, <2>1 DEF EntriesOf
    <3>2. e.key = k
      BY <3>1 DEF IdSound, Held
    <3>3. QED
      BY <3>2 DEF CleanOnlyHealed
  <2>2. QED
    BY <1>1, <2>1 DEF Durable, InAllStores, AckedKey, Acked, pvars
<1>6. QED
  BY <1>2, <1>3, <1>4, <1>5 DEF BaseInv

\* Steps that only say where the healer is.
LEMMA ControlStep ==
  ASSUME HealerInv,
         UNCHANGED <<blobs, queue, nextId, pvars, rvars, tvars, cleaned>>, faults' \in Nat,
         hpc' \in {"idle", "healing", "cleaning", "stopped"}
  PROVE  HealerInv'
<1> USE DEF HealerInv
<1>1. BaseInv' /\ Durable' /\ StaleNoneIsTransient'
  BY BlobsGrow DEF BaseInv, TypeOK
<1>2. HTypeOK' /\ TaskSound' /\ IdSound' /\ CleanOnlyHealed'
  BY <1>1 DEF HTypeOK, BaseInv, TaskSound, IdSound, Held, CleanOnlyHealed, InAllStores, tvars
<1>3. QED
  BY <1>1, <1>2

\* The healer's process ends: what it had in hand is gone, puts may still land.
LEMMA ProcessStep ==
  ASSUME HealerInv, HealerCrash \/ HealerRestart
  PROVE  HealerInv'
<1> USE DEF HealerInv
<1>1. UNCHANGED <<queue, nextId, pvars, rvars>> /\ faults' \in Nat /\ ClearTasks /\ cleaned' = {}
      /\ hpc' \in {"stopped", "idle"}
  BY DEF HealerCrash, HealerRestart, Fault, vars, BaseInv, TypeOK
<1>2. blobs' \in [Stores -> SUBSET Keys] /\ \A s \in Stores : blobs[s] \subseteq blobs'[s]
  <2>1. \A g \in fetched : KeyOf(g) \in Keys
    BY TaskKey DEF HTypeOK
  <2>2. QED
    BY <2>1 DEF HealerCrash, HealerRestart, vars, BaseInv, TypeOK
<1>3. BaseInv' /\ Durable' /\ StaleNoneIsTransient'
  BY <1>1, <1>2, BlobsGrow
<1>4. HTypeOK' /\ TaskSound' /\ IdSound' /\ CleanOnlyHealed'
  BY <1>1, <1>3 DEF ClearTasks, HTypeOK, BaseInv, TaskSound, IdSound, Held, CleanOnlyHealed
<1>5. QED
  BY <1>3, <1>4

\* A row that ages keeps its id, its key and its store.
LEMMA AgeStep ==
  ASSUME HealerInv, NEW e \in queue, Age(e)
  PROVE  HealerInv'
<1> USE DEF HealerInv
<1> DEFINE new == [e EXCEPT !.age = @ + 1]
<1>1. e \in Entry /\ e.age \in 0..1
  BY DEF Age, BaseInv, TypeOK, Entry
<1>2. new \in Entry /\ new.id = e.id /\ new.key = e.key /\ new.store = e.store
  BY <1>1 DEF Entry
<1>3. UNCHANGED <<blobs, nextId, pvars, rvars, faults, hpc, groups, left, fetched, copy, cleaned>>
      /\ queue' = (queue \ {e}) \cup {new}
  BY DEF Age, hvars, tvars
<1> HIDE DEF new
<1>4. TypeOK' /\ EntrySound' /\ PutSound' /\ ReadSound'
  BY <1>2, <1>3 DEF BaseInv, TypeOK, EntrySound, PutSound, ReadSound, AckedKey, Acked, pvars,
                    rvars
<1>5. HTypeOK' /\ TaskSound' /\ CleanOnlyHealed' /\ StaleNoneIsTransient'
  BY <1>3, <1>4 DEF HTypeOK, TaskSound, CleanOnlyHealed, StaleNoneIsTransient, InAllStores,
                    rvars
<1>6. IdSound'
  BY <1>2, <1>3 DEF IdSound, Held
<1>7. \A k : EntriesOf(k) # {} => EntriesOf(k)' # {}
  BY <1>2, <1>3 DEF EntriesOf
<1>8. Durable'
  BY <1>3, <1>7 DEF Durable, InAllStores, AckedKey, Acked, pvars
<1>9. QED
  BY <1>4, <1>5, <1>6, <1>8 DEF BaseInv

-----------------------------------------------------------------------------
\* HealerInv is inductive.
THEOREM HealerInvariant == HSpec => []HealerInv
<1>1. HealerInv /\ [HNext]_allvars => HealerInv'
  <2> SUFFICES ASSUME HealerInv, [HNext]_allvars PROVE HealerInv'
    OBVIOUS
  <2> USE DEF HealerInv, BaseInv, TypeOK, HTypeOK
  <2>1. CASE Next /\ UNCHANGED hvars
    BY <2>1, PutStepHealer, ReadStepHealer DEF Next
  <2>2. ASSUME NEW g \in groups, NEW s \in Stores, TaskNext(g, s) PROVE HealerInv'
    <3>1. CASE ReportFails(g, s)
      BY <3>1, ControlStep DEF ReportFails, Fault, Stop
    <3>2. QED
      BY <2>2, <3>1, FetchStep, HealPutStep, ReportStep DEF TaskNext
  <2>3. CASE HealStartFails \/ DeleteFails \/ HealDone
    BY <2>3, ControlStep DEF HealStartFails, DeleteFails, HealDone, Fault, Stop, vars
  <2>4. CASE HealerNext
    BY <2>2, <2>3, <2>4, HealStartStep, CollectStep, DeleteStep, ProcessStep DEF HealerNext
  <2>5. CASE UNCHANGED allvars
    BY <2>5, ControlStep DEF allvars, vars, hvars
  <2>6. QED
    BY <2>1, <2>4, <2>5, AgeStep DEF HNext
<1>2. QED
  BY <1>1, HealerInit, PTL DEF HSpec

\* No acknowledged blob is forgotten: after any interleaving of puts, reads,
\* healing rounds, failures, crashes and restarts, a blob whose put has been
\* acknowledged is in every store or is still listed for the healer.
THEOREM HealerDurable == HSpec => []Durable
<1>1. HealerInv => Durable
  BY DEF HealerInv
<1>2. QED
  BY <1>1, HealerInvariant, PTL

\* A None for a key acknowledged before the read began is given only when the
\* blob is in every store.
THEOREM HealerStaleNone == HSpec => []StaleNoneIsTransient
<1>1. HealerInv => StaleNoneIsTransient
  BY DEF HealerInv
<1>2. QED
  BY <1>1, HealerInvariant, PTL
=============================================================================
