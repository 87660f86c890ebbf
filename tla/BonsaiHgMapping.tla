--------------------------- MODULE BonsaiHgMapping ---------------------------
(***************************************************************************)
(* The bonsai <-> hg mapping and how it is read: a SQL table whose rows    *)
(* never change (write connection, read connection to a replica that lags, *)
(* read connection to the master), under it the cache layers of            *)
(* caching_ext (cachelib in the process, memcache shared by the hosts),    *)
(* and beside them the wrapper that keeps its writes in memory.  The       *)
(* changesets table is read the same way: get_many like the bare table,    *)
(* get like the layers with one key.                                       *)
(*                                                                         *)
(* A row is a pair <<bonsai, hg>>; it is found under either of its keys.   *)
(* Caches only grow here: an eviction, a memcache error, a value that is   *)
(* too large or does not deserialize, a set that failed and a scheduled    *)
(* one that has not been applied yet are all seen by a reader as a miss,   *)
(* and a reader may miss any key.                                          *)
(***************************************************************************)
EXTENDS Naturals, FiniteSets, Sequences, SequencesExt

CONSTANTS Hosts, Clients, Bonsais, HgIds, None

VARIABLES log,      \* the rows of the master, in the order they were inserted
          applied,  \* how many of them the replica has
          cachelib, \* per host, the cached <<key, row>> pairs
          memcache, \* the shared <<key, row>> pairs
          overlay,  \* MemWritesBonsaiHgMapping: <<key, row>> pairs and inserts
          call      \* per client, the call in progress

mapVars == <<log, applied, cachelib, memcache, overlay, call>>

Rows == Bonsais \X HgIds
KeysOf(row) == {<<"Bonsai", row[1]>>, <<"Hg", row[2]>>}
Master == ToSet(log)
Replica == ToSet(SubSeq(log, 1, applied))

\* SelectMappingByBonsai, SelectMappingByHg: the rows found under some of keys.
Select(table, keys) == {r \in table : KeysOf(r) \cap keys # {}}
\* filter_fetched_ids
NotFetched(keys, rows) == keys \ UNION {KeysOf(r) : r \in rows}

Idle == [stage |-> "idle"]

MappingInit ==
  /\ log = <<>> /\ applied = 0
  /\ cachelib = [h \in Hosts |-> {}] /\ memcache = {}
  /\ overlay = [entries |-> {}, inserts |-> <<>>]
  /\ call = [c \in Clients |-> Idle]

-----------------------------------------------------------------------------
(* SqlBonsaiHgMapping::add.  Both columns are unique: a row that shares a  *)
(* key with a stored one is ignored, and then compared with what is there. *)

Conflicts(row) == Select(Master, KeysOf(row))

Add(c, row) ==
  /\ call[c].stage = "idle"
  /\ log' = IF Conflicts(row) = {} THEN Append(log, row) ELSE log
  /\ call' = [call EXCEPT ![c] =
       [stage |-> IF Conflicts(row) = {} THEN "added" ELSE "compare",
        op |-> "add", row |-> row]]
  /\ UNCHANGED <<applied, cachelib, memcache, overlay>>

SomeConflictMatches(row, stored) == stored = row

Compare(c) ==
  /\ call[c].stage = "compare"
  /\ \E stored \in Conflicts(call[c].row) :    \* LIMIT 1
       call' = [call EXCEPT ![c].stage =
                  IF SomeConflictMatches(call[c].row, stored) THEN "added" ELSE "failed"]
  /\ UNCHANGED <<log, applied, cachelib, memcache, overlay>>

Replicate ==
  /\ applied < Len(log)
  /\ applied' = applied + 1
  /\ UNCHANGED <<log, cachelib, memcache, overlay, call>>

-----------------------------------------------------------------------------
(* GetOrFillMultipleFromCacheLayers::run.                                  *)

\* A call moves on with the rows it has found and the keys it still lacks.
Found(c, rows, stage) ==
  LET got == call[c].found \cup rows
      left == NotFetched(call[c].keys, got) IN
    [call EXCEPT ![c].found = got,
                 ![c].stage = IF left = {} THEN "answered" ELSE stage]

Left(c) == NotFetched(call[c].keys, call[c].found)

\* The entries a layer is filled with: each row under the key it was asked by.
Entries(keys, rows) == {e \in keys \X rows : e[1] \in KeysOf(e[2])}

FillCachelib(c, entries) ==
  cachelib' = [cachelib EXCEPT ![call[c].host] = @ \cup entries]

\* Begins with the rows known already, looking the other keys up in cachelib;
\* since is what was stored at that moment.
Begin(c, op, host, keys, row, known) ==
  LET hits == {e \in cachelib[host] : e[1] \in NotFetched(keys, known)} IN
    /\ call[c].stage = "idle"
    /\ \E got \in SUBSET hits :
         LET found == known \cup {e[2] : e \in got} IN
           call' = [call EXCEPT ![c] =
             [op |-> op, host |-> host, keys |-> keys, row |-> row, found |-> found,
              fromReplica |-> {},
              since |-> Select(Master \cup known, keys),
              stage |-> IF NotFetched(keys, found) = {} THEN "answered" ELSE "memcache"]]
    /\ UNCHANGED <<log, applied, cachelib, memcache, overlay>>

Get(c, host, keys) == Begin(c, "get", host, keys, None, {})

GetMemcache(c) ==
  /\ call[c].stage = "memcache"
  /\ \E got \in SUBSET {e \in memcache : e[1] \in Left(c)} :
       /\ call' = Found(c, {e[2] : e \in got}, "replica")
       /\ FillCachelib(c, got)
  /\ UNCHANGED <<log, applied, memcache, overlay>>

FillFromDb(c, rows) ==
  LET entries == Entries(call[c].keys, rows) IN
    /\ FillCachelib(c, entries)
    /\ memcache' = memcache \cup entries

\* Mutant of GetReplica: what the replica has is the answer.
GetReplicaOnly(c) ==
  LET rows == Select(Replica, Left(c)) IN
    /\ call[c].stage = "replica"
    /\ call' = Found(c, rows, "answered")
    /\ FillFromDb(c, rows)
    /\ UNCHANGED <<log, applied, overlay>>

\* SqlBonsaiHgMapping::get asks the replica, then the master for the rest; the
\* layers are filled once both have answered.
GetReplica(c) ==
  LET rows == Select(Replica, Left(c)) IN
    /\ call[c].stage = "replica"
    /\ call' = [Found(c, rows, "master") EXCEPT ![c].fromReplica = rows]
    /\ IF NotFetched(Left(c), rows) = {}
         THEN FillFromDb(c, rows)
         ELSE UNCHANGED <<cachelib, memcache>>
    /\ UNCHANGED <<log, applied, overlay>>

GetMaster(c) ==
  LET rows == Select(Master, Left(c)) IN
    /\ call[c].stage = "master"
    /\ call' = Found(c, rows, "answered")
    /\ FillFromDb(c, rows \cup call[c].fromReplica)
    /\ UNCHANGED <<log, applied, overlay>>

QueryFails(c) ==
  /\ call[c].stage \in {"replica", "master", "compare"}
  /\ call' = [call EXCEPT ![c].stage = "failed"]
  /\ UNCHANGED <<log, applied, cachelib, memcache, overlay>>

-----------------------------------------------------------------------------
(* MemWritesBonsaiHgMapping over the layers: a map from each kind of key,  *)
(* in which a later insert replaces an earlier one.                        *)

InMemory(keys) == {e[2] : e \in {d \in overlay.entries : d[1] \in keys}}

MemGet(c, host, keys) == Begin(c, "memget", host, keys, None, InMemory(keys))

MemAdd(c, host, row) ==
  \/ /\ call[c].stage = "idle"
     /\ InMemory({<<"Bonsai", row[1]>>}) # {}
     /\ call' = [call EXCEPT ![c] = [stage |-> "ignored", op |-> "memadd", row |-> row]]
     /\ UNCHANGED <<log, applied, cachelib, memcache, overlay>>
  \/ /\ InMemory({<<"Bonsai", row[1]>>}) = {}
     /\ Begin(c, "memadd", host, {<<"Bonsai", row[1]>>}, row, {})

MemInsert(c) ==
  /\ call[c].stage = "answered" /\ call[c].op = "memadd"
  /\ overlay' = LET keys == KeysOf(call[c].row) IN
       IF call[c].found # {} THEN overlay
       ELSE [entries |-> {e \in overlay.entries : e[1] \notin keys}
                           \cup (keys \X {call[c].row}),
             inserts |-> Append(overlay.inserts, call[c].row)]
  /\ call' = [call EXCEPT ![c].stage = IF call[c].found = {} THEN "added" ELSE "ignored"]
  /\ UNCHANGED <<log, applied, cachelib, memcache>>

\* The caller has its result and makes another call.
Return(c) ==
  /\ \/ call[c].stage \in {"added", "ignored", "failed"}
     \/ call[c].stage = "answered" /\ call[c].op # "memadd"
  /\ call' = [call EXCEPT ![c] = Idle]
  /\ UNCHANGED <<log, applied, cachelib, memcache, overlay>>

CallStep(c) ==
  \/ Compare(c) \/ GetMemcache(c) \/ GetReplica(c) \/ GetMaster(c)
  \/ QueryFails(c) \/ MemInsert(c) \/ Return(c)

-----------------------------------------------------------------------------
\* Whatever a cache layer holds under a key is the row the master has for that
\* key: fills that race with inserts, with each other and with readers of the
\* lagging replica never file a row under another key or keep one the table
\* does not have (caching_ext run, get_from_db in bonsai_hg_mapping/caching.rs).
LayersExact ==
  \A e \in memcache \cup UNION {cachelib[h] : h \in Hosts} :
    e[2] \in Master /\ e[1] \in KeysOf(e[2])

\* A get that is answered has a row for every key that had one in the table, or
\* in memory for the wrapper, when it started, whatever the replica had by then
\* and whatever the layers missed or kept, and nothing that is in neither: a
\* missing key is never cached (SqlBonsaiHgMapping::get, MemWritesBonsaiHgMapping::get).
AnswerFresh ==
  \A c \in Clients : call[c].stage = "answered" =>
    /\ NotFetched(call[c].keys, call[c].found) \cap UNION {KeysOf(r) : r \in call[c].since} = {}
    /\ call[c].found \subseteq Master \cup ToSet(overlay.inserts)

\* An add that succeeds, by inserting or by finding the row already there, means
\* that exactly this row is stored, also when another client inserted one of
\* its two keys first (SqlBonsaiHgMapping::add).
AddMeansStored ==
  \A c \in Clients :
    call[c].stage = "added" /\ call[c].op = "add" => call[c].row \in Master
=============================================================================
