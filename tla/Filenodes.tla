------------------------------ MODULE Filenodes ------------------------------
(***************************************************************************)
(* File nodes in SQL, sharded by path, and the memcache layer over them.   *)
(*                                                                         *)
(* add_filenodes writes a batch chunk by chunk: first the paths, one       *)
(* statement per shard, then, all at once, the file nodes and the copy     *)
(* information, one statement per shard and table.  Nothing is a           *)
(* transaction.  A read takes several statements too: the file node, then  *)
(* its copy information, then the path of the copy's source, on another    *)
(* shard.  get_filenode asks the replicas and falls back to the master;    *)
(* get_all_filenodes asks the replicas only.  A path here is the bytes and *)
(* whether it is a tree: the two live on the same shard.                   *)
(*                                                                         *)
(* memcache keeps single file nodes and, per path, the list of all of      *)
(* them; a list too large for one value is stored in chunks under random   *)
(* pointers, and the list's key then holds the pointers.  A reader may     *)
(* miss any key (evicted, expired, an error).                              *)
(***************************************************************************)
EXTENDS Naturals, FiniteSets, Sequences, SequencesExt, FiniteSetsExt

CONSTANTS Paths, Shards, ShardOf, IsTree, Adders, Readers, None,
          ValueMax,    \* the most file nodes a memcache value can hold
          MaxRetries

VARIABLES batch,    \* per adder, its chunks: a sequence of sets of file nodes
          log,      \* per shard, the sets of rows the statements inserted
          applied,  \* per shard, how many statements its replica has applied
          adder,
          single,   \* memcache and cachelib: file nodes by path and node
          lists,    \* memcache, per path: None, a list, or pointers
          chunks,   \* memcache: the chunk under each pointer
          fill,     \* scheduled writes of lists to memcache
          pointer,  \* the next pointer PointersIter draws
          reader

fnVars == <<batch, log, applied, adder, single, lists, chunks, fill, pointer, reader>>

\* A file node: its path, node and linknode and what it was copied from.
Info(p, n, l, f) == [path |-> p, node |-> n, link |-> l, from |-> f]

-----------------------------------------------------------------------------
(* Rows and statements.                                                    *)

PathRow(i) == <<"paths", i.path>>
NodeRow(i) == <<"filenodes", i.path, i.node, i.link, i.from # None>>
CopyRow(i) == <<"fixedcopyinfo", i.path, i.node, i.from>>

SameKey(r, s) ==
  r[1] = s[1] /\ r[2] = s[2] /\ (r[1] # "paths" => r[3] = s[3])

RowsOf(server, sh) ==
  UNION ToSet(IF server = "master" THEN log[sh] ELSE SubSeq(log[sh], 1, applied[sh]))

OnShard(infos, sh) == {i \in infos : ShardOf[i.path] = sh}

\* The rows of one statement: a table and a shard.
StatementRows(infos, st) ==
  CASE st[1] = "paths" -> {PathRow(i) : i \in OnShard(infos, st[2])}
    [] st[1] = "filenodes" -> {NodeRow(i) : i \in OnShard(infos, st[2])}
    [] OTHER -> {CopyRow(i) : i \in {j \in OnShard(infos, st[2]) : j.from # None}}

Statements(infos, tables) ==
  {st \in tables \X Shards : StatementRows(infos, st) # {}}

\* INSERT OR IGNORE keeps the row that is already there.
Inserted(sh, rows) ==
  {r \in rows : ~\E s \in RowsOf("master", sh) : SameKey(r, s)}

-----------------------------------------------------------------------------
(* add_filenodes.                                                          *)

CurrentChunk(a) == batch[a][adder[a].chunk]

AddStart(a) ==
  /\ adder[a].stage = "idle"
  /\ adder' = [adder EXCEPT ![a].stage = "paths", ![a].chunk = 1,
                            ![a].pending = Statements(batch[a][1], {"paths"})]
  /\ UNCHANGED <<batch, log, applied, single, lists, chunks, fill, pointer, reader>>

\* A statement is executed; one that was on its way when another one failed
\* may still be.
Execute(a, st) ==
  /\ adder[a].stage \in {"paths", "rows", "failed"} /\ st \in adder[a].pending
  /\ LET rows == Inserted(st[2], StatementRows(CurrentChunk(a), st)) IN
       log' = IF rows = {} THEN log ELSE [log EXCEPT ![st[2]] = Append(@, rows)]
  /\ adder' = [adder EXCEPT ![a].pending = @ \ {st}]
  /\ UNCHANGED <<batch, applied, single, lists, chunks, fill, pointer, reader>>

InvalidCopy(infos) == \E i \in infos : i.from # None /\ IsTree[i.from[1]] # IsTree[i.path]

\* Mutant of AllExecuted: the copy information is not waited for.
FilenodesExecuted(a) == \A st \in adder[a].pending : st[1] = "fixedcopyinfo"

\* join_all(filenode_futures).join(join_all(copyinfo_futures))
AllExecuted(a) == adder[a].pending = {}

InsertFilenodes(a) ==
  /\ adder[a].stage = "paths" /\ AllExecuted(a)
  /\ adder' = IF InvalidCopy(CurrentChunk(a))
                THEN [adder EXCEPT ![a].stage = "failed"]
                ELSE [adder EXCEPT ![a].stage = "rows",
                        ![a].pending = Statements(CurrentChunk(a), {"filenodes", "fixedcopyinfo"})]
  /\ UNCHANGED <<batch, log, applied, single, lists, chunks, fill, pointer, reader>>

NextChunk(a) ==
  /\ adder[a].stage = "rows" /\ AllExecuted(a)
  /\ adder' = IF adder[a].chunk = Len(batch[a])
                THEN [adder EXCEPT ![a].stage = "done", ![a].pending = {}]
                ELSE [adder EXCEPT ![a].stage = "paths", ![a].chunk = @ + 1,
                        ![a].pending = Statements(batch[a][adder[a].chunk + 1], {"paths"})]
  /\ UNCHANGED <<batch, log, applied, single, lists, chunks, fill, pointer, reader>>

StatementFails(a, st) ==
  /\ adder[a].stage \in {"paths", "rows"} /\ st \in adder[a].pending
  /\ adder' = [adder EXCEPT ![a].stage = "failed", ![a].pending = @ \ {st}]
  /\ UNCHANGED <<batch, log, applied, single, lists, chunks, fill, pointer, reader>>

\* The whole batch is added again: the commit is uploaded once more.
Retry(a) ==
  /\ adder[a].stage = "failed" /\ adder[a].retries < MaxRetries
  /\ adder' = [adder EXCEPT ![a].stage = "idle", ![a].pending = {}, ![a].retries = @ + 1]
  /\ UNCHANGED <<batch, log, applied, single, lists, chunks, fill, pointer, reader>>

Replicate(sh) ==
  /\ applied[sh] < Len(log[sh])
  /\ applied' = [applied EXCEPT ![sh] = @ + 1]
  /\ UNCHANGED <<batch, log, adder, single, lists, chunks, fill, pointer, reader>>

-----------------------------------------------------------------------------
(* Reading the tables.                                                     *)

Idle == [stage |-> "idle"]

AllStored == \A a \in Adders : adder[a].stage = "done"
CaughtUp == \A sh \in Shards : applied[sh] = Len(log[sh])

\* What a read is about, and what was already true when it began.
Read(op, p, n, stage) ==
  [op |-> op, path |-> p, node |-> n, stage |-> stage, server |-> "replica",
   rows |-> {}, sources |-> {}, built |-> {}, answer |-> <<>>, pointers |-> <<>>,
   calm |-> AllStored /\ CaughtUp,
   stored |-> \E a \in Adders : /\ adder[a].stage = "done"
                                /\ \E k \in DOMAIN batch[a] : \E i \in batch[a][k] :
                                     i.path = p /\ i.node = n]

Becomes(r, new) == reader' = [reader EXCEPT ![r] = new]

UnchangedTables == UNCHANGED <<batch, log, applied, adder>>
UnchangedMemcache == UNCHANGED <<single, lists, chunks, fill, pointer>>

\* CachingFilenodes::get_filenode
GetFilenode(r, p, n) ==
  /\ reader[r].stage = "idle"
  /\ \/ Becomes(r, Read("get", p, n, "select"))
     \/ \E i \in single :
          /\ i.path = p /\ i.node = n
          /\ Becomes(r, [Read("get", p, n, "answered") EXCEPT !.answer = <<i>>])
  /\ UnchangedTables /\ UnchangedMemcache

\* SelectFilenode or SelectAllFilenodes, on the server the read has got to.
Selected(r) ==
  {row \in RowsOf(reader[r].server, ShardOf[reader[r].path]) :
     /\ row[1] = "filenodes" /\ row[2] = reader[r].path
     /\ reader[r].op = "get" => row[3] = reader[r].node}

HasCopy(row) == row[5]

\* Mutant of NotOnReplica: the empty answer is returned.
NotAnywhere(r) == [reader[r] EXCEPT !.stage = "answered"]

\* What to do when the replica has no such file node.
NotOnReplica(r) == [reader[r] EXCEPT !.server = "master"]

Select(r) ==
  /\ reader[r].stage = "select"
  /\ IF Selected(r) = {} /\ reader[r].op = "get" /\ reader[r].server = "replica"
       THEN Becomes(r, NotOnReplica(r))
       ELSE Becomes(r, [reader[r] EXCEPT
              !.stage = "lookup",
              !.rows = {row \in Selected(r) : HasCopy(row)},
              !.built = {Info(row[2], row[3], row[4], None) :
                           row \in {w \in Selected(r) : ~HasCopy(w)}}])
  /\ UnchangedTables /\ UnchangedMemcache

\* Mutant of Torn: the file node without its copy information is returned.
TornIgnored(r) ==
  [reader[r] EXCEPT !.rows = {}, !.sources = {},
     !.built = @ \cup {Info(row[2], row[3], row[4], None) :
                         row \in reader[r].rows \cup {s[1] : s \in reader[r].sources}}]

\* A row is there and the one it refers to is not: the read fails.
Torn(r) == [reader[r] EXCEPT !.stage = "torn"]

SelectCopyinfo(r, row) ==
  LET copies == {c \in RowsOf(reader[r].server, ShardOf[row[2]]) :
                   c[1] = "fixedcopyinfo" /\ c[2] = row[2] /\ c[3] = row[3]} IN
    /\ reader[r].stage = "lookup" /\ row \in reader[r].rows
    /\ IF copies = {} THEN Becomes(r, Torn(r))    \* CopydataNotFound
       ELSE \E c \in copies :
              Becomes(r, [reader[r] EXCEPT !.rows = @ \ {row},
                                           !.sources = @ \cup {<<row, c[4]>>}])
    /\ UnchangedTables /\ UnchangedMemcache

SelectPath(r, source) ==
  LET row == source[1]
      from == source[2] IN
    /\ reader[r].stage = "lookup" /\ source \in reader[r].sources
    /\ IF <<"paths", from[1]>> \notin RowsOf(reader[r].server, ShardOf[from[1]])
         THEN Becomes(r, Torn(r))                 \* FromPathNotFound
         ELSE Becomes(r, [reader[r] EXCEPT
                !.sources = @ \ {source},
                !.built = @ \cup {Info(row[2], row[3], row[4], from)}])
    /\ UnchangedTables /\ UnchangedMemcache

QueryFails(r) ==
  /\ reader[r].stage \in {"select", "lookup"}
  /\ Becomes(r, [reader[r] EXCEPT !.stage = "failed"])
  /\ UnchangedTables /\ UnchangedMemcache

\* The rows of a path come in the order of the primary key.
InOrder(infos) == SetToSortSeq(infos, LAMBDA i, j : i.node < j.node)

-----------------------------------------------------------------------------
(* memcache.                                                               *)

\* slice::chunks
ChunksOf(list) ==
  [k \in 1..((Len(list) + ValueMax - 1) \div ValueMax) |->
     SubSeq(list, (k - 1) * ValueMax + 1, Min({k * ValueMax, Len(list)}))]

\* Mutant of Pointers: drawn from the same sequence every time.
PointersRepeated(n) == [k \in 1..n |-> k]

\* PointersIter: distinct values nobody has drawn before.
Pointers(n) == [k \in 1..n |-> pointer + k]

ScheduleFill(p, list) ==
  LET cs == IF Len(list) < ValueMax THEN <<>> ELSE ChunksOf(list) IN
    /\ fill' = fill \cup {[path |-> p, list |-> list, chunks |-> cs,
                           pointers |-> Pointers(Len(cs)), unsent |-> DOMAIN cs]}
    /\ pointer' = pointer + Len(cs)

\* Everything is looked up: the answer, and what is scheduled for memcache.
Collect(r) ==
  LET list == InOrder(reader[r].built) IN
    /\ reader[r].stage = "lookup" /\ reader[r].rows = {} /\ reader[r].sources = {}
    /\ Becomes(r, [reader[r] EXCEPT !.stage = "answered", !.answer = list])
    /\ IF reader[r].op = "get"
         THEN single' = single \cup reader[r].built /\ UNCHANGED <<fill, pointer>>
         ELSE ScheduleFill(reader[r].path, list) /\ UNCHANGED single
    /\ UNCHANGED <<lists, chunks>> /\ UnchangedTables

FillChunk(f, k) ==
  /\ k \in f.unsent
  /\ chunks' = [q \in DOMAIN chunks \cup {f.pointers[k]} |->
                  IF q = f.pointers[k] THEN f.chunks[k] ELSE chunks[q]]
  /\ fill' = (fill \ {f}) \cup {[f EXCEPT !.unsent = @ \ {k}]}
  /\ UNCHANGED <<single, lists, pointer, reader>> /\ UnchangedTables

FillList(f) ==
  /\ f.unsent = {}
  /\ lists' = [lists EXCEPT ![f.path] =
                 IF f.chunks = <<>> THEN [data |-> f.list] ELSE [pointers |-> f.pointers]]
  /\ fill' = fill \ {f}
  /\ UNCHANGED <<single, chunks, pointer, reader>> /\ UnchangedTables

\* CachingFilenodes::get_all_filenodes
GetAllFilenodes(r, p) ==
  /\ reader[r].stage = "idle"
  /\ \/ Becomes(r, Read("all", p, None, "select"))
     \/ /\ lists[p] # None /\ "data" \in DOMAIN lists[p]
        /\ Becomes(r, [Read("all", p, None, "answered") EXCEPT !.answer = lists[p].data])
     \/ /\ lists[p] # None /\ "pointers" \in DOMAIN lists[p]
        /\ Becomes(r, [Read("all", p, None, "chunks") EXCEPT
                         !.answer = [k \in DOMAIN lists[p].pointers |-> None],
                         !.pointers = lists[p].pointers])
  /\ UnchangedTables /\ UnchangedMemcache

\* A chunk that is missing sends the reader to the tables.
ReadChunk(r, k) ==
  /\ reader[r].stage = "chunks" /\ k \in DOMAIN reader[r].answer /\ reader[r].answer[k] = None
  /\ \/ /\ reader[r].pointers[k] \in DOMAIN chunks
        /\ Becomes(r, [reader[r] EXCEPT !.answer[k] = chunks[reader[r].pointers[k]]])
     \/ Becomes(r, [reader[r] EXCEPT !.stage = "select", !.answer = <<>>, !.pointers = <<>>])
  /\ UnchangedTables /\ UnchangedMemcache

JoinChunks(r) ==
  /\ reader[r].stage = "chunks" /\ \A k \in DOMAIN reader[r].answer : reader[r].answer[k] # None
  /\ Becomes(r, [reader[r] EXCEPT !.stage = "answered", !.answer = FlattenSeq(@)])
  /\ UnchangedTables /\ UnchangedMemcache

Return(r) ==
  /\ reader[r].stage \in {"answered", "failed", "torn"}
  /\ Becomes(r, Idle)
  /\ UnchangedTables /\ UnchangedMemcache

FilenodesInit(b) ==
  /\ batch = b
  /\ log = [sh \in Shards |-> <<>>] /\ applied = [sh \in Shards |-> 0]
  /\ adder = [a \in Adders |-> [stage |-> "idle", chunk |-> 1, pending |-> {}, retries |-> 0]]
  /\ single = {} /\ lists = [p \in Paths |-> None] /\ chunks = <<>> /\ fill = {} /\ pointer = 0
  /\ reader = [r \in Readers |-> Idle]

AdderStep(a) ==
  \/ AddStart(a) \/ InsertFilenodes(a) \/ NextChunk(a) \/ Retry(a)
  \/ \E st \in adder[a].pending : Execute(a, st)

AdderFails(a) == \E st \in adder[a].pending : StatementFails(a, st)

ReaderStep(r) ==
  \/ Select(r) \/ QueryFails(r) \/ Collect(r) \/ JoinChunks(r) \/ Return(r)
  \/ reader[r].stage = "lookup"
       /\ \/ \E row \in reader[r].rows : SelectCopyinfo(r, row)
          \/ \E source \in reader[r].sources : SelectPath(r, source)
  \/ reader[r].stage = "chunks" /\ \E k \in DOMAIN reader[r].answer : ReadChunk(r, k)

FillStep == \E f \in fill : FillList(f) \/ \E k \in f.unsent : FillChunk(f, k)

-----------------------------------------------------------------------------
\* The file node the master has, with its copy information, is i.
OnMaster(i) ==
  LET rows == RowsOf("master", ShardOf[i.path]) IN
    NodeRow(i) \in rows /\ (i.from # None => CopyRow(i) \in rows)

\* Every file node that is answered or kept in memcache is, whole, the one in
\* the tables: linknode of the first add, copy source when there is one.  A
\* reader that finds a row of a batch whose other statements have not been
\* executed, or not been replicated, gets an error and never a file node that
\* lost its copy information (select_filenode, select_copydata).
NoHalfFilenode ==
  /\ \A i \in single : OnMaster(i)
  /\ \A r \in Readers : reader[r].stage = "answered" =>
       \A i \in ToSet(reader[r].answer) : OnMaster(i)

\* get_filenode does not answer "no such file node" for one whose add had
\* returned when the read began, however far behind the replica is.
NotFoundIsTrue ==
  \A r \in Readers :
    reader[r].stage = "answered" /\ reader[r].op = "get" /\ reader[r].answer = <<>> =>
      ~reader[r].stored

\* Once every add has returned and the replicas have caught up a read finds all
\* the rows it follows: retries after a partial failure leave nothing missing.
\* Before that a read may fail on a row whose partner is not there yet, and it
\* is not tried again on the master (get_filenode retries only an empty answer).
CalmReadsSucceed == \A r \in Readers : reader[r].stage = "torn" => ~reader[r].calm

\* A list of all file nodes of a path, from the replica or from memcache in one
\* value or in chunks, is what the path's shard held at one moment: chunks of
\* two lists that were stored at the same time are never joined, and no node is
\* there twice (get_all_filenodes, schedule_fill_all_filenodes_memcache).
ListIsSnapshot ==
  \A r \in Readers :
    reader[r].stage = "answered" /\ reader[r].op = "all" =>
      LET list == reader[r].answer
          sh == ShardOf[reader[r].path] IN
        /\ IsInjective(list)
        /\ \E k \in 0..Len(log[sh]) :
             {NodeRow(i) : i \in ToSet(list)} =
               {row \in UNION ToSet(SubSeq(log[sh], 1, k)) :
                  row[1] = "filenodes" /\ row[2] = reader[r].path}
=============================================================================
