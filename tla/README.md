# Mononoke in TLA+

Mononoke is a Mercurial server for large repositories, written in Rust on
futures 0.1. Its state is in immutable blobs (several blob stores behind one
interface), in a few SQL tables, and in caches (cachelib in the process,
memcache shared by the hosts). Many server processes and a few background jobs
write to all of them with no common lock, almost never inside one transaction.
Most of what can go wrong is therefore in the order of steps: a reader between
two writes, a request that timed out and takes effect later, a cache filled with
what was true a moment ago, a job that tidies up while others work.

This directory holds a model of that system: one TLA+ module per component,
model-checked with TLC on small instances, and theorems about them proved with
TLAPS for every value of the constants.

 1. [The system](#the-system)
 2. [Modules](#modules)
 3. [Runs](#runs)
 4. [Fairness](#fairness)
 5. [Proofs](#proofs)
 6. [Where code and comments disagree](#where-code-and-comments-disagree)
 7. [Limits](#limits)
 8. [Plan](#plan)

To check a run: `tlc -config MCHealer.cfg MCBlobstoreHealer`. To check a proof:
`tlapm CacheBlobstoreProofs.tla`. `PROJECT.json` lists the runs with their
properties, the source lines behind every definition, the hazards at the lines
where they bite, and, for every property, a faulty variant of the code that the
property refutes (the definitions marked "Mutant" in the modules).

## The system

### Parts

| layer | part | state and operations | in this project |
|---|---|---|---|
| storage | `blobstore` (trait) | `get`, `put`, `is_present`; a key has one value for ever | `BlobstoreContract` |
| | `blobstore/multiplexedblob` | one request per store, timeouts, background requests | `MultiplexedBlobstore` |
| | `blobstore_sync_queue` | table of (key, store, time): `add`, `iter`, `del`, `get` | `MultiplexedBlobstore`, `BlobstoreHealer` |
| | `cmds/blobstore_healer` | loop: read the queue, copy, delete rows | `BlobstoreHealer` |
| | `blobstore/cacheblob` | cache of blobs and presence, leases | `CacheBlobstore` |
| | `sqlblob`, `glusterblob` | a put in several steps | planned |
| | `fileblob`, `memblob`, `rocksblob`, `prefixblob`, `delayblob` | one call of a map each | not modelled |
| tables | `bookmarks`, `dbbookmarks` | transactions over bookmarks, update log | `BookmarksContract`, `SqlBookmarks` |
| | `changesets` | `add` with a check of the parents | in `CreateChangeset`; cached reads planned |
| | `bonsai_hg_mapping`, `caching_ext` | `add`, `get` from cache layers, replica, master | `BonsaiHgMapping` |
| | `filenodes` | sharded, chunked inserts in three tables, cached lists | `Filenodes` |
| | `phases` | public or draft, recorded, cached, computed | `Phases` |
| graph | `revset` | lazy streams of changesets by generation | `NodeStreams`, `AncestorStreams` |
| | `reachabilityindex` | skiplist index filled while it is read | `Skiplist`, `AncestorStreams` |
| repository | `blobrepo` commit creation | upload, wait for parents, finish | `CreateChangeset` |
| | `blobrepo` reads, memory manifests, `bonsai_utils` | manifests and their differences | planned |
| pushes | `bundle2_resolver/pushrebase` | rebase and move a bookmark, retry | `Pushrebase` |
| | `bundle2_resolver`, `unbundle` of `repo_client` | parts of a bundle, hooks, bookmark pushes, replies | `Resolver`, upload in `CreateChangeset` |
| | `hooks` | which hooks run on what, bypasses, cached verdicts | `Resolver` |
| | `hook_tailer` | its position in the log | planned |
| pulls | getbundle response | phases of heads, public roots | roots in `Phases`; contents planned |
| | `remotefilelog`, `streaming_clone`, rest of `repo_client` | replies to clients | planned, or stateless |
| wire | `hgproto`, `mercurial_bundles`, `netstring`, `sshrelay`, `async-compression` | decoders fed with arbitrary fragments | planned |
| memoizing | `asyncmemo` | bounded map of shared computations | `Asyncmemo` |
| server | `server`, `repo_listener`, `ready_state`, `futures-ext` | connections, readiness, stream adapters | planned |
| types | `mononoke_types`, `mercurial_types`, `mercurial` | paths, deltas, revlogs | planned as pure algorithms |
| tools | `blobimport` and other commands, `cache_warmup`, `apiserver`, `hgcli`, `metaconfig` | imports, reads, configuration | restart of `blobimport` planned; rest not modelled |

### How they interact

A push arrives as a bundle (`Resolver`). The resolver uploads its changesets concurrently
(`CreateChangeset`): every blob goes through the cache (`CacheBlobstore`) to the
multiplexed store (`MultiplexedBlobstore`), whose gaps the healer closes
(`BlobstoreHealer`); the mapping, the filenodes and the changesets row follow
(`BonsaiHgMapping`, `Filenodes`). A pushrebase then walks the graph between the
root and the bookmark (`CommitGraph`), compares paths, saves rewritten commits
and moves the bookmark with a transaction (`Pushrebase` over
`BookmarksContract`, implemented by `SqlBookmarks`), and records the new head as
public (`Phases`). A pull asks for phases, walks to the public roots (`Phases`)
and streams the changesets that the client lacks (`NodeStreams`,
`AncestorStreams` with `Skiplist`).

### Behaviours that are hard, and what has to hold

- A put is acknowledged by one store out of several. Nothing acknowledged may be
  forgotten, whatever fails, restarts or tidies up (`Durable`).
- A cache or a recorded fact may be late but not ahead of what it stands for
  (`CacheNeverAhead`, `PermanentIsRight`).
- Rows and blobs are written in many steps without a transaction; whatever is
  reachable from a row must be complete (`RowsClosed`, `CompleteData`,
  `NoHalfFilenode`).
- Races for the same bookmark: no lost update, a log that replays
  (`ImplementsContract`, `LogReplays`, `LogChains`), no landing on unseen
  conflicts, no landing twice (`LandedWithoutConflict`, `LandedOnceAndWhole`).
- Waiting on others (leases, row locks, parents of a commit, shared
  computations) always ends (`PutReturns`, `CommitReturns`, `PushLands`,
  `GetReturns`, `StreamEnds`, `HealingConverges`).
- Streams and indexes read while they are being filled are still exact
  (`WalkExact`, `QueryExact`, `ListIsSnapshot`, `ExactWhenStill`).

## Modules

State variables are the code's tables, maps, futures and messages. A future with
several `and_then` steps is a program counter per call; everything between two
points where other tasks can run is one action. Errors are a separate outcome of
a step, limited by `MaxFaults` where TLC needs it. Data is reduced to what the
properties tell apart: a blob is its key, a file is its path, a commit a number.

**MultiplexedBlobstore.** `req[p][s]` is the request of put `p` to store `s`:
sent, stored, done (its queue row is in), failed, or lost (given up by the
client but possibly still to be written). `ans[r][s]` holds the answers to a
read. `select_ok` is `Acked`: one store with its queue row suffices. A read that
heard only `None` and errors asks the queue (`ReadQueue`).

**BlobstoreHealer** extends it with the healer: `HealStart` reads a slice of the queue
(as many keys with old rows as the limit of this round, one of `Limits`, lets in, all their rows, in any order, so that
`group_by` may split a key into as many as `MaxRuns` groups), one future per group fetches from the stores its
rows name and copies to the others, rows are added for a partial heal, and rows
are deleted one by one. Any error stops the process; it is restarted.

**BlobstoreContract / CacheBlobstore.** The trait's promises for one key, and the
locking cache over memcache (lock and presence bit share one key, locks expire,
calls fail) or over cachelib with the in-process lease. A store put that failed
may still take effect (`late`); filling the cache is a background task.

**BookmarksContract / SqlBookmarks.** A transaction as one atomic step, and
`commit()` statement by statement with row locks, `AUTOINCREMENT` ids given out
at insertion, failures of statements and of the COMMIT itself, whose effect is
then unknown. `SqlBookmarks` implements `BookmarksContract`. `Replay` reads the
whole log in the order of the ids and applies each row under the condition it
names (an update or delete only where the bookmark is at its `from`), starting
from `Start`. Rows of no-op updates (`from = to`) are in the log, since the code
writes them, and are replayed like the others.

**CommitGraph, Pushrebase.** The loop of `rebase_in_loop`: root, closest
ancestor, conflicts over the range, rewritten commits, `try_update_bookmark` or
`try_create_bookmark`, retry with a check of only what is new. Others push,
merge, force the bookmark; a transaction answered with an error may have worked.
Commits may be empty, as in `test-pushrebase-empty.t`.

**CreateChangeset.** One handle per commit and push. A handle follows
`CreateChangeset::create`: with its entries uploaded and its parents' ids known
it computes the commit and tells its children (`Create`); it saves the two
changesets, checks what it refers to and adds filenodes, in any order (`Save`,
`FinalizeRequired`, `FinalizeFilenodes`); once its parents are complete it adds
the mapping and then the row (`AddMapping`, `AddChangeset`). A push fails with its first error and drops the rest; servers crash; clients
push again. `save_bonsai_changesets` (used by pushrebase) and the derivation of
Mercurial commits are in the same module.

**Asyncmemo.** `BoundedHash` with its accounting and one step of
`MemoFuture::handle` per use of the mutex; computations are shared futures.

**NodeStreams, AncestorStreams, Skiplist.** One loop pass of `poll()` per step.
Inputs become ready in any order and may fail. `Skiplist` has concurrent
indexers whose entries appear one by one while `process_frontier` walks.

**Filenodes.** Batches in chunks, one statement per shard and table; a read goes
from the row to its copy row to the path of the copy's source; replica first,
then master; memcache entries, and lists in chunks under random pointers.

**BonsaiHgMapping.** Insert-or-ignore with the check for conflicting rows, reads
from cachelib, memcache, replica and master (`caching_ext`), and the overlay that
keeps writes in memory. The changesets table is read in the same way.

**Phases.** One call: memcache, SQL replica, reachability from the bookmarks,
write-back. Callers are `known`, a pull with its walk to the public roots, and
the pushrebase that records its new head.

**Resolver.** One action per function of `resolver.rs` that takes a part from the
stream, then the upload (mapping and row of each commit, parents first), the
checks and the transaction for bookmarks (`BookmarksContract`, by INSTANCE), or
hooks, pushrebase (the root, then the landing in one step, whose inside
is `Pushrebase`), scribe and phases. Bundles are sequences of parts and may be cut
short; any step may be the last (`Break`: an error, the timeout of `unbundle`, a
crash). What a hook decides is a constant operator.

**MC modules** choose the instances. `MCTables`, `MCRevset` and `MCCaches` put two modules
side by side, and their initial states choose which of the two works, since the
parts share nothing.

## Runs

| run | instance | what it shows |
|---|---|---|
| `healer` | 2 stores, 2 keys, 2 puts, 1 read, 3 faults, rounds with room for 1 or for 2 keys, a key in up to 2 groups, any number of rounds; one key is already in one store only | A key whose put was acknowledged is in every store or has a row (`Durable`); a wrong `None` is possible only for a blob that has reached every store, so that a repeated read finds it (`StaleNoneIsTransient`); the queue is drained (`HealingConverges`) |
| `healer_get_after_put` | 2 faults, slices of 1 key | counterexample to `GetAfterPut`, see below |
| `bookmarks` | 2 bookmarks, 2 commits, 2 transactions with every kind of operation | refinement of the contract, all rows of the log replay to the bookmarks and its moves chain, every `commit()` returns |
| `pushrebase` | stacks of 2 and 1 commits on different bases, some or all of them empty, paths with a directory and a case variant, 2 outside moves, whose commits are not empty (`OtherFileSets`), 1 retry | landed pushes stay, land whole, once unless they change nothing, never over a conflict; retries are owed to moves |
| `caches` | blobs: 2 clients, 2 faults, both layers, futures are dropped over memcache; or phases: line with 2 racing clients, diamond with a pull, 1 bookmark move | the cached store keeps the trait's promises, puts return unless the cache is down; what is recorded of phases is right for good, answers are exact while bookmarks rest, roots cut, a stale draft fades |
| `commit` | a stack, a merge, siblings and a detached commit; 9 pushes in 6 combinations; 2 faults | the table is closed under parents, its commits are complete; success means stored; complete pushes get in |
| `memo` | weights 1, 2 and 3 against limits of 2 entries and weight 2, 2 tasks, 6 computations | limits and accounting exact, no regress, every get returns (and none panics) |
| `memo_lru` | the same | counterexample to `LruOrder`, see below |
| `revset` | four graphs (line, diamond, two roots, fan) of 5 and 6 nodes, 2 indexers, skip edges up to 3 | every stream yields its set, in order, once, and ends; skip edges never jump over a merge; queries are exact while the index fills |
| `tables` | 2 shards, 3 paths, 2 adders with a retry, 1 reader; 2 hosts for the mapping | no half rows, no false "not found", lists are snapshots, layers never disagree with the table |
| `resolver` | one of 7 usual bundles beside another of them, one of 18 that are refused or do less than it seems, or one of 3 cut off after any part; 2 bookmarks, one of them fast-forward only; a file hook and a changeset hook; at most 10 commits (`MaxCommits`), 1 fault, the repository may be locked at any time | protected bookmarks only move forward (`MovesForward`); nothing moves for a bundle that is not whole (`MovesAreEarned`); targets are stored, with one exception (`TargetsStored`); nothing lands past a hook (`HooksGate`); success means that every move was made as its pushkey was translated (`AnswerIsTrue`) |
| `resolver_asked` | the same | counterexample to `SuccessIsAsAsked`, see below |

Why the bounds suffice. Interference in this code is between two parties: a call
and another call, or a call and a background job; so there are two of each, and
three where a job and two calls meet (`healer`, `tables`). Faults are two or
three because the interesting cases need one to split a write and one to spoil
the repair (one in `resolver`, which repairs nothing). Stacks, chunks and lists have length two where the code treats
"first" and "next" differently. Graphs have up to six nodes: the smallest on
which a skip edge of length four, a merge and a second root exist.
`CHECK_DEADLOCK FALSE` is set only where the modelled calls are finite in number
and the system stops after them.

The bounds are `MaxFaults`, `MaxRuns`, `Limits` (storage), `MaxEvents`,
`RecursionLimit`, `MAX_REBASE_ATTEMPTS` (pushrebase), `MaxAgain`, `MaxFills`
(memo), `MaxRetries`, `MaxPointers`, `MaxInserts`, `ValueMax` (tables),
`MaxMoves` (phases), `SkipEdges` (skiplist).

## Fairness

Only weak fairness is used. In each case the code or its deployment owes it:

- steps of a call that has begun (`caches`, `bookmarks`, `commit`, `memo`,
  `revset`): the executor polls every future that was woken;
- the end of a shared computation (`memo`), an item of an input stream
  (`revset`): the caller's futures complete, with a value or an error;
- `HealerStep` and `Age` (`healer`): the loop in `schedule_everlasting_healing`,
  a supervisor that restarts the job, and time. Faults are finite in number, so
  "drains the queue" reads: if failures stop;
- `Waiting /\ StatementFails` (`bookmarks`): the database ends a wait for a lock,
  by deadlock detection or timeout;
- `Expire` (`caches`, of either part): locks and draft entries in memcache have a TTL;
- `Start` and `Derive` (`commit`): clients push again, and somebody asks for the
  derived commit. Nothing is assumed of a push whose data is incomplete.

Beginning a call is never fair, nor is any failure except the one above.

## Proofs

Each theorem holds for arbitrary sets of stores, keys, clients, transactions,
commits and pushes, and any number of faults.

| module | theorem | statement |
|---|---|---|
| `MultiplexedBlobstoreProofs` | `GetAfterPutHolds` | without a healer, a get that began after the acknowledgement does not answer `None` |
| `BlobstoreHealerProofs` | `HealerDurable`, `HealerStaleNone` | `Durable` and `StaleNoneIsTransient` with a healer |
| `SqlBookmarksProofs` | `LogReplaysHolds`, `LogChainsHolds` | all rows of the log, each under its condition, replay to the bookmarks; each update starts from the value the previous move left |
| `CacheBlobstoreProofs` | `CacheNeverAheadHolds`, `CacheImplementsContract` | the cache is behind the store; `CacheBlobstore` refines `BlobstoreContract` |
| `CreateChangesetProofs` | `RowsClosedHolds`, `CompleteDataHolds`, `DoneIsStoredHolds` | the three invariants of commit creation |

Assumptions are the named ASSUMEs of the modules: there is a store, `NoKey` is
no key (`MultiplexAssumption`); the limits are positive (`HealerAssumption`);
`None` is no commit, `NoTxn` no transaction, `Start` gives each bookmark a commit or
`None` (`BookmarksAssumption`); a commit has
at most two parents, the initial repository is closed under parents
(`UploadAssumption`); `MaxFaults` is a number (`CacheAssumption`). TLC evaluates
them in the runs.

The arguments:

- *Multiplex* (`MultiplexInv`). A request writes its row after its blob
  (`PutSound`), so a row implies the blob in that store (`EntrySound`). A read
  that must find its key has a store that holds it and has not answered `None`
  (`ReadSound`): not all stores answer `None`, so either one has the value or the
  queue is asked, and with nobody deleting rows the queue has one for every
  acknowledged key (`AckedInQueue`). All but the last is shared with the healer
  (`BaseInv`).
- *Healer* (`HealerInv`). What has to be added is what each group knows: the
  stores its rows name and the stores it has copied to hold the blob
  (`TaskSound`), and an id stands for one key, so that deleting by id deletes
  only rows of a key the healer has dealt with (`IdSound`). Hence a group
  that finished without a failure stands for a blob that is in every store
  (`CleanOnlyHealed`), and only such rows go. `Durable` alone is not inductive:
  without `TaskSound` a group could delete the last row of a blob it had not
  copied.
- *Bookmarks* (`BookmarksInv`). A row that a transaction has written is locked
  by it and still has the value that was checked (`LockSound`). The log rows it
  holds have ids above every committed move of the same bookmark (`HeldSound`),
  because ids are drawn after the lock was taken and the lock excludes other
  moves of that bookmark until the commit. This is why the order of ids is right
  per bookmark though not across bookmarks. For the replay the invariant also has
  that no two rows share an id (`IdsDiffer`), that the last move of a bookmark ends
  at its value (`LastMoveLeads`) and that the first starts from `Start` or creates it
  (`FirstMoveStarts`). `ReplayEnds` then climbs the ids: after each the replay is
  at the end of the last move so far; a move's condition holds there, by
  `LogChains`, and a no-op row, whatever it names, changes nothing. The climb is the
  lemma `Climb`, an induction over a set of numbers, obtained from a pigeonhole
  theorem of the library because its induction theorems cannot be used.
- *Cache* (`CacheInv`). At each program counter a call knows whether the store
  has the value (`CallSound`); a lock that expired or was taken over changes
  none of it, because only a call that has heard the store's Ok, or has read the
  value, makes the key present. Every step then maps to a step of the contract or to a stutter.
- *Commit* (`UploadInv`). Blobs and rows are never deleted, so what a handle has
  established stays (`HandleInv`): uploads are written, checks that passed still
  pass, a mapping exists only for complete data. `RowsClosed` is inductive by
  itself: whoever inserts a row, `add` has looked for the rows of its parents.

Only model-checked: every liveness property and everything with ENABLED; the
refinement `SqlBookmarks` => `BookmarksContract`; pushrebase, revset, skiplist
(defined by recursion on the graph, and proofs by induction over data are out
of the prover's reach), asyncmemo, filenodes, the mapping, phases and the resolver.
The type invariants, `CleanOnlyHealed`, `EntrySound` and `RowsReadable` are the
other way round: conjuncts of proved invariants, in no run.

## Where code and comments disagree

Shown by a run:

- `healer_get_after_put`: guarantee 3 of `src/blobstore/src/lib.rs:79` and the
  comment at `src/blobstore/multiplexedblob/src/queue.rs:98` call an empty queue a
  "true-none". The stores are asked first, the queue last; a healer that copies
  the blob and deletes its rows in between makes the get answer `None` for a blob
  that was acknowledged before it began. `StaleNoneIsTransient` bounds the
  damage: at that moment every store has the blob.
- `resolver_asked`: a pushkey is translated from Mercurial ids by
  `get_bonsai_from_hg`, for which an unknown id is `None` (`resolver.rs:566`), and
  `None` also stands for "no commit". A bookmark to be created on an unknown
  commit, or on one that another push is still uploading, is left out; one to be
  moved there is deleted; both are answered by the reply "saying that the push was
  successful" (`resolver.rs:1148`). An unknown old value becomes a creation, which
  fails where the bookmark exists. The transaction compares with the real value, so
  no move of others is lost, and a protected bookmark is not deleted
  (`MovesForward`). `AnswerIsTrue` is about the moves as translated.
- `memo_lru`: `boundedhash.rs:57` speaks of an LRU policy; a hit does not move
  the entry, so trimming is in insertion order.

Met while reading, without a run of their own:

- `dbbookmarks/src/lib.rs:555`: an update to the same value is checked with a
  SELECT that locks nothing, so the bookmark may have moved by the time of the
  commit. The contract allows that (`IsNoop`). Its row is logged all the same
  (:500-504), and may get a higher id than a committed move that it did not see:
  a log can end with c1 -> c2 followed by c1 -> c1 while the bookmark is at c2. Whoever
  sets the bookmark to the `to` of every row, or takes that of the last row for the
  current value, is wrong then, although the id is to be a "Number that sets a total
  order on single bookmark updates" (`bookmarks/src/lib.rs:111`). `LogReplays` holds
  because a replay under the rows' conditions is not misled by such a row.
- `pushrebase/src/lib.rs`: what stops a stack that is pushed again after it has landed
  is the conflict with its own paths. A stack of empty commits has none and lands
  again; `LandedOnceAndWhole` says so. Where the bookmark was absent at first
  and another push creates it without the root in its history, the range from the root
  holds none of the new commits and nothing is compared; `LandedWithoutConflict`
  leaves this case out.
- `getbundle_response.rs:265`: when the repository has no bookmark the walk to the
  public roots is broken off with no roots, although commits may be recorded as
  public from before; `RootsCut` is about the other pulls.
- `reachabilityindex/skiplist/src/lib.rs:2173`, a test, says that
  "AncestorsNodeStream incorrectly returns the node itself"; `revset/src/ancestors.rs:7`
  defines "The ancestors of the current node are itself, plus the union of all
  ancestors of all parents". The model follows the code and the latter (`WalkExact`).
- `cacheblob/src/locking_cache.rs:204`: a failed attempt to take the lease counts
  as not leased and a failed presence check as not present, so while the cache
  does not answer a put tries for the lease for ever, although "Errors returned by
  the cache are always ignored" (:38). `PutReturns` therefore excludes this case.
- `asyncmemo/src/lib.rs:457`: the weight limit is said to be for "both keys and
  values"; `boundedhash.rs:139` counts values when it decides what fits.
- `revset/src/range.rs:78`: "otherwise stream will be empty" is untrue for nodes of
  equal generation: unless the end is a root, the stream yields the start node.
- The documented contract of `lca_hint` is weaker than what `exclude_node`
  needs; the skiplist provides the stronger one (`WalkExact`).
- `is_ancestor` is false and `query_reachability` true for a node and itself.
- Filenode lists in memcache are keyed by path bytes only, not by whether the
  path is a tree; only file paths are ever listed.
- A file node on a replica without its copy row is an error that is not retried
  on the master (`CalmReadsSucceed` covers the case without lag).
- `phases/src/caching.rs:83` writes memcache before the database.
- `MemWrites` in `bonsai_hg_mapping` checks and inserts in two steps, so a row may
  be in its ordered list twice.
- The id of a commit resolves once its mapping is written, and its row follows
  (`repo.rs:2172`): a bookmark can be created on a commit whose upload is under way
  or was broken off there. `TargetsStored` states this exception; where a
  fast-forward is checked, the missing row is an error.
- Hooks run for a pushrebase with changesets, and neither for plain pushes nor for
  bookmark-only ones (TODOs at `resolver.rs:454` and `:491`).
- The read-only state is read from a replica, once, before the first part
  (`client/mod.rs:935`); a repository locked later does not stop the push.

## Limits

- Manifests have one level in `CreateChangeset`; renames, case conflicts inside
  one commit and hashing are left out. Content addressing is assumed: equal ids
  mean equal content.
- `Pushrebase` handles linear stacks; merges inside the pushed set need the
  manifest difference, which is planned. A deletion is a touched path.
- The SQL databases, memcache, cachelib and the executor are external: they are
  modelled from how the code uses them. Replicas show some earlier state of the
  master, per table row set.
- `Resolver` blocks merges in a pushrebase (`BlockMerges`), keeps raw bundles
  (`Preserve`), and reads the read-only state from the database, as in production.
  Pushkeys name commits that the clients made, not rebased ones.
- The gets, and the sets, of one call to memcache are one step each in `Phases`.
- Shards of `asyncmemo` and keys of `CacheBlobstore` are independent, so one of
  each is modelled.
- Not modelled because nothing changes state or all of it is I/O: `hgcli`,
  `metaconfig`, `cmdlib`, `streaming_clone`, `mononoke_api`, `cache_warmup`, the
  wrapper stores, fixtures, logging and statistics. Lua hooks run scripts that
  are not in the repository.

## Plan

Done: storage, bookmarks, pushrebase, commit creation, memoizing, revsets with
the index, mapping, filenodes, phases, the resolver with hooks; five proof modules.

Next, in this order:

1. **Wire** (`hgproto`, `netstring`, `sshrelay`, `mercurial_bundles`,
   `async-compression`): decoders as state machines fed with arbitrary
   fragments; property: the decoded messages do not depend on the fragmentation,
   nothing is consumed beyond a message, an incomplete one is never delivered.
   The `unbundle` dechunker and the handler's queue of requests in the same run.
2. **Chunked stores** (`sqlblob`, `glusterblob`) shown to implement
   `BlobstoreContract`; the composition cache over multiplex over chunked.
3. **Algorithms**: memory manifests and `bonsai_diff` against the difference of
   path maps, path conflicts of `mononoke_types`, delta application and
   composition, revlog delta chains. Recursive functions, checked over all small
   inputs.
4. **Jobs and server**: restart of `blobimport`, `hook_tailer`'s position,
   `ready_state`, connection counting, `futures-ext` adapters; which commits a
   getbundle reply holds; `remotefilelog` history.
5. **Theorems**: the refinement of the bookmark contract; `PermanentIsRight` of
   phases; `NoHalfFilenode` and the mapping's invariants; `MovesForward` of the
   resolver; the chunked stores.

Runs: the wire and algorithm suites each choose their scenario in the
initial state, as `MCTables` does; bounds of two messages, two or three fragments,
trees of depth two. At most eight proof modules are intended.
