# Models and proofs of PROJ

PROJ is mostly floating-point formulae, parsers and a large library of immutable
objects. This directory is about the rest: the parts where steps happen in an
order nobody wrote down (threads, processes, a server whose files change,
crashes, forks), and the few sequential algorithms in which one early step
decides about all later ones (the choice of an operation per point, the
simplification of a pipeline, the selection among candidate operations). They
are modelled in TLA+ and checked with TLC. Most of their safety properties, and
that the chunk database implements the bounded store it promises to be, are also
proved with TLAPS, for every value of the constants.

Source files below are relative to `src/src/` of the repository. In the
sections on network access, a line number without a file is one of
`networkfilemanager.cpp`.

## 1. Inventory

| Part | State | Operations | Hard behaviour | What makes it correct |
|---|---|---|---|---|
| On-disk chunk cache (`DiskChunkCache`, disk half of `NetworkChunkCache` and `NetworkFilePropertiesCache`, 196-1228) | SQLite tables `chunk_data`, `chunks`, `linked_chunks`, `linked_chunks_head_tail`, `properties` | insert, get, insert of properties with invalidation, clear | a recency list kept in SQL, three id spaces used as one, crash, failure of one statement, lock time-outs | one row per key, the list is the recency order, LRU eviction, capacity, an invalidation removes all and only the chunks of its file |
| Memory caches (`gNetworkChunkCache`, `gNetworkFileProperties`, `include/proj/internal/lru_cache.hpp`) | chunks and properties of a process | insert, tryGet, clear | eviction between two steps of a reader | an entry is never another key's |
| Remote file (`NetworkFile`, 1236-1512) | position, request size, last downloaded offset, properties it was opened with, `m_hasChanged` | open, read, seek, close | threads, the file replaced on the server, short chunks, network errors | exact bytes in order, no content of an older version, reads end |
| Download of whole grids (2507-2878) | local file, temporary file, table `downloaded_file_properties`, what contexts remember | is download needed, download | overlap of two processes, crash between unlink and rename | the local file is whole; recorded properties are not ahead of it; who downloaded sees it |
| HTTP back ends (1540-2210) | a handle, the last headers | open, read_range, get_header_value, close | retries with growing delays, no transfer timeout | a request ends |
| File manager (`filemanager.cpp`) | `lookedupFiles` of a context | open_resource_file and its search paths | negative entries, recursion through the database | a file that exists is found |
| Grids (`grids.cpp`) | sets of grids, sub-grid trees, line and block caches | findGrid, interpolate, reopen | the remote file changes inside an iteration | after a reopening the point is computed again from the start, with the new grid only |
| Grid transformations (`transformations/{hgridshift,vgridshift,gridshift,xyzgridshift}.cpp`) | deferred opening of a PJ, process-wide sets of known grids, types and node cache of gridshift | construct, forward, reverse | an error number left by somebody else; a point that changes the operation | errors are reported, an answer does not depend on earlier points |
| Choice per point (`trans.cpp`, `crs_to_crs.cpp`) | candidate list, last operation used, flags, error number | proj_trans, proj_trans_array | retries after a failure, fallback, stale error numbers | a result is that of the reported operation, the most accurate first |
| Pipelines (`pipeline.cpp`) | steps, four stacks | forward, inverse, push, pop | steps omitted in one direction | forward and inverse undo each other, the stacks are left empty |
| Pipeline strings (`PROJStringFormatter`, `iso19111/io.cpp`) | a list of steps and a cursor | toString, startInversion, stopInversion | some thirty local rewriting rules, each right only in its context | the same function in both directions; it ends |
| Operation factory (`iso19111/operation/coordinateoperationfactory.cpp`) | none that lasts: a list of operations | createOperations: search; filter, sort, remove (`FilterResults`) | eighteen criteria in turn; three removals and a second chance | what fits is kept, once; the order is one of the operations, not of the search |
| Database handles (`iso19111/factory.cpp`, `sqlite3_utils.cpp`) | process-wide handle cache; handle, statements, auxiliary databases, insertion session of a context | getHandle, invalidateHandles, run, attachExtraDatabases, insertion sessions, proj_cleanup | fork while another thread opens or queries; reopening | no connection on both sides of a fork; statements belong to the connection |
| Init cache, contexts, locks (`initcache.cpp`, `ctx.cpp`, `mutex.cpp`, `malloc.cpp`) | append-only list, settings, error number | search, insert, cleanup | two threads insert the same file | first entry wins |
| Object model, WKT and PROJJSON, C interface (`iso19111/`) | none that changes | | large sequential algorithms | not a matter of states |
| Projections, conversions, geodesics, other transformations, applications | none | | numerical | not a matter of states |

How they interact. `createOperations` finds candidates in proj.db through the
handles, `FilterResults` selects and sorts them, `PROJStringFormatter` writes
each as a pipeline, `proj_create_crs_to_crs` keeps them as a list, and
`proj_trans` picks one per point. Its steps ask the grids for a value, the grids
read a `File`, and a `NetworkFile` looks a chunk up in the memory cache, then in
the database of chunks, then asks the server and stores what it got in both. A
change seen by `NetworkFile` (`m_hasChanged`) is found by the grids through
`hasChanged()`, which reopen the file and compute the point again. Errors come
back through the error number of the context. `proj_download_file` uses the
chunk database for a table of its own, and removes negative entries of the file
manager and of the database context. `proj_grid_cache_clear` unlinks the chunk
database under everybody; `proj_cleanup` closes the default context's database
and empties the memory caches.

`PROJECT.json` lists the hazards at their lines, with the property that would
catch each, or why there is none.

## 2. Modules

| Module | Models | Uses |
|---|---|---|
| `LruChunkStore` | what the chunk database promises: a bounded store of chunks with recency, recyclable slots and properties; no table and no link | |
| `DiskChunkCache` | the tables and the statements on them, row by row | `LruChunkStore` (refinement) |
| `NetworkFile` | open, read, seek, close of one remote file by several threads and processes | `LruChunkStore` (as the database) |
| `GridDownload` | proj_is_download_needed and proj_download_file in several processes, and what their contexts remember of the file | |
| `GridShift` | hgridshift, vgridshift and gridshift over grid sets whose files change | |
| `ProjTrans` | the candidates of a transformation, proj_trans and proj_trans_array | |
| `Pipeline` | what a pipeline computes, in both directions | |
| `PipelineString` | the simplification of a pipeline before it is written | `Pipeline` (as its meaning) |
| `FilterResults` | filtering, sorting and thinning the operations that a search found | |
| `DatabaseHandles` | the connections to proj.db of a program with threads that forks | |
| `MC...` | instances for TLC | the module after `MC` |
| `DiskChunkCacheProofs` | lemmas about the linked list, the recency order and the walks along the list; the inductive invariant, the theorems, the refinement | `DiskChunkCache` |
| `NetworkFileProofs`, `GridDownloadProofs`, `GridShiftProofs`, `ProjTransProofs`, `PipelineStringProofs`, `FilterResultsProofs`, `DatabaseHandlesProofs` | lemmas, inductive invariant and theorems of that module | the module |

Definitions commented as a plausible mistake are wrong versions of the
definition that follows them. They are no part of a specification; replacing the
right one by the wrong one breaks the property that `PROJECT.json` names.

### DiskChunkCache

Rows are added and updated, never deleted, so a table is a sequence and an
AUTOINCREMENT id is a position. All work runs between `BEGIN EXCLUSIVE` (300)
and the `COMMIT` of the destructor (562), so an operation is one step. The one
exception is the invalidation of a file: `InvalidateBegin`, one `InvalidateMove`
per chunk, `InvalidateCommit`. It is spread out because `Crash` may then roll it
back from any point, and because the order of its moves is that of a SELECT
without ORDER BY. While it runs no other action than its own, a crash or a
clearing is enabled, as the lock demands.

| Code | Action or operator |
|---|---|
| `NetworkChunkCache::insert`: row exists (813) / recyclable tail (895) / full (913) / append (944) | `InsertExisting`, `InsertReuseInvalidated`, `InsertEvictTail`, `InsertAppend` |
| `reuseExistingEntry` (849) | `ReuseRow` |
| `NetworkChunkCache::get` (1020) | `GetHit`, `GetMiss` |
| `NetworkFilePropertiesCache::insert`, no row (1166) / row differs (1114) | `PropsInsert`, `InvalidateBegin` and what follows |
| same, row equal: only `lastChecked` changes | no step (the column belongs to `NetworkFile`) |
| `move_to_head`, `move_to_tail` and the updates they call | `MoveToHead`, `MoveToTail`, `MoveToHeadSteps`, `MoveToTailSteps` |
| `closeAndUnlink` (577) | `Clear` |
| early returns after a failed statement, then COMMIT | `AppendFails`, `TouchFails`, in `FaultySpec` only |

The model keeps what the code does with ids: the join is on `chunks.id =
chunk_data.id`, the tail (a link id) is compared with a chunk id, and the first
chunk's id is written where a link id is meant. Variable `newer` is a history:
the order in which chunks were last used, which the list is compared with.

Left out: `data_size` (insert does not update it when it replaces the data of a
row, so the contents of one key are taken to be of one size) and `lastChecked`.

### NetworkFile

A version number stands for a file on the server and for its size,
Last-Modified and ETag; a chunk is a version and an index; a byte read is a
version and an offset, so that a property can tell where each byte came from.
A call is cut wherever another thread can run between two accesses to the
caches, and around requests. A lookup or an insertion, which reaches memory and
then the database, is one step, and so is recording changed properties together
with emptying the memory cache (1437-1438). An answer always carries the headers that
`get_props_from_headers` needs; without them `open` fails, as after a
network error, and `read` skips the comparison.

| Code | Action |
|---|---|
| `NetworkFile::open`: properties (1071), first chunk (1075), request (1318), record (1327), store (1329) | `Open`, `OpenProps`, `OpenChunk`, `OpenRequest`, `OpenRecord`, `OpenStore` |
| `NetworkFile::read`: lookup (1359), request size (1363-1384), look-ahead (1389), request (1400), comparison (1431), storing (1449), copying (1458) | `Read`, `LookupHit`, `LookupMiss`, `Probe`, `ProbeEnds`, `Request`, `Compare`, `Store`, `CopyRegion` |
| `seek`, destructor | `Seek`, `Close` |
| memory cache eviction; `FileManager::clearMemoryCache` | `ForgetChunk`, `ForgetProps`, one or many times |
| the TTL test of `tryGet` (1217) | `Expire` marks the row old |
| lock not obtained after all retries (311) | the `LockTimesOut` disjuncts of `Get`, `Insert`, `TryGet`, `RecordProps` |
| `proj_grid_cache_clear` | `ClearDisk` |

### GridDownload

One grid that the database knows as one of the CDN; a file is the sequence of
the versions its units come from, so a mixture or a fragment would show. Every
process has one context and is in at most one call, cut at each access to the
server, the directory and the database; it may die at each cut (`Die`).

| Code | Action |
|---|---|
| `proj_is_download_needed`: file exists (2541), cache opened (2548), a SELECT that may fail (2552), TTL and request (2574) | `Exists`, `OpenCache`, `CacheUnavailable`, `AskServer`, `AskFails` |
| `proj_download_file`: forgetting negative answers (2692), temporary file (2726), first and further requests, close, unlink, rename, record | `Create`, `First`, `More`, `Close`, `Abandon`, `Unlink`, `Rename`, `Record` |
| `pj_find_file`, `open_resource_file` with the network, `lookForGridInfo` | `FindFile`, `LookForGridInfo`, `Resolve` |
| the server, the TTL | `Publish`, `Expire` |

### GridShift

One context and one operation. Space is cut into cells; a point, like a guess of
the inverse iteration, is the cell it is in, and a shift is the provenance
`<<set, version, grid, cell>>` of the nodes it came from: a property can then
say whether an answer mixes versions or grids without any number. A call is cut
at each search and each interpolation; between them the server may publish
another version of a file. An interpolation may find the network down.

| Code | Action or operator |
|---|---|
| opening of the `+grids` list, `known` grids, deferred opening (`hgridshift.cpp` 32-40 and 166-190, and the same of the other two) | `CreateDeferred`, `Create`, `BeginDeferred`, `OpenList`, `Remember`, `Destroy` |
| `gridAt`, `pj_hgrid_apply`'s search (`grids.cpp`) | `GridAt`, `FindGrid`, `Search` |
| `valuesAt`, nodata, edges, `m_cacheGridInfo` | `Interpolations`, `Keep` |
| `pj_hgrid_apply_internal` and gridshift's iteration | `First`, `Iterate` |
| `hasChanged`, `reopen`, the retry | `HasChanged`, `Reopenings`, `Reopen`, `Retry` |
| `gridshiftData::apply`, `checkGridTypes`, second pass for heights | `CheckGridTypes`, `SearchType`, `Switches`, `NeedsSecond`, `PassDone` |

Left out: null grids, the calls limited in time, `m_offsetX` and `m_offsetY`,
projected grids, xyzgridshift and deformation.

### ProjTrans

An operation is a record of what the choice looks at: area boxes, accuracy,
offshore, priority, ballpark, whether its grids are there, and the points it
answers. `Create` is `proj_create_crs_to_crs_from_pj` with its options;
`Consider` looks at one candidate, `Attempt...` is what one attempt came to,
`Fallback` and `NoFallback` the end of the list, `RunSingle` the case of one
operation, and `TransArray`, `ArrayPointReturns`, `ArrayReturns` the loop of
`proj_trans_array`. The grids' server comes and goes (`ServerChanges`). One
direction is modelled: the other is the same code with the other boxes. Left
out: epochs, NaN, the selection in geocentric coordinates, and a change of the
network setting after the creation.

### Pipeline and PipelineString

`Pipeline` gives a pipeline its meaning, forward and reverse, over coordinates
that are numbers modulo 7: an operation is a bijection that reads and writes the
components the real one does and obeys its laws (unit conversions multiply,
shifts by a vertical grid add what the horizontal coordinates select, a Helmert
step is taken to its first order). `PipelineString` is `toString`: one action is
one turn of one of its loops.

| Code (`iso19111/io.cpp`) | Action |
|---|---|
| `startInversion`, `stopInversion` | `Inverted`, in `Init` |
| removal of steps that do nothing; writing an inverted step without `+inv` | `RemoveStep`, `KeepStep`, `Uninvert` |
| the loop on neighbours (8988-9717) | `MergeUndone`, `MergeUnits`, `SwapUnitsAndAxes`, `DropAxesAroundUnits`, `MergeAxes`, `DropSet`, `SumTranslations`, `TurnKrovak`, `DropLonglat`, `MergeNothing` |
| the loop on grids (9719-9984) | `SaveAroundShift`, `DropConversions`, `MoveVerticalAfterPush`, `GridNothing` |
| the last loop (9986) | `CancelUndone`, `CancelNothing` |

A conversion of a unit to itself goes or stays, since only
`coordOperationOptimizations_` removes it (8902); every result of either is checked.
The inputs leave out what the code does not handle or the library does not
build: pipelines that begin with the pattern of `DropConversions` (divergence 14),
a Krovak projection followed by the inverse of another one (17), long patterns
whose steps between push and pop do not lead back (15), and push and pop that
do not pair.

### FilterResults

An area is a set of cells. `ComputeAreaOfInterest`, `FilterOut`, `Sort`,
`RemoveSyntheticNullTransforms`, `RemoveUninterestingOps`, `RemoveDuplicateOps`
are the member functions of that name, in the order of the constructor and
`andSort`. `Criteria` are the comparisons of `SortFunction::compare` in their
order; `Sorted` is an insertion sort, which is what `std::sort` does to a short
list. The exceptions for four French operations are left out; names are reduced
to their length and rank. The list that the search found is any of a set.

### DatabaseHandles

The memory of a process is one record; a fork copies it, mutexes included, and
of the threads keeps one. Parent and child share nothing the model describes, so
a behaviour follows one of them at each fork: both are explored. A call is cut
at each mutex it takes: that of the handle cache, and the one SQLite keeps in a
connection opened with `SQLITE_OPEN_FULLMUTEX`.

| Code (`iso19111/factory.cpp`) | Action |
|---|---|
| `SQLiteHandleCache::getHandle` (660), `clear` (653) | `Lock`, `Register`, `Get`, `GetFails`, `Clear` |
| the handlers given to `pthread_atfork` (667), `invalidateHandles` (696) | `Prepare`, `ParentAfter`, `ChildAfter` |
| `handle()` (1048), `closeDB` (998), `run` (1424) | `Handle`, `Finalize`, `Run`, `Ran`, `RunFails` |
| `attachExtraDatabases` (1313), `startInsertStatementsSession` (3077), `stopInsertStatementsSession` (3333) | `AfterTables`, `Attach`, `AttachFails`, and `Begin` for their guards |
| `DatabaseContext::create` (2991), the destructors (990, 2961) | `Opened`, `Discard` |
| `projCppContext::getDatabaseContext`, `closeDb`, `proj_cleanup` | `Begin`, `Opened`, `Discard` |
| fork(2) | `StartFork`, `ForkInParent`, `ForkInChild` |

A call is what it was asked (`op`) and whether it is at present opening its
context's database, for the first time or again (`opens`). Everything that throws
in the code may throw in the model: the opening of the file (`GetFails`), a
query, the structure of a session's database (`RunFails`), and every statement of
`attachExtraDatabases` after it has closed the connection (`AttachFails`: the context
is left without a handle or with an empty memory database). `Thrown` is where the
exception leads: out of the call; into the destructor of a context that was being
created; or, in the destruction of a context, on with its members.

`strays` and `caught` are histories of what the code leaves open at a fork, the
field `failed` of a context one of an attachment that threw in its session; see
divergences 18 to 24. Left out: what the queries ask, the object caches of a
`DatabaseContext`, the search for proj.db.

## 3. Runs

| Run | Instance | Question | Result |
|---|---|---|---|
| `disk_cache` | 2 files × 2 chunks, 2 contents, 2 versions of the properties, capacity 3 | are the tables consistent, and is the database the store it promises to be? | holds, 518 568 states |
| `disk_cache_faulty` | the same, with failing statements | "FOREIGN KEY (data_id) REFERENCES chunk_data(id)": does a lookup read the row its chunk refers to? | violated |
| `network_serial` | 2 processes of 1 thread, 2 versions of 2 chunks, database of 2 chunks, calls do not overlap | can the database hold a chunk older than the properties it records? | never, 2 962 408 states |
| `network_threads` | 2 threads of 1 process, one version of 3 units in chunks of 2, reads of 3, database of 1 chunk, clearing and lock time-outs | does each read return exactly what it should, and does each call return? | yes, 439 876 states |
| `network_reopened` | 1 thread, 2 versions of 2 chunks | "so that old cached content is not erroneously reused": does a file give only bytes of the version it was opened with, or newer? | violated |
| `grid_download` | 2 processes, versions of 2, 3 and 2 units | is the file under the grid's name whole, its record not ahead of it, and does the one who downloaded it see it? | yes, 4 055 126 states |
| `grid_shift` | 2 files of up to 2 versions, 3 cells, 3 iterations, 2 publications, the three operations | does an answer come from the files that are open, is every failure reported, does every call return? | yes, 146 268 states |
| `grid_shift_mix` | a file with a 3D grid, one with a horizontal and a vertical grid | "Combine 2 above type of grids": does a point get the same shift whatever points came before? | violated |
| `proj_trans` | every list of at most 3 of 8 operations and some of 4 or 5, every option of their creation, 3 points, arrays of 2 | is the right operation used, named, and its failure reported? | yes, 1 998 095 states |
| `pipeline_string` | all pipelines of up to 3 to 5 steps over seven alphabets, 3-step pipelines followed by their inverse, the long patterns with a step less; built forward or inverted | does the simplified pipeline do the same, both ways, and does the simplification end? | yes, 701 898 states |
| `filter_results` | lists of up to 3 of 13 operations, and of 3 between realizations of ETRS89, some longer; some 30 requests | is what fits kept, once, in an order of its own? | yes, 502 920 states |
| `db_handles` | 2 threads, one with the default context, one with a context that has auxiliary databases, a process and its child, one proj_cleanup, exceptions everywhere | who uses which connection, with which statements and tables, and does every call return? | as the properties say, 92 536 states |

Why the bounds are enough.

`disk_cache`: four keys and three rows make every branch of `insert` happen:
append, replace, evict, recycle; three items are the least for which the head,
the middle and the tail of the list differ, two files let an
invalidation leave chunks of another file in between. No counter is bounded: the
state space is finite because a full database recycles rows.

`network_serial`: two processes are the least for which one has in memory what
the other has invalidated. Two versions show each invalidation once; three are
beyond reach (more than 12 million states).

`network_threads`: a read of three units crosses a chunk boundary and meets the
short last chunk, and sequential reads double the request, up to `MAX_CHUNKS` = 2
here. The database holds fewer chunks than the file, so that chunks are evicted
while they are in use. The server keeps one version: bytes of two versions may
mix in one read when the file changes, which is why `m_hasChanged` exists. A file
that ends on a chunk boundary, where the next request gets nothing, does not
happen in this run.

`grid_download`: two downloads overlap in every way two can, with a third version
published while either runs, and a file of three units whose first answer holds
one. `RecordNotAhead` is stated until a download finishes after a newer one was put
in place: from then on it is false in the code (divergence 9).

`grid_shift`: a set with a subgrid, its parent, a hole of nodata, and another set
that covers the rest are what the search distinguishes; the replacement of the
first file is unreadable, that of the second has types gridshift refuses. Three
iterations let the guess leave its grid and come back.

`proj_trans`: three attempts are made per point, so lists of up to five let the
attempts run out with and without a fallback. The eight operations differ in what
the code tests: grids on disk, remote or unknown, offshore, priority, ballpark,
two boxes, no box.

`pipeline_string`: a rule looks at two to eight neighbouring steps. All short
lists over the steps a rule is about cover the rules on two or three steps; for
the two patterns of seven and eight steps, the pattern, what surrounds it and
every version with a step less. Three coordinates modulo 7 tell all the steps
apart that the rules may confuse.

`filter_results`: a comparison sees two operations and a removal the last one it
kept, so an inconsistency shows with three operations.

`db_handles`: one key of the cache and one child are enough to share a
connection; one cleanup is enough to have a connection that the cache has lost.
The number of calls, of exceptions and of openings is not otherwise bounded. A
thread waits for a mutex that another holds, so a context for each thread, one with
and one without auxiliary databases, lets every call meet every other; a second
context of a thread is at rest meanwhile, or was left as a fork found it. With three
contexts, one thread having two of them, the invariants hold as well (1 736 010
states), but liveness is out of reach; the theorems of section 4 are about any
number.

Deadlock is checked except where the system stops: `grid_download` (every process
may die), `proj_trans` (the creation may fail), `pipeline_string` and
`filter_results` (the algorithm ends), `db_handles` (a child may wait for ever
for a mutex that a lost thread holds, divergences 20 and 22). The two contents of
`disk_cache` are symmetric; no run with a liveness property uses symmetry.

Fairness.

* `NetworkFile`: weak fairness of `Continue(t)`. A thread inside a call is run by
  the operating system, no step of a call waits for another thread (a lock on the
  database is given up after 30 attempts, 311), and a request ends. The last
  point is an assumption on the network: the code sets no transfer timeout.
* `GridShift`: weak fairness of `Step`, the same assumption; nothing about
  `Publish`, which the bound on publications ends.
* `PipelineString`: weak fairness of its only thread.
* `DatabaseHandles`: weak fairness of the steps that need no mutex, strong
  fairness of those that take one. A mutex alone promises less; no thread holds
  one of these twice in a row without a step outside, and every usual
  implementation lets a waiter in. Nothing is assumed of the application (which
  calls begin, whether it forks), nor of what throws.

What the violations show.

1. `disk_cache_faulty`. `get` joins `chunks.id = chunk_data.id` (1027) instead
   of `chunks.data_id`. The ids agree while the two tables grow together, which
   `Lockstep` proves, as long as no statement fails alone. If the second INSERT of an append
   fails (961), the destructor commits the first, and all later appends are
   off by one: lookups return the data of another chunk, or nothing.
2. `network_reopened`. `open` records the fresh properties, which invalidates
   chunks in the database, but not the memory cache, as `read` does (1438). A
   long-running process that opens the file again can mix the first chunk of the
   new version with others of the old one, and `hasChanged` stays false.
3. `grid_shift_mix`. `gridshiftData::apply` assigns `HORIZONTAL_OFFSET` through a
   reference to `m_mainGridType` (`transformations/gridshift.cpp:768`). After one
   point off the 3D grid the operation never looks at that grid again: a point it
   covers is refused, or shifted without it.

## 4. Proofs

A theorem holds for every value of the constants that satisfies the named
assumptions of its module, which TLC evaluates on every run. Unless the table
says otherwise it is of the form `Spec => []Property`.

| Module | Theorem | Property |
|---|---|---|
| `DiskChunkCacheProofs` | `TypeCorrect` | `TypeOK` |
| | `Lockstep` | `IdsInLockstep`: chunk, data and link of one row have one id |
| | `LookupIsByForeignKey` | `LookupReadsOwnData`: without failing statements the join is right |
| | `KeysAreUnique` | `OneRowPerKey` |
| | `ListIsOrdered` | `ListIsRecencyOrder`: the list, of any length, is the recency order |
| | `RecyclableRowsLast` | `DoomedAreOldest` |
| | `Bounded` | `WithinMaxSize` |
| | `AuditPasses` | `Consistent`: the walks from both ends meet every link once |
| | `Implements` | `Spec => ImplementsStore`: the refinement of `LruChunkStore` |
| `NetworkFileProofs` | `TypeCorrect` | `TypeOK` |
| | `ReadsAreExact` | `ReadExact`, when the server's file does not change |
| | `RecordedPropsDoNotGoBack` | `Spec => RecordedPropsAdvance`, when calls do not overlap |
| | `OlderChunksAreGone` | `NoOlderChunkOnDisk`, when calls do not overlap, no lock times out and nobody clears the database |
| `GridDownloadProofs` | `TypeCorrect` | `TypeOK` |
| | `LocalStaysWhole` | `LocalIsWhole`: no part of a grid under its name |
| | `RecordIsNotAhead` | `RecordNotAhead` |
| | `DownloadsAreSeen` | `DownloadIsSeen` |
| `GridShiftProofs` | `AnswersAreOfOpenGrids` | `AnswerFromOpenGrids`: no answer mixes versions of a file |
| | `NetworkErrorsAreReported` | `NetworkErrorIsReported` |
| | `MandatoryGridsStay` | `MandatoryGridsAreThere` |
| `ProjTransProofs` | `LastUsedIsTheProducer` | `LastUsedIsProducer` |
| | `AnswersAreTheBestLeft` | `MoreAccurateOnesFailed` |
| | `OnlyTheBestAnswers` | `BestOrNothing` |
| | `NoOperationIsJustified` | `NoOperationIsTrue` |
| | `ArraysReportFailures` | `ArrayReportsFailures` |
| | `NetworkErrorsAreOwn` | `NetworkErrorIsOfThisPoint` |
| `PipelineStringProofs` | `CursorStays` | `TypeOK`, unless the beginning of the list is erased (divergence 14) |
| | `NothingIsLeft` | `NothingLeftToCancel`, likewise |
| | `ForwardIsKept` | `RunsTheSame`: forward, the pipeline written does what the one built does, unless a rule is `Mistaken` (divergences 14, 16, 17) |
| | `BothWaysAreKept` | `SameBothWays`, if moreover no vertical shift is moved after a push (divergence 15) |
| | `StacksAreEmptied` | `StacksEmptied`, likewise, for inputs that empty theirs |
| `FilterResultsProofs` | `ResultIsSelected` | `Spec => [](Done => res = Selected(sourceList))`: no more than that the member functions run in their order |
| | `NothingOnlyForAReason` | `EmptyForAReason` |
| | `NoExportableTwice` | `NoOperationTwice`, when all that was found can be exported |
| | `NothingTwice` | `NoOperationTwice`, when `OpsComparable` |
| | `SameForAnyOrder` | `OrderIndependent`, when `OpsComparable` |
| | `NothingIsLost` | `NothingLost`, when `OpsDistinct`, `PlaceholdersAreVague` and `TargetKnown` |
| `DatabaseHandlesProofs` | `TypeCorrect` | `TypeOK` |
| | `QueriesAreOnOwnConnections` | `OwnConnection` |
| | `ContextsStayWhole` | `ContextsAreWhole` |

Every proof has the same outline. None of the properties is inductive alone, so
each module defines a stronger invariant, `IInv`; there is one preservation lemma
per action, collected in `NextIInv`; `Inductive` is `Spec => []IInv`; the theorem
follows because `IInv` implies the property. TLC checked each `IInv` on the
instance of the module's run before it was proved.

### Chunk database

Assumptions: the capacity is a natural number, there is a key, and the special
values (no chunk, no row, no transaction, the invalidated url) are not ordinary
ones. They hold in the code by the types, except `InvalidatedIsNoUrl`, which
takes no file to be named `invalidated`. `IInv` joins

* `Tables`: types, and the three tables in lockstep. Without it a link id could
  not be used as a chunk id, and no other conjunct could speak of "the row at
  the tail";
* `Others`: types of the remaining variables;
* `Linked`: `newer` is a strict total order of the rows, and the list
  is that order (`StrictOrder`, `Chained`). A statement about the list alone
  is not enough: that a removed item's neighbours become adjacent is a fact about
  the order;
* `OneRowPerKey`, `DoomedAreOldest`, `WithinMaxSize`;
* `Rollback`: the list and the order saved by an invalidation satisfy the same
  conjuncts, so that `Crash` restores a good state.

The core is about the list: `MoveToHeadChained`, `MoveToTailChained`
and `AppendChained` say that the five UPDATEs of a move, and the INSERT with the
two UPDATEs of an append, turn a list that is order R into one that is R with the
item first or last. They rest on what each
field holds after the five writes (`MoveToHeadWrites`, `MoveToTailWrites`) and on the
neighbours in the changed order (`NewestPairs`, `OldestPairs`).

`Consistent` follows from `Linked` without a further invariant. The walk from the
head is at item a after as many steps as there are items newer than a
(`WalkFollows`): otherwise take an item of least rank where it is not; its `prev`
has a lower rank, so the walk was there one step earlier. The walk from the tail
is the same statement about the order read backwards.

`Implements` needs `RInv`: `IInv`, that a row with a chunk has an offset
(`Keyed`), and `Pending`: an invalidation under way has something to discard, and
the chunks of the other files are still in the order that a rollback would
restore. The last conjunct is what makes the commit one step of the store. The
refinement mapping is the last definitions of `DiskChunkCache` (`Held`, `Recent`,
`Recyclable`). `StoreOf` says what the mapping gives, row by row; `Touches` and
`Holds` what the store becomes when a row is made the newest, which serves an
insertion of each kind and a hit; `AllLive` that no row is recyclable unless the
one at the tail is. Then there is one lemma per action: `InsertExisting` is
`Replace`, `InsertReuseInvalidated` is `FillFree`, `InsertEvictTail` is `Evict`,
`InsertAppend` is `Add`, both lookups are `Lookup`, `PropsInsert` and
`InvalidateCommit` are `Refresh`, `Clear` is `Clear`, and the beginning, the moves
and the rollback of an invalidation change nothing of the store.

### Remote file

Assumptions: sizes of versions, chunks, requests and reads are positive, every
thread is of one process, and the special values are not ordinary ones.

`IInv` joins the types, `StoreFits` and `MemoryFits` (a chunk is kept under the
index it has, which is one that its version reaches), and `CallFits` for each
thread: what a call may rely on at its stage. The
conjunct `Exact` of the latter says that the bytes copied so far are those that
were asked for, in order, and holds of a file with one version only.

The hypotheses of the theorems are part of what they say:

* `ReadsAreExact` takes `Len(Size) = 1`. If the file changes during a read, the
  read may return bytes of two versions; the code says so by `m_hasChanged`, and
  `grids.cpp` computes the point again. Threads may interleave in any way, caches
  evict, the database be cleared and its lock time out.
* `RecordedPropsDoNotGoBack` takes `Serial`: a call whose request was answered
  before the file changed may record its answer after another one recorded the
  newer properties. `SInv` says that at most one call is under way, that the
  recorded version is no newer than the server's, and that what a call is about to
  write lies between the two.
* `OlderChunksAreGone` also takes `~LockTimesOut` and `~MayClear`: divergences 1
  and 2 are the counterexamples. `DInv` adds that no chunk, cached property or
  open file comes before a recorded row.

`Turn` is what a step of one thread may do to the caches; the serial theorems
look at that instead of at each action.

### Download of grids

Assumptions: sizes are positive, the special values are not ordinary ones.
`IInv` joins `TypeOK`; for each process `Temporary` (its temporary file begins with
the version that the first answer announced, holds nothing older, and has the
announced size before it is renamed) and `Forgotten` (between the creation of that
file and the record the context remembers nothing of the grid); `InPlace` (the file under the grid's name is whole) and
`RowFits` (the record is no newer than what was put in place). The properties are
about the file and the row only; what makes them inductive is what each process
knows of its own temporary file while all others run or die.

### Shift grids

Assumptions: the files are lists of versions, each a list of grids, a first
version is readable, an iteration is allowed, an address exists. `IInv` joins the
types, `Located` (the grid being read is one of the set it belongs to),
`ListIsWhole`, `FailureIsKept` (a network failure during the call has left an
error number) and `Gathered` (the shifts collected by an iteration come from the
versions open now, the first one from the first set that covers the point).
`Gathered` survives a reopening because the code then starts the point again.

### Choice per point

Assumptions: what the search returns are lists of operations. `IInv` joins the
types, four of the properties, and a description of the search half way: `Scan`
(what the best candidate so far beats, or why there is none), `Exhausted` (the
fallback comes when the attempts are spent, or every candidate that covers the
point was tried or skipped), `OneAttempt`, `Outcomes`,
`OwnNetworkError`, `PointsLeft` and `Gathered` (what the array call
remembers of the errors of its points).

### Pipelines

Assumptions: the pipelines are lists, of steps with the parameters that the
operations accept (`IsStep`), and the points are coordinates. Lists are of any
length, parameters any of their type.

`IInv` joins the type of the list (`IsList`),
`Cursor` and `Scanned`: what the last loop has passed contains no two neighbours
that it removes. `Cursor` is what the source asserts at the head of each loop. It
survives every rule because a rule is guarded by the length it looks at and goes
back no further than the beginning, with one exception: `DropConversions` steps to
the step before what it erased, so that a pipeline that begins with its pattern
(`ErasesTheBeginning`, divergence 14) leaves the list. All theorems are about the
behaviours in which that does not happen. `Scanned` survives a removal because
the loop then goes back by one: the pair that the removal has made adjacent is
looked at again.

That the pipeline keeps its meaning is `ForwardKept` and `ReverseKept`: from every
coordinate and with anything on the stacks, the list does what the input, or its
inverse, does. The stacks must be arbitrary, since a rule is applied in the middle of
a list. Both are inductive only with `ListInv`: the list is of steps, and those that
can be written without `+inv` are, once the first loop has passed them. Many rules
look at the name and the parameters of a step and not at its direction, and are
right because of that. The argument:

1. Running a list is running its first part and then the rest (`RunForward` and
   `RunReverse` are recursive functions; their values come from the least
   counterexample, see below), and running an inverted list is running the list
   the other way. So a rule is right if what it puts in place does the same as
   what it takes out (`Replaces` and the lemmas that cite it).
2. A step that has an inverse is undone by it, both ways round: unit conversions by
   the reciprocals modulo 7, axis orders by their inverse permutation, Helmert
   steps by adding what they subtract, and so on, for all their parameters
   (`Undoes`).
3. One lemma per rule: what two, three or eight steps do is what the step or the
   steps put in their place do, forward and reverse. Those on vertical grids follow a
   coordinate, and its stacks, from step to step (`IsTrace`).
4. One lemma per action of the loops, then `NextKeeps`.

What a rule takes for granted, and the list need not bear out, is a hypothesis of the
theorems, stated where it bites: that a pop before a push of the same component is
nothing (`PopsThenPushes`; "is, almost, a no-op" says the source), that a Krovak
projection comes after the inverse of the other one (`TurnsKrovak`, divergence 17),
and, in the reverse direction only, that what follows a vertical shift which is moved
after a push leads back to what was pushed (`MovesVertical`, divergence 15). In
each case the rule changes what some pipeline computes; no other rule does. TLC
meets none of the first three in the run, so the theorems speak of nearly all its
behaviours. It meets the last one in seven states; there the run goes further than the
theorem, since its inputs lead back and both directions stay the same.
`StacksAreEmptied` is about inputs that leave the stacks as they found them, from
both ends (`InputsEmptyStacks`), which those of the run do.

### Choice of operations

Assumptions: operations and requests have the types that the module gives them,
the lists are lists of operations, the cells are finitely many. The list after
each member function is a function of the list that was found (`AfterSort`,
`AfterSynthetic`, `AfterUninteresting`, `AfterDuplicates`, `Selected`); `IInv` says
so for each value of `pc`, and that what was computed before filtering is still
there. It says all there is to say of the steps. What the theorems need beyond it
are facts about those functions, of lists of any length:

* `EmptyForAReason` from what each removal keeps: none makes a list empty.
* `NoOperationTwice` in two ways. `removeDuplicateOps` keeps no second operation
  with the key of one it has kept, hence none that can be exported twice, for any
  comparison whatever. One that cannot be exported is only thrown out if its two
  copies are neighbours, that is, if the comparison is an order.
* `OrderIndependent` from the comparison. Its eighteen criteria are those of a
  lexicographic order on eighteen ranks (`Ranks`, `PrecedesIsLex`); an insertion
  sort under a transitive relation returns an ordered list (`SortedInOrder`) with
  each operation as often as before (the lemmas about `Count`); and an ordered list
  is determined by that (`OrderedIsUnique`).
* `NothingLost` from two measures that go down along the justifications: what
  makes an operation superfluous is no placeholder, or is earlier in the sorted list.
  So the justifications end, in an operation that is returned, and `Covered`, which
  follows them as often as there are operations, is closed (`CoveredIsClosed`).

The hypotheses are part of what the theorems say; `MCFilterResults` has TLC check
that the operations of the run satisfy them.

* `OpsComparable`: the names of all ballpark operations say which systems they are
  between, or those of none do, since among a mixture the comparison may be cyclic
  (divergence 28); operations that are as accurate have different names, since
  two that compare equal stay in the order they were found in; and the number of steps is
  0 exactly when the code leaves it so. `OrderIndependent` itself excludes two
  realizations of ETRS89 (divergence 26).
* `PlaceholdersAreVague`: an operation that stands for no transformation is a
  ballpark one, of unknown accuracy. Divergence 27 is the counterexample.
* `TargetKnown`: a request for partial intersection knows the extent of the target;
  divergence 28 is the counterexample.

### Database handles

Assumptions: every context belongs to a thread, the default one exists, `None` is
nothing else. `IInv` joins `TypeOK`; `Calls` (what each call under way may rely on,
`CallFits`: a call that is opening, or has come to attach, depends on whether it is
the first opening, a reopening, or the beginning or end of a session); `Databases`
(statements are of the connection of their context, and one without auxiliary
databases sees the tables unless it has none, or a session in which an attachment
threw); `CacheFits`; `InChild` (a child
just forked, before its handler has run) and `Owned` (unless the fork met a first
opening, divergence 20, what the cache and the contexts hold is of this process, a
stray, divergences 18 and 19, or marked, or about to be, and no query is on what
is only marked).

### Induction over data

The induction theorems of the library take an operator as a parameter, which the
provers cannot instantiate. What a recursive definition computes is
shown by the least counterexample instead (`LeastOf`, from the
well-foundedness of `<` on Nat): that the function exists, and what its value is
at each argument. `FlattenSeqDef`, `WalkExists`, `WalkFollows`, for the folds
of `FilterResults` `FoldExists`, and the lemmas on `RunForward` and `RunReverse` are
done so. `SelectSeq` of the standard module
cannot be expanded by the prover; the lists of `ProjTrans` and `GridShift` are
filtered with `FlattenSeq`, those of `FilterResults` with `FoldLeft`, which can.

### Only model-checked

* Liveness (`CallsReturn` and the like): reasoning about fairness and ENABLED is
  out of the prover's reach.
* The rule that moves a vertical grid after a push, in the reverse direction: the
  theorems on pipelines leave it out, the run covers it for pipelines that lead back.
* That the bounds of section 3 let every branch happen is a matter of the runs.

## 5. Plan

Done: every module of section 2, with its run; the safety properties of
`DiskChunkCache`, `NetworkFile`, `GridDownload`, `GridShift`, `ProjTrans`,
`FilterResults` and `DatabaseHandles` proved, the first of them with its
refinement; of `PipelineString`, that the loops stay in the list, finish their
work and change nothing of what the pipeline does.

Next, in order:

1. The reverse direction of the rule that moves a vertical grid, for pipelines that
   lead back to what was pushed: an invariant that relates a push to its pop.
2. `data_size` in `DiskChunkCache`, with contents of several sizes.
3. The search of `createOperations`, as far as its recursion and its guards
   against it go (`coordinateoperationfactory.cpp:3592`).

## 6. Divergences found

Three are shown by a run (section 3). The others were met while the code was
translated; where TLC was asked, it is said.

Network access (`networkfilemanager.cpp`)

1. If the lock times out while the properties are recorded and is free a moment
   later for the chunk, the database holds a chunk whose file has no properties
   row. `checkConsistency` (439) calls that an error, and RFC 4 declares a foreign
   key. TLC confirms it.
2. `proj_grid_cache_clear` while a file is open has the same effect. The newer
   properties recorded later are then INSERTed without invalidating that chunk:
   with `MayClear`, TLC violates `NoOlderChunkOnDisk` in `network_serial`.
3. `m_hasChanged` stays set for the life of a file, so its second replacement is
   not noticed (1431).
4. Properties found in memory are returned whatever their age (1194): the TTL
   never expires for a process that keeps running.
5. `ignore_ttl_setting` = TRUE never asks the server (2569), although the
   documentation (2517) says it "will unconditionally check".
6. `proj_is_download_needed` keeps the exclusive lock of the database during its
   request (2580), so that other accesses may give up meanwhile.
7. Failed requests are retried with random delays up to a minute (1880); a
   stalled transfer has no timeout (1870).
8. `insert` does not update `data_size` when it replaces the data of a row (826).
9. Two downloads of one grid: the one that finishes last wins, whatever version
   it has, and it unlinks the newer file before it renames its own; the recorded
   properties may then stay newer than the file.
10. `proj_download_file` evicts the negative lookups of its own context only, and
    only under the new name of the grid. The key of that cache does not say
    whether the network was to be used.

Grids (`grids.cpp`, `transformations/`)

11. `pj_hgrid_apply_internal` returns a coordinate relative to the grid, with no
    error number, when the set cannot be opened again (`grids.cpp` 3428-3432,
    3447-3450); vgridshift returns an infinite height in that case. A set that
    could not be opened again stays empty for good, and the types of reopened
    files are not checked again. `pj_hgrid_value` (3578) normalises a coordinate
    twice after a reopening.
12. xyzgridshift (102-107) and deformation (121-126) call themselves to retry
    without reopening the grid: an infinite recursion.
13. gridshift: the node cache is keyed by the address of a grid and is not cleared
    when the set is opened again; a failed or nodata read overwrites its nodes but
    not the index they are of (435-443); types that are refused at a deferred
    opening set no error number and are not remembered (727-744); the second pass
    replaces a network error by `OUTSIDE_GRID` (826), as hgridshift does
    (`grids.cpp` 3535); an iteration that converges at its last turn counts as
    failed; with only optional grids that are missing, an assertion fails.

Pipelines (`iso19111/io.cpp`, `pipeline.cpp`)

14. The rule for a vertical grid between saved coordinates steps to the step
    before what it erased (9873); at the beginning of a pipeline there is none,
    and the assertion 9726 fails.
15. The rule that moves a vertical grid before a push (9970-9978) is right only if
    what follows leads back to the pushed coordinates.
16. With `+proj=pipeline +inv`, `pipeline.cpp` 505-523 inverts every step and
    leaves their order; reading such a string reverses the order but does not
    exchange `+omit_fwd` and `+omit_inv` (`io.cpp`, near 10280). The removal of a
    pop followed by its push (9028-9037) is "almost" a no-op. The stacks are not
    cleared after a point that fails.
17. The rule on two Krovak steps (9653-9696) takes the projection to come after
    its inverse; in the other order it changes the axes. An unreadable Helmert
    parameter (9510, 9582, 9644) leaves the whole loop.

Database handles (`iso19111/factory.cpp`)

18. The memory database of a context with auxiliary databases or an insertion
    session is not in the cache, so it is never marked after a fork: the child
    queries through the connection its parent opened, against the comment at the
    head of the file, and the code that attaches the databases again (1053-1055)
    is not reached.
19. The same for connections that `proj_cleanup` or the LRU cache dropped before
    the fork (`strays`). TLC finds both if `OwnConnection` does not exclude them.
20. A fork while another thread is in its first `getHandle`: the handlers are not
    yet registered, so the child keeps a locked mutex, or goes on with the
    connection just opened, against the comment 669-673. TLC confirms it.
21. If the reopening in `handle()` fails, the context has no handle and the next
    query stops at the assertion 1429, or at a null pointer (the stage `aborted`).
22. A fork while another thread is in a query: SQLite's mutex of the shared
    connection stays locked in the child, whose `closeDB` waits for ever.
23. `attachExtraDatabases` reads the tables from the main database of the current
    connection. For a context that already has auxiliary databases that one is
    the empty memory database, so an insertion session makes all tables
    invisible, also after it.
24. `attachExtraDatabases` closes the connection (1348) before anything that may
    fail: the main file is attached by its path, without the VFS it was opened
    with (1365), then the others (1373), whose layouts are compared (1375), then
    the views are made (1414). If one of them throws, the context keeps an empty
    memory database, or no handle (1358), and queries find no tables, or stop as in
    21. `startInsertStatementsSession` (3077) does not take `memoryDbHandle_` back
    (3100): the session stays set, the next start is refused (3078), and after
    `proj_insert_object_session_create` has returned NULL (`c_api.cpp` 9465) a C
    caller has no session to destroy, so only closing the database or the context
    helps. `stopInsertStatementsSession` keeps the session likewise if it throws
    (3336), but `proj_insert_object_session_destroy` deletes the caller's object
    all the same (9491). In C++, an end that succeeds makes the context whole, as
    long as it has a handle. `ContextsAreWhole` says so; without its exception for
    such a session TLC violates it.

Choice of operations

25. `proj_trans` restores a saved error number, so that a point may be refused
    for the network error of an earlier call until the number is reset
    (`trans.cpp` 284); the fallback (306-341) returns a finite result and keeps the
    error number. The epoch is stored in the coordinate after its copy was made
    (277-279). In the warning mode the first call spends an attempt on an
    operation that has no grids. `crs_to_crs.cpp` 751-770 has dead code.
26. `SortFunction::compare` asks for `uses_ETRF2000_` and its negation (1047-1051)
    where the comment says "use ETRF2000 hub if no direct Transformation": an
    operation through the hub is never preferred, but is refused in the other
    order, so the order depends on that of the search. TLC confirms it; the debug
    check at 1565 finds it too, with an environment variable of inverted sense (1563).
27. `removeSyntheticNullTransforms` removes the last operation even if it is the
    one that contains the area of interest (a null offset that is no ballpark
    one), against the comment 1587-1592. With such an operation TLC violates
    `NothingLost`.
28. With both CRS extents but the target's unknown, a partial intersection is
    always refused (1411), while the source's may be unknown (1409). The
    comparison of names (1082-1131) may be cyclic among ballpark offsets.

## 7. Not modelled

Numerical code (projections, helmert, deformation models, triangulations,
geodesics), the parsers and formatters of WKT, PROJJSON and PROJ strings, the
immutable object model, the C interface over it, the in-memory database file
system and the command line programs have no interleavings and no discrete state
that a model checker would explore better than a test. They are most of the
repository: `io.cpp`, `factory.cpp`, `c_api.cpp`, `crs.cpp`, `singleoperation.cpp`
and `conversion.cpp` alone are more than fifty thousand lines of accessors,
queries, parsing and writing. Of `io.cpp` the simplification of pipelines, of
`factory.cpp` the handles, and of the operation factory the selection are
modelled, which are the parts of these files that rewrite a state in steps.

The search of `createOperations` is a recursion over the CRS types and the
database; its result depends on the contents of proj.db, which no small instance
stands for. It is an input of `FilterResults` and, sorted, of `ProjTrans`. The
HTTP back ends are the environment of `NetworkFile`. The init file cache is an
append-only list whose callers tolerate duplicates. xyzgridshift and deformation
read grids with code of their own (divergence 12).

## 8. Running

    tlc -workers 2 -config DiskChunkCache.cfg MCDiskChunkCache.tla

and likewise with every configuration and the `MC` module named in
`PROJECT.json`; no run takes longer than a few minutes on two cores.

    tlapm DiskChunkCacheProofs.tla

and likewise `NetworkFileProofs`, `GridDownloadProofs`, `GridShiftProofs`,
`ProjTransProofs`, `PipelineStringProofs`, `FilterResultsProofs` and
`DatabaseHandlesProofs`.
