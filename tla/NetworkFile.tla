----------------------------- MODULE NetworkFile -----------------------------
(***************************************************************************)
(* Reading one remote file over HTTP (networkfilemanager.cpp, class        *)
(* NetworkFile) through the two caches of its process, gNetworkChunkCache  *)
(* and gNetworkFileProperties, and the database that all processes share.  *)
(*                                                                         *)
(* Each thread has at most one open file and is in the middle of at most   *)
(* one call.  A call is cut where other threads may run: between two       *)
(* accesses to the caches and around each request to the server.  A lookup *)
(* or an insertion reaches the memory cache and then the database; the two *)
(* are one step here.                                                      *)
(*                                                                         *)
(* The database is LruChunkStore, which DiskChunkCache implements.         *)
(*                                                                         *)
(* The server's file has successive versions: version v is Size[v] units   *)
(* long and no two versions have the same size, Last-Modified and ETag, so *)
(* that a version stands for the FileProperties too.  A chunk is known by  *)
(* the version and the position it comes from, and a byte read likewise.   *)
(***************************************************************************)
EXTENDS Naturals, Sequences, FiniteSets, Functions

CONSTANTS
    Threads,
    Processes,
    ProcessOf,       \* the process of each thread
    Url,             \* the file
    Size,            \* the size of each version of it, in units
    ChunkSize,       \* DOWNLOAD_CHUNK_SIZE, in units
    MaxBlocks,       \* MAX_CHUNKS: the chunks of one request at most
    DoubleBelow,     \* 100: the request size doubles while it is smaller
    Positions,       \* bound: the offsets that are sought
    Lengths,         \* bound: the units that one read asks for
    DiskChunks,      \* max_size of the database in chunks
    Serial,          \* no two calls overlap
    LockTimesOut,    \* the database may stay locked for all the retries
    MayClear,        \* proj_grid_cache_clear is called
    None,            \* no properties
    Miss,            \* a chunk that is not cached
    NoFile,          \* the thread has no open file
    Never            \* an offset where no download ended

ASSUME ProcessOfThread == ProcessOf \in [Threads -> Processes]
ASSUME SizesArePositive == Size # <<>> /\ Size \in Seq(Nat \ {0})
ASSUME BoundsArePositive == {ChunkSize, MaxBlocks, DoubleBelow} \cup Lengths \subseteq Nat \ {0}
ASSUME PositionsAreNat == Positions \subseteq Nat
ASSUME SwitchesAreBoolean == {Serial, LockTimesOut, MayClear} \subseteq BOOLEAN
ASSUME NeverIsNoOffset == Never \notin Nat

Versions == 1..Len(Size)
MaxOf(S) == CHOOSE m \in S : \A k \in S : k <= m
Least(a, b) == IF a < b THEN a ELSE b
(* The places of the chunks of some version. *)
Indices == UNION {{i \in 0..Size[v] : i * ChunkSize < Size[v]} : v \in Versions}
Chunk == [ver : Versions, idx : Indices]
Byte == [ver : Versions, off : Nat]

ASSUME NothingIsNoVersion == None \notin Versions
ASSUME NothingIsNoChunk == Miss \notin Chunk

(* The units of the file in chunk x. *)
SizeOf(x) ==
    IF Size[x.ver] <= x.idx * ChunkSize THEN 0
    ELSE Least(ChunkSize, Size[x.ver] - x.idx * ChunkSize)

VARIABLES
    server,       \* the version the server has now
    store, newer, free, properties,   \* the database, see LruChunkStore
    expired,      \* the TTL has passed since lastChecked of the properties row
    props,        \* gNetworkFileProperties of each process
    memory,       \* gNetworkChunkCache of each process
    file,         \* the NetworkFile of each thread
    op            \* the call each thread is in

disk == <<store, newer, free, properties, expired>>
vars == <<server, disk, props, memory, file, op>>

Disk == INSTANCE LruChunkStore WITH
    Urls <- {Url}, Offsets <- Indices, Data <- Chunk, Props <- Versions,
    MaxChunks <- DiskChunks, NoRow <- None, reply <- <<>>

File == [props : Versions, handle : BOOLEAN, last : Nat \cup {Never},
         blocks : Nat \ {0}, changed : BOOLEAN, pos : Nat]

ASSUME NothingIsNoFile == NoFile \notin File

Resting == {"idle", "done"}
Opening == {"open_props", "open_chunk", "open_request", "open_record", "open_store"}
Reading == {"lookup", "probe", "request", "compare", "store"}

(* want: the size asked for; out: the bytes copied so far; i: the chunk    *)
(* looked up or stored next, counted from the first missing one; ver, got: *)
(* the version the server answered with and how much; failed: why the read *)
(* returned 0.                                                             *)
Op == [stage : Resting \cup Opening \cup Reading, want : Nat, out : Seq(Byte),
       i : Nat, ver : Nat, got : Nat, failed : {"no", "network", "eof"}]

TypeOK ==
    /\ server \in Versions
    /\ expired \in BOOLEAN
    /\ props \in [Processes -> Versions \cup {None}]
    /\ \A p \in Processes : DOMAIN memory[p] \subseteq Indices /\ Range(memory[p]) \subseteq Chunk
    /\ file \in [Threads -> File \cup {NoFile}]
    /\ op \in [Threads -> Op]

Idle == [stage |-> "idle", want |-> 0, out |-> <<>>, i |-> 0, ver |-> 0, got |-> 0, failed |-> "no"]
Nothing == [i \in {} |-> Miss]

Init ==
    /\ server = 1
    /\ Disk!Empty
    /\ expired = FALSE
    /\ props = [p \in Processes |-> None]
    /\ memory = [p \in Processes |-> Nothing]
    /\ file = [t \in Threads |-> NoFile]
    /\ op = [t \in Threads |-> Idle]

Proc(t) == ProcessOf[t]
At(t, stage) == op[t].stage = stage
Goto(t, stage) == op' = [op EXCEPT ![t].stage = stage]

-----------------------------------------------------------------------------
(* The caches.  A database that cannot be opened, because its lock stays   *)
(* taken, is silently left out.                                            *)

Put(m, i, x) == [j \in DOMAIN m \cup {i} |-> IF j = i THEN x ELSE m[j]]

(* NetworkChunkCache::get(url, i) returns x. *)
Get(p, i, x) ==
    \/ /\ i \in DOMAIN memory[p]
       /\ x = memory[p][i]
       /\ UNCHANGED <<disk, memory>>
    \/ /\ i \notin DOMAIN memory[p]
       /\ x = Disk!Answer(<<Url, i>>)
       /\ Disk!Use(<<Url, i>>)
       /\ memory' = IF x = Miss THEN memory ELSE [memory EXCEPT ![p] = Put(@, i, x)]
       /\ UNCHANGED expired
    \/ /\ LockTimesOut
       /\ i \notin DOMAIN memory[p]
       /\ x = Miss
       /\ UNCHANGED <<disk, memory>>

(* NetworkChunkCache::insert(url, i, x). *)
Insert(p, i, x) ==
    /\ memory' = [memory EXCEPT ![p] = Put(@, i, x)]
    /\ \/ LET k == <<Url, i>>
          IN Disk!Replace(k, x) \/ Disk!FillFree(k, x) \/ Disk!Evict(k, x) \/ Disk!Add(k, x)
       \/ LockTimesOut /\ UNCHANGED <<store, newer, free, properties>>
    /\ UNCHANGED expired

(* NetworkFilePropertiesCache::tryGet(url) returns v, or None.  The age of *)
(* a row is checked when it is read from the database, not afterwards.     *)
TryGet(p, v) ==
    \/ v = props[p] /\ v # None /\ UNCHANGED props
    \/ /\ props[p] = None /\ properties[Url] # None /\ ~expired
       /\ v = properties[Url]
       /\ props' = [props EXCEPT ![p] = v]
    \/ /\ props[p] = None
       /\ properties[Url] = None \/ expired \/ LockTimesOut
       /\ v = None
       /\ UNCHANGED props

(* NetworkFilePropertiesCache::insert(url, v).                             *)
(* A plausible mistake: the chunks of the older version are kept.          *)
RecordPropsKeepChunks(p, v) ==
    /\ props' = [props EXCEPT ![p] = v]
    /\ properties' = [properties EXCEPT ![Url] = v]
    /\ expired' = FALSE
    /\ UNCHANGED <<store, newer, free>>

RecordProps(p, v) ==
    /\ props' = [props EXCEPT ![p] = v]
    /\ \/ Disk!Refresh(Url, v) /\ expired' = FALSE
       \/ LockTimesOut /\ UNCHANGED disk

-----------------------------------------------------------------------------
(* NetworkFile::open.                                                      *)

MayStart(t) ==
    /\ op[t].stage \in Resting
    /\ Serial => \A s \in Threads : op[s].stage \in Resting

(* Plausible mistake: the request size is not initialized. *)
OpenedFileNoBlocks(v, handle, last) ==
    [props |-> v, handle |-> handle, last |-> last, blocks |-> 0, changed |-> FALSE, pos |-> 0]

OpenedFile(v, handle, last) ==
    [props |-> v, handle |-> handle, last |-> last, blocks |-> 1, changed |-> FALSE, pos |-> 0]

Open(t) ==
    /\ MayStart(t)
    /\ file[t] = NoFile
    /\ op' = [op EXCEPT ![t] = [Idle EXCEPT !.stage = "open_props"]]
    /\ UNCHANGED <<server, disk, props, memory, file>>

OpenProps(t) ==
    /\ At(t, "open_props")
    /\ \E v \in Versions \cup {None} :
          /\ TryGet(Proc(t), v)
          /\ op' = [op EXCEPT ![t] = IF v = None THEN [@ EXCEPT !.stage = "open_request"]
                                     ELSE [@ EXCEPT !.stage = "open_chunk", !.ver = v]]
    /\ UNCHANGED <<server, disk, memory, file>>

OpenChunk(t) ==
    /\ At(t, "open_chunk")
    /\ \E x \in Chunk \cup {Miss} :
          /\ Get(Proc(t), 0, x)
          /\ IF x = Miss
             THEN Goto(t, "open_request") /\ UNCHANGED file
             ELSE /\ file' = [file EXCEPT ![t] = OpenedFile(op[t].ver, FALSE, Never)]
                  /\ op' = [op EXCEPT ![t] = Idle]
    /\ UNCHANGED <<server, props>>

(* The request fails, or the answer carries the first chunk and the        *)
(* properties of the version the server has now.                           *)
OpenRequest(t) ==
    /\ At(t, "open_request")
    /\ \/ op' = [op EXCEPT ![t] = Idle]
       \/ op' = [op EXCEPT ![t].stage = "open_record", ![t].ver = server]
    /\ UNCHANGED <<server, disk, props, memory, file>>

OpenRecord(t) ==
    /\ At(t, "open_record")
    /\ RecordProps(Proc(t), op[t].ver)
    /\ Goto(t, "open_store")
    /\ UNCHANGED <<server, memory, file>>

OpenStore(t) ==
    /\ At(t, "open_store")
    /\ LET x == [ver |-> op[t].ver, idx |-> 0]
       IN /\ Insert(Proc(t), 0, x)
          /\ file' = [file EXCEPT ![t] = OpenedFile(op[t].ver, TRUE, SizeOf(x))]
    /\ op' = [op EXCEPT ![t] = Idle]
    /\ UNCHANGED <<server, props>>

(* The destructor; the handle is closed with it. *)
Close(t) ==
    /\ MayStart(t)
    /\ file[t] # NoFile
    /\ file' = [file EXCEPT ![t] = NoFile]
    /\ op' = [op EXCEPT ![t] = Idle]
    /\ UNCHANGED <<server, disk, props, memory>>

(* seek with SEEK_SET, to a place in the file; SEEK_END goes to its size. *)
Seek(t, pos) ==
    /\ MayStart(t)
    /\ file[t] # NoFile
    /\ pos <= Size[file[t].props]
    /\ file' = [file EXCEPT ![t].pos = pos]
    /\ op' = [op EXCEPT ![t] = Idle]
    /\ UNCHANGED <<server, disk, props, memory>>

-----------------------------------------------------------------------------
(* NetworkFile::read.                                                      *)

IterOffset(t) == file[t].pos + Len(op[t].out)
Remaining(t) == op[t].want - Len(op[t].out)
IdxToDownload(t) == IterOffset(t) \div ChunkSize

Read(t, n) ==
    /\ MayStart(t)
    /\ file[t] # NoFile
    /\ op' = [op EXCEPT ![t] = [Idle EXCEPT !.stage = "lookup", !.want = n]]
    /\ UNCHANGED <<server, disk, props, memory, file>>

(* How much is copied from a chunk of `size` units, from `within` on.  The *)
(* subtraction is unsigned: past the end of a short chunk it wraps around. *)
Copied(left, size, within) ==
    IF within > size THEN left ELSE Least(left, size - within)

(* The read goes on after a full chunk and ends after a short one.         *)
(* Plausible mistakes: it does not end; it ends after a full chunk.        *)
IsLastNever(size) == FALSE

IsLastFull(size) == size <= ChunkSize

IsLast(size) == size < ChunkSize

(* Thread t copies from a region of `size` units that starts with chunk x. *)
CopyFrom(t, x, size) ==
    LET within == IterOffset(t) % ChunkSize
        n == Copied(Remaining(t), size, within)
        bytes == [k \in 1..n |-> [ver |-> x.ver, off |-> x.idx * ChunkSize + within + k - 1]]
        out == op[t].out \o bytes
        over == Remaining(t) = n \/ IsLast(size)
    IN /\ op' = [op EXCEPT ![t] = [Idle EXCEPT !.stage = IF over THEN "done" ELSE "lookup",
                                               !.want = op[t].want, !.out = out]]
       /\ file' = IF over THEN [file EXCEPT ![t].pos = @ + Len(out)] ELSE file

ReturnsZero(t, why) ==
    op' = [op EXCEPT ![t] = [Idle EXCEPT !.stage = "done", !.want = op[t].want, !.failed = why]]

LookupHit(t) ==
    /\ At(t, "lookup")
    /\ \E x \in Chunk :
          /\ Get(Proc(t), IdxToDownload(t), x)
          /\ CopyFrom(t, x, SizeOf(x))
    /\ UNCHANGED <<server, props>>

(* The chunk is not cached.  The number of chunks to ask for doubles when  *)
(* the file is read in sequence, and covers what is left to read.          *)
BlocksWanted(t) ==
    LET f == file[t]
        first == IdxToDownload(t)
        sequential == first * ChunkSize = f.last
        doubled == IF ~sequential THEN 1 ELSE IF f.blocks < DoubleBelow THEN 2 * f.blocks ELSE f.blocks
        end == (IterOffset(t) + Remaining(t) + ChunkSize - 1) \div ChunkSize
    IN MaxOf({doubled, end - first})

LookupMiss(t) ==
    /\ At(t, "lookup")
    /\ Get(Proc(t), IdxToDownload(t), Miss)
    /\ file' = [file EXCEPT ![t].blocks = BlocksWanted(t)]
    /\ op' = [op EXCEPT ![t].stage = "probe", ![t].i = 1]
    /\ UNCHANGED <<server, props>>

(* The following chunks are looked up in turn, so as to ask only for the   *)
(* ones before the first that is cached.                                   *)
Probe(t) ==
    /\ At(t, "probe")
    /\ op[t].i < file[t].blocks
    /\ \E x \in Chunk \cup {Miss} :
          /\ Get(Proc(t), IdxToDownload(t) + op[t].i, x)
          /\ file' = IF x = Miss THEN file ELSE [file EXCEPT ![t].blocks = op[t].i]
    /\ op' = [op EXCEPT ![t].i = @ + 1]
    /\ UNCHANGED <<server, props>>

ProbeEnds(t) ==
    /\ At(t, "probe")
    /\ op[t].i >= file[t].blocks
    /\ file' = [file EXCEPT ![t].blocks = Least(@, MaxBlocks)]
    /\ op' = [op EXCEPT ![t].stage = "request", ![t].i = 0]
    /\ UNCHANGED <<server, disk, props, memory>>

(* A new connection is opened, or the handle asks for another range.  No   *)
(* byte, from a failure or past the end of the file, makes the read return *)
(* 0 and forget what it had copied.                                        *)
Request(t) ==
    LET offset == IdxToDownload(t) * ChunkSize
        asked == file[t].blocks * ChunkSize
    IN /\ At(t, "request")
       /\ \/ /\ ReturnsZero(t, "network")
             /\ UNCHANGED file
          \/ /\ offset >= Size[server]
             /\ ReturnsZero(t, "eof")
             /\ file' = [file EXCEPT ![t].handle = TRUE]
          \/ /\ offset < Size[server]
             /\ op' = [op EXCEPT ![t].stage = "compare", ![t].ver = server,
                                 ![t].got = Least(asked, Size[server] - offset)]
             /\ file' = [file EXCEPT ![t].handle = TRUE]
       /\ UNCHANGED <<server, disk, props, memory>>

(* The first time the answer is of another version than the file was opened *)
(* with, the version is recorded, the memory cache is emptied and the       *)
(* caller will find hasChanged.  Plausible mistake: the properties the file *)
(* was opened with are recorded again.                                      *)
CompareRecordsOld(t) ==
    /\ At(t, "compare")
    /\ IF ~file[t].changed /\ op[t].ver # file[t].props
       THEN /\ RecordProps(Proc(t), file[t].props)
            /\ memory' = [memory EXCEPT ![Proc(t)] = Nothing]
            /\ file' = [file EXCEPT ![t].changed = TRUE, ![t].last = IdxToDownload(t) * ChunkSize + op[t].got]
       ELSE /\ UNCHANGED <<disk, props, memory>>
            /\ file' = [file EXCEPT ![t].last = IdxToDownload(t) * ChunkSize + op[t].got]
    /\ Goto(t, "store")
    /\ UNCHANGED server

Compare(t) ==
    /\ At(t, "compare")
    /\ IF ~file[t].changed /\ op[t].ver # file[t].props
       THEN /\ RecordProps(Proc(t), op[t].ver)
            /\ memory' = [memory EXCEPT ![Proc(t)] = Nothing]
            /\ file' = [file EXCEPT ![t].changed = TRUE, ![t].last = IdxToDownload(t) * ChunkSize + op[t].got]
       ELSE /\ UNCHANGED <<disk, props, memory>>
            /\ file' = [file EXCEPT ![t].last = IdxToDownload(t) * ChunkSize + op[t].got]
    /\ Goto(t, "store")
    /\ UNCHANGED server

(* The region is cut in chunks, which are inserted one by one.  Plausible  *)
(* mistake: each under the index of the first.                             *)
StoreAtFirst(t) ==
    /\ At(t, "store")
    /\ op[t].i * ChunkSize < op[t].got
    /\ LET idx == IdxToDownload(t) + op[t].i
       IN Insert(Proc(t), IdxToDownload(t), [ver |-> op[t].ver, idx |-> idx])
    /\ op' = [op EXCEPT ![t].i = @ + 1]
    /\ UNCHANGED <<server, props, file>>

Store(t) ==
    /\ At(t, "store")
    /\ op[t].i * ChunkSize < op[t].got
    /\ LET idx == IdxToDownload(t) + op[t].i
       IN Insert(Proc(t), idx, [ver |-> op[t].ver, idx |-> idx])
    /\ op' = [op EXCEPT ![t].i = @ + 1]
    /\ UNCHANGED <<server, props, file>>

CopyRegion(t) ==
    /\ At(t, "store")
    /\ op[t].i * ChunkSize >= op[t].got
    /\ CopyFrom(t, [ver |-> op[t].ver, idx |-> IdxToDownload(t)], op[t].got)
    /\ UNCHANGED <<server, disk, props, memory>>

-----------------------------------------------------------------------------
(* The rest of the world.                                                  *)

(* The server's file is replaced. *)
Publish ==
    /\ server < Len(Size)
    /\ server' = server + 1
    /\ UNCHANGED <<disk, props, memory, file, op>>

(* The TTL of the recorded properties passes. *)
Expire ==
    /\ properties[Url] # None
    /\ ~expired
    /\ expired' = TRUE
    /\ UNCHANGED <<server, store, newer, free, properties, props, memory, file, op>>

(* Other files push the entries of this one out of a memory cache.         *)
(* FileManager::clearMemoryCache is a sequence of such steps.              *)
ForgetChunk(p, i) ==
    /\ i \in DOMAIN memory[p]
    /\ memory' = [memory EXCEPT ![p] = Restrict(@, DOMAIN @ \ {i})]
    /\ UNCHANGED <<server, disk, props, file, op>>

ForgetProps(p) ==
    /\ props[p] # None
    /\ props' = [props EXCEPT ![p] = None]
    /\ UNCHANGED <<server, disk, memory, file, op>>

(* proj_grid_cache_clear removes the database and nothing else. *)
ClearDisk ==
    /\ MayClear
    /\ Disk!Clear
    /\ expired' = FALSE
    /\ UNCHANGED <<server, props, memory, file, op>>

(* What a call does once it has begun. *)
Continue(t) ==
    \/ OpenProps(t) \/ OpenChunk(t) \/ OpenRequest(t) \/ OpenRecord(t) \/ OpenStore(t)
    \/ LookupHit(t) \/ LookupMiss(t) \/ Probe(t) \/ ProbeEnds(t)
    \/ Request(t) \/ Compare(t) \/ Store(t) \/ CopyRegion(t)

Next ==
    \/ \E t \in Threads :
          \/ Open(t) \/ Close(t)
          \/ \E pos \in Positions : Seek(t, pos)
          \/ \E n \in Lengths : Read(t, n)
          \/ Continue(t)
    \/ Publish
    \/ Expire
    \/ \E p \in Processes : ForgetProps(p) \/ \E i \in Indices : ForgetChunk(p, i)
    \/ ClearDisk

Spec == Init /\ [][Next]_vars

(* The operating system runs every thread that is inside a call, and a     *)
(* request ends, with an answer or an error.  The code itself sets no      *)
(* timeout on a transfer: that a connection does not stall for ever is     *)
(* assumed of the network.                                                 *)
FairSpec == Spec /\ \A t \in Threads : WF_vars(Continue(t))

-----------------------------------------------------------------------------
(* Properties.                                                             *)

Row == properties[Url]

(* No chunk in the database is older than the recorded properties of its   *)
(* file: "If cached properties don't match recent fresh ones, invalidate   *)
(* cached chunks".  What an invalidation removes does not come back.       *)
NoOlderChunkOnDisk ==
    Row # None => \A k \in DOMAIN store : store[k].ver >= Row

(* The recorded properties never go back to an older version. *)
RecordedPropsAdvance ==
    [][Row # None /\ properties'[Url] # None => properties'[Url] >= Row]_vars

(* "so that old cached content is not erroneously reused": a read gives no *)
(* byte of an older version than the one the file was opened with.         *)
NoOldContent ==
    \A t \in Threads :
        At(t, "done") =>
            \A k \in 1..Len(op[t].out) : op[t].out[k].ver >= file[t].props

(* Whatever was cached, evicted, stored or downloaded meanwhile, what a    *)
(* read copies are the bytes that follow its position, in order.  And      *)
(* while the server keeps one version, a read that the network does not    *)
(* fail returns all that was asked for and is in the file, with any        *)
(* interleaving, eviction, clearing or lock timeout.  Only a read across   *)
(* the end of a file that ends with a full chunk fails by itself: the code *)
(* asks for the chunk after the last and takes the empty answer for an     *)
(* error.                                                                  *)
ReadExact ==
    \A t \in Threads :
        At(t, "done") =>
            LET got == Len(op[t].out)
                from == file[t].pos - got
                left == Size[server] - from
            IN /\ \A k \in 1..got : op[t].out[k].off = from + k - 1
               /\ CASE op[t].failed = "no" -> got = Least(op[t].want, left)
                    [] op[t].failed = "eof" ->
                           got = 0 /\ left < op[t].want /\ Size[server] % ChunkSize = 0
                    [] op[t].failed = "network" -> got = 0

(* A call that has begun returns. *)
CallsReturn ==
    \A t \in Threads : op[t].stage \notin Resting ~> op[t].stage \in Resting
=============================================================================
