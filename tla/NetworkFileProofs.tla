-------------------------- MODULE NetworkFileProofs --------------------------
(***************************************************************************)
(* Proofs about NetworkFile: the caches hold chunks under the indices they *)
(* come from; a read of a file that does not change gives the bytes asked  *)
(* for; and, of calls that do not overlap, no older content comes back     *)
(* after newer properties were recorded.  For any threads and processes,   *)
(* any sizes of the files, chunks and reads, and any number of calls.      *)
(***************************************************************************)
EXTENDS NetworkFile, TLAPS

Held == UNION {[D -> Chunk] : D \in SUBSET Indices}

(* x is the chunk number i of a version of the file. *)
Fits(x, i) == x \in Chunk /\ x.idx = i /\ i * ChunkSize < Size[x.ver]

StoreFits ==
    /\ \A k \in DOMAIN store : k \in {Url} \X Indices /\ Fits(store[k], k[2])
    /\ properties \in [{Url} -> Versions \cup {None}]

MemoryFits ==
    /\ memory \in [Processes -> Held]
    /\ \A p \in Processes : \A i \in DOMAIN memory[p] : Fits(memory[p][i], i)

(* The chunk that a call with file f and progress o is at. *)
Place(f, o) == (f.pos + Len(o.out)) \div ChunkSize

(* Of a file that does not change: what a call has read, and how it ends.  *)
Follows(o, from) == \A k \in 1..Len(o.out) : o.out[k].off = from + k - 1
Ended(f, o) ==
    LET got == Len(o.out)
        from == f.pos - got
        left == Size[1] - from
    IN /\ Follows(o, from)
       /\ o.failed = "no" => got = Least(o.want, left)
       /\ o.failed = "eof" => got = 0 /\ left < o.want /\ Size[1] % ChunkSize = 0
       /\ o.failed = "network" => got = 0
Exact(f, o) ==
    /\ f # NoFile => f.pos <= Size[1]
    /\ o.stage \in Reading => f.pos + Len(o.out) <= Size[1] /\ Follows(o, f.pos)
    /\ o.stage \in {"compare", "store"} /\ o.got < ChunkSize => o.got = Size[1] - Place(f, o) * ChunkSize
    /\ o.stage = "done" => Ended(f, o)

(* What a call knows when it is cut. *)
CallFits(f, o) ==
    /\ o.stage \in Reading \cup {"done"} => f # NoFile
    /\ o.stage \in Reading => Len(o.out) < o.want
    /\ o.stage \in {"open_chunk", "open_record", "open_store", "compare", "store"} => o.ver \in Versions
    /\ o.stage = "probe" => o.i > 0
    /\ o.stage \in {"compare", "store"} => o.got > 0 /\ Place(f, o) * ChunkSize + o.got <= Size[o.ver]
    /\ Len(Size) = 1 => Exact(f, o)

IInv ==
    /\ server \in Versions
    /\ expired \in BOOLEAN
    /\ props \in [Processes -> Versions \cup {None}]
    /\ StoreFits
    /\ MemoryFits
    /\ file \in [Threads -> File \cup {NoFile}]
    /\ op \in [Threads -> Op]
    /\ \A t \in Threads : CallFits(file[t], op[t])

-----------------------------------------------------------------------------
(* Numbers, versions and chunks.                                           *)

LEMMA Constants ==
  /\ ChunkSize \in Nat \ {0} /\ MaxBlocks \in Nat \ {0} /\ DoubleBelow \in Nat \ {0}
  /\ Lengths \subseteq Nat \ {0} /\ Positions \subseteq Nat
  /\ Len(Size) \in Nat /\ 1 \in Versions /\ Versions \subseteq Nat
  /\ \A v \in Versions : Size[v] \in Nat \ {0}
<1>1. Len(Size) \in Nat /\ Len(Size) # 0
  BY SizesArePositive
<1>2. \A v \in Versions : Size[v] \in Nat \ {0}
  BY SizesArePositive DEF Versions
<1> QED BY <1>1, <1>2, BoundsArePositive, PositionsAreNat DEF Versions

LEMMA DivMod ==
  ASSUME NEW n \in Nat, NEW c \in Nat \ {0}
  PROVE  /\ n \div c \in Nat
         /\ n % c \in 0..(c - 1)
         /\ n = (n \div c) * c + (n % c)
OBVIOUS

LEMMA Product ==
  ASSUME NEW n \in Nat, NEW c \in Nat \ {0}
  PROVE  n * c \in Nat /\ n <= n * c
OBVIOUS

LEMMA PlaceOfChunk ==
  ASSUME NEW v \in Versions, NEW i \in Nat, i * ChunkSize < Size[v]
  PROVE  /\ i \in Indices /\ [ver |-> v, idx |-> i] \in Chunk
         /\ Fits([ver |-> v, idx |-> i], i)
<1>1. i \in 0..Size[v]
  BY Constants, Product
<1>2. i \in Indices
  BY <1>1 DEF Indices
<1> QED BY <1>2 DEF Chunk, Fits

LEMMA IndicesAreNat == Indices \subseteq Nat
BY Constants DEF Indices

LEMMA ChunkIs ==
  ASSUME NEW x \in Chunk
  PROVE  x.ver \in Versions /\ x.idx \in Nat /\ x.idx \in Indices
BY IndicesAreNat DEF Chunk

LEMMA LeastIs ==
  ASSUME NEW a \in Nat, NEW b \in Nat
  PROVE  Least(a, b) \in {a, b} /\ Least(a, b) <= a /\ Least(a, b) <= b /\ Least(a, b) \in Nat
BY DEF Least

LEMMA SizeOfIs ==
  ASSUME NEW x \in Chunk
  PROVE  /\ SizeOf(x) \in Nat /\ SizeOf(x) <= ChunkSize
         /\ Fits(x, x.idx) => /\ SizeOf(x) > 0 /\ x.idx * ChunkSize + SizeOf(x) <= Size[x.ver]
                              /\ SizeOf(x) < ChunkSize => SizeOf(x) = Size[x.ver] - x.idx * ChunkSize
<1>1. x.idx * ChunkSize \in Nat /\ Size[x.ver] \in Nat /\ ChunkSize \in Nat \ {0}
  BY Constants, ChunkIs, Product
<1> QED BY <1>1 DEF SizeOf, Least, Fits

LEMMA ProcIs ==
  ASSUME NEW t \in Threads
  PROVE  Proc(t) \in Processes
BY ProcessOfThread DEF Proc

-----------------------------------------------------------------------------
(* The caches.                                                             *)

LEMMA PutFits ==
  ASSUME MemoryFits, NEW p \in Processes, NEW i, NEW x, Fits(x, i),
         memory' = [memory EXCEPT ![p] = Put(memory[p], i, x)]
  PROVE  MemoryFits'
<1>1. i \in Indices /\ x \in Chunk
  BY ChunkIs DEF Fits
<1>2. memory[p] \in Held /\ DOMAIN memory[p] \subseteq Indices
      /\ \A j \in DOMAIN memory[p] : memory[p][j] \in Chunk
  BY DEF MemoryFits, Held
<1> DEFINE m == Put(memory[p], i, x)
<1>3. m \in [DOMAIN memory[p] \cup {i} -> Chunk]
  BY <1>1, <1>2 DEF Put
<1>4. m \in Held
  BY <1>1, <1>2, <1>3 DEF Held
<1>5. \A j \in DOMAIN m : Fits(m[j], j)
  BY DEF Put, MemoryFits
<1> HIDE DEF m
<1>6. memory' \in [Processes -> Held] /\ memory'[p] = m
      /\ \A q \in Processes \ {p} : memory'[q] = memory[q]
  BY <1>4 DEF MemoryFits, m
<1>7. ASSUME NEW q \in Processes, NEW j \in DOMAIN memory'[q] PROVE Fits(memory'[q][j], j)
  BY <1>5, <1>6 DEF MemoryFits
<1> QED BY <1>6, <1>7 DEF MemoryFits, Fits

(* A chunk found in memory or in the database is the one asked for.  A     *)
(* lookup changes no chunk of the database.                                *)
LEMMA GetFits ==
  ASSUME StoreFits, MemoryFits, NEW p \in Processes, NEW i, NEW x, Get(p, i, x)
  PROVE  /\ x # Miss => Fits(x, i)
         /\ StoreFits' /\ MemoryFits' /\ UNCHANGED <<store, properties, expired>>
<1>1. CASE /\ i \in DOMAIN memory[p]
           /\ x = memory[p][i]
           /\ UNCHANGED <<disk, memory>>
  BY <1>1 DEF StoreFits, MemoryFits, disk, Fits
<1>2. CASE /\ i \notin DOMAIN memory[p]
           /\ x = Disk!Answer(<<Url, i>>)
           /\ Disk!Use(<<Url, i>>)
           /\ memory' = IF x = Miss THEN memory ELSE [memory EXCEPT ![p] = Put(@, i, x)]
           /\ UNCHANGED expired
  <2>1. x = Miss \/ (<<Url, i>> \in DOMAIN store /\ x = store[<<Url, i>>])
    BY <1>2 DEF Disk!Answer, Disk!Live
  <2>2. x # Miss => Fits(x, i)
    BY <2>1 DEF StoreFits
  <2>3. UNCHANGED <<store, properties, expired>>
    BY <1>2 DEF Disk!Use
  <2>4. StoreFits'
    BY <2>3 DEF StoreFits, Fits
  <2>5. MemoryFits'
    <3>1. CASE x = Miss
      BY <1>2, <3>1 DEF MemoryFits, Fits
    <3>2. CASE x # Miss
      BY <1>2, <2>2, <3>2, PutFits
    <3> QED BY <3>1, <3>2
  <2> QED BY <2>2, <2>3, <2>4, <2>5
<1>3. CASE x = Miss /\ UNCHANGED <<disk, memory>>
  BY <1>3 DEF StoreFits, MemoryFits, disk, Fits
<1> QED BY <1>1, <1>2, <1>3 DEF Get

(* An insertion puts one chunk in both caches, and may drop others.        *)
LEMMA InsertFits ==
  ASSUME StoreFits, MemoryFits, NEW p \in Processes, NEW i, NEW x, Fits(x, i), Insert(p, i, x)
  PROVE  /\ StoreFits' /\ MemoryFits' /\ UNCHANGED <<properties, expired>>
         /\ \A k \in DOMAIN store' : store'[k] = x \/ (k \in DOMAIN store /\ store'[k] = store[k])
<1> DEFINE k == <<Url, i>>
<1>1. MemoryFits'
  BY PutFits DEF Insert
<1>2. \/ \E kept \in SUBSET DOMAIN store : Disk!Hold(k, x, kept)
      \/ UNCHANGED <<store, newer, free, properties>>
  BY DEF Insert, Disk!Replace, Disk!FillFree, Disk!Evict, Disk!Add, Disk!Live
<1>3. UNCHANGED <<properties, expired>>
  BY <1>2 DEF Insert, Disk!Hold
<1>4. CASE \E kept \in SUBSET DOMAIN store : Disk!Hold(k, x, kept)
  <2> PICK kept \in SUBSET DOMAIN store : Disk!Hold(k, x, kept)
    BY <1>4
  <2>1. store' = [j \in kept \cup {k} |-> IF j = k THEN x ELSE store[j]]
    BY DEF Disk!Hold
  <2>2. k \in {Url} \X Indices /\ k[2] = i
    BY ChunkIs DEF Fits
  <2>3. \A j \in DOMAIN store' : (j = k /\ store'[j] = x) \/ (j \in DOMAIN store /\ store'[j] = store[j])
    BY <2>1
  <2>4. \A j \in DOMAIN store' : j \in {Url} \X Indices /\ Fits(store'[j], j[2])
    BY <2>2, <2>3 DEF StoreFits
  <2>5. StoreFits'
    BY <1>3, <2>4 DEF StoreFits, Fits
  <2> QED BY <1>1, <1>3, <2>3, <2>5
<1>5. CASE UNCHANGED <<store, newer, free, properties>>
  BY <1>1, <1>3, <1>5 DEF StoreFits, Fits
<1> QED BY <1>2, <1>4, <1>5

LEMMA TryGetFits ==
  ASSUME StoreFits, props \in [Processes -> Versions \cup {None}], NEW p \in Processes, NEW v, TryGet(p, v)
  PROVE  /\ props' \in [Processes -> Versions \cup {None}] /\ v \in Versions \cup {None}
         /\ v \in {props[p], Row, None} /\ props' \in {props, [props EXCEPT ![p] = v]}
BY DEF TryGet, StoreFits, Row

(* New properties may empty the database, and add nothing to it. *)
LEMMA RecordPropsFits ==
  ASSUME StoreFits, props \in [Processes -> Versions \cup {None}], NEW p \in Processes, NEW v \in Versions,
         expired \in BOOLEAN, RecordProps(p, v)
  PROVE  /\ StoreFits' /\ props' = [props EXCEPT ![p] = v] /\ props' \in [Processes -> Versions \cup {None}]
         /\ expired' \in BOOLEAN
         /\ \A k \in DOMAIN store' : k \in DOMAIN store /\ store'[k] = store[k]
         /\ Row' \in {v, Row}
         /\ ~LockTimesOut => /\ Row' = v
                             /\ Row \notin {None, v} => DOMAIN store' = {}
<1>1. props' = [props EXCEPT ![p] = v] /\ props' \in [Processes -> Versions \cup {None}]
  BY DEF RecordProps
<1>2. CASE Disk!Refresh(Url, v) /\ expired' = FALSE
  <2> DEFINE gone == IF Row \in {None, v} THEN {} ELSE {k \in DOMAIN store : k[1] = Url}
             kept == DOMAIN store \ gone
  <2>1. properties' = [properties EXCEPT ![Url] = v] /\ store' = Disk!Restrict(store, kept)
    BY <1>2 DEF Disk!Refresh, Disk!Live, Row
  <2>2. store' = [k \in kept |-> store[k]]
    BY <2>1 DEF Disk!Restrict
  <2>3. Row' = v /\ properties' \in [{Url} -> Versions \cup {None}]
    BY <2>1 DEF StoreFits, Row
  <2>4. \A k \in DOMAIN store' : k \in DOMAIN store /\ store'[k] = store[k]
    BY <2>2
  <2>5. Row \notin {None, v} => DOMAIN store' = {}
    BY <2>2 DEF StoreFits
  <2>6. StoreFits'
    BY <2>3, <2>4 DEF StoreFits, Fits
  <2> QED BY <1>1, <1>2, <2>3, <2>4, <2>5, <2>6
<1>3. CASE LockTimesOut /\ UNCHANGED disk
  BY <1>1, <1>3 DEF StoreFits, Fits, disk, Row
<1> QED BY <1>2, <1>3 DEF RecordProps

-----------------------------------------------------------------------------
(* The calls.                                                              *)

(* A step of one thread. *)
LEMMA ThreadKeeps ==
  ASSUME IInv, NEW t \in Threads, NEW f \in File \cup {NoFile}, NEW o \in Op, CallFits(f, o),
         file' = [file EXCEPT ![t] = f], op' = [op EXCEPT ![t] = o],
         server' = server, expired' \in BOOLEAN, props' \in [Processes -> Versions \cup {None}],
         StoreFits', MemoryFits'
  PROVE  IInv'
<1>1. file' \in [Threads -> File \cup {NoFile}] /\ op' \in [Threads -> Op]
  BY DEF IInv
<1>2. ASSUME NEW s \in Threads PROVE CallFits(file'[s], op'[s])
  <2>1. CASE s = t
    BY <2>1 DEF IInv
  <2>2. CASE s # t
    <3>1. file'[s] = file[s] /\ op'[s] = op[s]
      BY <2>2 DEF IInv
    <3> QED BY <3>1 DEF IInv
  <2> QED BY <2>1, <2>2
<1>3. \A s \in Threads : CallFits(file[s], op[s])'
  BY <1>2 DEF CallFits, Exact, Place, Follows, Ended
<1> QED BY <1>1, <1>3 DEF IInv

LEMMA SameStore ==
  ASSUME UNCHANGED <<disk, memory>>, StoreFits, MemoryFits
  PROVE  StoreFits' /\ MemoryFits'
BY DEF disk, StoreFits, MemoryFits, Fits

LEMMA SingleVersion ==
  ASSUME Len(Size) = 1
  PROVE  Versions = {1}
BY DEF Versions

(* A call that is not reading, beside a file or none. *)
LEMMA QuietFits ==
  ASSUME NEW f \in File \cup {NoFile}, NEW o \in Op,
         o.stage \in {"idle", "open_props", "open_request"} \/ (o.stage \in Opening /\ o.ver \in Versions),
         Len(Size) = 1 /\ f # NoFile => f.pos <= Size[1]
  PROVE  CallFits(f, o)
BY DEF CallFits, Exact, Reading, Opening

LEMMA IdleIs ==
  /\ Idle \in Op /\ Idle.out = <<>> /\ Idle.stage = "idle"
BY DEF Idle, Op, Resting

LEMMA OpenedFileIs ==
  ASSUME NEW v \in Versions, NEW handle \in BOOLEAN, NEW last \in Nat \cup {Never}
  PROVE  /\ OpenedFile(v, handle, last) \in File
         /\ OpenedFile(v, handle, last).pos = 0 /\ OpenedFile(v, handle, last).props = v
BY DEF OpenedFile, File

LEMMA CallIs ==
  ASSUME IInv, NEW t \in Threads
  PROVE  /\ file[t] \in File \cup {NoFile} /\ op[t] \in Op /\ CallFits(file[t], op[t])
         /\ StoreFits /\ MemoryFits /\ props \in [Processes -> Versions \cup {None}]
         /\ expired \in BOOLEAN /\ server \in Versions /\ Proc(t) \in Processes
         /\ Len(Size) = 1 /\ file[t] # NoFile => file[t].pos <= Size[1]
         /\ op[t].stage \in Reading \cup {"done"} => file[t] \in File
         /\ file = [file EXCEPT ![t] = file[t]]
BY ProcIs DEF IInv, CallFits, Exact

(* Where a call that reads is. *)
LEMMA PlaceIs ==
  ASSUME NEW f \in File, NEW o \in Op
  PROVE  /\ Place(f, o) \in Nat /\ Place(f, o) * ChunkSize \in Nat
         /\ f.pos \in Nat /\ Len(o.out) \in Nat
         /\ (f.pos + Len(o.out)) % ChunkSize \in 0..(ChunkSize - 1)
         /\ f.pos + Len(o.out) = Place(f, o) * ChunkSize + ((f.pos + Len(o.out)) % ChunkSize)
<1>1. f.pos \in Nat /\ Len(o.out) \in Nat
  BY DEF File, Op
<1>2. f.pos + Len(o.out) \in Nat
  BY <1>1
<1>3. Place(f, o) \in Nat
  BY <1>2, DivMod, Constants DEF Place
<1> QED BY <1>1, <1>2, <1>3, DivMod, Constants, Product DEF Place

LEMMA OpenKeeps ==
  ASSUME IInv, NEW t \in Threads, Open(t)
  PROVE  IInv'
<1> DEFINE o == [Idle EXCEPT !.stage = "open_props"]
<1>1. op' = [op EXCEPT ![t] = o] /\ file' = [file EXCEPT ![t] = file[t]]
      /\ UNCHANGED <<server, disk, props, memory>>
  BY CallIs DEF Open
<1>2. o \in Op /\ o.stage = "open_props"
  BY IdleIs DEF Op, Opening
<1> HIDE DEF o
<1>3. CallFits(file[t], o)
  BY <1>2, CallIs, QuietFits
<1>4. StoreFits' /\ MemoryFits'
  BY <1>1, CallIs, SameStore
<1> QED BY <1>1, <1>2, <1>3, <1>4, CallIs, ThreadKeeps DEF disk

LEMMA OpenPropsKeeps ==
  ASSUME IInv, NEW t \in Threads, OpenProps(t)
  PROVE  IInv'
<1> PICK v \in Versions \cup {None} :
          /\ TryGet(Proc(t), v)
          /\ op' = [op EXCEPT ![t] = IF v = None THEN [@ EXCEPT !.stage = "open_request"]
                                     ELSE [@ EXCEPT !.stage = "open_chunk", !.ver = v]]
  BY DEF OpenProps
<1> DEFINE o == IF v = None THEN [op[t] EXCEPT !.stage = "open_request"]
                ELSE [op[t] EXCEPT !.stage = "open_chunk", !.ver = v]
<1>1. op' = [op EXCEPT ![t] = o] /\ file' = [file EXCEPT ![t] = file[t]]
      /\ UNCHANGED <<server, disk, memory>>
  BY CallIs DEF OpenProps
<1>2. o \in Op /\ (o.stage = "open_request" \/ (o.stage = "open_chunk" /\ o.ver \in Versions))
  <2>1. v # None => v \in Nat /\ v \in Versions
    BY Constants
  <2> QED BY <2>1, CallIs DEF Op, Opening
<1> HIDE DEF o
<1>3. CallFits(file[t], o)
  BY <1>2, CallIs, QuietFits DEF Opening
<1>4. StoreFits' /\ MemoryFits'
  BY <1>1, CallIs, SameStore
<1>5. props' \in [Processes -> Versions \cup {None}]
  BY CallIs, TryGetFits
<1> QED BY <1>1, <1>2, <1>3, <1>4, <1>5, CallIs, ThreadKeeps DEF disk

LEMMA OpenChunkKeeps ==
  ASSUME IInv, NEW t \in Threads, OpenChunk(t)
  PROVE  IInv'
<1> PICK x \in Chunk \cup {Miss} :
          /\ Get(Proc(t), 0, x)
          /\ IF x = Miss
             THEN Goto(t, "open_request") /\ UNCHANGED file
             ELSE /\ file' = [file EXCEPT ![t] = OpenedFile(op[t].ver, FALSE, Never)]
                  /\ op' = [op EXCEPT ![t] = Idle]
  BY DEF OpenChunk
<1>1. StoreFits' /\ MemoryFits' /\ expired' \in BOOLEAN /\ UNCHANGED <<server, props>>
  BY CallIs, GetFits DEF OpenChunk
<1>2. CASE x = Miss
  <2> DEFINE o == [op[t] EXCEPT !.stage = "open_request"]
  <2>1. op' = [op EXCEPT ![t] = o] /\ file' = [file EXCEPT ![t] = file[t]]
    BY <1>2, CallIs DEF Goto
  <2>2. o \in Op /\ o.stage = "open_request"
    BY CallIs DEF Op, Opening
  <2> HIDE DEF o
  <2>3. CallFits(file[t], o)
    BY <2>2, CallIs, QuietFits
  <2> QED BY <1>1, <2>1, <2>2, <2>3, CallIs, ThreadKeeps
<1>3. CASE x # Miss
  <2> DEFINE f == OpenedFile(op[t].ver, FALSE, Never)
  <2>1. op' = [op EXCEPT ![t] = Idle] /\ file' = [file EXCEPT ![t] = f]
    BY <1>3
  <2>2. op[t].ver \in Versions
    BY CallIs DEF OpenChunk, At, CallFits
  <2>3. f \in File /\ f.pos = 0
    BY <2>2, OpenedFileIs
  <2> HIDE DEF f
  <2>4. CallFits(f, Idle)
    BY <2>3, IdleIs, QuietFits, Constants
  <2> QED BY <1>1, <2>1, <2>3, <2>4, IdleIs, CallIs, ThreadKeeps
<1> QED BY <1>2, <1>3

LEMMA OpenRequestKeeps ==
  ASSUME IInv, NEW t \in Threads, OpenRequest(t)
  PROVE  IInv'
<1> DEFINE o == [op[t] EXCEPT !.stage = "open_record", !.ver = server]
<1>1. /\ op' = [op EXCEPT ![t] = Idle] \/ op' = [op EXCEPT ![t] = o]
      /\ file' = [file EXCEPT ![t] = file[t]]
      /\ UNCHANGED <<server, disk, props, memory>>
  BY CallIs DEF OpenRequest, IInv
<1>2. o \in Op /\ o.stage = "open_record" /\ o.ver \in Versions
  BY CallIs, Constants DEF Op, Opening
<1> HIDE DEF o
<1>3. CallFits(file[t], o) /\ CallFits(file[t], Idle)
  BY <1>2, CallIs, IdleIs, QuietFits DEF Opening
<1>4. StoreFits' /\ MemoryFits'
  BY <1>1, CallIs, SameStore
<1> QED BY <1>1, <1>2, <1>3, <1>4, CallIs, IdleIs, ThreadKeeps DEF disk

LEMMA OpenRecordKeeps ==
  ASSUME IInv, NEW t \in Threads, OpenRecord(t)
  PROVE  IInv'
<1> DEFINE o == [op[t] EXCEPT !.stage = "open_store"]
<1>1. /\ op' = [op EXCEPT ![t] = o] /\ file' = [file EXCEPT ![t] = file[t]]
      /\ RecordProps(Proc(t), op[t].ver) /\ UNCHANGED <<server, memory>>
  BY CallIs DEF OpenRecord, Goto
<1>2. op[t].ver \in Versions
  BY CallIs DEF OpenRecord, At, CallFits
<1>3. o \in Op /\ o.stage = "open_store" /\ o.ver \in Versions
  BY <1>2, CallIs DEF Op, Opening
<1> HIDE DEF o
<1>4. CallFits(file[t], o)
  BY <1>3, CallIs, QuietFits DEF Opening
<1>5. StoreFits' /\ expired' \in BOOLEAN /\ props' \in [Processes -> Versions \cup {None}]
  BY <1>1, <1>2, CallIs, RecordPropsFits
<1>6. MemoryFits'
  BY <1>1, CallIs DEF MemoryFits, Fits
<1> QED BY <1>1, <1>3, <1>4, <1>5, <1>6, CallIs, ThreadKeeps

LEMMA OpenStoreKeeps ==
  ASSUME IInv, NEW t \in Threads, OpenStore(t)
  PROVE  IInv'
<1> DEFINE x == [ver |-> op[t].ver, idx |-> 0]
           f == OpenedFile(op[t].ver, TRUE, SizeOf(x))
<1>1. /\ op' = [op EXCEPT ![t] = Idle] /\ file' = [file EXCEPT ![t] = f]
      /\ Insert(Proc(t), 0, x) /\ UNCHANGED <<server, props>>
  BY DEF OpenStore
<1>2. op[t].ver \in Versions
  BY CallIs DEF OpenStore, At, CallFits
<1>3. x \in Chunk /\ Fits(x, 0)
  <2>1. 0 * ChunkSize < Size[op[t].ver]
    <3>1. Size[op[t].ver] \in Nat \ {0} /\ ChunkSize \in Nat
      BY <1>2, Constants
    <3>2. \A c \in Nat : 0 * c = 0
      OBVIOUS
    <3>3. 0 * ChunkSize = 0
      BY <3>1, <3>2
    <3> QED BY <3>1, <3>3
  <2> QED BY <1>2, <2>1, PlaceOfChunk
<1>4. StoreFits' /\ MemoryFits' /\ expired' \in BOOLEAN
  BY <1>1, <1>3, CallIs, InsertFits
<1>5. f \in File /\ f.pos = 0
  BY <1>2, <1>3, OpenedFileIs, SizeOfIs
<1> HIDE DEF f, x
<1>6. CallFits(f, Idle)
  BY <1>5, IdleIs, QuietFits, Constants
<1> QED BY <1>1, <1>4, <1>5, <1>6, IdleIs, CallIs, ThreadKeeps

LEMMA CloseKeeps ==
  ASSUME IInv, NEW t \in Threads, Close(t)
  PROVE  IInv'
<1>1. op' = [op EXCEPT ![t] = Idle] /\ file' = [file EXCEPT ![t] = NoFile]
      /\ UNCHANGED <<server, disk, props, memory>>
  BY DEF Close
<1>2. CallFits(NoFile, Idle)
  BY IdleIs, QuietFits
<1>3. StoreFits' /\ MemoryFits'
  BY <1>1, CallIs, SameStore
<1> QED BY <1>1, <1>2, <1>3, CallIs, IdleIs, ThreadKeeps DEF disk

LEMMA SeekKeeps ==
  ASSUME IInv, NEW t \in Threads, NEW pos \in Positions, Seek(t, pos)
  PROVE  IInv'
<1> DEFINE f == [file[t] EXCEPT !.pos = pos]
<1>1. op' = [op EXCEPT ![t] = Idle] /\ file' = [file EXCEPT ![t] = f]
      /\ UNCHANGED <<server, disk, props, memory>>
  BY DEF Seek
<1>2. file[t] \in File /\ pos <= Size[file[t].props]
  BY CallIs DEF Seek
<1>3. f \in File /\ f.pos = pos /\ file[t].props \in Versions
  BY <1>2, Constants DEF File
<1> HIDE DEF f
<1>4. CallFits(f, Idle)
  BY <1>2, <1>3, IdleIs, QuietFits, SingleVersion
<1>5. StoreFits' /\ MemoryFits'
  BY <1>1, CallIs, SameStore
<1> QED BY <1>1, <1>3, <1>4, <1>5, CallIs, IdleIs, ThreadKeeps DEF disk

LEMMA ReadKeeps ==
  ASSUME IInv, NEW t \in Threads, NEW n \in Lengths, Read(t, n)
  PROVE  IInv'
<1> DEFINE o == [Idle EXCEPT !.stage = "lookup", !.want = n]
<1>1. op' = [op EXCEPT ![t] = o] /\ file' = [file EXCEPT ![t] = file[t]]
      /\ file[t] # NoFile /\ UNCHANGED <<server, disk, props, memory>>
  BY CallIs DEF Read
<1>2. n \in Nat \ {0}
  BY Constants
<1>3. o \in Op /\ o.stage = "lookup" /\ o.want = n /\ o.out = <<>> /\ Len(o.out) = 0
  BY <1>2, IdleIs DEF Op, Reading
<1> HIDE DEF o
<1>4. CallFits(file[t], o)
  <2>1. file[t].pos \in Nat
    BY <1>1, CallIs DEF File
  <2>2. Len(Size) = 1 => Exact(file[t], o)
    BY <1>1, <1>3, <2>1, CallIs DEF Exact, Follows
  <2> QED BY <1>1, <1>2, <1>3, <2>2 DEF CallFits
<1>5. StoreFits' /\ MemoryFits'
  BY <1>1, CallIs, SameStore
<1> QED BY <1>1, <1>3, <1>4, <1>5, CallIs, ThreadKeeps DEF disk

-----------------------------------------------------------------------------
(* Reading.                                                                *)

LEMMA ReadingIs ==
  ASSUME IInv, NEW t \in Threads, op[t].stage \in Reading
  PROVE  /\ file[t] \in File /\ op[t] \in Op /\ op[t].want \in Nat /\ Len(op[t].out) \in Nat
         /\ Len(op[t].out) < op[t].want /\ op[t].i \in Nat /\ op[t].got \in Nat
         /\ file[t].pos \in Nat /\ file[t].blocks \in Nat \ {0}
         /\ IdxToDownload(t) = Place(file[t], op[t]) /\ IterOffset(t) = file[t].pos + Len(op[t].out)
         /\ IdxToDownload(t) \in Nat /\ IdxToDownload(t) * ChunkSize \in Nat
BY CallIs, PlaceIs DEF CallFits, File, Op, IdxToDownload, IterOffset, Place

(* The read goes on at the same place. *)
LEMMA StillReading ==
  ASSUME NEW f \in File, NEW o \in Op, o.stage \in Reading, CallFits(f, o),
         NEW g \in File, g.pos = f.pos, NEW n \in Op, n.stage \in Reading, n.out = o.out, n.want = o.want,
         n.stage = "probe" => n.i > 0,
         n.stage \in {"compare", "store"} =>
            /\ n.ver \in Versions /\ n.got > 0 /\ Place(f, o) * ChunkSize + n.got <= Size[n.ver]
            /\ Len(Size) = 1 /\ n.got < ChunkSize => n.got = Size[1] - Place(f, o) * ChunkSize
  PROVE  CallFits(g, n)
<1>1. Place(g, n) = Place(f, o)
  BY DEF Place
<1>2. g # NoFile /\ f # NoFile /\ Len(n.out) < n.want
  BY NothingIsNoFile DEF CallFits
<1>3. n.stage # "done" /\ n.stage \notin {"open_chunk", "open_record", "open_store"}
  BY DEF Reading
<1>4. ASSUME Len(Size) = 1 PROVE Exact(g, n)
  BY <1>1, <1>2, <1>3, <1>4 DEF CallFits, Exact, Follows
<1> QED BY <1>1, <1>2, <1>3, <1>4 DEF CallFits

LEMMA ReturnsZeroIs ==
  ASSUME NEW t \in Threads, op[t] \in Op, NEW f \in File, op[t].stage \in Reading, CallFits(file[t], op[t]),
         f.pos = file[t].pos, file[t] \in File, NEW why \in {"network", "eof"},
         why = "eof" /\ Len(Size) = 1 => Size[1] - f.pos < op[t].want /\ Size[1] % ChunkSize = 0,
         ReturnsZero(t, why)
  PROVE  \E o \in Op : op' = [op EXCEPT ![t] = o] /\ CallFits(f, o) /\ o.stage = "done"
<1> DEFINE o == [Idle EXCEPT !.stage = "done", !.want = op[t].want, !.failed = why]
<1>1. op' = [op EXCEPT ![t] = o]
  BY DEF ReturnsZero
<1>2. op[t].want \in Nat
  BY DEF Op
<1>3. o \in Op /\ o.stage = "done" /\ o.out = <<>> /\ o.want = op[t].want /\ o.failed = why
  BY <1>2, IdleIs DEF Op, Resting
<1> HIDE DEF o
<1>4. Len(o.out) = 0 /\ f.pos \in Nat /\ f.pos - 0 = f.pos
  BY <1>3 DEF File
<1>5. f # NoFile
  BY NothingIsNoFile
<1>6. ASSUME Len(Size) = 1 PROVE Exact(f, o)
  <2>1. f.pos <= Size[1]
    BY <1>6, NothingIsNoFile DEF CallFits, Exact
  <2>2. Ended(f, o)
    BY <1>3, <1>4, <1>6 DEF Ended, Follows
  <2> QED BY <1>3, <2>1, <2>2 DEF Exact, Reading
<1>7. CallFits(f, o)
  BY <1>3, <1>5, <1>6 DEF CallFits, Reading
<1> QED BY <1>1, <1>3, <1>7

LEMMA ConcatIs ==
  ASSUME NEW a \in Seq(Byte), NEW b \in Seq(Byte)
  PROVE  /\ a \o b \in Seq(Byte) /\ Len(a \o b) = Len(a) + Len(b)
         /\ \A k \in 1..Len(a) : (a \o b)[k] = a[k]
         /\ \A k \in 1..Len(b) : (a \o b)[Len(a) + k] = b[k]
OBVIOUS

(* What a read copies of a region follows what it had, and it ends when it *)
(* has what was asked for or what the file has.                            *)
LEMMA CopyFromIs ==
  ASSUME IInv, NEW t \in Threads, op[t].stage \in Reading, NEW x, x.ver \in Versions,
         x.idx = IdxToDownload(t), NEW size \in Nat,
         Len(Size) = 1 =>
            /\ x.idx * ChunkSize + size <= Size[1]
            /\ size < ChunkSize => size = Size[1] - x.idx * ChunkSize,
         CopyFrom(t, x, size)
  PROVE  \E f \in File, o \in Op :
            /\ file' = [file EXCEPT ![t] = f] /\ op' = [op EXCEPT ![t] = o]
            /\ CallFits(f, o) /\ o.stage \in {"lookup", "done"}
<1> DEFINE f == file[t]
           out == op[t].out
           want == op[t].want
           left == want - Len(out)
           within == (f.pos + Len(out)) % ChunkSize
           base == x.idx * ChunkSize
           n == Copied(left, size, within)
           bytes == [k \in 1..n |-> [ver |-> x.ver, off |-> base + within + k - 1]]
           all == out \o bytes
           over == left = n \/ IsLast(size)
           o == [Idle EXCEPT !.stage = IF over THEN "done" ELSE "lookup", !.want = want, !.out = all]
           g == IF over THEN [f EXCEPT !.pos = @ + Len(all)] ELSE f
<1>1. /\ op' = [op EXCEPT ![t] = o]
      /\ file' = IF over THEN [file EXCEPT ![t].pos = @ + Len(all)] ELSE file
  BY DEF CopyFrom, Remaining, IterOffset
<1>2. /\ f \in File /\ op[t] \in Op /\ want \in Nat /\ Len(out) \in Nat /\ Len(out) < want
      /\ f.pos \in Nat /\ base \in Nat /\ CallFits(f, op[t])
      /\ within \in Nat /\ within < ChunkSize /\ f.pos + Len(out) = base + within
      /\ ChunkSize \in Nat \ {0}
  <2>1. /\ f \in File /\ op[t] \in Op /\ want \in Nat /\ Len(out) \in Nat /\ Len(out) < want
        /\ f.pos \in Nat /\ x.idx = Place(f, op[t])
    BY ReadingIs
  <2>2. CallFits(f, op[t]) /\ ChunkSize \in Nat \ {0}
    BY CallIs, Constants
  <2>3. /\ base \in Nat /\ within \in 0..(ChunkSize - 1) /\ f.pos + Len(out) = base + within
    BY <2>1, PlaceIs
  <2> HIDE DEF f, out, want, base, within
  <2>4. within \in Nat /\ within < ChunkSize
    BY <2>2, <2>3
  <2> QED BY <2>1, <2>2, <2>3, <2>4
<1>3. out \in Seq(Byte) /\ left \in Nat \ {0}
  <2>1. out \in Seq(Byte)
    BY <1>2 DEF Op
  <2> HIDE DEF out, want
  <2> QED BY <1>2, <2>1
<1> HIDE DEF f, out, want
<1> HIDE DEF within, base
<1>4. n \in 0..left
  BY <1>2, <1>3 DEF Copied, Least
<1> HIDE DEF left, n
<1>5. bytes \in Seq(Byte) /\ Len(bytes) = n
  <2>1. \A k \in 1..n : base + within + k - 1 \in Nat
    BY <1>2, <1>3, <1>4
  <2>2. \A k \in 1..n : [ver |-> x.ver, off |-> base + within + k - 1] \in Byte
    BY <2>1 DEF Byte
  <2>3. n \in Nat
    BY <1>3, <1>4
  <2> QED BY <2>2, <2>3
<1>6. \A k \in 1..n : bytes[k].off = base + within + k - 1
  OBVIOUS
<1> HIDE DEF bytes
<1>7. /\ all \in Seq(Byte) /\ Len(all) = Len(out) + n
      /\ \A k \in 1..Len(out) : all[k] = out[k]
      /\ \A k \in 1..n : all[Len(out) + k] = bytes[k]
  <2>1. /\ all \in Seq(Byte) /\ Len(all) = Len(out) + Len(bytes)
        /\ \A k \in 1..Len(out) : all[k] = out[k]
        /\ \A k \in 1..Len(bytes) : all[Len(out) + k] = bytes[k]
    BY <1>3, <1>5, ConcatIs, Zenon
  <2> HIDE DEF all
  <2> QED BY <1>5, <2>1
<1> HIDE DEF all
<1>8. /\ o \in Op /\ o.stage = (IF over THEN "done" ELSE "lookup") /\ o.want = want /\ o.out = all
      /\ o.failed = "no"
  <2>1. Idle.failed = "no"
    BY DEF Idle
  <2> HIDE DEF over
  <2> QED BY <1>2, <1>7, <2>1, IdleIs DEF Op, Resting, Reading
<1> HIDE DEF o
<1>9. g \in File /\ g.pos = (IF over THEN f.pos + Len(all) ELSE f.pos)
  <2>1. f.pos + Len(all) \in Nat
    BY <1>2, <1>7
  <2> HIDE DEF over
  <2> QED BY <1>2, <2>1 DEF File
<1>10. file' = [file EXCEPT ![t] = g]
  <2>1. file \in [Threads -> File \cup {NoFile}] /\ file[t] = f
    BY DEF IInv, f
  <2> HIDE DEF over
  <2> QED BY <1>1, <2>1
<1> HIDE DEF g
<1>11. g # NoFile /\ f # NoFile
  BY <1>2, <1>9, NothingIsNoFile
<1>12. ~over => Len(all) < want
  BY <1>2, <1>3, <1>4, <1>7 DEF left
<1>13. ASSUME Len(Size) = 1 PROVE Exact(g, o)
  <2>1. /\ f.pos <= Size[1] /\ f.pos + Len(out) <= Size[1] /\ Follows(op[t], f.pos)
        /\ Size[1] \in Nat
    BY <1>2, <1>11, <1>13, Constants, SingleVersion DEF CallFits, Exact, out
  <2>2. base + size <= Size[1] /\ (size < ChunkSize => size = Size[1] - base)
    BY <1>13 DEF base
  <2>3. within <= size
    BY <1>2, <2>1, <2>2
  <2>4. n = Least(left, size - within) /\ size - within \in Nat
    BY <1>2, <2>3 DEF n, Copied
  <2>5. n <= size - within /\ (n = left \/ n = size - within)
    BY <1>3, <2>4 DEF Least
  <2>6. f.pos + Len(all) <= Size[1]
    BY <1>2, <1>4, <1>3, <1>7, <2>1, <2>2, <2>3, <2>5
  <2>7. \A k \in 1..Len(all) : all[k].off = f.pos + k - 1
    <3> SUFFICES ASSUME NEW k \in 1..Len(all) PROVE all[k].off = f.pos + k - 1
      OBVIOUS
    <3>1. CASE k <= Len(out)
      <4>1. k \in 1..Len(out)
        BY <1>2, <3>1
      <4>2. \A j \in 1..Len(out) : out[j].off = f.pos + j - 1
        BY <2>1 DEF Follows, out
      <4>3. all[k] = out[k]
        BY <1>7, <4>1
      <4> QED BY <4>1, <4>2, <4>3
    <3>2. CASE k > Len(out)
      <4>1. n \in Nat
        BY <1>3, <1>4
      <4>2. k - Len(out) \in 1..n /\ Len(out) + (k - Len(out)) = k
        BY <1>2, <1>7, <3>2, <4>1
      <4>3. all[k].off = base + within + (k - Len(out)) - 1
        BY <1>6, <1>7, <4>2
      <4> QED BY <1>2, <4>3
    <3> QED BY <1>2, <3>1, <3>2
  <2>8. CASE over
    <3>1. g.pos = f.pos + Len(all) /\ o.stage = "done" /\ g.pos - Len(all) = f.pos
      BY <1>2, <1>7, <1>8, <1>9, <2>8
    <3>2. Len(all) = Least(want, Size[1] - f.pos)
      <4>1. CASE n = left
        <5>1. Len(all) = want /\ want <= Size[1] - f.pos
          BY <1>2, <1>7, <2>1, <2>6, <4>1 DEF left
        <5> QED BY <1>2, <2>1, <5>1 DEF Least
      <4>2. CASE n # left
        <5>1. size < ChunkSize /\ n = size - within /\ n < left
          BY <1>3, <1>4, <2>5, <2>8, <4>2 DEF IsLast
        <5>2. Len(all) < want
          BY <1>2, <1>4, <1>7, <5>1 DEF left
        <5>3. size = Size[1] - base
          BY <2>2, <5>1
        <5>4. Len(all) = Size[1] - f.pos
          <6>1. /\ base \in Nat /\ within \in Nat /\ f.pos \in Nat /\ Len(out) \in Nat
                /\ f.pos + Len(out) = base + within
            BY <1>2
          <6>2. Size[1] \in Nat /\ n = (Size[1] - base) - within
            BY <2>1, <5>1, <5>3
          <6>3. Len(all) = Len(out) + n
            BY <1>7
          <6> QED BY <6>1, <6>2, <6>3
        <5> QED BY <1>2, <2>1, <5>2, <5>4 DEF Least
      <4> QED BY <4>1, <4>2
    <3>3. Ended(g, o)
      BY <1>8, <2>7, <3>1, <3>2 DEF Ended, Follows
    <3> QED BY <2>6, <3>1, <3>3 DEF Exact, Reading
  <2>9. CASE ~over
    BY <1>8, <1>9, <2>1, <2>6, <2>7, <2>9 DEF Exact, Follows
  <2> QED BY <2>8, <2>9
<1>14. CallFits(g, o)
  BY <1>8, <1>11, <1>12, <1>13 DEF CallFits, Reading
<1>15. o.stage \in {"lookup", "done"}
  BY <1>8
<1> QED BY <1>1, <1>8, <1>9, <1>10, <1>14, <1>15

LEMMA LookupHitKeeps ==
  ASSUME IInv, NEW t \in Threads, LookupHit(t)
  PROVE  IInv'
<1>1. PICK x \in Chunk : Get(Proc(t), IdxToDownload(t), x) /\ CopyFrom(t, x, SizeOf(x))
  BY DEF LookupHit
<1>2. op[t].stage \in Reading /\ UNCHANGED <<server, props>>
  BY DEF LookupHit, At, Reading
<1>3. /\ Fits(x, IdxToDownload(t)) /\ StoreFits' /\ MemoryFits' /\ expired' \in BOOLEAN
  BY <1>1, CallIs, GetFits, NothingIsNoChunk
<1>4. x.idx = IdxToDownload(t) /\ x.ver \in Versions /\ SizeOf(x) \in Nat
  BY <1>3, ChunkIs, SizeOfIs DEF Fits
<1>5. Len(Size) = 1 =>
         /\ x.idx * ChunkSize + SizeOf(x) <= Size[1]
         /\ SizeOf(x) < ChunkSize => SizeOf(x) = Size[1] - x.idx * ChunkSize
  <2>1. Fits(x, x.idx)
    BY <1>3, <1>4
  <2>2. Len(Size) = 1 => x.ver = 1
    BY <1>4, SingleVersion
  <2> QED BY <2>1, <2>2, SizeOfIs
<1>6. PICK f \in File, o \in Op :
            /\ file' = [file EXCEPT ![t] = f] /\ op' = [op EXCEPT ![t] = o] /\ CallFits(f, o)
  BY <1>1, <1>2, <1>4, <1>5, CopyFromIs
<1> QED BY <1>2, <1>3, <1>6, CallIs, ThreadKeeps

LEMMA BlocksAreSome ==
  ASSUME IInv, NEW t \in Threads, op[t].stage \in Reading
  PROVE  BlocksWanted(t) \in Nat \ {0}
<1> DEFINE first == IdxToDownload(t)
           sequential == first * ChunkSize = file[t].last
           doubled == IF ~sequential THEN 1
                      ELSE IF file[t].blocks < DoubleBelow THEN 2 * file[t].blocks ELSE file[t].blocks
           end == (IterOffset(t) + Remaining(t) + ChunkSize - 1) \div ChunkSize
<1>1. file[t].blocks \in Nat \ {0} /\ first \in Nat
  BY ReadingIs
<1>2. doubled \in Nat \ {0}
  <2> HIDE DEF sequential
  <2> QED BY <1>1
<1>3. end \in Nat
  <2>1. /\ IterOffset(t) \in Nat /\ Remaining(t) \in Nat /\ ChunkSize \in Nat \ {0}
    BY ReadingIs, Constants DEF Remaining
  <2>2. IterOffset(t) + Remaining(t) + ChunkSize - 1 \in Nat
    BY <2>1
  <2> QED BY <2>1, <2>2, DivMod
<1>4. BlocksWanted(t) = MaxOf({doubled, end - first})
  BY DEF BlocksWanted
<1> HIDE DEF first, doubled, end
<1>5. end - first \in Int
  BY <1>1, <1>3
<1>6. \E m \in {doubled, end - first} : \A k \in {doubled, end - first} : k <= m
  BY <1>2, <1>5, SMT
<1>7. /\ MaxOf({doubled, end - first}) \in {doubled, end - first}
      /\ doubled <= MaxOf({doubled, end - first})
  BY <1>6 DEF MaxOf
<1> QED BY <1>2, <1>4, <1>5, <1>7

LEMMA LookupMissKeeps ==
  ASSUME IInv, NEW t \in Threads, LookupMiss(t)
  PROVE  IInv'
<1> DEFINE f == [file[t] EXCEPT !.blocks = BlocksWanted(t)]
           o == [op[t] EXCEPT !.stage = "probe", !.i = 1]
<1>1. /\ op[t].stage \in Reading /\ UNCHANGED <<server, props>> /\ Get(Proc(t), IdxToDownload(t), Miss)
      /\ file' = [file EXCEPT ![t] = f] /\ op' = [op EXCEPT ![t] = o]
  BY DEF LookupMiss, At, Reading, IInv
<1>2. StoreFits' /\ MemoryFits' /\ expired' \in BOOLEAN
  BY <1>1, CallIs, GetFits
<1>3. f \in File /\ f.pos = file[t].pos
  BY <1>1, BlocksAreSome, ReadingIs DEF File
<1>4. o \in Op /\ o.stage = "probe" /\ o.i = 1 /\ o.out = op[t].out /\ o.want = op[t].want
  BY CallIs DEF Op, Reading
<1> HIDE DEF f, o
<1>5. CallFits(f, o)
  BY <1>1, <1>3, <1>4, CallIs, ReadingIs, StillReading DEF Reading
<1> QED BY <1>1, <1>2, <1>3, <1>4, <1>5, CallIs, ThreadKeeps

LEMMA ProbeKeeps ==
  ASSUME IInv, NEW t \in Threads, Probe(t)
  PROVE  IInv'
<1> PICK x \in Chunk \cup {Miss} :
          /\ Get(Proc(t), IdxToDownload(t) + op[t].i, x)
          /\ file' = IF x = Miss THEN file ELSE [file EXCEPT ![t].blocks = op[t].i]
  BY DEF Probe
<1> DEFINE f == IF x = Miss THEN file[t] ELSE [file[t] EXCEPT !.blocks = op[t].i]
           o == [op[t] EXCEPT !.i = @ + 1]
<1>1. /\ op[t].stage = "probe" /\ op[t].stage \in Reading /\ UNCHANGED <<server, props>>
      /\ op' = [op EXCEPT ![t] = o]
  BY DEF Probe, At, Reading
<1>2. file' = [file EXCEPT ![t] = f]
  BY CallIs DEF IInv
<1>3. StoreFits' /\ MemoryFits' /\ expired' \in BOOLEAN
  BY CallIs, GetFits
<1>4. op[t].i \in Nat \ {0}
  BY <1>1, CallIs, ReadingIs DEF CallFits
<1>5. f \in File /\ f.pos = file[t].pos
  BY <1>1, <1>4, ReadingIs DEF File
<1>6. o \in Op /\ o.stage = "probe" /\ o.i > 0 /\ o.out = op[t].out /\ o.want = op[t].want
  <2>1. op[t].i + 1 \in Nat /\ op[t].i + 1 > 0
    BY <1>4
  <2>2. op[t] \in Op
    BY CallIs
  <2> QED BY <1>1, <2>1, <2>2 DEF Op
<1> HIDE DEF f, o
<1>7. CallFits(f, o)
  BY <1>1, <1>5, <1>6, CallIs, ReadingIs, StillReading
<1> QED BY <1>1, <1>2, <1>3, <1>5, <1>6, <1>7, CallIs, ThreadKeeps

LEMMA ProbeEndsKeeps ==
  ASSUME IInv, NEW t \in Threads, ProbeEnds(t)
  PROVE  IInv'
<1> DEFINE f == [file[t] EXCEPT !.blocks = Least(@, MaxBlocks)]
           o == [op[t] EXCEPT !.stage = "request", !.i = 0]
<1>1. /\ op[t].stage \in Reading /\ UNCHANGED <<server, disk, props, memory>>
      /\ file' = [file EXCEPT ![t] = f] /\ op' = [op EXCEPT ![t] = o]
  BY DEF ProbeEnds, At, Reading, IInv
<1>2. StoreFits' /\ MemoryFits' /\ expired' \in BOOLEAN
  BY <1>1, CallIs, SameStore DEF disk
<1>3. f \in File /\ f.pos = file[t].pos
  <2>1. Least(file[t].blocks, MaxBlocks) \in Nat \ {0}
    BY <1>1, Constants, ReadingIs DEF Least
  <2> QED BY <1>1, <2>1, ReadingIs DEF File
<1>4. o \in Op /\ o.stage = "request" /\ o.out = op[t].out /\ o.want = op[t].want
  BY CallIs DEF Op, Reading
<1> HIDE DEF f, o
<1>5. CallFits(f, o)
  BY <1>1, <1>3, <1>4, CallIs, ReadingIs, StillReading DEF Reading
<1> QED BY <1>1, <1>2, <1>3, <1>4, <1>5, CallIs, ThreadKeeps

LEMMA OutsideOne ==
  ASSUME NEW r \in Nat, NEW d \in Int, NEW c \in Nat \ {0}, r < c, r = d * c
  PROVE  r = 0
<1>1. d >= 1 => d * c >= c
  OBVIOUS
<1>2. d <= -1 => d * c <= -c
  OBVIOUS
<1>3. d = 0 => d * c = 0
  OBVIOUS
<1>4. d = 0 \/ d >= 1 \/ d <= -1
  OBVIOUS
<1> QED BY <1>1, <1>2, <1>3, <1>4

LEMMA Minus ==
  ASSUME NEW a \in Int, NEW q \in Int, NEW c \in Int, NEW r \in Int, a * c = q * c + r
  PROVE  r = (a - q) * c
<1>1. (a - q) * c = a * c - q * c
  OBVIOUS
<1> QED BY <1>1

LEMMA Multiple ==
  ASSUME NEW a \in Nat, NEW c \in Nat \ {0}
  PROVE  (a * c) % c = 0
<1> DEFINE m == a * c
           q == m \div c
           r == m % c
<1>1. m \in Nat
  BY Product
<1>2. q \in Nat /\ r \in 0..(c - 1) /\ m = q * c + r
  BY <1>1, DivMod
<1>3. a * c = q * c + r
  BY <1>2
<1> HIDE DEF m, q, r
<1>4. r = (a - q) * c
  BY <1>2, <1>3, Minus
<1>5. r = 0
  BY <1>2, <1>4, OutsideOne
<1> QED BY <1>5 DEF r, m

LEMMA RequestKeeps ==
  ASSUME IInv, NEW t \in Threads, Request(t)
  PROVE  IInv'
<1> DEFINE f == [file[t] EXCEPT !.handle = TRUE]
           place == IdxToDownload(t)
           asked == file[t].blocks * ChunkSize
           got == Least(asked, Size[server] - place * ChunkSize)
           o == [op[t] EXCEPT !.stage = "compare", !.ver = server, !.got = got]
<1>1. op[t].stage \in Reading /\ UNCHANGED <<server, disk, props, memory>>
  BY DEF Request, At, Reading
<1>2. StoreFits' /\ MemoryFits' /\ expired' \in BOOLEAN /\ props' \in [Processes -> Versions \cup {None}]
  BY <1>1, CallIs, SameStore DEF disk
<1>3. f \in File /\ f.pos = file[t].pos
  BY <1>1, ReadingIs DEF File
<1>4. \/ ReturnsZero(t, "network") /\ UNCHANGED file
      \/ /\ place * ChunkSize >= Size[server] /\ ReturnsZero(t, "eof")
         /\ file' = [file EXCEPT ![t] = f]
      \/ /\ place * ChunkSize < Size[server]
         /\ op' = [op EXCEPT ![t] = o] /\ file' = [file EXCEPT ![t] = f]
  BY DEF Request, IInv
<1>5. /\ place \in Nat /\ place * ChunkSize \in Nat /\ Size[server] \in Nat \ {0} /\ ChunkSize \in Nat \ {0}
      /\ place = Place(file[t], op[t]) /\ file[t].blocks \in Nat \ {0} /\ server \in Versions
  BY <1>1, ReadingIs, CallIs, Constants
<1>6. asked \in Nat /\ ChunkSize <= asked
  <2>1. \A a, c \in Nat \ {0} : a * c \in Nat /\ c <= a * c
    OBVIOUS
  <2> QED BY <1>5, <2>1
<1> HIDE DEF f, asked
<1>7. CASE ReturnsZero(t, "network") /\ UNCHANGED file
  <2>1. \E o1 \in Op : op' = [op EXCEPT ![t] = o1] /\ CallFits(file[t], o1)
    <3>1. file[t] \in File /\ op[t] \in Op /\ CallFits(file[t], op[t])
      BY <1>1, CallIs
    <3>2. \E o1 : op' = [op EXCEPT ![t] = o1] /\ o1 \in Op
      <4>1. [Idle EXCEPT !.stage = "done", !.want = op[t].want, !.failed = "network"] \in Op
        BY <3>1, IdleIs DEF Op, Resting
      <4> QED BY <1>7, <4>1 DEF ReturnsZero
    <3>3. \E o1 \in Op : op' = [op EXCEPT ![t] = o1] /\ CallFits(file[t], o1) /\ o1.stage = "done"
      BY <1>1, <1>7, <3>1, ReturnsZeroIs
    <3> QED BY <3>3
  <2>2. file' = [file EXCEPT ![t] = file[t]]
    BY <1>7, CallIs
  <2> QED BY <1>1, <1>2, <2>1, <2>2, CallIs, ThreadKeeps
<1>8. CASE /\ place * ChunkSize >= Size[server] /\ ReturnsZero(t, "eof")
           /\ file' = [file EXCEPT ![t] = f]
  <2>1. ASSUME Len(Size) = 1
        PROVE  Size[1] - f.pos < op[t].want /\ Size[1] % ChunkSize = 0
    <3> DEFINE n == Len(op[t].out)
               w == (file[t].pos + n) % ChunkSize
    <3>1. server = 1
      BY <1>5, <2>1, SingleVersion
    <3>2. file[t].pos + n <= Size[1]
      BY <1>1, <2>1, CallIs DEF CallFits, Exact
    <3>3. /\ file[t].pos \in Nat /\ n \in Nat /\ n < op[t].want /\ op[t].want \in Nat
          /\ w \in 0..(ChunkSize - 1) /\ file[t].pos + n = place * ChunkSize + w
      BY <1>1, <1>5, ReadingIs, PlaceIs
    <3> HIDE DEF n, w, place
    <3> DEFINE base == place * ChunkSize
    <3>4. /\ w = 0 /\ Size[1] = base /\ Size[1] = file[t].pos + n /\ Size[1] = place * ChunkSize
      <4>1. /\ base \in Nat /\ Size[1] \in Nat /\ base >= Size[1] /\ file[t].pos + n <= Size[1]
            /\ file[t].pos + n = base + w /\ w \in Nat /\ file[t].pos + n \in Nat
        <5>1. base \in Nat /\ file[t].pos + n = base + w
          BY <1>5, <3>3
        <5>2. Size[1] \in Nat /\ base >= Size[1]
          BY <1>5, <1>8, <3>1
        <5>3. w \in Nat /\ file[t].pos + n \in Nat
          BY <3>3
        <5> QED BY <5>1, <5>2, <5>3, <3>2
      <4> HIDE DEF base
      <4>2. w = 0 /\ Size[1] = base /\ Size[1] = file[t].pos + n
        BY <4>1
      <4> QED BY <4>2 DEF base
    <3> HIDE DEF base
    <3>5. (place * ChunkSize) % ChunkSize = 0
      BY <1>5, Multiple
    <3>6. Size[1] % ChunkSize = 0
      BY <3>4, <3>5
    <3> QED BY <1>3, <3>3, <3>4, <3>6
  <2>2. \E o1 \in Op : op' = [op EXCEPT ![t] = o1] /\ CallFits(f, o1) /\ o1.stage = "done"
    BY <1>1, <1>3, <1>8, <2>1, CallIs, ReadingIs, ReturnsZeroIs
  <2> QED BY <1>1, <1>2, <1>3, <1>8, <2>2, CallIs, ThreadKeeps
<1>9. CASE /\ place * ChunkSize < Size[server]
           /\ op' = [op EXCEPT ![t] = o] /\ file' = [file EXCEPT ![t] = f]
  <2>1. /\ got \in Nat /\ got > 0 /\ place * ChunkSize + got <= Size[server]
        /\ got < ChunkSize => got = Size[server] - place * ChunkSize
    BY <1>5, <1>6, <1>9 DEF Least
  <2> HIDE DEF got
  <2>2. /\ o \in Op /\ o.stage = "compare" /\ o.ver = server /\ o.got = got /\ o.out = op[t].out
        /\ o.want = op[t].want
    BY <1>5, <2>1, CallIs, Constants DEF Op, Reading
  <2> HIDE DEF o
  <2>3. Len(Size) = 1 => server = 1
    BY <1>5, SingleVersion
  <2>4. /\ f.pos = file[t].pos /\ o.stage \in {"compare", "store"} /\ o.ver \in Versions /\ o.got > 0
        /\ Place(file[t], op[t]) * ChunkSize + o.got <= Size[o.ver]
        /\ Len(Size) = 1 /\ o.got < ChunkSize => o.got = Size[1] - Place(file[t], op[t]) * ChunkSize
    BY <1>3, <1>5, <2>1, <2>2, <2>3
  <2> HIDE DEF place
  <2>5. CallFits(f, o)
    BY <1>1, <1>3, <2>2, <2>4, CallIs, ReadingIs, StillReading DEF Reading
  <2> QED BY <1>1, <1>2, <1>3, <1>9, <2>2, <2>5, CallIs, ThreadKeeps
<1> QED BY <1>4, <1>7, <1>8, <1>9

(* A region that was received. *)
LEMMA RegionIs ==
  ASSUME IInv, NEW t \in Threads, op[t].stage \in {"compare", "store"}
  PROVE  /\ op[t].ver \in Versions /\ op[t].got \in Nat /\ op[t].got > 0
         /\ IdxToDownload(t) * ChunkSize + op[t].got <= Size[op[t].ver]
         /\ Len(Size) = 1 =>
              /\ IdxToDownload(t) * ChunkSize + op[t].got <= Size[1]
              /\ op[t].got < ChunkSize => op[t].got = Size[1] - IdxToDownload(t) * ChunkSize
<1>1. IdxToDownload(t) = Place(file[t], op[t]) /\ op[t].got \in Nat
  BY ReadingIs DEF Reading
<1>2. op[t].ver \in Versions /\ op[t].got > 0 /\ IdxToDownload(t) * ChunkSize + op[t].got <= Size[op[t].ver]
  BY <1>1, CallIs DEF CallFits
<1>3. Len(Size) = 1 => op[t].ver = 1
  BY <1>2, SingleVersion
<1> QED BY <1>1, <1>2, <1>3, CallIs DEF CallFits, Exact

LEMMA NothingFits ==
  ASSUME MemoryFits, NEW p \in Processes, memory' = [memory EXCEPT ![p] = Nothing]
  PROVE  MemoryFits'
<1>1. DOMAIN Nothing = {} /\ Nothing \in [{} -> Chunk] /\ {} \in SUBSET Indices
  BY DEF Nothing
<1>2. Nothing \in Held
  BY <1>1 DEF Held
<1> HIDE DEF Nothing
<1>3. memory' \in [Processes -> Held]
  BY <1>2 DEF MemoryFits
<1>4. \A q \in Processes : memory'[q] = IF q = p THEN Nothing ELSE memory[q]
  BY DEF MemoryFits
<1>5. \A q \in Processes : \A i \in DOMAIN memory'[q] : Fits(memory'[q][i], i)
  BY <1>1, <1>4 DEF MemoryFits
<1> QED BY <1>3, <1>5 DEF MemoryFits, Fits

LEMMA CompareKeeps ==
  ASSUME IInv, NEW t \in Threads, Compare(t)
  PROVE  IInv'
<1> DEFINE last == IdxToDownload(t) * ChunkSize + op[t].got
           o == [op[t] EXCEPT !.stage = "store"]
<1>1. /\ op[t].stage \in Reading /\ op[t].stage = "compare" /\ op' = [op EXCEPT ![t] = o]
      /\ UNCHANGED server
  BY DEF Compare, At, Reading, Goto
<1>2. /\ op[t].ver \in Versions /\ op[t].got \in Nat /\ op[t].got > 0 /\ last \in Nat
  BY <1>1, RegionIs, ReadingIs
<1>3. o \in Op /\ o.stage = "store" /\ o.ver = op[t].ver /\ o.got = op[t].got /\ o.out = op[t].out /\ o.want = op[t].want
  BY CallIs DEF Op, Reading
<1>4. \/ /\ RecordProps(Proc(t), op[t].ver) /\ memory' = [memory EXCEPT ![Proc(t)] = Nothing]
         /\ file' = [file EXCEPT ![t] = [file[t] EXCEPT !.changed = TRUE, !.last = last]]
      \/ /\ UNCHANGED <<disk, props, memory>>
         /\ file' = [file EXCEPT ![t] = [file[t] EXCEPT !.last = last]]
  BY DEF Compare, IInv
<1>5. StoreFits' /\ MemoryFits' /\ expired' \in BOOLEAN /\ props' \in [Processes -> Versions \cup {None}]
  <2>1. CASE RecordProps(Proc(t), op[t].ver) /\ memory' = [memory EXCEPT ![Proc(t)] = Nothing]
    BY <1>2, <2>1, CallIs, RecordPropsFits, NothingFits
  <2>2. CASE UNCHANGED <<disk, props, memory>>
    BY <2>2, CallIs, SameStore DEF disk
  <2> QED BY <1>4, <2>1, <2>2
<1>6. PICK f \in File : file' = [file EXCEPT ![t] = f] /\ f.pos = file[t].pos
  <2> HIDE DEF last
  <2>1. file[t] \in File
    BY <1>1, ReadingIs
  <2>2. /\ [file[t] EXCEPT !.changed = TRUE, !.last = last] \in File
        /\ [file[t] EXCEPT !.last = last] \in File
        /\ [file[t] EXCEPT !.changed = TRUE, !.last = last].pos = file[t].pos
        /\ [file[t] EXCEPT !.last = last].pos = file[t].pos
    BY <1>2, <2>1 DEF File
  <2> QED BY <1>4, <2>2
<1> HIDE DEF o
<1>7. CallFits(f, o)
  BY <1>1, <1>3, <1>6, CallIs, ReadingIs, RegionIs, StillReading DEF Reading
<1> QED BY <1>1, <1>3, <1>5, <1>6, <1>7, CallIs, ThreadKeeps

(* A chunk cut from the region is one of the file. *)
LEMMA StoredFits ==
  ASSUME IInv, NEW t \in Threads, op[t].stage = "store", op[t].i * ChunkSize < op[t].got
  PROVE  Fits([ver |-> op[t].ver, idx |-> IdxToDownload(t) + op[t].i], IdxToDownload(t) + op[t].i)
<1> DEFINE place == IdxToDownload(t)
           idx == place + op[t].i
<1>1. /\ op[t].ver \in Versions /\ op[t].got \in Nat /\ place * ChunkSize + op[t].got <= Size[op[t].ver]
      /\ place \in Nat /\ op[t].i \in Nat /\ place * ChunkSize \in Nat /\ ChunkSize \in Nat \ {0}
      /\ Size[op[t].ver] \in Nat
  BY RegionIs, ReadingIs, Constants DEF Reading
<1>2. \A a, b \in Nat, c \in Nat \ {0} : (a + b) * c = a * c + b * c /\ b * c \in Nat /\ a + b \in Nat
  OBVIOUS
<1>3. /\ idx * ChunkSize = place * ChunkSize + op[t].i * ChunkSize
      /\ op[t].i * ChunkSize \in Nat /\ idx \in Nat
  BY <1>1, <1>2
<1> HIDE DEF idx, place
<1>4. idx * ChunkSize < Size[op[t].ver]
  BY <1>1, <1>3
<1>5. Fits([ver |-> op[t].ver, idx |-> idx], idx)
  BY <1>1, <1>3, <1>4, PlaceOfChunk
<1> QED BY <1>5 DEF idx, place

LEMMA StoreKeeps ==
  ASSUME IInv, NEW t \in Threads, Store(t)
  PROVE  IInv'
<1> DEFINE place == IdxToDownload(t)
           idx == place + op[t].i
           x == [ver |-> op[t].ver, idx |-> idx]
           o == [op[t] EXCEPT !.i = @ + 1]
<1>1. /\ op[t].stage \in Reading /\ op[t].stage = "store" /\ op' = [op EXCEPT ![t] = o]
      /\ op[t].i * ChunkSize < op[t].got
      /\ Insert(Proc(t), idx, x)
      /\ UNCHANGED <<server, props, file>>
  BY DEF Store, At, Reading
<1>2. /\ op[t].ver \in Versions /\ op[t].got \in Nat /\ place * ChunkSize + op[t].got <= Size[op[t].ver]
      /\ place \in Nat /\ op[t].i \in Nat /\ place * ChunkSize \in Nat /\ ChunkSize \in Nat \ {0}
      /\ Size[op[t].ver] \in Nat
  BY <1>1, RegionIs, ReadingIs, Constants
<1>3. Fits(x, idx)
  BY <1>1, StoredFits
<1>4. StoreFits' /\ MemoryFits' /\ expired' \in BOOLEAN
  <2> HIDE DEF x, idx
  <2> QED BY <1>1, <1>3, CallIs, InsertFits
<1>5. /\ o \in Op /\ o.stage = "store" /\ o.ver = op[t].ver /\ o.got = op[t].got
      /\ o.out = op[t].out /\ o.want = op[t].want
  <2>1. op[t].i + 1 \in Nat /\ op[t] \in Op
    BY <1>2, CallIs
  <2> QED BY <1>1, <2>1 DEF Op
<1>6. file' = [file EXCEPT ![t] = file[t]]
  BY <1>1, CallIs
<1> HIDE DEF o, x, idx, place
<1>7. CallFits(file[t], o)
  BY <1>1, <1>5, CallIs, ReadingIs, RegionIs, StillReading
<1> QED BY <1>1, <1>4, <1>5, <1>6, <1>7, CallIs, ThreadKeeps

LEMMA CopyRegionKeeps ==
  ASSUME IInv, NEW t \in Threads, CopyRegion(t)
  PROVE  IInv'
<1> DEFINE x == [ver |-> op[t].ver, idx |-> IdxToDownload(t)]
<1>1. /\ op[t].stage \in Reading /\ op[t].stage = "store" /\ CopyFrom(t, x, op[t].got)
      /\ UNCHANGED <<server, disk, props, memory>>
  BY DEF CopyRegion, At, Reading
<1>2. StoreFits' /\ MemoryFits' /\ expired' \in BOOLEAN
  BY <1>1, CallIs, SameStore DEF disk
<1>3. x.ver = op[t].ver /\ x.idx = IdxToDownload(t)
  OBVIOUS
<1> HIDE DEF x
<1>4. PICK f \in File, o \in Op :
            /\ file' = [file EXCEPT ![t] = f] /\ op' = [op EXCEPT ![t] = o] /\ CallFits(f, o)
  BY <1>1, <1>3, RegionIs, CopyFromIs
<1> QED BY <1>1, <1>2, <1>4, CallIs, ThreadKeeps

-----------------------------------------------------------------------------
(* The rest of the world.                                                  *)

LEMMA WorldKeeps ==
  ASSUME IInv, UNCHANGED <<file, op>>, server' \in Versions, expired' \in BOOLEAN,
         props' \in [Processes -> Versions \cup {None}], StoreFits', MemoryFits'
  PROVE  IInv'
<1>1. \A t \in Threads : CallFits(file[t], op[t])'
  BY DEF IInv, CallFits, Exact, Place, Follows, Ended
<1> QED BY <1>1 DEF IInv

LEMMA PublishKeeps == IInv /\ Publish => IInv'
<1> SUFFICES ASSUME IInv, Publish PROVE IInv'
  OBVIOUS
<1>1. server' \in Versions /\ UNCHANGED <<disk, props, memory, file, op>>
  BY DEF Publish, IInv, Versions
<1>2. StoreFits' /\ MemoryFits'
  BY <1>1, SameStore DEF IInv
<1> QED BY <1>1, <1>2, WorldKeeps DEF IInv, disk

LEMMA ExpireKeeps == IInv /\ Expire => IInv'
<1> SUFFICES ASSUME IInv, Expire PROVE IInv'
  OBVIOUS
<1>1. expired' = TRUE /\ UNCHANGED <<server, store, newer, free, properties, props, memory, file, op>>
  BY DEF Expire
<1>2. StoreFits' /\ MemoryFits'
  BY <1>1 DEF IInv, StoreFits, MemoryFits, Fits
<1> QED BY <1>1, <1>2, WorldKeeps DEF IInv

LEMMA ForgetChunkKeeps ==
  ASSUME IInv, NEW p \in Processes, NEW i, ForgetChunk(p, i)
  PROVE  IInv'
<1> DEFINE m == Restrict(memory[p], DOMAIN memory[p] \ {i})
<1>1. memory' = [memory EXCEPT ![p] = m] /\ UNCHANGED <<server, disk, props, file, op>>
  BY DEF ForgetChunk
<1>2. DOMAIN memory[p] \subseteq Indices /\ \A j \in DOMAIN memory[p] : memory[p][j] \in Chunk
  BY DEF IInv, MemoryFits, Held
<1>3. m = [j \in DOMAIN memory[p] \ {i} |-> memory[p][j]]
  BY DEF Restrict
<1> HIDE DEF m
<1>4. m \in Held
  <2>1. m \in [DOMAIN memory[p] \ {i} -> Chunk] /\ DOMAIN memory[p] \ {i} \in SUBSET Indices
    BY <1>2, <1>3
  <2> QED BY <2>1 DEF Held
<1>5. \A j \in DOMAIN m : Fits(m[j], j)
  BY <1>3 DEF IInv, MemoryFits
<1>6. \A q \in Processes : memory'[q] = IF q = p THEN m ELSE memory[q]
  BY <1>1 DEF IInv, MemoryFits
<1>7. memory' \in [Processes -> Held]
  BY <1>1, <1>4 DEF IInv, MemoryFits
<1>8. \A q \in Processes : \A j \in DOMAIN memory'[q] : Fits(memory'[q][j], j)
  BY <1>5, <1>6 DEF IInv, MemoryFits
<1>9. MemoryFits'
  BY <1>7, <1>8 DEF MemoryFits, Fits
<1>10. StoreFits'
  BY <1>1 DEF IInv, StoreFits, Fits, disk
<1> QED BY <1>1, <1>9, <1>10, WorldKeeps DEF IInv, disk

LEMMA ForgetPropsKeeps ==
  ASSUME IInv, NEW p \in Processes, ForgetProps(p)
  PROVE  IInv'
<1>1. props' = [props EXCEPT ![p] = None] /\ UNCHANGED <<server, disk, memory, file, op>>
  BY DEF ForgetProps
<1>2. StoreFits' /\ MemoryFits'
  BY <1>1, SameStore DEF IInv
<1>3. props' \in [Processes -> Versions \cup {None}]
  BY <1>1 DEF IInv
<1> QED BY <1>1, <1>2, <1>3, WorldKeeps DEF IInv, disk

LEMMA ClearDiskKeeps == IInv /\ ClearDisk => IInv'
<1> SUFFICES ASSUME IInv, ClearDisk PROVE IInv'
  OBVIOUS
<1>1. /\ DOMAIN store' = {} /\ properties' = [u \in {Url} |-> None] /\ expired' = FALSE
      /\ UNCHANGED <<server, props, memory, file, op>>
  BY DEF ClearDisk, Disk!Clear
<1>2. StoreFits'
  BY <1>1 DEF StoreFits
<1>3. MemoryFits'
  BY <1>1 DEF IInv, MemoryFits, Fits
<1> QED BY <1>1, <1>2, <1>3, WorldKeeps DEF IInv

-----------------------------------------------------------------------------
LEMMA InitIInv == Init => IInv
<1> SUFFICES ASSUME Init PROVE IInv
  OBVIOUS
<1>1. DOMAIN store = {} /\ properties = [u \in {Url} |-> None]
  BY DEF Init, Disk!Empty
<1>2. StoreFits
  BY <1>1 DEF StoreFits
<1>3. MemoryFits
  <2>1. DOMAIN Nothing = {} /\ Nothing \in [{} -> Chunk] /\ {} \in SUBSET Indices
    BY DEF Nothing
  <2>2. Nothing \in Held
    BY <2>1 DEF Held
  <2> HIDE DEF Nothing
  <2> QED BY <2>1, <2>2 DEF Init, MemoryFits
<1>4. \A t \in Threads : file[t] = NoFile /\ op[t] = Idle
  BY DEF Init
<1>5. \A t \in Threads : CallFits(file[t], op[t])
  BY <1>4, IdleIs, QuietFits
<1>6. /\ file \in [Threads -> File \cup {NoFile}] /\ op \in [Threads -> Op]
      /\ props \in [Processes -> Versions \cup {None}]
  BY IdleIs DEF Init
<1> QED BY <1>2, <1>3, <1>5, <1>6, Constants DEF Init, IInv

LEMMA NextIInv == IInv /\ [Next]_vars => IInv'
<1> SUFFICES ASSUME IInv, [Next]_vars PROVE IInv'
  OBVIOUS
<1>1. ASSUME NEW t \in Threads,
             \/ Open(t) \/ Close(t)
             \/ \E pos \in Positions : Seek(t, pos)
             \/ \E n \in Lengths : Read(t, n)
             \/ Continue(t)
      PROVE  IInv'
  BY <1>1, OpenKeeps, CloseKeeps, SeekKeeps, ReadKeeps, OpenPropsKeeps, OpenChunkKeeps,
     OpenRequestKeeps, OpenRecordKeeps, OpenStoreKeeps, LookupHitKeeps, LookupMissKeeps,
     ProbeKeeps, ProbeEndsKeeps, RequestKeeps, CompareKeeps, StoreKeeps, CopyRegionKeeps DEF Continue
<1>2. ASSUME NEW p \in Processes, ForgetProps(p) \/ \E i \in Indices : ForgetChunk(p, i)
      PROVE  IInv'
  BY <1>2, ForgetPropsKeeps, ForgetChunkKeeps
<1>3. CASE UNCHANGED vars
  <2>1. UNCHANGED <<server, disk, props, memory, file, op>>
    BY <1>3 DEF vars
  <2>2. StoreFits' /\ MemoryFits'
    BY <2>1, SameStore DEF IInv
  <2> QED BY <2>1, <2>2, WorldKeeps DEF IInv, disk
<1> QED BY <1>1, <1>2, <1>3, PublishKeeps, ExpireKeeps, ClearDiskKeeps DEF Next

LEMMA Inductive == Spec => []IInv
BY InitIInv, NextIInv, PTL DEF Spec

(* The variables keep their types: no memory cache ever holds a chunk at a *)
(* place that the file does not have, and a request always asks for some   *)
(* chunk, whatever the threads do and the database refuses.                *)
THEOREM TypeCorrect == Spec => []TypeOK
<1>1. IInv => TypeOK
  <2> SUFFICES ASSUME IInv PROVE TypeOK
    OBVIOUS
  <2>1. ASSUME NEW p \in Processes
        PROVE  DOMAIN memory[p] \subseteq Indices /\ Range(memory[p]) \subseteq Chunk
    BY DEF IInv, MemoryFits, Held, Range
  <2> QED BY <2>1 DEF IInv, TypeOK
<1> QED BY <1>1, Inductive, PTL

(* While the file on the server stays the same, a read returns the bytes   *)
(* that were asked for, or says why it does not (NetworkFile::read): with  *)
(* any interleaving, eviction, clearing or lock timeout, and any sizes.    *)
THEOREM ReadsAreExact ==
  ASSUME Len(Size) = 1
  PROVE  Spec => []ReadExact
<1>1. IInv => ReadExact
  <2> SUFFICES ASSUME IInv, NEW t \in Threads, At(t, "done")
               PROVE  LET got == Len(op[t].out)
                          from == file[t].pos - got
                          left == Size[server] - from
                      IN /\ \A k \in 1..got : op[t].out[k].off = from + k - 1
                         /\ CASE op[t].failed = "no" -> got = Least(op[t].want, left)
                              [] op[t].failed = "eof" ->
                                     got = 0 /\ left < op[t].want /\ Size[server] % ChunkSize = 0
                              [] op[t].failed = "network" -> got = 0
    BY DEF ReadExact
  <2>1. server = 1 /\ op[t].failed \in {"no", "eof", "network"}
    BY SingleVersion, CallIs DEF Op
  <2>2. Ended(file[t], op[t])
    BY CallIs DEF CallFits, Exact, At
  <2> QED BY <2>1, <2>2 DEF Ended, Follows
<1> QED BY <1>1, Inductive, PTL

-----------------------------------------------------------------------------
(* Calls that do not overlap: the recorded properties never go back.       *)

Writing == {"open_record", "open_store", "compare", "store"}
Known == {"open_chunk", "open_store"}

(* What is written to the caches is of a version that the server had, and  *)
(* of none older than the recorded one.                                    *)
SInv ==
    /\ \A s, t \in Threads : op[s].stage \notin Resting /\ op[t].stage \notin Resting => s = t
    /\ Row # None => Row <= server
    /\ \A t \in Threads :
          op[t].stage \in Writing => op[t].ver <= server /\ (Row # None => op[t].ver >= Row)

(* While the database is neither locked for long nor cleared: before any   *)
(* chunk or open file come recorded properties.                            *)
DInv ==
    /\ Row = None => DOMAIN store = {}
    /\ \A p \in Processes : props[p] # None => Row # None
    /\ \A t \in Threads : file[t] # NoFile \/ op[t].stage \in Known => Row # None
    /\ NoOlderChunkOnDisk

(* What a step of thread t does to what the others see. *)
Inserts(t) ==
    /\ op[t].stage \in {"open_store", "store"} /\ properties' = properties
    /\ \A k \in DOMAIN store' :
          store'[k].ver = op[t].ver \/ (k \in DOMAIN store /\ store'[k] = store[k])
Records(t) ==
    /\ op[t].stage \in {"open_record", "compare"}
    /\ \A k \in DOMAIN store' : k \in DOMAIN store /\ store'[k] = store[k]
    /\ Row' \in {op[t].ver, Row}
    /\ ~LockTimesOut => /\ Row' = op[t].ver
                        /\ Row \notin {None, op[t].ver} => DOMAIN store' = {}
Turn(t) ==
    /\ server' = server
    /\ op[t].stage \in Resting => MayStart(t)
    /\ \A s \in Threads \ {t} : op'[s] = op[s] /\ file'[s] = file[s]
    /\ op'[t].stage \in Writing =>
          op'[t].ver = server \/ (op[t].stage \in Writing /\ op'[t].ver = op[t].ver)
    /\ \A p \in Processes : props'[p] # None => props[p] # None \/ Row # None \/ Records(t)
    /\ file'[t] # NoFile \/ op'[t].stage \in Known =>
          file[t] # NoFile \/ op[t].stage \in Known \/ Row # None \/ props[Proc(t)] # None \/ Records(t)
    /\ UNCHANGED <<store, properties>> \/ Inserts(t) \/ Records(t)

(* The records of the one thread that moves. *)
LEMMA Moves ==
  ASSUME IInv, NEW t \in Threads, NEW o, op' = [op EXCEPT ![t] = o]
  PROVE  op'[t] = o /\ \A s \in Threads \ {t} : op'[s] = op[s]
BY DEF IInv

LEMMA FileMoves ==
  ASSUME IInv, NEW t \in Threads, NEW f, file' = [file EXCEPT ![t] = f]
  PROVE  file'[t] = f /\ \A s \in Threads \ {t} : file'[s] = file[s]
BY DEF IInv

LEMMA IdleStage == Idle.stage = "idle"
BY DEF Idle

(* A call that does not write: it starts, ends, or only changes itself.    *)
LEMMA PlainTurn ==
  ASSUME IInv, NEW t \in Threads,
         UNCHANGED <<server, store, properties, props>>,
         op[t].stage \in Resting => MayStart(t),
         \A s \in Threads \ {t} : op'[s] = op[s] /\ file'[s] = file[s],
         op'[t].stage \in Writing =>
            op'[t].ver = server \/ (op[t].stage \in Writing /\ op'[t].ver = op[t].ver),
         file'[t] # NoFile \/ op'[t].stage \in Known => file[t] # NoFile \/ op[t].stage \in Known
  PROVE  Turn(t)
BY DEF Turn

LEMMA RestTurns ==
  ASSUME IInv, NEW t \in Threads,
         \/ Open(t) \/ Close(t)
         \/ \E pos \in Positions : Seek(t, pos)
         \/ \E n \in Lengths : Read(t, n)
  PROVE  Turn(t)
<1>1. CASE Open(t)
  <2> DEFINE o == [Idle EXCEPT !.stage = "open_props"]
  <2>1. op' = [op EXCEPT ![t] = o] /\ o.stage = "open_props"
    BY <1>1 DEF Open, Idle
  <2> HIDE DEF o
  <2>2. op'[t] = o /\ \A s \in Threads \ {t} : op'[s] = op[s]
    BY <2>1, Moves
  <2> QED BY <1>1, <2>1, <2>2, PlainTurn DEF Open, disk, Writing, Known
<1>2. CASE Close(t)
  <2>1. op'[t] = Idle /\ \A s \in Threads \ {t} : op'[s] = op[s]
    BY <1>2, Moves DEF Close
  <2>2. file'[t] = NoFile /\ \A s \in Threads \ {t} : file'[s] = file[s]
    BY <1>2, FileMoves DEF Close
  <2> QED BY <1>2, <2>1, <2>2, IdleStage, PlainTurn DEF Close, disk, Writing, Known
<1>3. CASE \E pos \in Positions : Seek(t, pos)
  <2> PICK pos \in Positions : Seek(t, pos)
    BY <1>3
  <2> DEFINE f == [file[t] EXCEPT !.pos = pos]
  <2>1. op'[t] = Idle /\ \A s \in Threads \ {t} : op'[s] = op[s]
    BY Moves DEF Seek
  <2>2. file' = [file EXCEPT ![t] = f]
    BY DEF Seek, IInv
  <2> HIDE DEF f
  <2>3. \A s \in Threads \ {t} : file'[s] = file[s]
    BY <2>2, FileMoves
  <2> QED BY <2>1, <2>3, IdleStage, PlainTurn DEF Seek, disk, Writing, Known
<1>4. CASE \E n \in Lengths : Read(t, n)
  <2> PICK n \in Lengths : Read(t, n)
    BY <1>4
  <2> DEFINE o == [Idle EXCEPT !.stage = "lookup", !.want = n]
  <2>1. op' = [op EXCEPT ![t] = o] /\ o.stage = "lookup"
    BY DEF Read, Idle
  <2> HIDE DEF o
  <2>2. op'[t] = o /\ \A s \in Threads \ {t} : op'[s] = op[s]
    BY <2>1, Moves
  <2> QED BY <2>1, <2>2, PlainTurn DEF Read, disk, Writing, Known
<1> QED BY <1>1, <1>2, <1>3, <1>4

LEMMA OpenTurns ==
  ASSUME IInv, NEW t \in Threads,
         OpenProps(t) \/ OpenChunk(t) \/ OpenRequest(t) \/ OpenRecord(t) \/ OpenStore(t)
  PROVE  Turn(t)
<1>1. CASE OpenProps(t)
  <2> PICK v \in Versions \cup {None} :
          /\ TryGet(Proc(t), v)
          /\ op' = [op EXCEPT ![t] = IF v = None THEN [@ EXCEPT !.stage = "open_request"]
                                     ELSE [@ EXCEPT !.stage = "open_chunk", !.ver = v]]
    BY <1>1 DEF OpenProps
  <2> DEFINE o == IF v = None THEN [op[t] EXCEPT !.stage = "open_request"]
                  ELSE [op[t] EXCEPT !.stage = "open_chunk", !.ver = v]
  <2>1. op' = [op EXCEPT ![t] = o]
    BY CallIs
  <2>2. o.stage \in {"open_request", "open_chunk"} /\ (o.stage = "open_chunk" => v # None)
    BY CallIs DEF Op
  <2> HIDE DEF o
  <2>3. op'[t] = o /\ \A s \in Threads \ {t} : op'[s] = op[s]
    BY <2>1, Moves
  <2>4. v \in {props[Proc(t)], Row, None} /\ props' \in {props, [props EXCEPT ![Proc(t)] = v]}
    BY CallIs, TryGetFits
  <2>5. \A p \in Processes : props'[p] # None => props[p] # None \/ Row # None
    BY <2>4, CallIs
  <2> QED BY <1>1, <2>2, <2>3, <2>4, <2>5 DEF OpenProps, At, Turn, disk, Writing, Known, Resting
<1>2. CASE OpenChunk(t)
  <2> PICK x \in Chunk \cup {Miss} :
          /\ Get(Proc(t), 0, x)
          /\ IF x = Miss
             THEN Goto(t, "open_request") /\ UNCHANGED file
             ELSE /\ file' = [file EXCEPT ![t] = OpenedFile(op[t].ver, FALSE, Never)]
                  /\ op' = [op EXCEPT ![t] = Idle]
    BY <1>2 DEF OpenChunk
  <2>1. UNCHANGED <<store, properties>>
    BY CallIs, GetFits
  <2>2. \A s \in Threads \ {t} : op'[s] = op[s] /\ file'[s] = file[s]
    BY DEF IInv, Goto
  <2>3. op'[t].stage \in {"open_request", "idle"}
    <3>1. CASE x = Miss
      BY <3>1, CallIs DEF IInv, Goto, Op
    <3>2. CASE x # Miss
      BY <3>2, Moves, IdleStage
    <3> QED BY <3>1, <3>2
  <2> QED BY <1>2, <2>1, <2>2, <2>3, PlainTurn DEF OpenChunk, At, Writing, Known, Resting
<1>3. CASE OpenRequest(t)
  <2>1. \A s \in Threads \ {t} : op'[s] = op[s] /\ file'[s] = file[s]
    BY <1>3 DEF IInv, OpenRequest
  <2>2. op'[t].stage = "idle" \/ (op'[t].stage = "open_record" /\ op'[t].ver = server)
    BY <1>3, CallIs, IdleStage DEF IInv, OpenRequest, Op
  <2> QED BY <1>3, <2>1, <2>2, PlainTurn DEF OpenRequest, disk, At, Writing, Known, Resting
<1>4. CASE OpenRecord(t)
  <2>1. \A s \in Threads \ {t} : op'[s] = op[s] /\ file'[s] = file[s]
    BY <1>4 DEF IInv, OpenRecord, Goto
  <2>2. op'[t].stage = "open_store" /\ op'[t].ver = op[t].ver /\ op[t].stage = "open_record"
    BY <1>4, CallIs DEF IInv, OpenRecord, Op, Goto, At
  <2>3. op[t].ver \in Versions
    BY <2>2, CallIs DEF CallFits
  <2>4. Records(t)
    BY <1>4, <2>2, <2>3, CallIs, RecordPropsFits DEF OpenRecord, Records
  <2> QED BY <1>4, <2>1, <2>2, <2>4 DEF OpenRecord, Turn, Writing, Resting
<1>5. CASE OpenStore(t)
  <2> DEFINE x == [ver |-> op[t].ver, idx |-> 0]
  <2>1. op[t].stage = "open_store" /\ Insert(Proc(t), 0, x) /\ UNCHANGED <<server, props>>
        /\ op' = [op EXCEPT ![t] = Idle]
        /\ file' = [file EXCEPT ![t] = OpenedFile(op[t].ver, TRUE, SizeOf(x))]
    BY <1>5 DEF OpenStore, At
  <2>2. op[t].ver \in Versions
    BY <2>1, CallIs DEF CallFits
  <2>3. Fits(x, 0)
    <3>1. Size[op[t].ver] \in Nat \ {0} /\ ChunkSize \in Nat
      BY <2>2, Constants
    <3>2. 0 * ChunkSize < Size[op[t].ver] /\ 0 \in Nat
      BY <3>1
    <3> QED BY <2>2, <3>2, PlaceOfChunk
  <2>4. x.ver = op[t].ver
    OBVIOUS
  <2> HIDE DEF x
  <2>5. \A s \in Threads \ {t} : op'[s] = op[s] /\ file'[s] = file[s]
    BY <2>1, Moves, FileMoves
  <2>6. op'[t].stage = "idle"
    BY <2>1, Moves, IdleStage
  <2>7. Inserts(t)
    <3>1. /\ UNCHANGED <<properties, expired>>
          /\ \A k \in DOMAIN store' : store'[k] = x \/ (k \in DOMAIN store /\ store'[k] = store[k])
      BY <2>1, <2>3, CallIs, InsertFits
    <3> QED BY <2>1, <2>4, <3>1 DEF Inserts
  <2> QED BY <2>1, <2>5, <2>6, <2>7 DEF Turn, Writing, Known, Resting
<1> QED BY <1>1, <1>2, <1>3, <1>4, <1>5

(* What a copy and an answer without a byte do to the calls and the files. *)
LEMMA CopyMoves ==
  ASSUME IInv, NEW t \in Threads, NEW x, NEW size, CopyFrom(t, x, size), file[t] # NoFile
  PROVE  /\ op'[t].stage \in {"done", "lookup"}
         /\ \A s \in Threads \ {t} : op'[s] = op[s] /\ file'[s] = file[s]
<1> DEFINE over == Remaining(t) = Copied(Remaining(t), size, IterOffset(t) % ChunkSize) \/ IsLast(size)
<1>1. PICK out, pos :
         /\ op' = [op EXCEPT ![t] = [Idle EXCEPT !.stage = IF over THEN "done" ELSE "lookup",
                                                 !.want = op[t].want, !.out = out]]
         /\ file' = IF over THEN [file EXCEPT ![t] = pos] ELSE file
  BY DEF CopyFrom, IInv
<1> DEFINE o == [Idle EXCEPT !.stage = IF over THEN "done" ELSE "lookup",
                             !.want = op[t].want, !.out = out]
<1>2. o.stage \in {"done", "lookup"}
  BY DEF Idle
<1> HIDE DEF o
<1>3. op' = [op EXCEPT ![t] = o]
  BY <1>1 DEF o
<1> HIDE DEF over
<1>4. \A s \in Threads \ {t} : file'[s] = file[s]
  BY <1>1, FileMoves
<1> QED BY <1>2, <1>3, <1>4, Moves

LEMMA ReadTurns ==
  ASSUME IInv, NEW t \in Threads,
         \/ LookupHit(t) \/ LookupMiss(t) \/ Probe(t) \/ ProbeEnds(t)
         \/ Request(t) \/ Compare(t) \/ Store(t) \/ CopyRegion(t)
  PROVE  Turn(t)
<1>1. op[t].stage \in Reading
  BY DEF LookupHit, LookupMiss, Probe, ProbeEnds, Request, Compare, Store, CopyRegion, At, Reading
<1>2. file[t] # NoFile /\ op[t].stage \notin Resting
  BY <1>1, ReadingIs, NothingIsNoFile DEF Reading, Resting
<1>3. CASE LookupHit(t)
  <2> PICK x \in Chunk : Get(Proc(t), IdxToDownload(t), x) /\ CopyFrom(t, x, SizeOf(x))
    BY <1>3 DEF LookupHit
  <2>1. UNCHANGED <<store, properties>>
    BY CallIs, GetFits
  <2>2. /\ op'[t].stage \in {"done", "lookup"}
        /\ \A s \in Threads \ {t} : op'[s] = op[s] /\ file'[s] = file[s]
    BY <1>2, CopyMoves
  <2> QED BY <1>2, <1>3, <2>1, <2>2, PlainTurn DEF LookupHit, Writing
<1>4. CASE LookupMiss(t)
  <2>1. UNCHANGED <<store, properties>>
    BY <1>4, CallIs, GetFits DEF LookupMiss
  <2>2. /\ op'[t].stage = "probe"
        /\ \A s \in Threads \ {t} : op'[s] = op[s] /\ file'[s] = file[s]
    BY <1>4, CallIs DEF LookupMiss, IInv, Op
  <2> QED BY <1>2, <1>4, <2>1, <2>2, PlainTurn DEF LookupMiss, Writing
<1>5. CASE Probe(t)
  <2> PICK x \in Chunk \cup {Miss} :
          /\ Get(Proc(t), IdxToDownload(t) + op[t].i, x)
          /\ file' = IF x = Miss THEN file ELSE [file EXCEPT ![t].blocks = op[t].i]
    BY <1>5 DEF Probe
  <2>1. UNCHANGED <<store, properties>>
    BY CallIs, GetFits
  <2>2. /\ op'[t].stage = "probe"
        /\ \A s \in Threads \ {t} : op'[s] = op[s] /\ file'[s] = file[s]
    BY <1>5, CallIs DEF Probe, IInv, Op, At
  <2> QED BY <1>2, <1>5, <2>1, <2>2, PlainTurn DEF Probe, Writing
<1>6. CASE ProbeEnds(t)
  <2>1. /\ op'[t].stage = "request"
        /\ \A s \in Threads \ {t} : op'[s] = op[s] /\ file'[s] = file[s]
    BY <1>6, CallIs DEF ProbeEnds, IInv, Op
  <2> QED BY <1>2, <1>6, <2>1, PlainTurn DEF ProbeEnds, Writing, disk
<1>7. CASE Request(t)
  <2>1. \A s \in Threads \ {t} : op'[s] = op[s] /\ file'[s] = file[s]
    BY <1>7 DEF Request, IInv, ReturnsZero
  <2>2. op'[t].stage = "done" \/ (op'[t].stage = "compare" /\ op'[t].ver = server)
    <3>1. ASSUME NEW why, ReturnsZero(t, why) PROVE op'[t].stage = "done"
      BY <3>1 DEF ReturnsZero, IInv, Idle
    <3>2. CASE op' = [op EXCEPT ![t].stage = "compare", ![t].ver = server,
                                ![t].got = Least(file[t].blocks * ChunkSize,
                                                 Size[server] - IdxToDownload(t) * ChunkSize)]
      BY <3>2, CallIs DEF IInv, Op
    <3> QED BY <1>7, <3>1, <3>2 DEF Request
  <2> QED BY <1>2, <1>7, <2>1, <2>2, PlainTurn DEF Request, Writing, disk
<1>8. CASE Compare(t)
  <2>1. \A s \in Threads \ {t} : op'[s] = op[s] /\ file'[s] = file[s]
    BY <1>8 DEF Compare, IInv, Goto
  <2>2. op'[t].stage = "store" /\ op'[t].ver = op[t].ver /\ op[t].stage = "compare"
    BY <1>8, CallIs DEF Compare, IInv, Goto, At, Op
  <2>3. UNCHANGED <<disk, props>> \/ RecordProps(Proc(t), op[t].ver)
    BY <1>8 DEF Compare
  <2>4. CASE UNCHANGED <<disk, props>>
    BY <1>2, <1>8, <2>1, <2>2, <2>4, PlainTurn DEF Compare, Writing, disk
  <2>5. CASE RecordProps(Proc(t), op[t].ver)
    <3>1. Records(t)
      BY <2>2, <2>5, CallIs, RegionIs, RecordPropsFits DEF Records
    <3> QED BY <1>2, <1>8, <2>1, <2>2, <3>1 DEF Compare, Turn, Writing
  <2> QED BY <2>3, <2>4, <2>5
<1>9. CASE Store(t)
  <2> DEFINE place == IdxToDownload(t)
             idx == place + op[t].i
             x == [ver |-> op[t].ver, idx |-> idx]
  <2>1. /\ op[t].stage = "store" /\ op[t].i * ChunkSize < op[t].got
        /\ op' = [op EXCEPT ![t].i = @ + 1]
        /\ Insert(Proc(t), idx, x)
        /\ UNCHANGED <<server, props, file>>
    BY <1>9 DEF Store, At
  <2>2. Fits(x, idx)
    BY <2>1, StoredFits
  <2>3. x.ver = op[t].ver
    OBVIOUS
  <2> HIDE DEF x, idx, place
  <2>4. /\ op'[t].stage = "store" /\ op'[t].ver = op[t].ver
        /\ \A s \in Threads \ {t} : op'[s] = op[s] /\ file'[s] = file[s]
    BY <2>1, CallIs DEF IInv, Op
  <2>5. Inserts(t)
    <3>1. /\ UNCHANGED <<properties, expired>>
          /\ \A k \in DOMAIN store' : store'[k] = x \/ (k \in DOMAIN store /\ store'[k] = store[k])
      BY <2>1, <2>2, CallIs, InsertFits
    <3> QED BY <2>1, <2>3, <3>1 DEF Inserts
  <2> QED BY <1>2, <2>1, <2>4, <2>5 DEF Turn, Writing
<1>10. CASE CopyRegion(t)
  <2>1. /\ op'[t].stage \in {"done", "lookup"}
        /\ \A s \in Threads \ {t} : op'[s] = op[s] /\ file'[s] = file[s]
    BY <1>2, <1>10, CopyMoves DEF CopyRegion
  <2> QED BY <1>2, <1>10, <2>1, PlainTurn DEF CopyRegion, Writing, disk
<1> QED BY <1>3, <1>4, <1>5, <1>6, <1>7, <1>8, <1>9, <1>10

LEMMA CallTurns ==
  ASSUME IInv, NEW t \in Threads,
         \/ Open(t) \/ Close(t)
         \/ \E pos \in Positions : Seek(t, pos)
         \/ \E n \in Lengths : Read(t, n)
         \/ Continue(t)
  PROVE  Turn(t)
BY RestTurns, OpenTurns, ReadTurns DEF Continue

(* A step of a call, while no other call is under way. *)
LEMMA TurnKeepsSInv ==
  ASSUME Serial, IInv, SInv, NEW t \in Threads, Turn(t), server \in Nat
  PROVE  /\ SInv'
         /\ Row # None /\ Row' # None => Row' >= Row
<1>1. \A s \in Threads \ {t} : op[s].stage \in Resting
  BY DEF SInv, Turn, MayStart
<1>2. \A s \in Threads \ {t} : op'[s] = op[s]
  BY DEF Turn
<1>3. /\ Row' = Row
         \/ (op[t].stage \in Writing /\ Row' = op[t].ver)
  BY DEF Turn, Inserts, Records, Row, Writing
<1>4. Row \in Versions \cup {None} /\ Versions \subseteq Nat /\ op[t].ver \in Nat
  BY Constants, CallIs DEF StoreFits, Row, Op
<1>5. /\ op[t].stage \in Writing => op[t].ver <= server /\ (Row # None => op[t].ver >= Row)
      /\ Row # None => Row <= server
  BY DEF SInv
<1>6. op'[t].stage \in Writing =>
        op'[t].ver = server \/ (op[t].stage \in Writing /\ op'[t].ver = op[t].ver)
  BY DEF Turn
<1>7. server' = server
  BY DEF Turn
<1> HIDE DEF Row
<1>8. Row' # None => Row' <= server
  BY <1>3, <1>5
<1>9. op'[t].stage \in Writing => op'[t].ver <= server /\ (Row' # None => op'[t].ver >= Row')
  BY <1>3, <1>4, <1>5, <1>6
<1>10. Row # None /\ Row' # None => Row' >= Row
  BY <1>3, <1>4, <1>5
<1>11. \A s \in Threads : op'[s].stage \notin Resting => s = t
  BY <1>1, <1>2
<1>12. Writing \cap Resting = {}
  BY DEF Writing, Resting
<1>13. \A s \in Threads : op'[s].stage \in Writing =>
          op'[s].ver <= server' /\ (Row' # None => op'[s].ver >= Row')
  BY <1>7, <1>9, <1>11, <1>12
<1> QED BY <1>7, <1>8, <1>10, <1>11, <1>13 DEF SInv

LEMMA TurnKeepsDInv ==
  ASSUME ~LockTimesOut, IInv, SInv, DInv, NEW t \in Threads, Turn(t)
  PROVE  DInv'
<1>1. Proc(t) \in Processes /\ None \notin Versions
  BY ProcIs, NothingIsNoVersion
<1>2. ASSUME Records(t) PROVE op[t].ver \in Versions /\ Row' = op[t].ver /\ Row' # None
  BY <1>1, <1>2, CallIs DEF Records, CallFits
<1>3. Row # None => Row' # None
  BY <1>2 DEF Turn, Inserts, Row
<1>4. \A p \in Processes : props'[p] # None => Row' # None
  BY <1>2, <1>3 DEF Turn, DInv
<1>5. \A s \in Threads : file'[s] # NoFile \/ op'[s].stage \in Known => Row' # None
  <2>1. file'[t] # NoFile \/ op'[t].stage \in Known => Row' # None
    BY <1>1, <1>2, <1>3 DEF Turn, DInv
  <2>2. \A s \in Threads \ {t} : op'[s] = op[s] /\ file'[s] = file[s]
    BY DEF Turn
  <2> QED BY <1>3, <2>1, <2>2 DEF DInv
<1>6. (Row' = None => DOMAIN store' = {}) /\ NoOlderChunkOnDisk'
  <2>1. CASE UNCHANGED <<store, properties>>
    BY <2>1 DEF DInv, Row, NoOlderChunkOnDisk
  <2>2. CASE Inserts(t)
    <3>1. Row' = Row /\ op[t].stage \in Writing
      BY <2>2 DEF Inserts, Row, Writing
    <3>2. Row # None
      <4>1. op[t].stage = "store" => file[t] # NoFile
        BY ReadingIs, NothingIsNoFile DEF Reading
      <4> QED BY <2>2, <4>1 DEF Inserts, DInv, Known
    <3>3. op[t].ver >= Row
      BY <3>1, <3>2 DEF SInv
    <3>4. \A k \in DOMAIN store' : store'[k].ver >= Row
      BY <2>2, <3>2, <3>3 DEF Inserts, DInv, NoOlderChunkOnDisk
    <3> HIDE DEF Row
    <3> QED BY <3>1, <3>2, <3>4 DEF NoOlderChunkOnDisk
  <2>3. CASE Records(t)
    <3>1. \A k \in DOMAIN store' : store'[k].ver >= Row'
      <4>1. CASE Row \in {None, op[t].ver}
        <5>1. Row = None => DOMAIN store' = {}
          BY <2>3 DEF DInv, Records
        <5>2. Row # None => Row' = Row
          BY <1>2, <2>3, <4>1
        <5> QED BY <2>3, <5>1, <5>2 DEF DInv, NoOlderChunkOnDisk, Records
      <4>2. CASE Row \notin {None, op[t].ver}
        BY <2>3, <4>2 DEF Records
      <4> QED BY <4>1, <4>2
    <3> QED BY <1>2, <2>3, <3>1 DEF NoOlderChunkOnDisk
  <2> QED BY <2>1, <2>2, <2>3 DEF Turn
<1> QED BY <1>4, <1>5, <1>6 DEF DInv

(* The other steps. *)
LEMMA QuietKeeps ==
  ASSUME IInv, UNCHANGED <<store, properties, file, op>>, server' \in Nat, server' >= server,
         \A p \in Processes : props'[p] \in {props[p], None}
  PROVE  (SInv => SInv') /\ (DInv => DInv') /\ Row' = Row
<1>1. Row' = Row /\ Row \in Versions \cup {None}
  BY DEF Row, IInv, StoreFits
<1>2. server \in Nat /\ Versions \subseteq Nat
  BY Constants DEF IInv
<1>3. \A t \in Threads : op[t].ver \in Nat
  BY DEF IInv, Op
<1> HIDE DEF Row
<1>4. SInv => SInv'
  BY <1>1, <1>2, <1>3 DEF SInv
<1>5. DInv => DInv'
  BY <1>1 DEF DInv, NoOlderChunkOnDisk
<1> QED BY <1>1, <1>4, <1>5

LEMMA WorldTurns ==
  ASSUME IInv,
         \/ Publish \/ Expire \/ UNCHANGED vars
         \/ \E p \in Processes : ForgetProps(p) \/ \E i \in Indices : ForgetChunk(p, i)
  PROVE  (SInv => SInv') /\ (DInv => DInv') /\ Row' = Row
<1>1. server \in Nat
  BY Constants DEF IInv
<1>2. UNCHANGED <<store, properties, file, op>>
  BY DEF Publish, Expire, vars, ForgetProps, ForgetChunk, disk
<1>3. server' \in Nat /\ server' >= server
  <2>1. server' = server \/ server' = server + 1
    BY DEF Publish, Expire, vars, ForgetProps, ForgetChunk
  <2> QED BY <1>1, <2>1
<1>4. \A p \in Processes : props'[p] \in {props[p], None}
  BY DEF Publish, Expire, vars, ForgetProps, ForgetChunk, IInv
<1> QED BY <1>2, <1>3, <1>4, QuietKeeps

LEMMA ClearTurns ==
  ASSUME IInv, SInv, ClearDisk
  PROVE  SInv' /\ Row' = None
<1>1. Row' = None /\ UNCHANGED <<server, op>>
  BY DEF ClearDisk, Disk!Clear, Row
<1> HIDE DEF Row
<1> QED BY <1>1 DEF SInv

LEMMA NextTurns ==
  ASSUME Serial, IInv, SInv, [Next]_vars
  PROVE  SInv' /\ (Row # None /\ properties'[Url] # None => properties'[Url] >= Row)
<1>1. Row \in Versions \cup {None} /\ Versions \subseteq Nat /\ server \in Nat
  BY Constants DEF IInv, StoreFits, Row
<1>2. Row' = properties'[Url]
  BY DEF Row
<1>3. ASSUME NEW t \in Threads, Turn(t) PROVE SInv' /\ (Row # None /\ Row' # None => Row' >= Row)
  BY <1>1, <1>3, TurnKeepsSInv
<1>4. CASE \/ Publish \/ Expire \/ UNCHANGED vars
           \/ \E p \in Processes : ForgetProps(p) \/ \E i \in Indices : ForgetChunk(p, i)
  <2>1. SInv' /\ Row' = Row
    BY <1>4, WorldTurns
  <2> QED BY <1>1, <1>2, <2>1
<1>5. CASE ClearDisk
  BY <1>2, <1>5, ClearTurns
<1> HIDE DEF Row
<1> QED BY <1>2, <1>3, <1>4, <1>5, CallTurns DEF Next

LEMMA InitSInv == Init => SInv /\ DInv
<1> SUFFICES ASSUME Init PROVE SInv /\ DInv
  OBVIOUS
<1>1. DOMAIN store = {} /\ properties = [u \in {Url} |-> None]
  BY DEF Init, Disk!Empty
<1>2. Row = None
  BY <1>1 DEF Row
<1>3. \A t \in Threads : file[t] = NoFile /\ op[t].stage = "idle"
  BY IdleStage DEF Init
<1>4. \A p \in Processes : props[p] = None
  BY DEF Init
<1> QED BY <1>1, <1>2, <1>3, <1>4 DEF SInv, DInv, Writing, Known, Resting, NoOlderChunkOnDisk

(* When calls do not overlap, the recorded properties of a file never go   *)
(* back to an older version, whatever times out, is forgotten or cleared   *)
(* (NetworkFilePropertiesCache::insert).                                   *)
THEOREM RecordedPropsDoNotGoBack ==
  ASSUME Serial
  PROVE  Spec => RecordedPropsAdvance
<1>1. IInv /\ SInv /\ [Next]_vars => SInv'
  BY NextTurns
<1>2. IInv /\ SInv /\ [Next]_vars =>
         [Row # None /\ properties'[Url] # None => properties'[Url] >= Row]_vars
  BY NextTurns
<1> QED BY <1>1, <1>2, InitSInv, Inductive, PTL DEF Spec, RecordedPropsAdvance

(* When calls do not overlap and the database is neither locked for ever   *)
(* nor removed, no chunk in it is older than the recorded properties: an   *)
(* invalidated chunk does not come back (NetworkFilePropertiesCache and    *)
(* NetworkChunkCache::insert).                                             *)
THEOREM OlderChunksAreGone ==
  ASSUME Serial, ~LockTimesOut, ~MayClear
  PROVE  Spec => []NoOlderChunkOnDisk
<1>1. IInv /\ SInv /\ [Next]_vars => SInv'
  BY NextTurns
<1>2. IInv /\ SInv /\ DInv /\ [Next]_vars => DInv'
  <2> SUFFICES ASSUME IInv, SInv, DInv, [Next]_vars PROVE DInv'
    OBVIOUS
  <2>1. ~ClearDisk
    BY DEF ClearDisk
  <2>2. ASSUME NEW t \in Threads, Turn(t) PROVE DInv'
    BY <2>2, TurnKeepsDInv
  <2> QED BY <2>1, <2>2, CallTurns, WorldTurns DEF Next
<1>3. DInv => NoOlderChunkOnDisk
  BY DEF DInv
<1> QED BY <1>1, <1>2, <1>3, InitSInv, Inductive, PTL DEF Spec
=============================================================================
