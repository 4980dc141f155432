--------------------------- MODULE DiskChunkCache ---------------------------
(***************************************************************************)
(* The SQLite database shared by every process and thread that reads grids *)
(* over the network (networkfilemanager.cpp, class DiskChunkCache and the  *)
(* disk half of NetworkChunkCache and NetworkFilePropertiesCache).         *)
(*                                                                         *)
(* Every access runs between BEGIN EXCLUSIVE and COMMIT, so an operation   *)
(* is one step, except the invalidation of a file, whose loop over the     *)
(* chunks is spread over several steps so that a crash can roll it back.   *)
(* Rows are only ever added or updated, never deleted, so a table is a     *)
(* sequence and the AUTOINCREMENT id of a row is its position.             *)
(*                                                                         *)
(* Left out: the lastChecked column and the retries on a locked database   *)
(* (see NetworkFile), and the data_size column, which insert does not      *)
(* update when it replaces the content of a row: the contents of one key   *)
(* are taken to be of one size.                                            *)
(*                                                                         *)
(* A definition commented as a plausible mistake is no part of the         *)
(* specification: it is a wrong version of the one that follows it, and    *)
(* shows that the properties can tell the two apart.                       *)
(***************************************************************************)
EXTENDS Naturals, Sequences, FiniteSets

CONSTANTS
    Urls,         \* the remote files
    Offsets,      \* the chunk indices of a file
    Data,         \* the contents of a chunk
    Props,        \* the properties of a file: size, Last-Modified, ETag
    MaxChunks,    \* max_size in chunks, rounded up; 0 when not limited
    Invalidated,  \* the url of a row that holds no chunk any more
    NoOffset,     \* the offset of such a row (-1)
    NoRow,        \* no row for that url in table properties
    Miss,         \* a lookup that finds nothing
    NoTx          \* no invalidation is running

ASSUME MaxChunksIsNat == MaxChunks \in Nat
ASSUME InvalidatedIsNoUrl == Invalidated \notin Urls
ASSUME MissIsNoData == Miss \notin Data
ASSUME NoRowIsNoProps == NoRow \notin Props
ASSUME SomeKey == Urls # {} /\ Offsets # {}

NULL == 0  \* SQL NULL in the columns that hold a link id

VARIABLES
    chunk_data,   \* table chunk_data: the content of row i
    chunks,       \* table chunks: url, offset and data_id of row i
    list,         \* tables linked_chunks (links) and linked_chunks_head_tail
    properties,   \* table properties
    tx,           \* the invalidation in progress, with what a rollback restores
    reply,        \* the answer to the latest lookup
    newer         \* history: <<a, b>> when chunk a was used after chunk b

vars == <<chunk_data, chunks, list, properties, tx, reply, newer>>

Row == [url : Urls \cup {Invalidated}, offset : Offsets \cup {NoOffset}, data_id : Nat]
Link == [chunk_id : Nat, prev : Nat, next : Nat]
List == [links : Seq(Link), head : Nat, tail : Nat]
Recency == SUBSET (Nat \X Nat)
Transaction == [url : Urls, props : Props, ids : SUBSET Nat,
                list : List, newer : Recency]
ASSUME NoTxIsNoTransaction == NoTx \notin Transaction
Reply == [key : Urls \X Offsets, data : Data \cup {Miss}]

TypeOK ==
    /\ chunk_data \in Seq(Data)
    /\ chunks \in Seq(Row)
    /\ list \in List
    /\ properties \in [Urls -> Props \cup {NoRow}]
    /\ tx \in Transaction \cup {NoTx}
    /\ reply \in Reply
    /\ newer \in Recency

EmptyList == [links |-> <<>>, head |-> NULL, tail |-> NULL]

Init ==
    /\ chunk_data = <<>>
    /\ chunks = <<>>
    /\ list = EmptyList
    /\ properties = [u \in Urls |-> NoRow]
    /\ tx = NoTx
    /\ reply = [key |-> CHOOSE k \in Urls \X Offsets : TRUE, data |-> Miss]
    /\ newer = {}

-----------------------------------------------------------------------------
(* The doubly linked list.  An UPDATE whose WHERE matches no row changes   *)
(* nothing and is not an error.                                            *)

SetPrev(L, id, v) ==
    IF id \in DOMAIN L.links THEN [L EXCEPT !.links[id].prev = v] ELSE L

SetNext(L, id, v) ==
    IF id \in DOMAIN L.links THEN [L EXCEPT !.links[id].next = v] ELSE L

SetEnds(L, head, tail) == [L EXCEPT !.head = head, !.tail = tail]

LinksOf(L, chunk_id) == {id \in DOMAIN L.links : L.links[id].chunk_id = chunk_id}

(* move_to_head and move_to_tail issue up to five UPDATEs; the sequence    *)
(* holds the list after each of them.                                      *)
MoveToHeadSteps(L, id) ==
    LET prev == L.links[id].prev
        next == L.links[id].next
        s1 == SetNext(L, prev, next)
        s2 == SetPrev(s1, next, prev)
        s3 == SetPrev(s2, L.head, id)
        s4 == SetNext(SetPrev(s3, id, NULL), id, L.head)
        s5 == SetEnds(s4, id, IF id = L.tail THEN prev ELSE L.tail)
    IN <<s1, s2, s3, s4, s5>>

MoveToTailSteps(L, id) ==
    LET prev == L.links[id].prev
        next == L.links[id].next
        s1 == SetNext(L, prev, next)
        s2 == SetPrev(s1, next, prev)
        s3 == SetNext(s2, L.tail, id)
        s4 == SetNext(SetPrev(s3, id, L.tail), id, NULL)
        s5 == SetEnds(s4, IF id = L.head THEN next ELSE L.head, id)
    IN <<s1, s2, s3, s4, s5>>

(* Plausible mistake: the tail is forgotten when it is the one that moves. *)
MoveToHeadKeepsTail(L, chunk_id) ==
    LET id == CHOOSE l \in LinksOf(L, chunk_id) : TRUE
    IN IF id = L.head THEN L ELSE SetEnds(MoveToHeadSteps(L, id)[5], id, L.tail)

(* Both return early when the chunk has no link row or is already there.   *)
MoveToHead(L, chunk_id) ==
    IF LinksOf(L, chunk_id) = {} THEN L
    ELSE LET id == CHOOSE l \in LinksOf(L, chunk_id) : TRUE
         IN IF id = L.head THEN L ELSE MoveToHeadSteps(L, id)[5]

MoveToTail(L, chunk_id) ==
    IF LinksOf(L, chunk_id) = {} THEN L
    ELSE LET id == CHOOSE l \in LinksOf(L, chunk_id) : TRUE
         IN IF id = L.tail THEN L ELSE MoveToTailSteps(L, id)[5]

(* The recency order R of the chunks in ids, once chunk c has become the   *)
(* most, or the least, recently used of them.                              *)
Without(R, c) == {p \in R : p[1] # c /\ p[2] # c}
Newest(R, ids, c) == Without(R, c) \cup ({c} \X (ids \ {c}))
Oldest(R, ids, c) == Without(R, c) \cup ((ids \ {c}) \X {c})

-----------------------------------------------------------------------------
(* Lookups in table chunks.                                                *)

RowsAt(u, o) == {c \in DOMAIN chunks : chunks[c].url = u /\ chunks[c].offset = o}

RowsOf(u) == {c \in DOMAIN chunks : chunks[c].url = u}

(* The code compares chunks.id with linked_chunks_head_tail.tail, a link id. *)
TailRow == {c \in DOMAIN chunks : c = list.tail}

TailIsInvalidated == \E c \in TailRow : chunks[c].url = Invalidated

(* Plausible mistake: one chunk too many before the cache counts as full. *)
SaturatedTooLate == MaxChunks > 0 /\ Len(chunks) > MaxChunks

Saturated == MaxChunks > 0 /\ Len(chunks) >= MaxChunks

-----------------------------------------------------------------------------
(* NetworkChunkCache::insert, disk part.                                   *)

(* The (url, offset) already has a row: its data is replaced. *)
InsertExisting(u, o, x) ==
    /\ tx = NoTx
    /\ \E c \in RowsAt(u, o) :
          /\ chunk_data' = [chunk_data EXCEPT ![chunks[c].data_id] = x]
          /\ list' = MoveToHead(list, c)
          /\ newer' = Newest(newer, DOMAIN chunks, c)
    /\ UNCHANGED <<chunks, properties, tx, reply>>

(* Plausible mistakes: a recycled row gets the next offset, or new data.   *)
ReuseRowNextOffset(c, u, o, x) ==
    /\ chunk_data' = [chunk_data EXCEPT ![chunks[c].data_id] = x]
    /\ chunks' = [chunks EXCEPT ![c].url = u, ![c].offset = o + 1]
    /\ list' = MoveToHead(list, c)
    /\ newer' = Newest(newer, DOMAIN chunks, c)
    /\ UNCHANGED <<properties, tx, reply>>

ReuseRowNewData(c, u, o, x) ==
    /\ chunk_data' = Append(chunk_data, x)
    /\ chunks' = [chunks EXCEPT ![c] = [url |-> u, offset |-> o, data_id |-> Len(chunk_data) + 1]]
    /\ list' = MoveToHead(list, c)
    /\ newer' = Newest(newer, DOMAIN chunks, c)
    /\ UNCHANGED <<properties, tx, reply>>

ReuseRow(c, u, o, x) ==
    /\ chunk_data' = [chunk_data EXCEPT ![chunks[c].data_id] = x]
    /\ chunks' = [chunks EXCEPT ![c].url = u, ![c].offset = o]
    /\ list' = MoveToHead(list, c)
    /\ newer' = Newest(newer, DOMAIN chunks, c)
    /\ UNCHANGED <<properties, tx, reply>>

(* The row at the tail of the list holds no chunk: it is recycled. *)
InsertReuseInvalidated(u, o, x) ==
    /\ tx = NoTx
    /\ RowsAt(u, o) = {}
    /\ TailIsInvalidated
    /\ \E c \in TailRow : ReuseRow(c, u, o, x)

(* The cache has reached max_size: the chunk at the tail is replaced. *)
InsertEvictTail(u, o, x) ==
    /\ tx = NoTx
    /\ RowsAt(u, o) = {}
    /\ ~TailIsInvalidated
    /\ Saturated
    /\ \E c \in TailRow : ReuseRow(c, u, o, x)

(* The list with a row appended for chunk_id, and, in a list that was      *)
(* empty, chunk_id written where a link id is meant.                       *)
AppendLink(L, chunk_id) ==
    [L EXCEPT !.links = Append(@, [chunk_id |-> chunk_id, prev |-> NULL, next |-> NULL])]

(* Plausible mistake: the tail of a list that was empty is not set. *)
StartListHeadOnly(L, chunk_id) ==
    IF L.head = NULL THEN SetEnds(L, chunk_id, L.tail) ELSE L

StartList(L, chunk_id) ==
    IF L.head = NULL THEN SetEnds(L, chunk_id, chunk_id) ELSE L

NewRow(u, o) == [url |-> u, offset |-> o, data_id |-> Len(chunk_data) + 1]

AppendRow(u, o, x) ==
    LET chunk_id == Len(chunks) + 1
    IN /\ chunk_data' = Append(chunk_data, x)
       /\ chunks' = Append(chunks, NewRow(u, o))
       /\ list' = MoveToHead(StartList(AppendLink(list, chunk_id), chunk_id), chunk_id)
       /\ newer' = Newest(newer, DOMAIN chunks, chunk_id)
       /\ UNCHANGED <<properties, tx, reply>>

(* Plausible mistake: a row is appended without looking for the key. *)
InsertAppendUnchecked(u, o, x) ==
    /\ tx = NoTx
    /\ ~TailIsInvalidated
    /\ ~Saturated
    /\ AppendRow(u, o, x)

InsertAppend(u, o, x) ==
    /\ tx = NoTx
    /\ RowsAt(u, o) = {}
    /\ ~TailIsInvalidated
    /\ ~Saturated
    /\ AppendRow(u, o, x)

-----------------------------------------------------------------------------
(* NetworkChunkCache::get, disk part.  The row of table chunk_data is      *)
(* found by the join chunks.id = chunk_data.id, not by data_id.            *)

JoinedRows(u, o) == RowsAt(u, o) \cap DOMAIN chunk_data

(* Plausible mistake: a chunk that was read is not moved to the head. *)
GetHitWithoutTouch(u, o) ==
    /\ tx = NoTx
    /\ \E c \in JoinedRows(u, o) : reply' = [key |-> <<u, o>>, data |-> chunk_data[c]]
    /\ UNCHANGED <<chunk_data, chunks, list, properties, tx, newer>>

GetHit(u, o) ==
    /\ tx = NoTx
    /\ \E c \in JoinedRows(u, o) :
          /\ reply' = [key |-> <<u, o>>, data |-> chunk_data[c]]
          /\ list' = MoveToHead(list, c)
          /\ newer' = Newest(newer, DOMAIN chunks, c)
    /\ UNCHANGED <<chunk_data, chunks, properties, tx>>

GetMiss(u, o) ==
    /\ tx = NoTx
    /\ JoinedRows(u, o) = {}
    /\ reply' = [key |-> <<u, o>>, data |-> Miss]
    /\ UNCHANGED <<chunk_data, chunks, list, properties, tx, newer>>

-----------------------------------------------------------------------------
(* NetworkFilePropertiesCache::insert, disk part.                          *)

PropsInsert(u, p) ==
    /\ tx = NoTx
    /\ properties[u] = NoRow
    /\ properties' = [properties EXCEPT ![u] = p]
    /\ UNCHANGED <<chunk_data, chunks, list, tx, reply, newer>>

(* The recorded properties differ: the chunks of the file are moved to the *)
(* tail one at a time, in the order the SELECT returned them, which SQL    *)
(* leaves open, then their rows are blanked and the transaction commits.   *)
InvalidateBegin(u, p) ==
    /\ tx = NoTx
    /\ properties[u] \notin {NoRow, p}
    /\ tx' = [url |-> u, props |-> p, ids |-> RowsOf(u), list |-> list, newer |-> newer]
    /\ UNCHANGED <<chunk_data, chunks, list, properties, reply, newer>>

(* Plausible mistake: the chunks are blanked where they stand in the list. *)
InvalidateMoveInPlace(c) ==
    /\ tx # NoTx
    /\ c \in tx.ids
    /\ tx' = [tx EXCEPT !.ids = @ \ {c}]
    /\ UNCHANGED <<chunk_data, chunks, list, properties, reply, newer>>

InvalidateMove(c) ==
    /\ tx # NoTx
    /\ c \in tx.ids
    /\ list' = MoveToTail(list, c)
    /\ newer' = Oldest(newer, DOMAIN chunks, c)
    /\ tx' = [tx EXCEPT !.ids = @ \ {c}]
    /\ UNCHANGED <<chunk_data, chunks, properties, reply>>

InvalidateCommit ==
    /\ tx # NoTx
    /\ tx.ids = {}
    /\ chunks' = [c \in DOMAIN chunks |->
                    IF chunks[c].url = tx.url
                    THEN [chunks[c] EXCEPT !.url = Invalidated, !.offset = NoOffset]
                    ELSE chunks[c]]
    /\ properties' = [properties EXCEPT ![tx.url] = tx.props]
    /\ tx' = NoTx
    /\ UNCHANGED <<chunk_data, list, reply, newer>>

(* The process dies inside the transaction: SQLite rolls it back. *)
Crash ==
    /\ tx # NoTx
    /\ list' = tx.list
    /\ newer' = tx.newer
    /\ tx' = NoTx
    /\ UNCHANGED <<chunk_data, chunks, properties, reply>>

(* proj_grid_cache_clear unlinks the file; whatever another connection was *)
(* doing to it is lost.  The next access creates the tables again.         *)
Clear ==
    /\ chunk_data' = <<>>
    /\ chunks' = <<>>
    /\ list' = EmptyList
    /\ properties' = [u \in Urls |-> NoRow]
    /\ tx' = NoTx
    /\ newer' = {}
    /\ UNCHANGED reply

Insert(u, o, x) ==
    \/ InsertExisting(u, o, x)
    \/ InsertReuseInvalidated(u, o, x)
    \/ InsertEvictTail(u, o, x)
    \/ InsertAppend(u, o, x)

Next ==
    \/ \E u \in Urls, o \in Offsets, x \in Data : Insert(u, o, x)
    \/ \E u \in Urls, o \in Offsets : GetHit(u, o) \/ GetMiss(u, o)
    \/ \E u \in Urls, p \in Props : PropsInsert(u, p) \/ InvalidateBegin(u, p)
    \/ \E c \in DOMAIN chunks : InvalidateMove(c)
    \/ InvalidateCommit
    \/ Crash
    \/ Clear

Spec == Init /\ [][Next]_vars

-----------------------------------------------------------------------------
(* A statement of the transaction may fail alone: sqlite3_prepare_v2 gives *)
(* no statement when memory runs out, or the disk is full and SQLite undoes *)
(* that statement only.  The C++ function then returns early, and the      *)
(* destructor of DiskChunkCache COMMITs the statements that came before.   *)

CutShort(steps) == {steps[i] : i \in 1..4}

AppendFails(u, o, x) ==
    LET chunk_id == Len(chunks) + 1
        linked == AppendLink(list, chunk_id)
    IN /\ tx = NoTx
       /\ RowsAt(u, o) = {} /\ ~TailIsInvalidated /\ ~Saturated
       /\ chunk_data' = Append(chunk_data, x)
       /\ \/ UNCHANGED <<chunks, list>>
          \/ /\ chunks' = Append(chunks, NewRow(u, o))
             /\ list' \in {list, linked, StartList(linked, chunk_id)}
       /\ UNCHANGED <<properties, tx, reply, newer>>

TouchFails(u, o) ==
    /\ tx = NoTx
    /\ \E c \in JoinedRows(u, o) :
          /\ reply' = [key |-> <<u, o>>, data |-> chunk_data[c]]
          /\ \E id \in LinksOf(list, c) \ {list.head} :
                list' \in CutShort(MoveToHeadSteps(list, id))
    /\ UNCHANGED <<chunk_data, chunks, properties, tx, newer>>

FaultyNext ==
    \/ Next
    \/ \E u \in Urls, o \in Offsets :
          TouchFails(u, o) \/ \E x \in Data : AppendFails(u, o, x)

FaultySpec == Init /\ [][FaultyNext]_vars

-----------------------------------------------------------------------------
(* Properties.                                                             *)

(* The ids of the links met by following next from the head, or prev from  *)
(* the tail: a sequence as long as the table, NULL once the walk has ended. *)
NextWalk(L) ==
    LET walk[i \in 0..Len(L.links)] ==
            IF i = 0 THEN L.head
            ELSE IF walk[i - 1] \in DOMAIN L.links THEN L.links[walk[i - 1]].next
            ELSE NULL
    IN walk

PrevWalk(L) ==
    LET walk[i \in 0..Len(L.links)] ==
            IF i = 0 THEN L.tail
            ELSE IF walk[i - 1] \in DOMAIN L.links THEN L.links[walk[i - 1]].prev
            ELSE NULL
    IN walk

(* The walk visits every link once, reaches `last` at the end and stops.   *)
Covers(walk, L, last) ==
    LET n == Len(L.links)
    IN /\ walk[n] = NULL
       /\ n > 0 => walk[n - 1] = last
       /\ \A id \in 1..n : \E i \in 0..(n - 1) : walk[i] = id

(* checkConsistency, the code's own audit of the database, except for its  *)
(* third query, which is about the properties of files: every data row is  *)
(* used by a chunk, every chunk is linked, and the list read in both       *)
(* directions has no cycle, no ghost item and ends where it should.        *)
Consistent ==
    /\ \A d \in DOMAIN chunk_data : \E c \in DOMAIN chunks : chunks[c].data_id = d
    /\ \A c \in DOMAIN chunks : LinksOf(list, c) # {}
    /\ Covers(NextWalk(list), list, list.tail)
    /\ Covers(PrevWalk(list), list, list.head)

(* get joins chunks.id with chunk_data.id, and the two reuse queries of    *)
(* insert compare chunks.id with a link id: that is right only because the *)
(* three tables always grow together, so that the ids of a chunk, of its   *)
(* data and of its link are the same number.                               *)
IdsInLockstep ==
    /\ Len(chunk_data) = Len(chunks)
    /\ Len(list.links) = Len(chunks)
    /\ \A c \in DOMAIN chunks : chunks[c].data_id = c /\ list.links[c].chunk_id = c

(* A lookup returns the data row its chunk refers to: "CONSTRAINT          *)
(* fk_chunks_data FOREIGN KEY (data_id) REFERENCES chunk_data(id)".        *)
LookupReadsOwnData ==
    \A u \in Urls, o \in Offsets : \A c \in JoinedRows(u, o) : chunks[c].data_id = c

(* No (url, offset) is held by two rows, although the index on them is not *)
(* UNIQUE: a lookup has one answer.                                        *)
OneRowPerKey ==
    \A u \in Urls, o \in Offsets : \A c, d \in RowsAt(u, o) : c = d

(* List L is the chunks in the order R of their last use: head and tail    *)
(* are its ends, next is the chunk used just before, prev the one used just *)
(* after.  It holds between the moves of an invalidation too.              *)
Adjacent(R, ids, a, b) ==
    /\ <<a, b>> \in R
    /\ \A c \in ids : ~(<<a, c>> \in R /\ <<c, b>> \in R)

EndsFollow(L, R, ids) ==
    IF ids = {} THEN L.head = NULL /\ L.tail = NULL
    ELSE /\ L.head \in ids /\ \A a \in ids \ {L.head} : <<L.head, a>> \in R
         /\ L.tail \in ids /\ \A a \in ids \ {L.tail} : <<a, L.tail>> \in R

LinksFollow(L, R, ids) ==
    /\ \A a \in ids :
          /\ L.links[a].next \in ids \cup {NULL}
          /\ L.links[a].prev \in ids \cup {NULL}
          /\ L.links[a].next = NULL <=> a = L.tail
          /\ L.links[a].prev = NULL <=> a = L.head
    /\ \A a, b \in ids :
          /\ L.links[a].next = b <=> Adjacent(R, ids, a, b)
          /\ L.links[b].prev = a <=> Adjacent(R, ids, a, b)

ListIsRecencyOrder ==
    LET ids == DOMAIN list.links
    IN EndsFollow(list, newer, ids) /\ LinksFollow(list, newer, ids)

(* The rows that hold no chunk, and the ones an invalidation has already   *)
(* moved, are used longest ago.  So the row at the tail tells whether there *)
(* is a row to recycle, and no chunk is evicted while there is one.        *)
Doomed(c) ==
    \/ chunks[c].url = Invalidated
    \/ tx # NoTx /\ chunks[c].url = tx.url /\ c \notin tx.ids

DoomedAreOldest ==
    \A a, b \in DOMAIN chunks : Doomed(b) /\ ~Doomed(a) => <<a, b>> \in newer

(* The database never holds more chunks than max_size allows.              *)
WithinMaxSize == MaxChunks > 0 => Len(chunks) <= MaxChunks

(* What the cache promises: see LruChunkStore.  An invalidation takes      *)
(* effect when it commits; until then the order is the one it would be     *)
(* rolled back to.                                                         *)
LiveRows == {c \in DOMAIN chunks : chunks[c].url # Invalidated}
KeyOf(c) == <<chunks[c].url, chunks[c].offset>>
CommittedOrder == IF tx = NoTx THEN newer ELSE tx.newer

Held == [k \in {KeyOf(c) : c \in LiveRows} |->
            chunk_data[chunks[CHOOSE c \in LiveRows : KeyOf(c) = k].data_id]]
Recent == {<<KeyOf(p[1]), KeyOf(p[2])>> : p \in CommittedOrder \cap (LiveRows \X LiveRows)}
Recyclable == Cardinality(DOMAIN chunks \ LiveRows)

Store == INSTANCE LruChunkStore WITH
    store <- Held, newer <- Recent, free <- Recyclable

(* The database implements the bounded least-recently-used store: a lookup *)
(* returns what was last inserted for that key and not invalidated since,  *)
(* an insertion evicts only the least recently used chunk and only when no *)
(* recyclable row is left, fresh properties discard all and only the       *)
(* chunks of their file.                                                   *)
ImplementsStore == Store!Spec
=============================================================================
