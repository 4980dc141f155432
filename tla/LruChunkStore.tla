--------------------------- MODULE LruChunkStore ---------------------------
(***************************************************************************)
(* What the on-disk cache of grid chunks promises its callers, without any *)
(* table, row identifier or linked list: a store of at most MaxChunks      *)
(* chunks, each under a key (url, offset).  When it is full, a slot freed  *)
(* by an invalidation is reused first and the least recently used chunk is *)
(* dropped otherwise.  DiskChunkCache implements this specification.       *)
(***************************************************************************)
EXTENDS Naturals, FiniteSets, Functions

CONSTANTS
    Urls,       \* the remote files
    Offsets,    \* the chunk indices of a file
    Data,       \* the contents of a chunk
    Props,      \* what the server says of a file: size, Last-Modified, ETag
    MaxChunks,  \* the capacity, 0 when it is not limited
    NoRow,      \* no properties are recorded for the file
    Miss        \* the answer to a lookup that finds nothing

Keys == Urls \X Offsets

VARIABLES
    store,       \* the chunks held, a function whose domain is a set of keys
    newer,       \* <<j, k>>: chunk j was used more recently than chunk k
    free,        \* the number of slots left by invalidated chunks
    properties,  \* the recorded properties of each file
    reply        \* the answer to the latest lookup

vars == <<store, newer, free, properties, reply>>

Live == DOMAIN store

(* The recency relation once k, alone, has become the most recent of S. *)
Touch(k, S) ==
    {p \in newer : p[1] # k /\ p[2] # k /\ p[1] \in S /\ p[2] \in S}
        \cup ({k} \X (S \ {k}))

Least(k) == \A j \in Live \ {k} : <<j, k>> \in newer

Empty ==
    /\ store = [k \in {} |-> Miss]
    /\ newer = {}
    /\ free = 0
    /\ properties = [u \in Urls |-> NoRow]

Init ==
    /\ Empty
    /\ reply = [key |-> CHOOSE k \in Keys : TRUE, data |-> Miss]

Hold(k, x, kept) ==
    /\ store' = [j \in kept \cup {k} |-> IF j = k THEN x ELSE store[j]]
    /\ newer' = Touch(k, kept \cup {k})
    /\ UNCHANGED <<properties, reply>>

Replace(k, x) ==
    /\ k \in Live
    /\ Hold(k, x, Live)
    /\ free' = free

FillFree(k, x) ==
    /\ k \notin Live
    /\ free > 0
    /\ Hold(k, x, Live)
    /\ free' = free - 1

Evict(k, x) ==
    /\ k \notin Live
    /\ free = 0
    /\ MaxChunks > 0 /\ Cardinality(Live) >= MaxChunks
    /\ \E victim \in Live : Least(victim) /\ Hold(k, x, Live \ {victim})
    /\ free' = free

Add(k, x) ==
    /\ k \notin Live
    /\ free = 0
    /\ MaxChunks = 0 \/ Cardinality(Live) < MaxChunks
    /\ Hold(k, x, Live)
    /\ free' = free

Answer(k) == IF k \in Live THEN store[k] ELSE Miss

Use(k) ==
    /\ newer' = IF k \in Live THEN Touch(k, Live) ELSE newer
    /\ UNCHANGED <<store, free, properties>>

Lookup(k) ==
    /\ reply' = [key |-> k, data |-> Answer(k)]
    /\ Use(k)

(* Fresh properties of u are recorded; if they differ from the recorded    *)
(* ones, every chunk of u leaves the store and its slot becomes free.      *)
Refresh(u, p) ==
    LET gone == IF properties[u] \in {NoRow, p} THEN {} ELSE {k \in Live : k[1] = u}
        kept == Live \ gone
    IN /\ properties' = [properties EXCEPT ![u] = p]
       /\ store' = Restrict(store, kept)
       /\ newer' = newer \cap (kept \X kept)
       /\ free' = free + Cardinality(gone)
       /\ UNCHANGED reply

Clear ==
    /\ store' = [k \in {} |-> Miss]
    /\ newer' = {}
    /\ free' = 0
    /\ properties' = [u \in Urls |-> NoRow]
    /\ UNCHANGED reply

Next ==
    \/ \E k \in Keys, x \in Data :
          Replace(k, x) \/ FillFree(k, x) \/ Evict(k, x) \/ Add(k, x)
    \/ \E k \in Keys : Lookup(k)
    \/ \E u \in Urls, p \in Props : Refresh(u, p)
    \/ Clear

Spec == Init /\ [][Next]_vars
=============================================================================
