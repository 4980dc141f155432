------------------------ MODULE DiskChunkCacheProofs ------------------------
(***************************************************************************)
(* The invariants of DiskChunkCache, for every set of files, offsets and   *)
(* contents and every capacity.  They hold together or not at all: the row *)
(* to recycle is found by comparing a chunk id with a link id, so that it  *)
(* exists because ids are in lockstep, and it is the right one because the *)
(* list is in the order of use.  IInv is that conjunction, plus what a     *)
(* rolled-back invalidation restores.                                      *)
(* At the end: every step of the database is one of LruChunkStore.         *)
(*                                                                         *)
(* First the doubly linked list itself: what the UPDATEs of move_to_head,  *)
(* of move_to_tail and of an insertion make of it.                         *)
(***************************************************************************)
EXTENDS DiskChunkCache, SequenceTheorems, FiniteSetTheorems,
        WellFoundedInduction, TLAPS

-----------------------------------------------------------------------------
(* What a recursive definition computes is shown by the least counterexample:   *)
(* a set of natural numbers that is not empty has a least member.               *)

LEMMA LeastOf ==
  ASSUME NEW T, T \subseteq Nat, T # {}
  PROVE \E x \in T : \A y \in T : x <= y
<1> DEFINE R == {ss \in Nat \X Nat : ss[1] < ss[2]}
<1>1. IsWellFoundedOn(R, Nat)
  BY NatLessThanWellFounded DEF OpToRel
<1> HIDE DEF R
<1>2. PICK x \in T : \A y \in T : ~(<<y, x>> \in R)
  BY <1>1, WFMin
<1>3. \A y \in T : ~(y < x)
  BY <1>2 DEF R
<1> QED BY <1>3

-----------------------------------------------------------------------------
(* Updating one field of one row.                                          *)

(* An UPDATE of a row that may not exist keeps the table a table. *)
LEMMA UpdateRow ==
    ASSUME NEW S, NEW seq \in Seq(S), NEW i, NEW e \in S
    PROVE  /\ [seq EXCEPT ![i] = e] \in Seq(S)
           /\ Len([seq EXCEPT ![i] = e]) = Len(seq)
<1>1. CASE i \in 1..Len(seq)
  BY <1>1, ExceptSeq
<1>2. CASE i \notin 1..Len(seq)
  <2>1. [seq EXCEPT ![i] = e] = seq
    BY <1>2
  <2> QED BY <2>1
<1> QED BY <1>1, <1>2

(* SetPrev writes the prev column of at most one link and nothing else. *)
WritesPrev(L, M, id, v) ==
    /\ M \in List
    /\ DOMAIN M.links = DOMAIN L.links
    /\ M.head = L.head
    /\ M.tail = L.tail
    /\ \A i \in DOMAIN L.links :
          /\ M.links[i].chunk_id = L.links[i].chunk_id
          /\ M.links[i].next = L.links[i].next
          /\ M.links[i].prev = IF i = id THEN v ELSE L.links[i].prev

LEMMA SetPrevWrites ==
    ASSUME NEW L \in List, NEW id \in Nat, NEW v \in Nat
    PROVE  WritesPrev(L, SetPrev(L, id, v), id, v)
<1> DEFINE row == [L.links[id] EXCEPT !.prev = v]
           M == [L EXCEPT !.links = [@ EXCEPT ![id] = row]]
<1>0. L.links \in Seq(Link)
  BY DEF List
<1>1. CASE id \in DOMAIN L.links
  <2>1. L.links[id] \in Link
    BY <1>0, <1>1
  <2>2. row \in Link
    BY <2>1 DEF Link
  <2>3. SetPrev(L, id, v) = M
    BY <1>1 DEF SetPrev
  <2>4. M.links = [L.links EXCEPT ![id] = row] /\ M.head = L.head /\ M.tail = L.tail
    BY DEF List
  <2>5. M.links \in Seq(Link) /\ Len(M.links) = Len(L.links)
    BY <1>0, <2>2, <2>4, UpdateRow
  <2>6. M \in List
    BY <2>4, <2>5 DEF List
  <2>7. ASSUME NEW i \in DOMAIN L.links
        PROVE  /\ M.links[i].chunk_id = L.links[i].chunk_id
               /\ M.links[i].next = L.links[i].next
               /\ M.links[i].prev = IF i = id THEN v ELSE L.links[i].prev
    <3>1. M.links[i] = IF i = id THEN row ELSE L.links[i]
      BY <2>4, <1>0
    <3> QED BY <3>1, <2>1 DEF Link
  <2> QED BY <1>0, <2>3, <2>4, <2>5, <2>6, <2>7 DEF WritesPrev
<1>2. CASE id \notin DOMAIN L.links
  <2>1. SetPrev(L, id, v) = L
    BY <1>2 DEF SetPrev
  <2> QED BY <2>1, <1>2 DEF WritesPrev
<1> QED BY <1>1, <1>2

(* SetNext writes the next column of at most one link and nothing else. *)
WritesNext(L, M, id, v) ==
    /\ M \in List
    /\ DOMAIN M.links = DOMAIN L.links
    /\ M.head = L.head
    /\ M.tail = L.tail
    /\ \A i \in DOMAIN L.links :
          /\ M.links[i].chunk_id = L.links[i].chunk_id
          /\ M.links[i].prev = L.links[i].prev
          /\ M.links[i].next = IF i = id THEN v ELSE L.links[i].next

LEMMA SetNextWrites ==
    ASSUME NEW L \in List, NEW id \in Nat, NEW v \in Nat
    PROVE  WritesNext(L, SetNext(L, id, v), id, v)
<1> DEFINE row == [L.links[id] EXCEPT !.next = v]
           M == [L EXCEPT !.links = [@ EXCEPT ![id] = row]]
<1>0. L.links \in Seq(Link)
  BY DEF List
<1>1. CASE id \in DOMAIN L.links
  <2>1. L.links[id] \in Link
    BY <1>0, <1>1
  <2>2. row \in Link
    BY <2>1 DEF Link
  <2>3. SetNext(L, id, v) = M
    BY <1>1 DEF SetNext
  <2>4. M.links = [L.links EXCEPT ![id] = row] /\ M.head = L.head /\ M.tail = L.tail
    BY DEF List
  <2>5. M.links \in Seq(Link) /\ Len(M.links) = Len(L.links)
    BY <1>0, <2>2, <2>4, UpdateRow
  <2>6. M \in List
    BY <2>4, <2>5 DEF List
  <2>7. ASSUME NEW i \in DOMAIN L.links
        PROVE  /\ M.links[i].chunk_id = L.links[i].chunk_id
               /\ M.links[i].prev = L.links[i].prev
               /\ M.links[i].next = IF i = id THEN v ELSE L.links[i].next
    <3>1. M.links[i] = IF i = id THEN row ELSE L.links[i]
      BY <2>4, <1>0
    <3> QED BY <3>1, <2>1 DEF Link
  <2> QED BY <1>0, <2>3, <2>4, <2>5, <2>6, <2>7 DEF WritesNext
<1>2. CASE id \notin DOMAIN L.links
  <2>1. SetNext(L, id, v) = L
    BY <1>2 DEF SetNext
  <2> QED BY <2>1, <1>2 DEF WritesNext
<1> QED BY <1>1, <1>2

(* What the five UPDATEs of move_to_head amount to, for a chunk that has a *)
(* link: the neighbours close the gap and the link becomes the head.       *)
MovesToHead(L, M, id) ==
    /\ M \in List
    /\ DOMAIN M.links = DOMAIN L.links
    /\ M.head = id
    /\ M.tail = IF id = L.tail THEN L.links[id].prev ELSE L.tail
    /\ \A i \in DOMAIN L.links :
          /\ M.links[i].chunk_id = L.links[i].chunk_id
          /\ M.links[i].prev = IF i = id THEN NULL
                               ELSE IF i = L.head THEN id
                               ELSE IF i = L.links[id].next THEN L.links[id].prev
                               ELSE L.links[i].prev
          /\ M.links[i].next = IF i = id THEN L.head
                               ELSE IF i = L.links[id].prev THEN L.links[id].next
                               ELSE L.links[i].next

LEMMA MoveToHeadWrites ==
    ASSUME NEW L \in List, NEW id \in DOMAIN L.links
    PROVE  MovesToHead(L, MoveToHeadSteps(L, id)[5], id)
<1> DEFINE prev == L.links[id].prev
           next == L.links[id].next
           s1 == SetNext(L, prev, next)
           s2 == SetPrev(s1, next, prev)
           s3 == SetPrev(s2, L.head, id)
           s4 == SetPrev(s3, id, NULL)
           s5 == SetNext(s4, id, L.head)
           M == MoveToHeadSteps(L, id)[5]
<1>1. M = SetEnds(s5, id, IF id = L.tail THEN prev ELSE L.tail)
  BY DEF MoveToHeadSteps
<1>2. /\ id \in Nat /\ NULL \in Nat /\ L.head \in Nat /\ L.tail \in Nat
      /\ prev \in Nat /\ next \in Nat
  <2>1. L.links \in Seq(Link) /\ L.head \in Nat /\ L.tail \in Nat
    BY DEF List
  <2>2. L.links[id] \in Link
    BY <2>1
  <2> QED BY <2>1, <2>2 DEF Link, NULL
<1> HIDE DEF prev, next
<1>3. WritesNext(L, s1, prev, next)
  BY <1>2, SetNextWrites
<1>3a. s1 \in List
  BY <1>3 DEF WritesNext
<1>4. WritesPrev(s1, s2, next, prev)
  BY <1>2, <1>3a, SetPrevWrites
<1>4a. s2 \in List
  BY <1>4 DEF WritesPrev
<1>5. WritesPrev(s2, s3, L.head, id)
  BY <1>2, <1>4a, SetPrevWrites
<1>5a. s3 \in List
  BY <1>5 DEF WritesPrev
<1>6. WritesPrev(s3, s4, id, NULL)
  BY <1>2, <1>5a, SetPrevWrites
<1>6a. s4 \in List
  BY <1>6 DEF WritesPrev
<1>7. WritesNext(s4, s5, id, L.head)
  BY <1>2, <1>6a, SetNextWrites
<1>8. /\ M \in List
      /\ M.links = s5.links
      /\ M.head = id
      /\ M.tail = IF id = L.tail THEN prev ELSE L.tail
  BY <1>1, <1>2, <1>7 DEF SetEnds, List, WritesNext
<1> HIDE DEF s1, s2, s3, s4, s5, M
<1>9. SUFFICES MovesToHead(L, M, id)
  BY DEF M
<1>10. /\ DOMAIN s1.links = DOMAIN L.links /\ DOMAIN s2.links = DOMAIN L.links
       /\ DOMAIN s3.links = DOMAIN L.links /\ DOMAIN s4.links = DOMAIN L.links
       /\ DOMAIN s5.links = DOMAIN L.links
  BY <1>3, <1>4, <1>5, <1>6, <1>7 DEF WritesNext, WritesPrev
<1>11. ASSUME NEW i \in DOMAIN L.links
       PROVE  /\ M.links[i].chunk_id = L.links[i].chunk_id
              /\ M.links[i].prev = IF i = id THEN NULL
                                   ELSE IF i = L.head THEN id
                                   ELSE IF i = next THEN prev
                                   ELSE L.links[i].prev
              /\ M.links[i].next = IF i = id THEN L.head
                                   ELSE IF i = prev THEN next
                                   ELSE L.links[i].next
  BY <1>3, <1>4, <1>5, <1>6, <1>7, <1>8, <1>10 DEF WritesNext, WritesPrev
<1> QED
  BY <1>8, <1>10, <1>11 DEF MovesToHead, prev, next

(* What the five UPDATEs of move_to_tail amount to, for a chunk that has a *)
(* link: the neighbours close the gap and the link becomes the tail.       *)
MovesToTail(L, M, id) ==
    /\ M \in List
    /\ DOMAIN M.links = DOMAIN L.links
    /\ M.tail = id
    /\ M.head = IF id = L.head THEN L.links[id].next ELSE L.head
    /\ \A i \in DOMAIN L.links :
          /\ M.links[i].chunk_id = L.links[i].chunk_id
          /\ M.links[i].prev = IF i = id THEN L.tail
                               ELSE IF i = L.links[id].next THEN L.links[id].prev
                               ELSE L.links[i].prev
          /\ M.links[i].next = IF i = id THEN NULL
                               ELSE IF i = L.tail THEN id
                               ELSE IF i = L.links[id].prev THEN L.links[id].next
                               ELSE L.links[i].next

LEMMA MoveToTailWrites ==
    ASSUME NEW L \in List, NEW id \in DOMAIN L.links
    PROVE  MovesToTail(L, MoveToTailSteps(L, id)[5], id)
<1> DEFINE prev == L.links[id].prev
           next == L.links[id].next
           s1 == SetNext(L, prev, next)
           s2 == SetPrev(s1, next, prev)
           s3 == SetNext(s2, L.tail, id)
           s4 == SetPrev(s3, id, L.tail)
           s5 == SetNext(s4, id, NULL)
           M == MoveToTailSteps(L, id)[5]
<1>1. M = SetEnds(s5, IF id = L.head THEN next ELSE L.head, id)
  BY DEF MoveToTailSteps
<1>2. /\ id \in Nat /\ NULL \in Nat /\ L.head \in Nat /\ L.tail \in Nat
      /\ prev \in Nat /\ next \in Nat
  <2>1. L.links \in Seq(Link) /\ L.head \in Nat /\ L.tail \in Nat
    BY DEF List
  <2>2. L.links[id] \in Link
    BY <2>1
  <2> QED BY <2>1, <2>2 DEF Link, NULL
<1> HIDE DEF prev, next
<1>3. WritesNext(L, s1, prev, next)
  BY <1>2, SetNextWrites
<1>3a. s1 \in List
  BY <1>3 DEF WritesNext
<1>4. WritesPrev(s1, s2, next, prev)
  BY <1>2, <1>3a, SetPrevWrites
<1>4a. s2 \in List
  BY <1>4 DEF WritesPrev
<1>5. WritesNext(s2, s3, L.tail, id)
  BY <1>2, <1>4a, SetNextWrites
<1>5a. s3 \in List
  BY <1>5 DEF WritesNext
<1>6. WritesPrev(s3, s4, id, L.tail)
  BY <1>2, <1>5a, SetPrevWrites
<1>6a. s4 \in List
  BY <1>6 DEF WritesPrev
<1>7. WritesNext(s4, s5, id, NULL)
  BY <1>2, <1>6a, SetNextWrites
<1>8. /\ M \in List
      /\ M.links = s5.links
      /\ M.tail = id
      /\ M.head = IF id = L.head THEN next ELSE L.head
  BY <1>1, <1>2, <1>7 DEF SetEnds, List, WritesNext
<1> HIDE DEF s1, s2, s3, s4, s5, M
<1>9. SUFFICES MovesToTail(L, M, id)
  BY DEF M
<1>10. /\ DOMAIN s1.links = DOMAIN L.links /\ DOMAIN s2.links = DOMAIN L.links
       /\ DOMAIN s3.links = DOMAIN L.links /\ DOMAIN s4.links = DOMAIN L.links
       /\ DOMAIN s5.links = DOMAIN L.links
  BY <1>3, <1>4, <1>5, <1>6, <1>7 DEF WritesNext, WritesPrev
<1>11. ASSUME NEW i \in DOMAIN L.links
       PROVE  /\ M.links[i].chunk_id = L.links[i].chunk_id
              /\ M.links[i].prev = IF i = id THEN L.tail
                                   ELSE IF i = next THEN prev
                                   ELSE L.links[i].prev
              /\ M.links[i].next = IF i = id THEN NULL
                                   ELSE IF i = L.tail THEN id
                                   ELSE IF i = prev THEN next
                                   ELSE L.links[i].next
  BY <1>3, <1>4, <1>5, <1>6, <1>7, <1>8, <1>10 DEF WritesNext, WritesPrev
<1> QED
  BY <1>8, <1>10, <1>11 DEF MovesToTail, prev, next

-----------------------------------------------------------------------------
(* The recency order.                                                      *)

StrictOrder(R, ids) ==
    /\ R \subseteq ids \X ids
    /\ \A a \in ids : <<a, a>> \notin R
    /\ \A a, b \in ids : a # b => <<a, b>> \in R \/ <<b, a>> \in R
    /\ \A a, b, c \in ids : <<a, b>> \in R /\ <<b, c>> \in R => <<a, c>> \in R

(* A pair is in the new order when it is in the old one and does not       *)
(* involve c, or when c comes first (last, for the oldest).                *)
LEMMA NewestPairs ==
    ASSUME NEW ids, NEW R, R \subseteq ids \X ids, NEW c \in ids
    PROVE  /\ Newest(R, ids, c) \subseteq ids \X ids
           /\ \A a, b \in ids :
                 <<a, b>> \in Newest(R, ids, c) <=>
                    (a # c /\ b # c /\ <<a, b>> \in R) \/ (a = c /\ b # c)
  BY DEF Newest, Without

LEMMA OldestPairs ==
    ASSUME NEW ids, NEW R, R \subseteq ids \X ids, NEW c \in ids
    PROVE  /\ Oldest(R, ids, c) \subseteq ids \X ids
           /\ \A a, b \in ids :
                 <<a, b>> \in Oldest(R, ids, c) <=>
                    (a # c /\ b # c /\ <<a, b>> \in R) \/ (b = c /\ a # c)
  BY DEF Oldest, Without

(* Moving one chunk to either end of the order leaves a strict order. *)
LEMMA NewestIsOrder ==
    ASSUME NEW ids, NEW R, StrictOrder(R, ids), NEW c \in ids
    PROVE  StrictOrder(Newest(R, ids, c), ids)
<1> DEFINE Q == Newest(R, ids, c)
<1>1. R \subseteq ids \X ids
  BY DEF StrictOrder
<1>2. /\ Q \subseteq ids \X ids
      /\ \A a, b \in ids : <<a, b>> \in Q <=>
            (a # c /\ b # c /\ <<a, b>> \in R) \/ (a = c /\ b # c)
  BY <1>1, NewestPairs
<1> HIDE DEF Q
<1>3. /\ \A a \in ids : <<a, a>> \notin R
      /\ \A a, b \in ids : a # b => <<a, b>> \in R \/ <<b, a>> \in R
      /\ \A a, b, d \in ids : <<a, b>> \in R /\ <<b, d>> \in R => <<a, d>> \in R
  BY DEF StrictOrder
<1>4. /\ \A a \in ids : <<a, a>> \notin Q
      /\ \A a, b \in ids : a # b => <<a, b>> \in Q \/ <<b, a>> \in Q
  BY <1>2, <1>3
<1>5. \A a, b, d \in ids : <<a, b>> \in Q /\ <<b, d>> \in Q => <<a, d>> \in Q
  BY <1>2, <1>3
<1> QED
  BY <1>2, <1>4, <1>5 DEF StrictOrder, Q

LEMMA OldestIsOrder ==
    ASSUME NEW ids, NEW R, StrictOrder(R, ids), NEW c \in ids
    PROVE  StrictOrder(Oldest(R, ids, c), ids)
<1> DEFINE Q == Oldest(R, ids, c)
<1>1. R \subseteq ids \X ids
  BY DEF StrictOrder
<1>2. /\ Q \subseteq ids \X ids
      /\ \A a, b \in ids : <<a, b>> \in Q <=>
            (a # c /\ b # c /\ <<a, b>> \in R) \/ (b = c /\ a # c)
  BY <1>1, OldestPairs
<1> HIDE DEF Q
<1>3. /\ \A a \in ids : <<a, a>> \notin R
      /\ \A a, b \in ids : a # b => <<a, b>> \in R \/ <<b, a>> \in R
      /\ \A a, b, d \in ids : <<a, b>> \in R /\ <<b, d>> \in R => <<a, d>> \in R
  BY DEF StrictOrder
<1>4. /\ \A a \in ids : <<a, a>> \notin Q
      /\ \A a, b \in ids : a # b => <<a, b>> \in Q \/ <<b, a>> \in Q
  BY <1>2, <1>3
<1>5. \A a, b, d \in ids : <<a, b>> \in Q /\ <<b, d>> \in Q => <<a, d>> \in Q
  BY <1>2, <1>3
<1> QED
  BY <1>2, <1>4, <1>5 DEF StrictOrder, Q

(* move_to_head keeps the links chained, in the order they now stand for.  *)
LEMMA HeadKeepsChain ==
    ASSUME NEW ids, NULL \notin ids, NEW R, StrictOrder(R, ids), NEW L,
           EndsFollow(L, R, ids), LinksFollow(L, R, ids),
           DOMAIN L.links = ids, NEW c \in ids, c # L.head,
           NEW M, MovesToHead(L, M, c)
    PROVE  /\ EndsFollow(M, Newest(R, ids, c), ids)
           /\ LinksFollow(M, Newest(R, ids, c), ids)
<1> DEFINE Q == Newest(R, ids, c)
           h == L.head
           prev == L.links[c].prev
           next == L.links[c].next
<1>1. StrictOrder(Q, ids)
  BY NewestIsOrder
<1>2. /\ Q \subseteq ids \X ids
      /\ \A a, b \in ids : <<a, b>> \in Q <=>
            (a # c /\ b # c /\ <<a, b>> \in R) \/ (a = c /\ b # c)
  <2>1. R \subseteq ids \X ids
    BY DEF StrictOrder
  <2> QED BY <2>1, NewestPairs
<1> HIDE DEF Q
<1>4. /\ h \in ids /\ \A a \in ids \ {h} : <<h, a>> \in R
      /\ L.tail \in ids /\ \A a \in ids \ {L.tail} : <<a, L.tail>> \in R
  BY DEF EndsFollow
<1>5. prev \in ids /\ Adjacent(R, ids, prev, c)
  BY DEF LinksFollow
<1>6. M.head = c /\ M.tail = IF c = L.tail THEN prev ELSE L.tail
  BY DEF MovesToHead
<1>7. EndsFollow(M, Q, ids)
  <2>1. M.head \in ids /\ \A a \in ids \ {M.head} : <<M.head, a>> \in Q
    BY <1>2, <1>6
  <2>2. CASE c = L.tail
    <3>1. prev # c
      BY <1>5 DEF Adjacent, StrictOrder
    <3>2. ASSUME NEW a \in ids \ {prev}
          PROVE  <<a, prev>> \in Q
      <4>1. CASE a = c
        BY <4>1, <3>1, <1>2, <1>5
      <4>2. CASE a # c
        <5>1. <<a, c>> \in R
          BY <4>2, <2>2, <1>4
        <5>2. <<a, prev>> \in R
          BY <5>1, <1>5 DEF Adjacent, StrictOrder
        <5> QED BY <5>2, <4>2, <3>1, <1>2, <1>5
      <4> QED BY <4>1, <4>2
    <3> QED BY <1>5, <1>6, <2>1, <2>2, <3>2 DEF EndsFollow
  <2>3. CASE c # L.tail
    <3>1. \A a \in ids \ {L.tail} : <<a, L.tail>> \in Q
      BY <1>2, <1>4, <2>3
    <3> QED BY <1>4, <1>6, <2>1, <2>3, <3>1 DEF EndsFollow
  <2> QED BY <2>2, <2>3
(* Who stands next to whom in the new order. *)
<1>8. ASSUME NEW a \in ids, NEW b \in ids
      PROVE  Adjacent(Q, ids, a, b) <=>
                \/ a = c /\ b = h
                \/ a # c /\ b # c /\ Adjacent(R, ids, a, b)
                \/ a # c /\ b # c /\ Adjacent(R, ids, a, c) /\ Adjacent(R, ids, c, b)
  <2>1. CASE a = c
    BY <2>1, <1>2, <1>4 DEF Adjacent, StrictOrder
  <2>2. CASE a # c
    <3>1. CASE b = c
      BY <2>2, <3>1, <1>2 DEF Adjacent
    <3>2. CASE b # c
      BY <2>2, <3>2, <1>2 DEF Adjacent, StrictOrder
    <3> QED BY <3>1, <3>2
  <2> QED BY <2>1, <2>2
(* The links of M agree with it. *)
<1>9. \A i \in ids :
         /\ L.links[i].next \in ids \cup {NULL}
         /\ L.links[i].prev \in ids \cup {NULL}
         /\ L.links[i].next = NULL <=> i = L.tail
         /\ L.links[i].prev = NULL <=> i = L.head
  BY DEF LinksFollow
<1>10. \A a, b \in ids :
          /\ L.links[a].next = b <=> Adjacent(R, ids, a, b)
          /\ L.links[b].prev = a <=> Adjacent(R, ids, a, b)
  BY DEF LinksFollow
<1>11. \A i \in ids :
          /\ M.links[i].prev = IF i = c THEN NULL
                               ELSE IF i = h THEN c
                               ELSE IF i = next THEN prev
                               ELSE L.links[i].prev
          /\ M.links[i].next = IF i = c THEN h
                               ELSE IF i = prev THEN next
                               ELSE L.links[i].next
  BY DEF MovesToHead
<1> HIDE DEF h, prev, next
<1>12. ASSUME NEW a \in ids
       PROVE  /\ M.links[a].next \in ids \cup {NULL}
              /\ M.links[a].prev \in ids \cup {NULL}
              /\ M.links[a].next = NULL <=> a = M.tail
              /\ M.links[a].prev = NULL <=> a = M.head
  BY <1>4, <1>5, <1>6, <1>9, <1>10, <1>11 DEF h, prev, next
<1>13. ASSUME NEW a \in ids, NEW b \in ids
       PROVE  M.links[a].next = b <=> Adjacent(Q, ids, a, b)
  BY <1>4, <1>5, <1>6, <1>8, <1>9, <1>10, <1>11 DEF h, prev, next
<1>14. ASSUME NEW a \in ids, NEW b \in ids
       PROVE  M.links[b].prev = a <=> Adjacent(Q, ids, a, b)
  BY <1>4, <1>5, <1>6, <1>8, <1>9, <1>10, <1>11 DEF h, prev, next
<1> QED
  BY <1>7, <1>12, <1>13, <1>14 DEF LinksFollow, Q

(* move_to_tail does the same at the other end. *)
LEMMA TailKeepsChain ==
    ASSUME NEW ids, NULL \notin ids, NEW R, StrictOrder(R, ids), NEW L,
           EndsFollow(L, R, ids), LinksFollow(L, R, ids),
           DOMAIN L.links = ids, NEW c \in ids, c # L.tail,
           NEW M, MovesToTail(L, M, c)
    PROVE  /\ EndsFollow(M, Oldest(R, ids, c), ids)
           /\ LinksFollow(M, Oldest(R, ids, c), ids)
<1> DEFINE Q == Oldest(R, ids, c)
           t == L.tail
           prev == L.links[c].prev
           next == L.links[c].next
<1>1. StrictOrder(Q, ids)
  BY OldestIsOrder
<1>2. /\ Q \subseteq ids \X ids
      /\ \A a, b \in ids : <<a, b>> \in Q <=>
            (a # c /\ b # c /\ <<a, b>> \in R) \/ (b = c /\ a # c)
  <2>1. R \subseteq ids \X ids
    BY DEF StrictOrder
  <2> QED BY <2>1, OldestPairs
<1> HIDE DEF Q
<1>4. /\ L.head \in ids /\ \A a \in ids \ {L.head} : <<L.head, a>> \in R
      /\ t \in ids /\ \A a \in ids \ {t} : <<a, t>> \in R
  BY DEF EndsFollow
<1>5. next \in ids /\ Adjacent(R, ids, c, next)
  BY DEF LinksFollow
<1>6. M.tail = c /\ M.head = IF c = L.head THEN next ELSE L.head
  BY DEF MovesToTail
<1>7. EndsFollow(M, Q, ids)
  <2>1. M.tail \in ids /\ \A a \in ids \ {M.tail} : <<a, M.tail>> \in Q
    BY <1>2, <1>6
  <2>2. CASE c = L.head
    <3>1. next # c
      BY <1>5 DEF Adjacent, StrictOrder
    <3>2. ASSUME NEW a \in ids \ {next}
          PROVE  <<next, a>> \in Q
      <4>1. CASE a = c
        BY <4>1, <3>1, <1>2, <1>5
      <4>2. CASE a # c
        <5>1. <<c, a>> \in R
          BY <4>2, <2>2, <1>4
        <5>2. <<next, a>> \in R
          BY <5>1, <1>5 DEF Adjacent, StrictOrder
        <5> QED BY <5>2, <4>2, <3>1, <1>2, <1>5
      <4> QED BY <4>1, <4>2
    <3> QED BY <1>5, <1>6, <2>1, <2>2, <3>2 DEF EndsFollow
  <2>3. CASE c # L.head
    <3>1. \A a \in ids \ {L.head} : <<L.head, a>> \in Q
      BY <1>2, <1>4, <2>3
    <3> QED BY <1>4, <1>6, <2>1, <2>3, <3>1 DEF EndsFollow
  <2> QED BY <2>2, <2>3
<1>8. ASSUME NEW a \in ids, NEW b \in ids
      PROVE  Adjacent(Q, ids, a, b) <=>
                \/ b = c /\ a = t
                \/ a # c /\ b # c /\ Adjacent(R, ids, a, b)
                \/ a # c /\ b # c /\ Adjacent(R, ids, a, c) /\ Adjacent(R, ids, c, b)
  <2>1. CASE b = c
    BY <2>1, <1>2, <1>4 DEF Adjacent, StrictOrder
  <2>2. CASE b # c
    <3>1. CASE a = c
      BY <2>2, <3>1, <1>2 DEF Adjacent
    <3>2. CASE a # c
      BY <2>2, <3>2, <1>2 DEF Adjacent, StrictOrder
    <3> QED BY <3>1, <3>2
  <2> QED BY <2>1, <2>2
<1>9. \A i \in ids :
         /\ L.links[i].next \in ids \cup {NULL}
         /\ L.links[i].prev \in ids \cup {NULL}
         /\ L.links[i].next = NULL <=> i = L.tail
         /\ L.links[i].prev = NULL <=> i = L.head
  BY DEF LinksFollow
<1>10. \A a, b \in ids :
          /\ L.links[a].next = b <=> Adjacent(R, ids, a, b)
          /\ L.links[b].prev = a <=> Adjacent(R, ids, a, b)
  BY DEF LinksFollow
<1>11. \A i \in ids :
          /\ M.links[i].prev = IF i = c THEN t
                               ELSE IF i = next THEN prev
                               ELSE L.links[i].prev
          /\ M.links[i].next = IF i = c THEN NULL
                               ELSE IF i = t THEN c
                               ELSE IF i = prev THEN next
                               ELSE L.links[i].next
  BY DEF MovesToTail
<1> HIDE DEF t, prev, next
<1>12. ASSUME NEW a \in ids
       PROVE  /\ M.links[a].next \in ids \cup {NULL}
              /\ M.links[a].prev \in ids \cup {NULL}
              /\ M.links[a].next = NULL <=> a = M.tail
              /\ M.links[a].prev = NULL <=> a = M.head
  BY <1>4, <1>5, <1>6, <1>9, <1>10, <1>11 DEF t, prev, next
<1>13. ASSUME NEW a \in ids, NEW b \in ids
       PROVE  M.links[a].next = b <=> Adjacent(Q, ids, a, b)
  BY <1>4, <1>5, <1>6, <1>8, <1>9, <1>10, <1>11 DEF t, prev, next
<1>14. ASSUME NEW a \in ids, NEW b \in ids
       PROVE  M.links[b].prev = a <=> Adjacent(Q, ids, a, b)
  BY <1>4, <1>5, <1>6, <1>8, <1>9, <1>10, <1>11 DEF t, prev, next
<1> QED
  BY <1>7, <1>12, <1>13, <1>14 DEF LinksFollow, Q

(* A well formed list of n links: link i belongs to chunk i, and the links *)
(* are chained in the order R.                                             *)
Chained(L, R, n) ==
    /\ L \in List
    /\ DOMAIN L.links = 1..n
    /\ \A i \in 1..n : L.links[i].chunk_id = i
    /\ StrictOrder(R, 1..n)
    /\ EndsFollow(L, R, 1..n)
    /\ LinksFollow(L, R, 1..n)

(* In a well formed list the link of chunk c has the id c. *)
LEMMA LinkOfChunk ==
    ASSUME NEW n \in Nat, NEW L, NEW R, Chained(L, R, n), NEW c \in 1..n
    PROVE  LinksOf(L, c) = {c}
  BY DEF Chained, LinksOf

(* Making the first chunk the newest, or the last one the oldest, leaves   *)
(* the order alone.                                                        *)
LEMMA EndsStay ==
    ASSUME NEW ids, NEW R, StrictOrder(R, ids), NEW c \in ids
    PROVE  /\ (\A a \in ids \ {c} : <<c, a>> \in R) => Newest(R, ids, c) = R
           /\ (\A a \in ids \ {c} : <<a, c>> \in R) => Oldest(R, ids, c) = R
<1>1. /\ R \subseteq ids \X ids
      /\ \A a \in ids : <<a, a>> \notin R
      /\ \A a, b \in ids : <<a, b>> \in R => <<b, a>> \notin R
  BY DEF StrictOrder
<1>2. ASSUME \A a \in ids \ {c} : <<c, a>> \in R
      PROVE  Newest(R, ids, c) = R
  <2> DEFINE Q == Newest(R, ids, c)
  <2>1. /\ Q \subseteq ids \X ids
        /\ \A a, b \in ids : <<a, b>> \in Q <=>
              (a # c /\ b # c /\ <<a, b>> \in R) \/ (a = c /\ b # c)
    BY <1>1, NewestPairs
  <2> HIDE DEF Q
  <2>2. \A a, b \in ids : <<a, b>> \in Q <=> <<a, b>> \in R
    BY <1>1, <1>2, <2>1
  <2>3. \A p \in ids \X ids : p \in Q <=> p \in R
    BY <2>2
  <2>4. Q = R
    BY <1>1, <2>1, <2>3
  <2> QED BY <2>4 DEF Q
<1>3. ASSUME \A a \in ids \ {c} : <<a, c>> \in R
      PROVE  Oldest(R, ids, c) = R
  <2> DEFINE Q == Oldest(R, ids, c)
  <2>1. /\ Q \subseteq ids \X ids
        /\ \A a, b \in ids : <<a, b>> \in Q <=>
              (a # c /\ b # c /\ <<a, b>> \in R) \/ (b = c /\ a # c)
    BY <1>1, OldestPairs
  <2> HIDE DEF Q
  <2>2. \A a, b \in ids : <<a, b>> \in Q <=> <<a, b>> \in R
    BY <1>1, <1>3, <2>1
  <2>3. \A p \in ids \X ids : p \in Q <=> p \in R
    BY <2>2
  <2>4. Q = R
    BY <1>1, <2>1, <2>3
  <2> QED BY <2>4 DEF Q
<1> QED BY <1>2, <1>3

(* move_to_head(c) of a well formed list. *)
LEMMA MoveToHeadChained ==
    ASSUME NEW n \in Nat, NEW L, NEW R, Chained(L, R, n), NEW c \in 1..n
    PROVE  Chained(MoveToHead(L, c), Newest(R, 1..n, c), n)
<1>1. LinksOf(L, c) = {c}
  BY LinkOfChunk
<1>2. MoveToHead(L, c) = IF c = L.head THEN L ELSE MoveToHeadSteps(L, c)[5]
  BY <1>1 DEF MoveToHead
<1>3. CASE c = L.head
  <2>1. Newest(R, 1..n, c) = R
    <3>1. \A a \in 1..n \ {c} : <<c, a>> \in R
      BY <1>3 DEF Chained, EndsFollow
    <3> QED BY <3>1, EndsStay DEF Chained
  <2> QED BY <1>2, <1>3, <2>1
<1>4. CASE c # L.head
  <2> DEFINE M == MoveToHeadSteps(L, c)[5]
  <2>1. MovesToHead(L, M, c)
    BY MoveToHeadWrites DEF Chained
  <2>2. NULL \notin 1..n
    BY DEF NULL
  <2> HIDE DEF M
  <2>3. /\ EndsFollow(M, Newest(R, 1..n, c), 1..n)
        /\ LinksFollow(M, Newest(R, 1..n, c), 1..n)
    BY <1>4, <2>1, <2>2, HeadKeepsChain DEF Chained
  <2>4. StrictOrder(Newest(R, 1..n, c), 1..n)
    BY NewestIsOrder DEF Chained
  <2>5. M \in List /\ DOMAIN M.links = 1..n /\ \A i \in 1..n : M.links[i].chunk_id = i
    BY <2>1 DEF MovesToHead, Chained
  <2> QED BY <1>2, <1>4, <2>3, <2>4, <2>5 DEF Chained, M
<1> QED BY <1>3, <1>4

(* move_to_tail(c) of a well formed list. *)
LEMMA MoveToTailChained ==
    ASSUME NEW n \in Nat, NEW L, NEW R, Chained(L, R, n), NEW c \in 1..n
    PROVE  Chained(MoveToTail(L, c), Oldest(R, 1..n, c), n)
<1>1. LinksOf(L, c) = {c}
  BY LinkOfChunk
<1>2. MoveToTail(L, c) = IF c = L.tail THEN L ELSE MoveToTailSteps(L, c)[5]
  BY <1>1 DEF MoveToTail
<1>3. CASE c = L.tail
  <2>1. Oldest(R, 1..n, c) = R
    <3>1. \A a \in 1..n \ {c} : <<a, c>> \in R
      BY <1>3 DEF Chained, EndsFollow
    <3> QED BY <3>1, EndsStay DEF Chained
  <2> QED BY <1>2, <1>3, <2>1
<1>4. CASE c # L.tail
  <2> DEFINE M == MoveToTailSteps(L, c)[5]
  <2>1. MovesToTail(L, M, c)
    BY MoveToTailWrites DEF Chained
  <2>2. NULL \notin 1..n
    BY DEF NULL
  <2> HIDE DEF M
  <2>3. /\ EndsFollow(M, Oldest(R, 1..n, c), 1..n)
        /\ LinksFollow(M, Oldest(R, 1..n, c), 1..n)
    BY <1>4, <2>1, <2>2, TailKeepsChain DEF Chained
  <2>4. StrictOrder(Oldest(R, 1..n, c), 1..n)
    BY OldestIsOrder DEF Chained
  <2>5. M \in List /\ DOMAIN M.links = 1..n /\ \A i \in 1..n : M.links[i].chunk_id = i
    BY <2>1 DEF MovesToTail, Chained
  <2> QED BY <1>2, <1>4, <2>3, <2>4, <2>5 DEF Chained, M
<1> QED BY <1>3, <1>4

(* A link that joins a chain which is not empty, and is then moved to the  *)
(* head, comes before all the others.                                      *)
LEMMA JoinKeepsChain ==
    ASSUME NEW old, NEW c, c \notin old, old # {}, NULL \notin old, c # NULL,
           NEW R, StrictOrder(R, old), NEW L, EndsFollow(L, R, old), LinksFollow(L, R, old),
           NEW A, DOMAIN A.links = old \cup {c}, A.head = L.head, A.tail = L.tail,
           \A i \in old : A.links[i].prev = L.links[i].prev /\ A.links[i].next = L.links[i].next,
           A.links[c].prev = NULL, A.links[c].next = NULL,
           NEW M, MovesToHead(A, M, c)
    PROVE  /\ StrictOrder(Newest(R, old, c), old \cup {c})
           /\ EndsFollow(M, Newest(R, old, c), old \cup {c})
           /\ LinksFollow(M, Newest(R, old, c), old \cup {c})
<1> DEFINE Q == Newest(R, old, c)
           ids == old \cup {c}
           h == L.head
<1>1. /\ R \subseteq old \X old
      /\ \A a \in old : <<a, a>> \notin R
      /\ \A a, b \in old : a # b => <<a, b>> \in R \/ <<b, a>> \in R
      /\ \A a, b, d \in old : <<a, b>> \in R /\ <<b, d>> \in R => <<a, d>> \in R
  BY DEF StrictOrder
<1>2. /\ Q \subseteq ids \X ids
      /\ \A a, b \in ids : <<a, b>> \in Q <=>
            (a # c /\ b # c /\ <<a, b>> \in R) \/ (a = c /\ b # c)
  BY <1>1 DEF Newest, Without
<1> HIDE DEF Q
<1>3. StrictOrder(Q, ids)
  <2>1. \A a \in ids : <<a, a>> \notin Q
    BY <1>1, <1>2
  <2>2. \A a, b \in ids : a # b => <<a, b>> \in Q \/ <<b, a>> \in Q
    BY <1>1, <1>2
  <2>3. \A a, b, d \in ids : <<a, b>> \in Q /\ <<b, d>> \in Q => <<a, d>> \in Q
    BY <1>1, <1>2
  <2> QED BY <1>2, <2>1, <2>2, <2>3 DEF StrictOrder
<1>4. /\ h \in old /\ \A a \in old \ {h} : <<h, a>> \in R
      /\ L.tail \in old /\ \A a \in old \ {L.tail} : <<a, L.tail>> \in R
  BY DEF EndsFollow
<1>5. M.head = c /\ M.tail = L.tail
  BY <1>4 DEF MovesToHead
<1>6. EndsFollow(M, Q, ids)
  BY <1>2, <1>4, <1>5 DEF EndsFollow
<1>7. ASSUME NEW a \in ids, NEW b \in ids
      PROVE  Adjacent(Q, ids, a, b) <=>
                \/ a = c /\ b = h
                \/ a # c /\ b # c /\ Adjacent(R, old, a, b)
  <2>1. CASE a = c
    BY <2>1, <1>1, <1>2, <1>4 DEF Adjacent
  <2>2. CASE a # c
    BY <2>2, <1>2 DEF Adjacent
  <2> QED BY <2>1, <2>2
<1>8. \A i \in old :
         /\ L.links[i].next \in old \cup {NULL}
         /\ L.links[i].prev \in old \cup {NULL}
         /\ L.links[i].next = NULL <=> i = L.tail
         /\ L.links[i].prev = NULL <=> i = h
  BY DEF LinksFollow
<1>9. \A a, b \in old :
         /\ L.links[a].next = b <=> Adjacent(R, old, a, b)
         /\ L.links[b].prev = a <=> Adjacent(R, old, a, b)
  BY DEF LinksFollow
<1>10. \A i \in ids :
          /\ M.links[i].prev = IF i = c THEN NULL
                               ELSE IF i = h THEN c
                               ELSE L.links[i].prev
          /\ M.links[i].next = IF i = c THEN h ELSE L.links[i].next
  BY <1>4 DEF MovesToHead
<1> HIDE DEF h
<1>11. ASSUME NEW a \in ids
       PROVE  /\ M.links[a].next \in ids \cup {NULL}
              /\ M.links[a].prev \in ids \cup {NULL}
              /\ M.links[a].next = NULL <=> a = M.tail
              /\ M.links[a].prev = NULL <=> a = M.head
  BY <1>4, <1>5, <1>8, <1>10
<1>12. ASSUME NEW a \in ids, NEW b \in ids
       PROVE  M.links[a].next = b <=> Adjacent(Q, ids, a, b)
  <2>1. CASE a = c
    BY <2>1, <1>4, <1>7, <1>10
  <2>2. CASE a # c /\ b = c
    <3>1. ~Adjacent(Q, ids, a, b)
      BY <2>2, <1>7
    <3>2. M.links[a].next \in old \cup {NULL}
      BY <2>2, <1>8, <1>10
    <3> QED BY <2>2, <3>1, <3>2
  <2>3. CASE a # c /\ b # c
    <3>1. a \in old /\ b \in old
      BY <2>3
    <3>2. Adjacent(Q, ids, a, b) <=> Adjacent(R, old, a, b)
      BY <2>3, <1>7
    <3>3. M.links[a].next = L.links[a].next
      BY <2>3, <1>10
    <3> QED BY <3>1, <3>2, <3>3, <1>9
  <2> QED BY <2>1, <2>2, <2>3
<1>13. ASSUME NEW a \in ids, NEW b \in ids
       PROVE  M.links[b].prev = a <=> Adjacent(Q, ids, a, b)
  <2>1. CASE b = c
    BY <2>1, <1>4, <1>7, <1>10
  <2>2. CASE b = h
    <3>1. ~Adjacent(R, old, a, h) \/ a \notin old
      BY <1>8, <1>9, <1>4
    <3> QED BY <2>2, <3>1, <1>4, <1>7, <1>10
  <2>3. CASE b # c /\ b # h
    <3>1. b \in old /\ M.links[b].prev = L.links[b].prev /\ L.links[b].prev \in old
      BY <2>3, <1>8, <1>10
    <3>2. Adjacent(Q, ids, a, b) <=> a # c /\ Adjacent(R, old, a, b)
      BY <2>3, <1>7
    <3> QED BY <3>1, <3>2, <1>9
  <2> QED BY <2>1, <2>2, <2>3
<1> QED
  BY <1>3, <1>6, <1>11, <1>12, <1>13 DEF LinksFollow, Q

(* What insert does to the list when it appends a row. *)
LEMMA AppendChained ==
    ASSUME NEW n \in Nat, NEW L, NEW R, Chained(L, R, n)
    PROVE  Chained(MoveToHead(StartList(AppendLink(L, n + 1), n + 1), n + 1),
                   Newest(R, 1..n, n + 1), n + 1)
<1> DEFINE c == n + 1
           row == [chunk_id |-> c, prev |-> NULL, next |-> NULL]
           A == AppendLink(L, c)
           S == StartList(A, c)
<1>1. /\ L.links \in Seq(Link) /\ Len(L.links) = n
      /\ \A i \in 1..n : L.links[i].chunk_id = i
  BY DEF Chained, List
<1>2. row \in Link
  BY DEF Link, NULL
<1>3. /\ A.links = Append(L.links, row) /\ A.head = L.head /\ A.tail = L.tail
      /\ A \in List
  <2>1. L \in List
    BY DEF Chained
  <2>2. A = [L EXCEPT !.links = Append(L.links, row)]
    BY DEF AppendLink
  <2>3. A.links = Append(L.links, row) /\ A.head = L.head /\ A.tail = L.tail
    BY <2>1, <2>2 DEF List
  <2>4. Append(L.links, row) \in Seq(Link)
    BY <1>1, <1>2
  <2> QED BY <2>1, <2>2, <2>3, <2>4 DEF List
<1>4. /\ DOMAIN A.links = 1..c
      /\ \A i \in 1..n : A.links[i] = L.links[i]
      /\ A.links[c] = row
  BY <1>1, <1>2, <1>3
<1>5. S \in List /\ S.links = A.links
  <2>1. c \in Nat
    OBVIOUS
  <2> HIDE DEF A, c
  <2> QED BY <1>3, <2>1 DEF StartList, SetEnds, List
<1>6. LinksOf(S, c) = {c}
  BY <1>1, <1>4, <1>5 DEF LinksOf
<1>7. 1..c = 1..n \cup {c} /\ c \notin 1..n /\ NULL \notin 1..n /\ c # NULL
  BY DEF NULL
<1> HIDE DEF A, S
<1>8. MoveToHead(S, c) = IF c = S.head THEN S ELSE MoveToHeadSteps(S, c)[5]
  BY <1>6 DEF MoveToHead
<1>9. CASE n = 0
  <2>1. L.head = NULL /\ L.tail = NULL /\ R = {}
    BY <1>9 DEF Chained, EndsFollow, StrictOrder
  <2>2. S.head = c /\ S.tail = c
    BY <1>3, <2>1 DEF S, StartList, SetEnds, List
  <2>3. Newest(R, 1..n, c) = {}
    BY <1>9, <2>1 DEF Newest, Without
  <2>4. S.links[c] = row /\ c = 1
    BY <1>4, <1>5, <1>9
  <2>5. StrictOrder({}, 1..1) /\ EndsFollow(S, {}, 1..1) /\ LinksFollow(S, {}, 1..1)
    BY <2>2, <2>4 DEF StrictOrder, EndsFollow, LinksFollow, Adjacent, NULL
  <2>6. MoveToHead(S, c) = S /\ DOMAIN S.links = 1..1 /\ S.links[1].chunk_id = 1
    BY <1>4, <1>5, <1>8, <2>2, <2>4
  <2>7. Chained(S, {}, 1)
    BY <1>5, <2>5, <2>6 DEF Chained
  <2>8. n + 1 = 1 /\ 1..n = {} /\ S = StartList(AppendLink(L, n + 1), n + 1)
    BY <1>9 DEF S, A
  <2> HIDE DEF c
  <2> QED BY <2>3, <2>4, <2>6, <2>7, <2>8 DEF c
<1>10. CASE n # 0
  <2> DEFINE M == MoveToHeadSteps(A, c)[5]
  <2>1. L.head \in 1..n /\ L.tail \in 1..n
    BY <1>10 DEF Chained, EndsFollow
  <2>2. S = A /\ c # A.head
    BY <1>3, <1>7, <2>1 DEF S, StartList
  <2>3. MovesToHead(A, M, c)
    BY <1>3, <1>4, MoveToHeadWrites
  <2> HIDE DEF M
  <2>4. /\ \A i \in 1..n : A.links[i].prev = L.links[i].prev /\ A.links[i].next = L.links[i].next
        /\ A.links[c].prev = NULL /\ A.links[c].next = NULL
        /\ DOMAIN A.links = 1..n \cup {c}
    BY <1>4, <1>7
  <2>5. 1..n # {}
    BY <1>10
  <2>6. StrictOrder(R, 1..n) /\ EndsFollow(L, R, 1..n) /\ LinksFollow(L, R, 1..n)
    BY DEF Chained
  <2> HIDE DEF c
  <2>7. /\ StrictOrder(Newest(R, 1..n, c), 1..n \cup {c})
        /\ EndsFollow(M, Newest(R, 1..n, c), 1..n \cup {c})
        /\ LinksFollow(M, Newest(R, 1..n, c), 1..n \cup {c})
    BY <1>3, <1>7, <2>3, <2>4, <2>5, <2>6, JoinKeepsChain
  <2>8. M \in List /\ DOMAIN M.links = 1..c /\ \A i \in 1..c : M.links[i].chunk_id = i
    BY <1>1, <1>4, <1>7, <2>3 DEF MovesToHead
  <2>9. MoveToHead(S, c) = M
    BY <1>8, <2>2 DEF M
  <2>10. Chained(M, Newest(R, 1..n, c), c)
    BY <1>7, <2>7, <2>8 DEF Chained
  <2>11. S = StartList(AppendLink(L, n + 1), n + 1)
    BY DEF S, A, c
  <2> QED BY <2>9, <2>10, <2>11 DEF c
<1> QED BY <1>9, <1>10

-----------------------------------------------------------------------------
(* The walks of the audit.  A walk is a function of the number of steps    *)
(* taken, defined from its previous value; such a function exists.         *)
IsWalk(f, n, start, succ, S) ==
    f = [i \in 0..n |-> IF i = 0 THEN start
                        ELSE IF f[i - 1] \in S THEN succ[f[i - 1]] ELSE NULL]

LEMMA WalkExists ==
    ASSUME NEW n \in Nat, NEW start, NEW succ, NEW S
    PROVE  \E f : IsWalk(f, n, start, succ, S)
<1> USE DEF IsWalk
<1> DEFINE Then(a) == IF a \in S THEN succ[a] ELSE NULL
           Value(f, i) == IF i = 0 THEN start ELSE Then(f[i - 1])
           T == {m \in 0..n : ~ \E f : f = [i \in 0..m |-> Value(f, i)]}
<1> SUFFICES T = {}
  <2> HIDE DEF Value
  <2>1. T = {} => \E f : f = [i \in 0..n |-> Value(f, i)]
    OBVIOUS
  <2> QED BY <2>1 DEF Value, Then
<1> SUFFICES ASSUME T # {} PROVE FALSE
  OBVIOUS
<1> HIDE DEF Then
<1>1. T \subseteq 0..n
  <2> HIDE DEF Value
  <2> QED BY Zenon
<1>2. T \subseteq Nat
  <2> HIDE DEF T
  <2> QED BY <1>1
<1> HIDE DEF T
<1>3. PICK m \in T : \A k \in T : m <= k
  BY LeastOf, <1>2
<1>4. m \in 0..n /\ m \in Nat
  BY <1>1, <1>2
<1>5. m # 0
  <2> SUFFICES ASSUME m = 0 PROVE FALSE
    OBVIOUS
  <2> DEFINE f == [i \in 0..0 |-> start]
  <2>1. f = [i \in 0..0 |-> Value(f, i)]
    OBVIOUS
  <2> HIDE DEF f
  <2> QED BY <2>1, <1>3 DEF T
<1>6. m - 1 \in 0..n /\ m - 1 \notin T
  <2>1. m - 1 \in 0..n /\ ~(m <= m - 1)
    BY <1>4, <1>5
  <2> QED BY <1>3, <2>1
<1>7. PICK g : g = [i \in 0..(m - 1) |-> Value(g, i)]
  BY <1>6 DEF T
<1> DEFINE f == [i \in 0..m |-> IF i = m THEN Then(g[m - 1]) ELSE g[i]]
<1>8. \A i \in 0..m : f[i] = Value(f, i)
  <2> SUFFICES ASSUME NEW i \in 0..m PROVE f[i] = Value(f, i)
    OBVIOUS
  <2>1. CASE i = m
    <3>1. f[m] = Then(g[m - 1]) /\ f[m - 1] = g[m - 1]
      BY <1>4, <1>5
    <3> QED BY <1>5, <2>1, <3>1
  <2>2. CASE i # m
    <3>1. i \in 0..(m - 1)
      BY <1>4, <2>2
    <3>2. f[i] = g[i] /\ g[i] = Value(g, i)
      BY <1>7, <2>2, <3>1
    <3>3. CASE i = 0
      BY <3>2, <3>3
    <3>4. CASE i # 0
      <4>1. i - 1 \in 0..m /\ i - 1 # m
        BY <1>4, <3>1, <3>4
      <4>2. f[i - 1] = g[i - 1]
        BY <4>1
      <4> QED BY <3>2, <3>4, <4>2
    <3> QED BY <3>3, <3>4
  <2> QED BY <2>1, <2>2
<1>9. f = [i \in 0..m |-> Value(f, i)]
  <2>1. f = [i \in 0..m |-> f[i]]
    OBVIOUS
  <2> HIDE DEF f
  <2> QED BY <1>8, <2>1
<1> HIDE DEF f
<1> QED BY <1>3, <1>9 DEF T

(* The walk from the first element of a finite order to the next of each   *)
(* is at a after as many steps as there are elements before a.             *)
Before(R, ids, a) == {b \in ids : <<b, a>> \in R}

Starts(n, R, next, first, last) ==
    IF n = 0 THEN first = 0
    ELSE /\ first \in 1..n /\ \A a \in (1..n) \ {first} : <<first, a>> \in R
         /\ last \in 1..n /\ \A a \in (1..n) \ {last} : <<a, last>> \in R
         /\ next[last] = 0

Reaches(n, R, next, first) ==
    \A a \in (1..n) \ {first} : \E b \in 1..n : next[b] = a /\ Adjacent(R, 1..n, b, a)

Steps(n, next, first, walk) ==
    \A i \in 0..n : walk[i] = IF i = 0 THEN first
                              ELSE IF walk[i - 1] \in 1..n THEN next[walk[i - 1]] ELSE 0

LEMMA WalkFollows ==
    ASSUME NEW n \in Nat, NEW R, StrictOrder(R, 1..n),
           NEW next, NEW first, NEW last, NEW walk,
           Starts(n, R, next, first, last), Reaches(n, R, next, first), Steps(n, next, first, walk)
    PROVE  /\ walk[n] = 0
           /\ n > 0 => walk[n - 1] = last
           /\ \A id \in 1..n : \E i \in 0..(n - 1) : walk[i] = id
<1> USE DEF Starts, Reaches, Steps
<1> DEFINE ids == 1..n
           rank(a) == Cardinality(Before(R, ids, a))
<1>1. IsFiniteSet(ids) /\ Cardinality(ids) = n
  <2>1. Cardinality(1..n) = IF 1 > n THEN 0 ELSE n - 1 + 1
    BY FS_Interval
  <2> QED BY <2>1, FS_Interval
<1>2. \A a \in ids : IsFiniteSet(Before(R, ids, a)) /\ rank(a) \in 0..(n - 1)
  <2> SUFFICES ASSUME NEW a \in ids PROVE IsFiniteSet(Before(R, ids, a)) /\ rank(a) \in 0..(n - 1)
    OBVIOUS
  <2>1. Before(R, ids, a) \subseteq ids \ {a}
    BY DEF Before, StrictOrder
  <2>2. IsFiniteSet(ids \ {a}) /\ Cardinality(ids \ {a}) = n - 1
    BY <1>1, FS_RemoveElement
  <2> HIDE DEF ids
  <2>3. IsFiniteSet(Before(R, ids, a)) /\ Cardinality(Before(R, ids, a)) <= n - 1
    BY <2>1, <2>2, FS_Subset
  <2> QED BY <2>3, FS_CardinalityType
<1>3. \A a, b \in ids : Adjacent(R, ids, b, a) => rank(a) = rank(b) + 1
  <2> SUFFICES ASSUME NEW a \in ids, NEW b \in ids, Adjacent(R, ids, b, a) PROVE rank(a) = rank(b) + 1
    OBVIOUS
  <2>1. Before(R, ids, a) = Before(R, ids, b) \cup {b}
    <3>1. <<b, a>> \in R /\ \A c \in ids : ~(<<b, c>> \in R /\ <<c, a>> \in R)
      BY DEF Adjacent
    <3>2. /\ \A c \in ids : c # b => <<b, c>> \in R \/ <<c, b>> \in R
          /\ \A c \in ids : <<c, b>> \in R => <<c, a>> \in R
      BY <3>1 DEF StrictOrder
    <3> HIDE DEF ids
    <3>3. \A c \in ids : <<c, a>> \in R <=> <<c, b>> \in R \/ c = b
      BY <3>1, <3>2
    <3> QED BY <3>3 DEF Before
  <2>2. b \notin Before(R, ids, b)
    BY DEF Before, StrictOrder
  <2> QED BY <1>2, <2>1, <2>2, FS_AddElement
<1> HIDE DEF rank
<1>4. \A a \in ids : walk[rank(a)] = a
  <2> DEFINE T == {rank(a) : a \in {b \in ids : walk[rank(b)] # b}}
  <2> SUFFICES ASSUME T # {} PROVE FALSE
    OBVIOUS
  <2>1. T \subseteq Nat
    BY <1>2
  <2> HIDE DEF T
  <2>2. PICK r \in T : \A q \in T : r <= q
    BY <2>1, LeastOf
  <2>3. PICK a \in ids : r = rank(a) /\ walk[rank(a)] # a
    BY <2>2 DEF T
  <2>4. rank(a) \in 0..(n - 1) /\ n > 0
    BY <1>2
  <2>5. a # first
    <3> SUFFICES ASSUME a = first PROVE FALSE
      OBVIOUS
    <3>1. \A b \in ids : <<b, a>> \notin R
      <4> SUFFICES ASSUME NEW b \in ids, <<b, a>> \in R PROVE FALSE
        OBVIOUS
      <4>1. a # b => <<a, b>> \in R
        BY <2>4
      <4>2. <<a, a>> \in R
        BY <4>1 DEF StrictOrder
      <4> QED BY <4>2 DEF StrictOrder
    <3>2. Before(R, ids, a) = {}
      BY <3>1 DEF Before
    <3>3. rank(a) = 0
      BY <3>2, FS_EmptySet DEF rank
    <3> QED BY <2>3, <3>3
  <2>6. PICK b \in ids : next[b] = a /\ Adjacent(R, ids, b, a)
    BY <2>5
  <2>7. rank(a) = rank(b) + 1 /\ rank(b) \in 0..(n - 1)
    BY <1>2, <1>3, <2>6
  <2>8. walk[rank(b)] = b
    <3>1. ~(r <= rank(b))
      BY <2>3, <2>7
    <3>2. rank(b) \notin T
      BY <2>2, <3>1
    <3> QED BY <3>2 DEF T
  <2>9. rank(a) \in 0..n /\ rank(a) # 0 /\ rank(a) - 1 = rank(b)
    BY <2>4, <2>7
  <2>10. walk[rank(a)] = next[b]
    <3>1. walk[rank(a) - 1] = b /\ b \in 1..n
      BY <2>8, <2>9
    <3>2. walk[rank(a)] = IF walk[rank(a) - 1] \in 1..n THEN next[walk[rank(a) - 1]] ELSE 0
      BY <2>9
    <3> QED BY <3>1, <3>2
  <2> QED BY <2>3, <2>6, <2>10
<1>5. \A id \in ids : \E i \in 0..(n - 1) : walk[i] = id
  BY <1>2, <1>4
<1>6. CASE n = 0
  BY <1>6
<1>7. CASE n > 0
  <2>1. rank(last) = n - 1
    <3> last \in ids
      BY <1>7
    <3>1. Before(R, ids, last) = ids \ {last}
      BY <1>7 DEF Before, StrictOrder
    <3> HIDE DEF ids
    <3>2. Cardinality(ids \ {last}) = n - 1
      BY <1>1, FS_RemoveElement
    <3> QED BY <3>1, <3>2 DEF rank
  <2>2. walk[n - 1] = last
    BY <1>4, <1>7, <2>1
  <2>3. walk[n] = next[last]
    BY <1>7, <2>2
  <2> QED BY <1>5, <1>7, <2>2, <2>3
<1> QED BY <1>6, <1>7

LEMMA NextWalkIs ==
    ASSUME NEW L, Len(L.links) \in Nat, NEW i \in 0..Len(L.links)
    PROVE  NextWalk(L)[i] = IF i = 0 THEN L.head
                            ELSE IF NextWalk(L)[i - 1] \in DOMAIN L.links
                                 THEN [id \in DOMAIN L.links |-> L.links[id].next][NextWalk(L)[i - 1]]
                                 ELSE NULL
<1> DEFINE n == Len(L.links)
           S == DOMAIN L.links
           succ == [id \in S |-> L.links[id].next]
           Then(a) == IF a \in S THEN L.links[a].next ELSE NULL
           Is(f) == f = [j \in 0..n |-> IF j = 0 THEN L.head ELSE Then(f[j - 1])]
<1>1. PICK f : IsWalk(f, n, L.head, succ, S)
  <2>1. n \in Nat
    OBVIOUS
  <2> HIDE DEF n, S, succ
  <2> QED BY <2>1, WalkExists
<1>2. \A a : Then(a) = IF a \in S THEN succ[a] ELSE NULL
  OBVIOUS
<1>3. Is(f)
  <2> HIDE DEF Then, succ, S, n
  <2> QED BY <1>1, <1>2 DEF IsWalk
<1>4. Is(NextWalk(L))
  <2>1. NextWalk(L) = CHOOSE g : Is(g)
    BY DEF NextWalk
  <2> HIDE DEF Is
  <2> QED BY <1>3, <2>1
<1> HIDE DEF S, n
<1>5. NextWalk(L)[i] = IF i = 0 THEN L.head ELSE Then(NextWalk(L)[i - 1])
  <2> HIDE DEF Then
  <2> QED BY <1>4 DEF n
<1>6. Then(NextWalk(L)[i - 1]) = IF NextWalk(L)[i - 1] \in S THEN succ[NextWalk(L)[i - 1]] ELSE NULL
  BY <1>2
<1> HIDE DEF Then, succ
<1> QED BY <1>5, <1>6 DEF S, succ

LEMMA PrevWalkIs ==
    ASSUME NEW L, Len(L.links) \in Nat, NEW i \in 0..Len(L.links)
    PROVE  PrevWalk(L)[i] = IF i = 0 THEN L.tail
                            ELSE IF PrevWalk(L)[i - 1] \in DOMAIN L.links
                                 THEN [id \in DOMAIN L.links |-> L.links[id].prev][PrevWalk(L)[i - 1]]
                                 ELSE NULL
<1> DEFINE n == Len(L.links)
           S == DOMAIN L.links
           succ == [id \in S |-> L.links[id].prev]
           Then(a) == IF a \in S THEN L.links[a].prev ELSE NULL
           Is(f) == f = [j \in 0..n |-> IF j = 0 THEN L.tail ELSE Then(f[j - 1])]
<1>1. PICK f : IsWalk(f, n, L.tail, succ, S)
  <2>1. n \in Nat
    OBVIOUS
  <2> HIDE DEF n, S, succ
  <2> QED BY <2>1, WalkExists
<1>2. \A a : Then(a) = IF a \in S THEN succ[a] ELSE NULL
  OBVIOUS
<1>3. Is(f)
  <2> HIDE DEF Then, succ, S, n
  <2> QED BY <1>1, <1>2 DEF IsWalk
<1>4. Is(PrevWalk(L))
  <2>1. PrevWalk(L) = CHOOSE g : Is(g)
    BY DEF PrevWalk
  <2> HIDE DEF Is
  <2> QED BY <1>3, <2>1
<1> HIDE DEF S, n
<1>5. PrevWalk(L)[i] = IF i = 0 THEN L.tail ELSE Then(PrevWalk(L)[i - 1])
  <2> HIDE DEF Then
  <2> QED BY <1>4 DEF n
<1>6. Then(PrevWalk(L)[i - 1]) = IF PrevWalk(L)[i - 1] \in S THEN succ[PrevWalk(L)[i - 1]] ELSE NULL
  BY <1>2
<1> HIDE DEF Then, succ
<1> QED BY <1>5, <1>6 DEF S, succ

(* The list read backwards. *)
Backwards(R) == {<<p[2], p[1]>> : p \in R}

LEMMA BackwardsIsOrder ==
    ASSUME NEW ids, NEW R, StrictOrder(R, ids)
    PROVE  /\ StrictOrder(Backwards(R), ids)
           /\ \A a, b \in ids : <<a, b>> \in Backwards(R) <=> <<b, a>> \in R
<1> DEFINE Q == Backwards(R)
<1>1. Q \subseteq ids \X ids /\ \A a, b \in ids : <<a, b>> \in Q <=> <<b, a>> \in R
  BY DEF StrictOrder, Backwards
<1> HIDE DEF Q
<1>2. StrictOrder(Q, ids)
  BY <1>1 DEF StrictOrder
<1> QED BY <1>1, <1>2 DEF Q

-----------------------------------------------------------------------------
(* The inductive invariant.                                                *)

(* The tables grow together. *)
Tables ==
    /\ chunk_data \in Seq(Data)
    /\ chunks \in Seq(Row)
    /\ Len(chunk_data) = Len(chunks)
    /\ \A c \in DOMAIN chunks : chunks[c].data_id = c

Others ==
    /\ properties \in [Urls -> Props \cup {NoRow}]
    /\ tx \in Transaction \cup {NoTx}
    /\ reply \in Reply

Linked == Chained(list, newer, Len(chunks))

(* A crash finds the list as it was, with the recyclable rows at its end.  *)
Rollback ==
    tx # NoTx =>
        /\ tx.ids \subseteq RowsOf(tx.url)
        /\ Chained(tx.list, tx.newer, Len(chunks))
        /\ \A a, b \in DOMAIN chunks :
              chunks[b].url = Invalidated /\ chunks[a].url # Invalidated => <<a, b>> \in tx.newer

IInv ==
    /\ Tables
    /\ Others
    /\ Linked
    /\ OneRowPerKey
    /\ DoomedAreOldest
    /\ WithinMaxSize
    /\ Rollback

(* The conjuncts as the properties that the runs check. *)
LEMMA IInvImplies ==
    IInv => /\ TypeOK
            /\ IdsInLockstep
            /\ ListIsRecencyOrder
            /\ LookupReadsOwnData
<1> SUFFICES ASSUME IInv
             PROVE  TypeOK /\ IdsInLockstep /\ ListIsRecencyOrder /\ LookupReadsOwnData
  OBVIOUS
<1>1. Chained(list, newer, Len(chunks)) /\ Tables
  BY DEF IInv, Linked
<1>2. list \in List /\ list.links \in Seq(Link) /\ chunks \in Seq(Row) /\ Len(chunks) \in Nat
  BY <1>1 DEF Chained, List, Tables
<1>3. DOMAIN list.links = 1..Len(chunks) /\ Len(list.links) = Len(chunks)
  BY <1>1, <1>2 DEF Chained
<1>4. newer \in Recency
  <2>1. newer \subseteq (1..Len(chunks)) \X (1..Len(chunks))
    BY <1>1 DEF Chained, StrictOrder
  <2>2. 1..Len(chunks) \subseteq Nat
    BY <1>2
  <2> QED BY <2>1, <2>2 DEF Recency
<1>5. TypeOK
  BY <1>1, <1>2, <1>4 DEF IInv, Others, Tables, TypeOK
<1>6. IdsInLockstep
  BY <1>1, <1>2, <1>3 DEF IdsInLockstep, Chained, Tables
<1>7. ListIsRecencyOrder
  BY <1>1, <1>3 DEF ListIsRecencyOrder, Chained
<1>8. LookupReadsOwnData
  BY <1>1 DEF LookupReadsOwnData, JoinedRows, RowsAt, Tables
<1> QED BY <1>5, <1>6, <1>7, <1>8

LEMMA InitIInv == Init => IInv
<1> SUFFICES ASSUME Init PROVE IInv
  OBVIOUS
<1>1. /\ Len(chunks) = 0 /\ DOMAIN chunks = {} /\ chunks \in Seq(Row)
      /\ Len(chunk_data) = 0 /\ chunk_data \in Seq(Data)
  BY DEF Init
<1>2. Tables
  BY <1>1 DEF Tables
<1>3. Others
  <2> DEFINE key == CHOOSE k \in Urls \X Offsets : TRUE
  <2>1. PICK u \in Urls, o \in Offsets : TRUE
    BY SomeKey
  <2>1a. <<u, o>> \in Urls \X Offsets
    BY <2>1
  <2>2. key \in Urls \X Offsets
    BY <2>1a
  <2> HIDE DEF key
  <2>3. [key |-> key, data |-> Miss] \in Reply
    BY <2>2 DEF Reply
  <2>4. reply \in Reply
    BY <2>3 DEF Init, key
  <2> QED BY <2>4 DEF Init, Others
<1>4. Chained(EmptyList, {}, 0)
  BY DEF Chained, EmptyList, List, NULL, StrictOrder, EndsFollow, LinksFollow
<1>5. OneRowPerKey /\ DoomedAreOldest /\ WithinMaxSize /\ Rollback
  BY <1>1, MaxChunksIsNat DEF OneRowPerKey, RowsAt, DoomedAreOldest, WithinMaxSize, Rollback, Init
<1> QED
  BY <1>1, <1>2, <1>3, <1>4, <1>5 DEF IInv, Linked, Init

-----------------------------------------------------------------------------
(* An operation outside an invalidation that makes chunk c the most        *)
(* recently used one and may give its row another key, as get and insert   *)
(* do.  `used` says which rows hold the key (u, o) before.                 *)

Uses(c, u, o) ==
    /\ tx = NoTx /\ tx' = NoTx
    /\ c \in DOMAIN chunks
    /\ u \in Urls /\ o \in Offsets
    /\ RowsAt(u, o) \subseteq {c}
    /\ chunk_data' \in Seq(Data) /\ Len(chunk_data') = Len(chunk_data)
    /\ chunks' \in Seq(Row) /\ Len(chunks') = Len(chunks)
    /\ \A r \in DOMAIN chunks :
          /\ chunks'[r].url = IF r = c THEN u ELSE chunks[r].url
          /\ chunks'[r].offset = IF r = c THEN o ELSE chunks[r].offset
          /\ chunks'[r].data_id = chunks[r].data_id
    /\ list' = MoveToHead(list, c)
    /\ newer' = Newest(newer, DOMAIN chunks, c)
    /\ Others'

(* Such an operation keeps the invariant. *)
LEMMA UsesPreserves ==
    ASSUME IInv, NEW c, NEW u, NEW o, Uses(c, u, o)
    PROVE  IInv'
<1> DEFINE n == Len(chunks)
<1>1. /\ chunks \in Seq(Row) /\ n \in Nat /\ DOMAIN chunks = 1..n /\ c \in 1..n
      /\ chunks' \in Seq(Row) /\ Len(chunks') = n /\ DOMAIN chunks' = 1..n
  BY DEF IInv, Tables, Uses
<1>2. Tables'
  BY <1>1 DEF IInv, Tables, Uses
<1>3. Linked'
  <2>1. Chained(list, newer, n)
    BY DEF IInv, Linked
  <2>2. Chained(MoveToHead(list, c), Newest(newer, 1..n, c), n)
    BY <1>1, <2>1, MoveToHeadChained
  <2> QED BY <1>1, <2>2 DEF Linked, Uses
<1>4. OneRowPerKey'
  <2> SUFFICES ASSUME NEW v \in Urls, NEW p \in Offsets,
                      NEW d \in RowsAt(v, p)', NEW e \in RowsAt(v, p)'
               PROVE  d = e
    BY DEF OneRowPerKey
  <2>1. /\ d \in 1..n /\ chunks'[d].url = v /\ chunks'[d].offset = p
        /\ e \in 1..n /\ chunks'[e].url = v /\ chunks'[e].offset = p
    BY <1>1 DEF RowsAt
  <2>2. CASE d = c \/ e = c
    <3>1. u = v /\ o = p
      BY <1>1, <2>1, <2>2 DEF Uses
    <3>2. ASSUME NEW r \in 1..n, r # c, chunks'[r].url = u, chunks'[r].offset = o
          PROVE  FALSE
      <4>1. r \in RowsAt(u, o)
        BY <1>1, <3>2 DEF RowsAt, Uses
      <4> QED BY <3>2, <4>1 DEF Uses
    <3> QED BY <2>1, <2>2, <3>1, <3>2
  <2>3. CASE d # c /\ e # c
    <3>1. d \in RowsAt(v, p) /\ e \in RowsAt(v, p)
      BY <1>1, <2>1, <2>3 DEF RowsAt, Uses
    <3> QED BY <3>1 DEF IInv, OneRowPerKey
  <2> QED BY <2>2, <2>3
<1>5. DoomedAreOldest'
  <2> SUFFICES ASSUME NEW a \in 1..n, NEW b \in 1..n, Doomed(b)', ~Doomed(a)'
               PROVE  <<a, b>> \in newer'
    BY <1>1 DEF DoomedAreOldest
  <2>1. chunks'[b].url = Invalidated /\ chunks'[a].url # Invalidated
    BY DEF Doomed, Uses
  <2>2. b # c /\ chunks[b].url = Invalidated /\ a # b
    BY <1>1, <2>1, InvalidatedIsNoUrl DEF Uses
  <2>3. newer \subseteq (1..n) \X (1..n)
    BY DEF IInv, Linked, Chained, StrictOrder
  <2>4. a # c => <<a, b>> \in newer
    <3> SUFFICES ASSUME a # c PROVE <<a, b>> \in newer
      OBVIOUS
    <3>1. chunks[a].url # Invalidated
      BY <1>1, <2>1 DEF Uses
    <3>2. Doomed(b) /\ ~Doomed(a)
      BY <2>2, <3>1 DEF Doomed, Uses
    <3> QED BY <1>1, <3>2 DEF IInv, DoomedAreOldest
  <2>5. <<a, b>> \in Newest(newer, 1..n, c)
    BY <1>1, <2>2, <2>4 DEF Newest, Without
  <2> QED BY <1>1, <2>5 DEF Uses
<1>6. WithinMaxSize' /\ Rollback'
  BY <1>1 DEF IInv, WithinMaxSize, Rollback, Uses
<1> QED
  BY <1>2, <1>3, <1>4, <1>5, <1>6 DEF IInv, Uses

(* The steps that are such operations. *)
LEMMA InsertExistingPreserves ==
    ASSUME IInv, NEW u \in Urls, NEW o \in Offsets, NEW x \in Data, InsertExisting(u, o, x)
    PROVE  IInv'
<1>1. PICK c \in RowsAt(u, o) :
         /\ chunk_data' = [chunk_data EXCEPT ![chunks[c].data_id] = x]
         /\ list' = MoveToHead(list, c)
         /\ newer' = Newest(newer, DOMAIN chunks, c)
  BY DEF InsertExisting
<1>2. c \in DOMAIN chunks /\ chunks[c].url = u /\ chunks[c].offset = o
  BY DEF RowsAt
<1>3. RowsAt(u, o) \subseteq {c}
  BY DEF IInv, OneRowPerKey
<1>4. chunk_data' \in Seq(Data) /\ Len(chunk_data') = Len(chunk_data)
  BY <1>1, UpdateRow DEF IInv, Tables
<1>5. Uses(c, u, o)
  BY <1>1, <1>2, <1>3, <1>4 DEF Uses, InsertExisting, IInv, Others, Tables
<1> QED BY <1>5, UsesPreserves

LEMMA GetHitPreserves ==
    ASSUME IInv, NEW u \in Urls, NEW o \in Offsets, GetHit(u, o)
    PROVE  IInv'
<1>1. PICK c \in JoinedRows(u, o) :
         /\ reply' = [key |-> <<u, o>>, data |-> chunk_data[c]]
         /\ list' = MoveToHead(list, c)
         /\ newer' = Newest(newer, DOMAIN chunks, c)
  BY DEF GetHit
<1>2. /\ c \in DOMAIN chunks /\ c \in DOMAIN chunk_data
      /\ chunks[c].url = u /\ chunks[c].offset = o
  BY DEF JoinedRows, RowsAt
<1>3. RowsAt(u, o) \subseteq {c}
  BY DEF IInv, OneRowPerKey, JoinedRows
<1>4. reply' \in Reply
  <2>1. chunk_data[c] \in Data
    BY <1>2 DEF IInv, Tables
  <2> QED BY <1>1, <2>1 DEF Reply
<1>5. Others'
  BY <1>4 DEF GetHit, IInv, Others
<1>6. Uses(c, u, o)
  BY <1>1, <1>2, <1>3, <1>5 DEF Uses, GetHit, IInv, Tables
<1> QED BY <1>6, UsesPreserves

LEMMA ReuseRowPreserves ==
    ASSUME IInv, tx = NoTx, NEW c \in DOMAIN chunks,
           NEW u \in Urls, NEW o \in Offsets, NEW x \in Data,
           RowsAt(u, o) = {}, ReuseRow(c, u, o, x)
    PROVE  IInv'
<1> DEFINE row == [chunks[c] EXCEPT !.url = u, !.offset = o]
<1>1. chunks \in Seq(Row) /\ chunks[c] \in Row
  BY DEF IInv, Tables
<1>2. /\ row \in Row /\ row.url = u /\ row.offset = o
      /\ row.data_id = chunks[c].data_id
  BY <1>1 DEF Row
<1>3. chunks' = [chunks EXCEPT ![c] = row]
  BY <1>1 DEF ReuseRow, Row
<1> HIDE DEF row
<1>4. chunks' \in Seq(Row) /\ Len(chunks') = Len(chunks)
  BY <1>1, <1>2, <1>3, UpdateRow
<1>5. ASSUME NEW r \in DOMAIN chunks
      PROVE  /\ chunks'[r].url = IF r = c THEN u ELSE chunks[r].url
             /\ chunks'[r].offset = IF r = c THEN o ELSE chunks[r].offset
             /\ chunks'[r].data_id = chunks[r].data_id
  <2>1. chunks'[r] = IF r = c THEN row ELSE chunks[r]
    BY <1>1, <1>3
  <2> QED BY <2>1, <1>2
<1>6. chunk_data' \in Seq(Data) /\ Len(chunk_data') = Len(chunk_data)
  BY UpdateRow DEF IInv, Tables, ReuseRow
<1>7. Others'
  BY DEF ReuseRow, IInv, Others
<1>8. tx' = NoTx /\ list' = MoveToHead(list, c) /\ newer' = Newest(newer, DOMAIN chunks, c)
  BY DEF ReuseRow
<1>9. Uses(c, u, o)
  BY <1>4, <1>5, <1>6, <1>7, <1>8 DEF Uses
<1> QED BY <1>9, UsesPreserves

-----------------------------------------------------------------------------
(* The other steps.                                                        *)

(* The invariant is kept when no table and no transaction changes. *)
LEMMA GetMissPreserves ==
    ASSUME IInv, NEW u \in Urls, NEW o \in Offsets, GetMiss(u, o)
    PROVE  IInv'
<1>1. reply' \in Reply
  BY DEF GetMiss, Reply
<1>2. Others'
  BY <1>1 DEF GetMiss, IInv, Others
<1> QED
  BY <1>2 DEF GetMiss, IInv, Tables, Linked, OneRowPerKey, RowsAt, DoomedAreOldest, Doomed,
              WithinMaxSize, Rollback, RowsOf

LEMMA PropsInsertPreserves ==
    ASSUME IInv, NEW u \in Urls, NEW p \in Props, PropsInsert(u, p)
    PROVE  IInv'
<1>1. Others'
  BY DEF PropsInsert, IInv, Others
<1> QED
  BY <1>1 DEF PropsInsert, IInv, Tables, Linked, OneRowPerKey, RowsAt, DoomedAreOldest, Doomed,
              WithinMaxSize, Rollback, RowsOf

(* A row joins the tables: it is the only one for its key, and the newest. *)
LEMMA AppendRowPreserves ==
    ASSUME IInv, tx = NoTx, NEW u \in Urls, NEW o \in Offsets, NEW x \in Data,
           RowsAt(u, o) = {}, ~Saturated, AppendRow(u, o, x)
    PROVE  IInv'
<1> DEFINE n == Len(chunks)
           c == n + 1
<1>1. /\ chunks \in Seq(Row) /\ chunk_data \in Seq(Data)
      /\ n \in Nat /\ DOMAIN chunks = 1..n /\ Len(chunk_data) = n
      /\ \A r \in 1..n : chunks[r].data_id = r
  BY DEF IInv, Tables
<1>2. /\ chunk_data' = Append(chunk_data, x)
      /\ chunks' = Append(chunks, NewRow(u, o))
      /\ list' = MoveToHead(StartList(AppendLink(list, c), c), c)
      /\ newer' = Newest(newer, 1..n, c)
      /\ UNCHANGED <<properties, tx, reply>>
  BY <1>1 DEF AppendRow
<1>3. NewRow(u, o) \in Row /\ NewRow(u, o) = [url |-> u, offset |-> o, data_id |-> c]
  BY <1>1 DEF NewRow, Row
<1>4. /\ chunks' \in Seq(Row) /\ Len(chunks') = c /\ DOMAIN chunks' = 1..c
      /\ \A r \in 1..n : chunks'[r] = chunks[r]
      /\ chunks'[c] = [url |-> u, offset |-> o, data_id |-> c]
  BY <1>1, <1>2, <1>3
<1>5. 1..c = 1..n \cup {c} /\ c \notin 1..n
  BY <1>1
<1> HIDE DEF c
<1>6. Tables'
  <2>1. chunk_data' \in Seq(Data) /\ Len(chunk_data') = c
    BY <1>1, <1>2 DEF c
  <2> QED BY <1>1, <1>4, <1>5, <2>1 DEF Tables
<1>7. Linked'
  <2>1. Chained(list, newer, n)
    BY DEF IInv, Linked
  <2>2. Chained(list', newer', c)
    BY <1>1, <1>2, <2>1, AppendChained DEF c
  <2> QED BY <1>4, <2>2 DEF Linked
<1>8. OneRowPerKey'
  <2> SUFFICES ASSUME NEW v \in Urls, NEW p \in Offsets,
                      NEW d \in RowsAt(v, p)', NEW e \in RowsAt(v, p)'
               PROVE  d = e
    BY DEF OneRowPerKey
  <2>1. /\ d \in 1..c /\ chunks'[d].url = v /\ chunks'[d].offset = p
        /\ e \in 1..c /\ chunks'[e].url = v /\ chunks'[e].offset = p
    BY <1>4 DEF RowsAt
  <2>2. ASSUME NEW r \in 1..n, chunks'[r].url = u, chunks'[r].offset = o
        PROVE  FALSE
    BY <1>1, <1>4, <2>2 DEF RowsAt
  <2>3. CASE d = c \/ e = c
    BY <1>4, <1>5, <2>1, <2>2, <2>3
  <2>4. CASE d # c /\ e # c
    <3>1. d \in RowsAt(v, p) /\ e \in RowsAt(v, p)
      BY <1>1, <1>4, <1>5, <2>1, <2>4 DEF RowsAt
    <3> QED BY <3>1 DEF IInv, OneRowPerKey
  <2> QED BY <2>3, <2>4
<1>9. DoomedAreOldest'
  <2> SUFFICES ASSUME NEW a \in 1..c, NEW b \in 1..c, Doomed(b)', ~Doomed(a)'
               PROVE  <<a, b>> \in newer'
    BY <1>4 DEF DoomedAreOldest
  <2>1. chunks'[b].url = Invalidated /\ chunks'[a].url # Invalidated
    BY <1>2 DEF Doomed
  <2>2. b \in 1..n /\ chunks[b].url = Invalidated
    BY <1>4, <1>5, <2>1, InvalidatedIsNoUrl
  <2>3. CASE a = c
    BY <1>2, <1>5, <2>2, <2>3 DEF Newest
  <2>4. CASE a # c
    <3>1. a \in 1..n /\ chunks[a].url # Invalidated
      BY <1>4, <1>5, <2>1, <2>4
    <3>2. <<a, b>> \in newer
      BY <1>1, <2>2, <3>1 DEF IInv, DoomedAreOldest, Doomed
    <3> QED BY <1>2, <1>5, <2>2, <2>4, <3>2 DEF Newest, Without
  <2> QED BY <2>3, <2>4
<1>10. WithinMaxSize'
  BY <1>1, <1>4, MaxChunksIsNat DEF WithinMaxSize, Saturated, IInv, c
<1>11. Others' /\ Rollback'
  BY <1>2 DEF IInv, Others, Rollback
<1> QED
  BY <1>6, <1>7, <1>8, <1>9, <1>10, <1>11 DEF IInv

(* The start of an invalidation saves what holds before it. *)
LEMMA InvalidateBeginPreserves ==
    ASSUME IInv, NEW u \in Urls, NEW p \in Props, InvalidateBegin(u, p)
    PROVE  IInv'
<1> DEFINE t == [url |-> u, props |-> p, ids |-> RowsOf(u), list |-> list, newer |-> newer]
<1>1. tx = NoTx /\ tx' = t
  BY DEF InvalidateBegin
<1>2. UNCHANGED <<chunk_data, chunks, list, properties, reply, newer>>
  BY DEF InvalidateBegin
<1>3. TypeOK
  BY IInvImplies
<1>4. t \in Transaction
  <2>1. RowsOf(u) \in SUBSET Nat
    BY <1>3 DEF RowsOf, TypeOK
  <2> QED BY <1>3, <2>1 DEF Transaction, TypeOK
<1>5. Tables' /\ Linked' /\ OneRowPerKey' /\ WithinMaxSize'
  BY <1>2 DEF IInv, Tables, Linked, OneRowPerKey, RowsAt, WithinMaxSize
<1>6. Others'
  BY <1>1, <1>2, <1>4 DEF IInv, Others
<1>7. \A r \in DOMAIN chunks : Doomed(r)' <=> Doomed(r)
  BY <1>1, <1>2 DEF Doomed, RowsOf
<1>8. DoomedAreOldest'
  BY <1>2, <1>7 DEF IInv, DoomedAreOldest
<1>9. Rollback'
  <2>1. tx'.ids = RowsOf(u)' /\ tx'.url = u /\ tx'.list = list /\ tx'.newer = newer
    BY <1>1, <1>2 DEF RowsOf
  <2>2. RowsOf(tx.url)' = RowsOf(u)
    BY <1>2, <2>1 DEF RowsOf
  <2>3. Chained(list, newer, Len(chunks))
    BY DEF IInv, Linked
  <2>4. \A a, b \in DOMAIN chunks :
           chunks[b].url = Invalidated /\ chunks[a].url # Invalidated => <<a, b>> \in newer
    BY <1>1 DEF IInv, DoomedAreOldest, Doomed
  <2> QED BY <1>2, <2>1, <2>2, <2>3, <2>4 DEF Rollback, RowsOf
<1> QED
  BY <1>5, <1>6, <1>8, <1>9 DEF IInv

(* One chunk of the file joins the doomed ones, at the end of the list. *)
LEMMA InvalidateMovePreserves ==
    ASSUME IInv, NEW c \in DOMAIN chunks, InvalidateMove(c)
    PROVE  IInv'
<1> DEFINE n == Len(chunks)
           t == [tx EXCEPT !.ids = @ \ {c}]
<1>1. /\ tx # NoTx /\ c \in tx.ids /\ tx' = t
      /\ list' = MoveToTail(list, c) /\ newer' = Oldest(newer, DOMAIN chunks, c)
      /\ UNCHANGED <<chunk_data, chunks, properties, reply>>
  BY DEF InvalidateMove
<1>2. tx \in Transaction /\ c \in 1..n /\ DOMAIN chunks = 1..n /\ n \in Nat
  BY <1>1 DEF IInv, Others, Tables
<1>3. /\ t \in Transaction /\ t # NoTx
      /\ t.url = tx.url /\ t.ids = tx.ids \ {c} /\ t.list = tx.list /\ t.newer = tx.newer
  <2>1. t \in Transaction
    BY <1>2 DEF Transaction
  <2>2. t.url = tx.url /\ t.ids = tx.ids \ {c} /\ t.list = tx.list /\ t.newer = tx.newer
    BY <1>2 DEF Transaction
  <2> QED BY <2>1, <2>2, NoTxIsNoTransaction
<1> HIDE DEF t
<1>4. Tables' /\ OneRowPerKey' /\ WithinMaxSize'
  BY <1>1 DEF IInv, Tables, OneRowPerKey, RowsAt, WithinMaxSize
<1>5. Others'
  BY <1>1, <1>3 DEF IInv, Others
<1>6. Linked'
  <2>1. Chained(MoveToTail(list, c), Oldest(newer, 1..n, c), n)
    BY <1>2, MoveToTailChained DEF IInv, Linked
  <2> QED BY <1>1, <1>2, <2>1 DEF Linked
<1>7. tx.ids \subseteq RowsOf(tx.url)
  BY <1>1 DEF IInv, Rollback
<1>8. DoomedAreOldest'
  <2> SUFFICES ASSUME NEW a \in 1..n, NEW b \in 1..n, Doomed(b)', ~Doomed(a)'
               PROVE  <<a, b>> \in newer'
    BY <1>1, <1>2 DEF DoomedAreOldest
  <2>1. ASSUME NEW r \in 1..n
        PROVE  Doomed(r)' <=> Doomed(r) \/ r = c
    <3>1. chunks[c].url = tx.url
      BY <1>1, <1>7 DEF RowsOf
    <3> QED BY <1>1, <1>3, <3>1 DEF Doomed
  <2>2. a # c /\ ~Doomed(a)
    BY <2>1
  <2>3. CASE b = c
    BY <1>1, <1>2, <2>2, <2>3 DEF Oldest
  <2>4. CASE b # c
    <3>1. <<a, b>> \in newer
      BY <1>2, <2>1, <2>2, <2>4 DEF IInv, DoomedAreOldest
    <3> QED BY <1>1, <2>2, <2>4, <3>1 DEF Oldest, Without
  <2> QED BY <2>3, <2>4
<1>9. Rollback'
  <2>1. RowsOf(tx.url)' = RowsOf(tx.url)
    BY <1>1, <1>3 DEF RowsOf
  <2> QED BY <1>1, <1>3, <1>7, <2>1 DEF IInv, Rollback
<1> QED
  BY <1>4, <1>5, <1>6, <1>8, <1>9 DEF IInv

(* The doomed rows of the file become rows without a chunk. *)
LEMMA InvalidateCommitPreserves ==
    ASSUME IInv, InvalidateCommit
    PROVE  IInv'
<1> DEFINE n == Len(chunks)
           blank(r) == [r EXCEPT !.url = Invalidated, !.offset = NoOffset]
<1>1. /\ tx # NoTx /\ tx.ids = {} /\ tx' = NoTx
      /\ UNCHANGED <<chunk_data, list, reply, newer>>
      /\ properties' = [properties EXCEPT ![tx.url] = tx.props]
  BY DEF InvalidateCommit
<1>2. /\ tx \in Transaction /\ tx.props \in Props
      /\ chunks \in Seq(Row) /\ DOMAIN chunks = 1..n /\ n \in Nat
  BY <1>1 DEF IInv, Others, Tables, Transaction
<1>3. \A r \in Row : /\ blank(r) \in Row
                     /\ blank(r).url = Invalidated /\ blank(r).data_id = r.data_id
  BY DEF Row
<1>4. chunks' = [r \in 1..n |-> IF chunks[r].url = tx.url THEN blank(chunks[r]) ELSE chunks[r]]
  BY <1>2 DEF InvalidateCommit
<1> HIDE DEF blank
<1>5. /\ chunks' \in Seq(Row) /\ Len(chunks') = n /\ DOMAIN chunks' = 1..n
      /\ \A r \in 1..n : chunks'[r] = IF chunks[r].url = tx.url THEN blank(chunks[r]) ELSE chunks[r]
  <2>1. \A r \in 1..n : chunks[r] \in Row
    BY <1>2
  <2>2. chunks' \in [1..n -> Row]
    BY <1>3, <1>4, <2>1
  <2> QED BY <1>2, <1>4, <2>2
<1>6. \A r \in 1..n : chunks'[r].data_id = chunks[r].data_id
  <2>1. \A r \in 1..n : chunks[r] \in Row
    BY <1>2
  <2> QED BY <1>3, <1>5, <2>1
<1>7. \A r \in 1..n : Doomed(r)' <=> Doomed(r)
  <2>1. \A r \in 1..n : chunks[r] \in Row
    BY <1>2
  <2>2. \A r \in 1..n : chunks'[r].url = IF chunks[r].url = tx.url THEN Invalidated ELSE chunks[r].url
    BY <1>3, <1>5, <2>1
  <2> QED BY <1>1, <2>2 DEF Doomed
<1>8. Tables'
  BY <1>1, <1>2, <1>5, <1>6 DEF IInv, Tables
<1>9. Others'
  BY <1>1, <1>2 DEF IInv, Others
<1>10. Linked' /\ WithinMaxSize' /\ Rollback'
  BY <1>1, <1>5 DEF IInv, Linked, WithinMaxSize, Rollback
<1>11. OneRowPerKey'
  <2> SUFFICES ASSUME NEW v \in Urls, NEW p \in Offsets,
                      NEW d \in RowsAt(v, p)', NEW e \in RowsAt(v, p)'
               PROVE  d = e
    BY DEF OneRowPerKey
  <2>1. ASSUME NEW r \in RowsAt(v, p)'
        PROVE  r \in RowsAt(v, p)
    <3>1. r \in 1..n /\ chunks'[r].url = v /\ chunks'[r].offset = p /\ chunks[r] \in Row
      BY <1>2, <1>5 DEF RowsAt
    <3>2. chunks[r].url # tx.url
      BY <1>3, <1>5, <3>1, InvalidatedIsNoUrl
    <3> QED BY <1>2, <1>5, <3>1, <3>2 DEF RowsAt
  <2> QED BY <2>1 DEF IInv, OneRowPerKey
<1>12. DoomedAreOldest'
  BY <1>1, <1>2, <1>5, <1>7 DEF IInv, DoomedAreOldest
<1> QED
  BY <1>8, <1>9, <1>10, <1>11, <1>12 DEF IInv

(* A crash restores the list that was saved, and no table has changed. *)
LEMMA CrashPreserves ==
    ASSUME IInv, Crash
    PROVE  IInv'
<1>1. /\ tx # NoTx /\ tx' = NoTx /\ list' = tx.list /\ newer' = tx.newer
      /\ UNCHANGED <<chunk_data, chunks, properties, reply>>
  BY DEF Crash
<1>2. Chained(tx.list, tx.newer, Len(chunks))
  BY <1>1 DEF IInv, Rollback
<1>3. Tables' /\ Others' /\ OneRowPerKey' /\ WithinMaxSize' /\ Rollback'
  BY <1>1 DEF IInv, Tables, Others, OneRowPerKey, RowsAt, WithinMaxSize, Rollback
<1>4. Linked'
  BY <1>1, <1>2 DEF Linked
<1>5. DoomedAreOldest'
  BY <1>1 DEF IInv, Rollback, DoomedAreOldest, Doomed
<1> QED
  BY <1>3, <1>4, <1>5 DEF IInv

LEMMA ClearPreserves ==
    ASSUME IInv, Clear
    PROVE  IInv'
<1>1. /\ chunk_data' = <<>> /\ chunks' = <<>> /\ list' = EmptyList /\ newer' = {} /\ tx' = NoTx
      /\ properties' = [u \in Urls |-> NoRow] /\ reply' = reply
  BY DEF Clear
<1>2. /\ Len(chunks') = 0 /\ DOMAIN chunks' = {} /\ chunks' \in Seq(Row)
      /\ Len(chunk_data') = 0 /\ chunk_data' \in Seq(Data)
  BY <1>1
<1>3. Chained(EmptyList, {}, 0)
  BY DEF Chained, EmptyList, List, NULL, StrictOrder, EndsFollow, LinksFollow
<1>4. Tables' /\ Others' /\ Linked'
  BY <1>1, <1>2, <1>3 DEF IInv, Tables, Others, Linked
<1>5. OneRowPerKey' /\ DoomedAreOldest' /\ WithinMaxSize' /\ Rollback'
  BY <1>1, <1>2, MaxChunksIsNat DEF OneRowPerKey, RowsAt, DoomedAreOldest, WithinMaxSize, Rollback
<1> QED
  BY <1>4, <1>5 DEF IInv

-----------------------------------------------------------------------------
(* IInv is inductive. *)
LEMMA NextIInv == IInv /\ [Next]_vars => IInv'
<1> SUFFICES ASSUME IInv, [Next]_vars
             PROVE  IInv'
  OBVIOUS
<1>1. ASSUME NEW u \in Urls, NEW o \in Offsets, NEW x \in Data, Insert(u, o, x)
      PROVE  IInv'
  <2>1. CASE InsertExisting(u, o, x)
    BY <2>1, InsertExistingPreserves
  <2>2. CASE InsertReuseInvalidated(u, o, x)
    BY <2>2, ReuseRowPreserves DEF InsertReuseInvalidated, TailRow
  <2>3. CASE InsertEvictTail(u, o, x)
    BY <2>3, ReuseRowPreserves DEF InsertEvictTail, TailRow
  <2>4. CASE InsertAppend(u, o, x)
    BY <2>4, AppendRowPreserves DEF InsertAppend
  <2> QED BY <1>1, <2>1, <2>2, <2>3, <2>4 DEF Insert
<1>2. ASSUME NEW u \in Urls, NEW o \in Offsets, GetHit(u, o) \/ GetMiss(u, o)
      PROVE  IInv'
  BY <1>2, GetHitPreserves, GetMissPreserves
<1>3. ASSUME NEW u \in Urls, NEW p \in Props, PropsInsert(u, p) \/ InvalidateBegin(u, p)
      PROVE  IInv'
  BY <1>3, PropsInsertPreserves, InvalidateBeginPreserves
<1>4. ASSUME NEW c \in DOMAIN chunks, InvalidateMove(c)
      PROVE  IInv'
  BY <1>4, InvalidateMovePreserves
<1>5. CASE InvalidateCommit
  BY <1>5, InvalidateCommitPreserves
<1>6. CASE Crash
  BY <1>6, CrashPreserves
<1>7. CASE Clear
  BY <1>7, ClearPreserves
<1>8. CASE UNCHANGED vars
  BY <1>8 DEF vars, IInv, Tables, Others, Linked, OneRowPerKey, RowsAt, DoomedAreOldest, Doomed,
              WithinMaxSize, Rollback, RowsOf
<1> QED
  BY <1>1, <1>2, <1>3, <1>4, <1>5, <1>6, <1>7, <1>8 DEF Next

LEMMA Inductive == Spec => []IInv
  BY InitIInv, NextIInv, PTL DEF Spec

LEMMA IInvConsistent == IInv => Consistent
<1> SUFFICES ASSUME IInv PROVE Consistent
  OBVIOUS
<1> DEFINE n == Len(chunks)
           L == list
<1>1. /\ n \in Nat /\ DOMAIN chunks = 1..n /\ DOMAIN chunk_data = 1..n
      /\ \A c \in 1..n : chunks[c].data_id = c
  BY DEF IInv, Tables
<1>2. /\ StrictOrder(newer, 1..n) /\ EndsFollow(L, newer, 1..n) /\ LinksFollow(L, newer, 1..n)
      /\ Len(L.links) = n /\ DOMAIN L.links = 1..n /\ \A c \in 1..n : L.links[c].chunk_id = c
  BY <1>1, IInvImplies DEF IInv, Linked, Chained, IdsInLockstep
<1>3. \A c \in DOMAIN chunks : LinksOf(list, c) # {}
  BY <1>1, <1>2 DEF LinksOf
<1> HIDE DEF n, L
<1>4. 0 \notin 1..n
  BY <1>1
<1>5. Covers(NextWalk(L), L, L.tail)
  <2> DEFINE succ == [id \in 1..n |-> L.links[id].next]
             walk == NextWalk(L)
  <2>1. \A i \in 0..n : walk[i] = IF i = 0 THEN L.head
                                  ELSE IF walk[i - 1] \in 1..n THEN succ[walk[i - 1]] ELSE 0
    BY <1>1, <1>2, NextWalkIs DEF NULL
  <2>2. IF n = 0 THEN L.head = 0
        ELSE /\ L.head \in 1..n /\ \A a \in (1..n) \ {L.head} : <<L.head, a>> \in newer
             /\ L.tail \in 1..n /\ \A a \in (1..n) \ {L.tail} : <<a, L.tail>> \in newer
             /\ succ[L.tail] = 0
    <3>1. CASE n = 0
      <4>1. 1..n = {}
        BY <3>1
      <4> QED BY <1>2, <3>1, <4>1 DEF EndsFollow, NULL
    <3>2. CASE n # 0
      <4>1. 1..n # {}
        BY <1>1, <3>2
      <4> HIDE DEF succ
      <4>2. /\ L.head \in 1..n /\ \A a \in (1..n) \ {L.head} : <<L.head, a>> \in newer
            /\ L.tail \in 1..n /\ \A a \in (1..n) \ {L.tail} : <<a, L.tail>> \in newer
        BY <1>2, <4>1, Zenon DEF EndsFollow
      <4>3. L.links[L.tail].next = 0
        BY <1>2, <4>2 DEF LinksFollow, NULL
      <4>4. succ[L.tail] = 0
        BY <4>2, <4>3 DEF succ
      <4> QED BY <3>2, <4>2, <4>4
    <3> QED BY <3>1, <3>2
  <2>3. \A a \in (1..n) \ {L.head} : \E b \in 1..n : succ[b] = a /\ Adjacent(newer, 1..n, b, a)
    <3> SUFFICES ASSUME NEW a \in (1..n) \ {L.head}
                 PROVE  \E b \in 1..n : succ[b] = a /\ Adjacent(newer, 1..n, b, a)
      OBVIOUS
    <3>1. L.links[a].prev \in 1..n
      BY <1>2 DEF LinksFollow
    <3>2. Adjacent(newer, 1..n, L.links[a].prev, a) /\ L.links[L.links[a].prev].next = a
      BY <1>2, <3>1 DEF LinksFollow
    <3> QED BY <3>1, <3>2
  <2> HIDE DEF succ, walk
  <2>4. /\ Starts(n, newer, succ, L.head, L.tail) /\ Reaches(n, newer, succ, L.head)
        /\ Steps(n, succ, L.head, walk)
    BY <2>1, <2>2, <2>3 DEF Starts, Reaches, Steps
  <2>5. StrictOrder(newer, 1..n) /\ n \in Nat
    BY <1>1, <1>2
  <2>6. /\ walk[n] = 0 /\ (n > 0 => walk[n - 1] = L.tail)
        /\ \A id \in 1..n : \E i \in 0..(n - 1) : walk[i] = id
    BY <2>4, <2>5, WalkFollows
  <2> QED BY <1>2, <2>6 DEF Covers, NULL, walk
<1>6. Covers(PrevWalk(L), L, L.head)
  <2> DEFINE succ == [id \in 1..n |-> L.links[id].prev]
             walk == PrevWalk(L)
             R == Backwards(newer)
  <2>1. \A i \in 0..n : walk[i] = IF i = 0 THEN L.tail
                                  ELSE IF walk[i - 1] \in 1..n THEN succ[walk[i - 1]] ELSE 0
    BY <1>1, <1>2, PrevWalkIs DEF NULL
  <2>2. StrictOrder(R, 1..n) /\ \A a, b \in 1..n : <<a, b>> \in R <=> <<b, a>> \in newer
    BY <1>2, BackwardsIsOrder
  <2> HIDE DEF R
  <2>3. IF n = 0 THEN L.tail = 0
        ELSE /\ L.tail \in 1..n /\ \A a \in (1..n) \ {L.tail} : <<L.tail, a>> \in R
             /\ L.head \in 1..n /\ \A a \in (1..n) \ {L.head} : <<a, L.head>> \in R
             /\ succ[L.head] = 0
    <3>1. CASE n = 0
      <4>1. 1..n = {}
        BY <3>1
      <4> QED BY <1>2, <3>1, <4>1 DEF EndsFollow, NULL
    <3>2. CASE n # 0
      <4>1. 1..n # {}
        BY <1>1, <3>2
      <4> HIDE DEF succ
      <4>2. /\ L.head \in 1..n /\ \A a \in (1..n) \ {L.head} : <<L.head, a>> \in newer
            /\ L.tail \in 1..n /\ \A a \in (1..n) \ {L.tail} : <<a, L.tail>> \in newer
        BY <1>2, <4>1, Zenon DEF EndsFollow
      <4>3. L.links[L.head].prev = 0
        BY <1>2, <4>2 DEF LinksFollow, NULL
      <4>4. succ[L.head] = 0
        BY <4>2, <4>3 DEF succ
      <4>5. /\ \A a \in (1..n) \ {L.tail} : <<L.tail, a>> \in R
            /\ \A a \in (1..n) \ {L.head} : <<a, L.head>> \in R
        BY <2>2, <4>2
      <4> QED BY <3>2, <4>2, <4>4, <4>5
    <3> QED BY <3>1, <3>2
  <2>4. \A a \in (1..n) \ {L.tail} : \E b \in 1..n : succ[b] = a /\ Adjacent(R, 1..n, b, a)
    <3> SUFFICES ASSUME NEW a \in (1..n) \ {L.tail}
                 PROVE  \E b \in 1..n : succ[b] = a /\ Adjacent(R, 1..n, b, a)
      OBVIOUS
    <3>1. L.links[a].next \in 1..n
      BY <1>2 DEF LinksFollow
    <3>2. Adjacent(newer, 1..n, a, L.links[a].next) /\ L.links[L.links[a].next].prev = a
      BY <1>2, <3>1 DEF LinksFollow
    <3>3. Adjacent(R, 1..n, L.links[a].next, a)
      BY <2>2, <3>1, <3>2 DEF Adjacent
    <3> QED BY <3>1, <3>2, <3>3
  <2> HIDE DEF succ, walk
  <2>5. /\ Starts(n, R, succ, L.tail, L.head) /\ Reaches(n, R, succ, L.tail)
        /\ Steps(n, succ, L.tail, walk)
    BY <2>1, <2>3, <2>4 DEF Starts, Reaches, Steps
  <2>6. /\ walk[n] = 0 /\ (n > 0 => walk[n - 1] = L.head)
        /\ \A id \in 1..n : \E i \in 0..(n - 1) : walk[i] = id
    BY <1>1, <2>2, <2>5, WalkFollows
  <2> QED BY <1>2, <2>6 DEF Covers, NULL, walk
<1> QED BY <1>1, <1>3, <1>5, <1>6 DEF Consistent, L

(* The tables, the transaction and the answers always have their type. *)
THEOREM TypeCorrect == Spec => []TypeOK
  BY Inductive, IInvImplies, PTL

(* The ids of a chunk, of its data and of its link are the same number in  *)
(* every reachable state, whatever the capacity: so the code may compare   *)
(* one with another, as get and the two reuse queries of insert do.        *)
THEOREM Lockstep == Spec => []IdsInLockstep
  BY Inductive, IInvImplies, PTL

(* While every statement of a transaction succeeds, the join of get finds  *)
(* the row that the foreign key names.                                     *)
THEOREM LookupIsByForeignKey == Spec => []LookupReadsOwnData
  BY Inductive, IInvImplies, PTL

(* A lookup has at most one answer although the index is not UNIQUE. *)
THEOREM KeysAreUnique == Spec => []OneRowPerKey
<1>1. IInv => OneRowPerKey
  BY DEF IInv
<1> QED BY Inductive, <1>1, PTL

(* The linked list is the order of use, for every number of chunks and     *)
(* every sequence of insertions, lookups, invalidations and crashes.       *)
THEOREM ListIsOrdered == Spec => []ListIsRecencyOrder
  BY Inductive, IInvImplies, PTL

(* A row that holds no chunk is never nearer to the head than one that     *)
(* does: what is at the tail decides, and no chunk is evicted too early.   *)
THEOREM RecyclableRowsLast == Spec => []DoomedAreOldest
<1>1. IInv => DoomedAreOldest
  BY DEF IInv
<1> QED BY Inductive, <1>1, PTL

(* The cache never holds more chunks than max_size allows. *)
THEOREM Bounded == Spec => []WithinMaxSize
<1>1. IInv => WithinMaxSize
  BY DEF IInv
<1> QED BY Inductive, <1>1, PTL

(* checkConsistency never fails: every content is used, every chunk is     *)
(* linked, and the list read from either end meets every link once, ends   *)
(* where the other end is and has no cycle, however many chunks there are. *)
THEOREM AuditPasses == Spec => []Consistent
  BY Inductive, IInvConsistent, PTL

-----------------------------------------------------------------------------
(* The database implements LruChunkStore.                                  *)

(* An invalidation in progress: there is something to invalidate, and the  *)
(* chunks of the other files keep the order that a rollback restores.      *)
Pending ==
    tx # NoTx =>
        /\ properties[tx.url] \notin {NoRow, tx.props}
        /\ \A a, b \in DOMAIN chunks :
              chunks[a].url # tx.url /\ chunks[b].url # tx.url =>
                  (<<a, b>> \in newer <=> <<a, b>> \in tx.newer)

LEMMA PendingPreserved ==
    ASSUME IInv, Pending, [Next]_vars
    PROVE  Pending'
<1>1. ASSUME tx' = NoTx PROVE Pending'
  BY <1>1 DEF Pending
<1>2. ASSUME NEW u \in Urls, NEW p \in Props, InvalidateBegin(u, p)
      PROVE  Pending'
  BY <1>2 DEF InvalidateBegin, Pending
<1>3. ASSUME NEW c \in DOMAIN chunks, InvalidateMove(c)
      PROVE  Pending'
  <2>1. /\ tx # NoTx /\ c \in tx.ids /\ tx \in Transaction
        /\ newer' = Oldest(newer, DOMAIN chunks, c)
        /\ tx' = [tx EXCEPT !.ids = @ \ {c}]
        /\ UNCHANGED <<chunks, properties>>
    BY <1>3 DEF InvalidateMove, IInv, Others
  <2>2. tx'.url = tx.url /\ tx'.props = tx.props /\ tx'.newer = tx.newer
    BY <2>1 DEF Transaction
  <2>3. chunks[c].url = tx.url
    BY <2>1 DEF IInv, Rollback, RowsOf
  <2>4. ASSUME NEW a \in DOMAIN chunks, NEW b \in DOMAIN chunks,
               chunks[a].url # tx.url, chunks[b].url # tx.url
        PROVE  <<a, b>> \in newer' <=> <<a, b>> \in newer
    BY <2>1, <2>3, <2>4 DEF Oldest, Without
  <2> QED BY <2>1, <2>2, <2>4 DEF Pending
<1>4. CASE UNCHANGED vars
  BY <1>4 DEF vars, Pending
<1>5. ASSUME NEW u \in Urls, NEW o \in Offsets, NEW x \in Data,
             Insert(u, o, x) \/ GetHit(u, o) \/ GetMiss(u, o)
      PROVE  tx' = NoTx
  BY <1>5 DEF Insert, InsertExisting, InsertReuseInvalidated, InsertEvictTail, InsertAppend,
              ReuseRow, AppendRow, GetHit, GetMiss
<1>6. ASSUME NEW u \in Urls, NEW o \in Offsets, GetHit(u, o) \/ GetMiss(u, o)
      PROVE  tx' = NoTx
  BY <1>6 DEF GetHit, GetMiss
<1>7. ASSUME NEW u \in Urls, NEW p \in Props, PropsInsert(u, p)
      PROVE  tx' = NoTx
  BY <1>7 DEF PropsInsert
<1>8. InvalidateCommit \/ Crash \/ Clear => tx' = NoTx
  BY DEF InvalidateCommit, Crash, Clear
<1> QED BY <1>1, <1>2, <1>3, <1>4, <1>5, <1>6, <1>7, <1>8 DEF Next

(* A row that holds a chunk has an offset. *)
Keyed == \A c \in LiveRows : chunks[c].offset \in Offsets

LEMMA KeyedPreserved ==
    ASSUME IInv, Keyed, [Next]_vars
    PROVE  Keyed'
<1>1. /\ chunks \in Seq(Row) /\ Len(chunks) \in Nat
      /\ \A c \in DOMAIN chunks : chunks[c] \in Row /\ (chunks[c].url # Invalidated => chunks[c].offset \in Offsets)
  BY DEF IInv, Tables, Keyed, LiveRows
<1>2. ASSUME UNCHANGED chunks PROVE Keyed'
  BY <1>2 DEF Keyed, LiveRows
<1>3. ASSUME NEW u \in Urls, NEW o \in Offsets, NEW x \in Data, NEW c \in DOMAIN chunks, ReuseRow(c, u, o, x)
      PROVE  Keyed'
  <2>1. chunks' = [chunks EXCEPT ![c].url = u, ![c].offset = o]
    BY <1>3 DEF ReuseRow
  <2>2. /\ DOMAIN chunks' = DOMAIN chunks
        /\ \A r \in DOMAIN chunks : r # c => chunks'[r] = chunks[r]
    BY <1>1, <2>1
  <2>3. chunks'[c].offset = o
    BY <1>1, <2>1 DEF Row
  <2> QED BY <1>1, <2>2, <2>3 DEF Keyed, LiveRows
<1>4. ASSUME NEW u \in Urls, NEW o \in Offsets, NEW x \in Data, AppendRow(u, o, x)
      PROVE  Keyed'
  <2>1. chunks' = Append(chunks, NewRow(u, o)) /\ NewRow(u, o).offset = o
    BY <1>4 DEF AppendRow, NewRow
  <2>2. \A r \in DOMAIN chunks' : r = Len(chunks) + 1 \/ (r \in DOMAIN chunks /\ chunks'[r] = chunks[r])
    BY <1>1, <2>1
  <2>3. chunks'[Len(chunks) + 1].offset = o
    BY <1>1, <2>1
  <2> QED BY <1>1, <2>2, <2>3 DEF Keyed, LiveRows
<1>5. ASSUME NEW u \in Urls, NEW o \in Offsets, NEW x \in Data, Insert(u, o, x)
      PROVE  Keyed'
  BY <1>2, <1>3, <1>4, <1>5 DEF Insert, InsertExisting, InsertReuseInvalidated, InsertEvictTail,
     InsertAppend, TailRow
<1>6. CASE InvalidateCommit
  <2>1. ASSUME NEW c \in DOMAIN chunks, chunks'[c].url # Invalidated PROVE chunks'[c] = chunks[c]
    BY <1>1, <1>6, <2>1 DEF InvalidateCommit, Row
  <2> QED BY <1>1, <1>6, <2>1 DEF InvalidateCommit, Keyed, LiveRows
<1>7. CASE Clear
  BY <1>7 DEF Clear, Keyed, LiveRows
<1>8. ASSUME NEW u \in Urls, NEW o \in Offsets, GetHit(u, o) \/ GetMiss(u, o)
      PROVE  UNCHANGED chunks
  BY <1>8 DEF GetHit, GetMiss
<1>9. ASSUME NEW u \in Urls, NEW p \in Props, PropsInsert(u, p) \/ InvalidateBegin(u, p)
      PROVE  UNCHANGED chunks
  BY <1>9 DEF PropsInsert, InvalidateBegin
<1>10. ASSUME Crash \/ (UNCHANGED vars) \/ \E c \in DOMAIN chunks : InvalidateMove(c)
       PROVE  UNCHANGED chunks
  BY <1>10 DEF Crash, InvalidateMove, vars
<1> QED BY <1>2, <1>5, <1>6, <1>7, <1>8, <1>9, <1>10 DEF Next

RInv == IInv /\ Pending /\ Keyed

(* The keys of the store, and the row of each. *)
Address == [c \in LiveRows |-> KeyOf(c)]
Keys == {Address[c] : c \in LiveRows}

(* What the store of a state is. *)
StoreIs ==
    /\ LiveRows = {c \in DOMAIN chunks : chunks[c].url # Invalidated}
    /\ IsFiniteSet(DOMAIN chunks)
    /\ \A c \in LiveRows : /\ Address[c] = <<chunks[c].url, chunks[c].offset>>
                           /\ Address[c] \in Urls \X Offsets /\ Address[c] \in Keys
    /\ \A a, b \in LiveRows : Address[a] = Address[b] => a = b
    /\ \A k \in Keys : \E c \in LiveRows : k = Address[c]
    /\ Held = [k \in Keys |-> Held[k]]
    /\ \A c \in LiveRows : Held[Address[c]] = chunk_data[c]
    /\ Recent \subseteq Keys \X Keys
    /\ \A a, b \in LiveRows : <<Address[a], Address[b]>> \in Recent <=> <<a, b>> \in CommittedOrder
    /\ CommittedOrder \subseteq (DOMAIN chunks) \X (DOMAIN chunks)
    /\ Recyclable = Cardinality(DOMAIN chunks \ LiveRows) /\ Recyclable \in Nat

LEMMA StoreOf == RInv => StoreIs
<1> SUFFICES ASSUME RInv PROVE StoreIs
  OBVIOUS
<1> IInv /\ Keyed
  BY DEF RInv
<1> DEFINE n == Len(chunks)
<1>1. n \in Nat /\ DOMAIN chunks = 1..n /\ \A c \in 1..n : chunks[c] \in Row /\ chunks[c].data_id = c
  BY DEF IInv, Tables
<1>2. LiveRows \subseteq DOMAIN chunks
  BY DEF LiveRows
<1>3. IsFiniteSet(DOMAIN chunks)
  BY <1>1, FS_Interval
<1>4. \A c \in LiveRows : chunks[c].url \in Urls /\ chunks[c].offset \in Offsets
  BY <1>1 DEF LiveRows, Row, Keyed
<1>5. \A a, b \in LiveRows : KeyOf(a) = KeyOf(b) => a = b
  <2> SUFFICES ASSUME NEW a \in LiveRows, NEW b \in LiveRows, KeyOf(a) = KeyOf(b) PROVE a = b
    OBVIOUS
  <2>1. chunks[a].url = chunks[b].url /\ chunks[a].offset = chunks[b].offset
    BY DEF KeyOf
  <2>2. {a, b} \subseteq RowsAt(chunks[a].url, chunks[a].offset)
    BY <1>2, <2>1 DEF RowsAt
  <2> QED BY <1>4, <2>2 DEF IInv, OneRowPerKey
<1>6. \A c \in LiveRows : Held[KeyOf(c)] = chunk_data[c]
  <2> SUFFICES ASSUME NEW c \in LiveRows PROVE Held[KeyOf(c)] = chunk_data[c]
    OBVIOUS
  <2> DEFINE d == CHOOSE a \in LiveRows : KeyOf(a) = KeyOf(c)
  <2>1. d \in LiveRows /\ KeyOf(d) = KeyOf(c)
    OBVIOUS
  <2>2. d = c
    <3> HIDE DEF d
    <3> QED BY <1>5, <2>1
  <2>3. Held[KeyOf(c)] = chunk_data[chunks[d].data_id]
    BY DEF Held
  <2> HIDE DEF d
  <2> QED BY <1>1, <1>2, <2>2, <2>3
<1>7. ASSUME NEW a \in LiveRows, NEW b \in LiveRows
      PROVE  <<KeyOf(a), KeyOf(b)>> \in Recent <=> <<a, b>> \in CommittedOrder
  <2>1. ASSUME <<a, b>> \in CommittedOrder PROVE <<KeyOf(a), KeyOf(b)>> \in Recent
    <3>1. <<a, b>> \in CommittedOrder \cap (LiveRows \X LiveRows) /\ <<a, b>>[1] = a /\ <<a, b>>[2] = b
      BY <2>1
    <3> QED BY <3>1 DEF Recent
  <2>2. ASSUME <<KeyOf(a), KeyOf(b)>> \in Recent PROVE <<a, b>> \in CommittedOrder
    <3>1. PICK p \in CommittedOrder \cap (LiveRows \X LiveRows) :
                <<KeyOf(p[1]), KeyOf(p[2])>> = <<KeyOf(a), KeyOf(b)>>
      BY <2>2 DEF Recent
    <3>2. KeyOf(p[1]) = KeyOf(a) /\ KeyOf(p[2]) = KeyOf(b) /\ p[1] \in LiveRows /\ p[2] \in LiveRows
      BY <3>1
    <3>3. p[1] = a /\ p[2] = b
      BY <1>5, <3>2
    <3> QED BY <3>1, <3>3
  <2> QED BY <2>1, <2>2
<1>8. CommittedOrder \subseteq (DOMAIN chunks) \X (DOMAIN chunks)
  <2>1. newer \subseteq (1..n) \X (1..n)
    BY DEF IInv, Linked, Chained, StrictOrder
  <2>2. tx # NoTx => tx.newer \subseteq (1..n) \X (1..n)
    BY DEF IInv, Rollback, Chained, StrictOrder
  <2>3. CommittedOrder \in {newer, tx.newer} /\ (CommittedOrder # newer => tx # NoTx)
    BY DEF CommittedOrder
  <2>4. CommittedOrder \subseteq (1..n) \X (1..n)
    BY <2>1, <2>2, <2>3, Zenon
  <2> QED BY <1>1, <2>4
<1>9. Recyclable = Cardinality(DOMAIN chunks \ LiveRows) /\ Recyclable \in Nat
  BY <1>3, FS_Subset, FS_CardinalityType DEF Recyclable
<1>10. \A c \in LiveRows : Address[c] = KeyOf(c)
  BY DEF Address
<1>11. Keys = {KeyOf(c) : c \in LiveRows}
  BY <1>10 DEF Keys
<1>12. Held = [k \in Keys |-> Held[k]]
  BY <1>11 DEF Held
<1>13. Recent \subseteq Keys \X Keys
  BY <1>11 DEF Recent
<1>14. \A c \in LiveRows : Address[c] \in Urls \X Offsets /\ Address[c] = <<chunks[c].url, chunks[c].offset>>
  <2>1. \A c \in LiveRows : Address[c] = <<chunks[c].url, chunks[c].offset>>
    BY <1>10 DEF KeyOf
  <2>2. ASSUME NEW c \in LiveRows PROVE <<chunks[c].url, chunks[c].offset>> \in Urls \X Offsets
    <3>1. chunks[c].url \in Urls /\ chunks[c].offset \in Offsets
      BY <1>4
    <3> QED BY <3>1
  <2> QED BY <2>1, <2>2
<1>15. /\ \A c \in LiveRows : Address[c] \in Keys
       /\ \A k \in Keys : \E c \in LiveRows : k = Address[c]
  BY DEF Keys
<1>16. LiveRows = {c \in DOMAIN chunks : chunks[c].url # Invalidated}
  BY DEF LiveRows
<1> QED BY <1>3, <1>5, <1>6, <1>7, <1>8, <1>9, <1>10, <1>12, <1>13, <1>14, <1>15, <1>16 DEF StoreIs

LEMMA NextStoreOf == RInv' => StoreIs'
BY StoreOf, PTL

(* Row c, new or not, becomes the newest and holds the key <<u, o>>.       *)
Makes(c, u, o) ==
    /\ tx = NoTx /\ tx' = NoTx
    /\ u \in Urls /\ o \in Offsets
    /\ DOMAIN chunks' = DOMAIN chunks \cup {c}
    /\ chunks'[c].url = u /\ chunks'[c].offset = o
    /\ \A r \in DOMAIN chunks \ {c} : /\ chunks'[r].url = chunks[r].url
                                      /\ chunks'[r].offset = chunks[r].offset
                                      /\ chunk_data'[r] = chunk_data[r]
    /\ newer' = Newest(newer, DOMAIN chunks, c)

OtherKeys(c) == {Address[r] : r \in LiveRows \ {c}}

LEMMA Touches ==
    ASSUME StoreIs, StoreIs', NEW c, NEW u, NEW o, Makes(c, u, o)
    PROVE  /\ LiveRows' = LiveRows \cup {c}
           /\ <<u, o>> \notin OtherKeys(c)
           /\ Held' = [j \in OtherKeys(c) \cup {<<u, o>>} |->
                          IF j = <<u, o>> THEN chunk_data'[c] ELSE Held[j]]
           /\ Recent' = Store!Touch(<<u, o>>, OtherKeys(c) \cup {<<u, o>>})
<1> DEFINE k == <<u, o>>
           kept == OtherKeys(c)
<1>1. LiveRows' = LiveRows \cup {c}
  <2>1. LiveRows = {r \in DOMAIN chunks : chunks[r].url # Invalidated}
        /\ LiveRows' = {r \in DOMAIN chunks' : chunks'[r].url # Invalidated}
    BY DEF StoreIs
  <2> QED BY <2>1, InvalidatedIsNoUrl DEF Makes
<1>2. Address'[c] = k /\ \A r \in LiveRows \ {c} : Address'[r] = Address[r] /\ chunk_data'[r] = chunk_data[r]
  <2>1. \A r \in LiveRows : Address[r] = <<chunks[r].url, chunks[r].offset>> /\ r \in DOMAIN chunks
    BY DEF StoreIs
  <2>2. \A r \in LiveRows' : Address'[r] = <<chunks'[r].url, chunks'[r].offset>>
    BY DEF StoreIs
  <2> QED BY <1>1, <2>1, <2>2 DEF Makes
<1>3. \A a, b \in LiveRows' : Address'[a] = Address'[b] => a = b
  BY DEF StoreIs
<1>4. k \notin kept
  BY <1>1, <1>2, <1>3 DEF OtherKeys
<1>5. Keys' = kept \cup {k}
  <2>1. (\A r \in LiveRows' : Address'[r] \in Keys') /\ \A j \in Keys' : \E r \in LiveRows' : j = Address'[r]
    BY DEF StoreIs
  <2> QED BY <1>1, <1>2, <2>1 DEF OtherKeys
<1>6. Held' = [j \in kept \cup {k} |-> IF j = k THEN chunk_data'[c] ELSE Held[j]]
  <2>1. Held' = [j \in Keys' |-> Held'[j]] /\ \A r \in LiveRows' : Held'[Address'[r]] = chunk_data'[r]
    BY DEF StoreIs
  <2>2. \A r \in LiveRows : Held[Address[r]] = chunk_data[r]
    BY DEF StoreIs
  <2>3. ASSUME NEW j \in kept \cup {k}
        PROVE  Held'[j] = IF j = k THEN chunk_data'[c] ELSE Held[j]
    <3>1. CASE j = k
      BY <1>1, <1>2, <2>1, <3>1
    <3>2. CASE j # k
      <4>1. PICK r \in LiveRows \ {c} : j = Address[r]
        BY <3>2 DEF OtherKeys
      <4> QED BY <1>1, <1>2, <2>1, <2>2, <3>2, <4>1
    <3> QED BY <3>1, <3>2
  <2> QED BY <1>5, <2>1, <2>3
<1>7. Recent' = Store!Touch(k, kept \cup {k})
  <2>1. /\ Recent' \subseteq Keys' \X Keys'
        /\ \A a, b \in LiveRows' : <<Address'[a], Address'[b]>> \in Recent' <=> <<a, b>> \in CommittedOrder'
        /\ \A j \in Keys' : \E r \in LiveRows' : j = Address'[r]
    BY DEF StoreIs
  <2>2. /\ Recent \subseteq Keys \X Keys
        /\ \A a, b \in LiveRows : <<Address[a], Address[b]>> \in Recent <=> <<a, b>> \in CommittedOrder
        /\ LiveRows \subseteq DOMAIN chunks
    BY DEF StoreIs
  <2>3. CommittedOrder' = newer' /\ CommittedOrder = newer
    BY DEF CommittedOrder, Makes
  <2>4. Store!Touch(k, kept \cup {k}) =
           {p \in Recent : p[1] # k /\ p[2] # k /\ p[1] \in kept \cup {k} /\ p[2] \in kept \cup {k}}
              \cup ({k} \X ((kept \cup {k}) \ {k}))
    BY DEF Store!Touch
  <2>5. ASSUME NEW i \in Keys', NEW j \in Keys'
        PROVE  <<i, j>> \in Recent' <=> <<i, j>> \in Store!Touch(k, kept \cup {k})
    <3>1. PICK a \in LiveRows', b \in LiveRows' : i = Address'[a] /\ j = Address'[b]
      BY <2>1
    <3>2. <<i, j>> \in Recent' <=> <<a, b>> \in Newest(newer, DOMAIN chunks, c)
      BY <2>1, <2>3, <3>1 DEF Makes
    <3>3. <<a, b>> \in Newest(newer, DOMAIN chunks, c) <=>
             (<<a, b>> \in newer /\ a # c /\ b # c) \/ (a = c /\ b # c)
      BY <1>1, <2>2 DEF Newest, Without
    <3>4. <<i, j>> \in Store!Touch(k, kept \cup {k}) <=>
             (<<i, j>> \in Recent /\ i # k /\ j # k) \/ (i = k /\ j # k)
      BY <1>5, <2>4
    <3>5. (a = c <=> i = k) /\ (b = c <=> j = k)
      BY <1>1, <1>2, <1>3, <3>1
    <3>6. a # c /\ b # c => (<<i, j>> \in Recent <=> <<a, b>> \in newer)
      BY <1>1, <1>2, <2>2, <2>3, <3>1
    <3> QED BY <3>2, <3>3, <3>4, <3>5, <3>6
  <2>6. Store!Touch(k, kept \cup {k}) \subseteq Keys' \X Keys'
    BY <1>5, <2>2, <2>4
  <2> DEFINE T == Store!Touch(k, kept \cup {k})
  <2> HIDE DEF T
  <2>7. \A i, j \in Keys' : <<i, j>> \in Recent' <=> <<i, j>> \in T
    BY <2>5 DEF T
  <2>8. Recent' \subseteq Keys' \X Keys' /\ T \subseteq Keys' \X Keys'
    BY <2>1, <2>6 DEF T
  <2>9. Recent' = T
    BY <2>7, <2>8
  <2> QED BY <2>9 DEF T
<1> QED BY <1>1, <1>4, <1>6, <1>7

(* Keys and the rows that hold a chunk are as many. *)
LEMMA KeysCount ==
    ASSUME StoreIs
    PROVE  /\ DOMAIN Held = Keys
           /\ IsFiniteSet(Keys) /\ Cardinality(Keys) = Cardinality(LiveRows)
<1>1. IsFiniteSet(LiveRows)
  BY FS_Subset DEF StoreIs
<1>2. Address \in [LiveRows -> Keys]
  BY DEF StoreIs, Address
<1>3. Address \in Bijection(LiveRows, Keys)
  <2>1. \A a, b \in LiveRows : Address[a] = Address[b] => a = b
    BY DEF StoreIs
  <2>2. \A k \in Keys : \E c \in LiveRows : Address[c] = k
    BY DEF StoreIs
  <2> QED BY <1>2, <2>1, <2>2 DEF Bijection, Injection, Surjection, IsInjective
<1>4. ExistsBijection(LiveRows, Keys)
  BY <1>3 DEF ExistsBijection
<1>5. IsFiniteSet(Keys) /\ Cardinality(Keys) = Cardinality(LiveRows)
  BY <1>1, <1>4, FS_Bijection
<1>6. DOMAIN Held = Keys
  BY DEF StoreIs
<1> QED BY <1>5, <1>6

LEMMA Holds ==
    ASSUME StoreIs, StoreIs', NEW c, NEW u, NEW o, Makes(c, u, o), NEW x, chunk_data'[c] = x,
           properties' = properties, reply' = reply,
           NEW S, S = OtherKeys(c) \/ S = OtherKeys(c) \cup {<<u, o>>}
    PROVE  Store!Hold(<<u, o>>, x, S)
<1>1. /\ Held' = [j \in OtherKeys(c) \cup {<<u, o>>} |->
                     IF j = <<u, o>> THEN chunk_data'[c] ELSE Held[j]]
      /\ Recent' = Store!Touch(<<u, o>>, OtherKeys(c) \cup {<<u, o>>})
  BY Touches
<1>2. S \cup {<<u, o>>} = OtherKeys(c) \cup {<<u, o>>}
  OBVIOUS
<1>3. /\ Held' = [j \in S \cup {<<u, o>>} |-> IF j = <<u, o>> THEN x ELSE Held[j]]
      /\ Recent' = Store!Touch(<<u, o>>, S \cup {<<u, o>>})
  BY <1>1, <1>2
<1> QED BY <1>3 DEF Store!Hold

(* The store counts as the cache does. *)
LEMMA SameCount ==
    ASSUME NEW S
    PROVE  Store!Cardinality(S) = Cardinality(S)
BY DEF Store!Cardinality, Cardinality

LEMMA CountTo ==
    ASSUME NEW n \in Nat
    PROVE  Cardinality(1..n) = n
<1>1. Cardinality(1..n) = IF 1 > n THEN 0 ELSE n - 1 + 1
  BY FS_Interval
<1> QED BY <1>1

(* The keys of the other rows. *)
LEMMA OtherKeysAre ==
    ASSUME StoreIs, NEW c
    PROVE  /\ c \in LiveRows => OtherKeys(c) = Keys \ {Address[c]} /\ Address[c] \in Keys
           /\ c \notin LiveRows => OtherKeys(c) = Keys
<1>1. \A a, b \in LiveRows : Address[a] = Address[b] => a = b
  BY DEF StoreIs
<1>2. (\A k \in Keys : \E d \in LiveRows : k = Address[d]) /\ \A d \in LiveRows : Address[d] \in Keys
  BY DEF StoreIs
<1> QED BY <1>1, <1>2 DEF OtherKeys

LEMMA NoSuchKey ==
    ASSUME StoreIs, NEW u, NEW o, RowsAt(u, o) = {}
    PROVE  <<u, o>> \notin Keys
<1> SUFFICES ASSUME <<u, o>> \in Keys PROVE FALSE
  OBVIOUS
<1>1. PICK c \in LiveRows : <<u, o>> = Address[c]
  BY DEF StoreIs
<1>2. c \in DOMAIN chunks /\ <<u, o>> = <<chunks[c].url, chunks[c].offset>>
  BY <1>1 DEF StoreIs
<1> QED BY <1>2 DEF RowsAt

LEMMA RowOfKey ==
    ASSUME StoreIs, NEW u \in Urls, NEW o, NEW c \in RowsAt(u, o)
    PROVE  c \in LiveRows /\ Address[c] = <<u, o>>
BY InvalidatedIsNoUrl DEF StoreIs, RowsAt

(* No row can be recycled unless the one at the tail can. *)
LEMMA AllLive ==
    ASSUME IInv, tx = NoTx, ~TailIsInvalidated
    PROVE  LiveRows = DOMAIN chunks
<1> SUFFICES ASSUME NEW b \in DOMAIN chunks, chunks[b].url = Invalidated PROVE FALSE
  BY DEF LiveRows
<1> DEFINE n == Len(chunks)
           a == list.tail
<1>1. DOMAIN chunks = 1..n /\ b \in 1..n
  BY DEF IInv, Tables
<1>2. StrictOrder(newer, 1..n) /\ EndsFollow(list, newer, 1..n)
  BY DEF IInv, Linked, Chained
<1>3. a \in 1..n /\ \A c \in (1..n) \ {a} : <<c, a>> \in newer
  BY <1>1, <1>2 DEF EndsFollow
<1>4. chunks[a].url # Invalidated
  BY <1>1, <1>3 DEF TailIsInvalidated, TailRow
<1> HIDE DEF a, n
<1>5. <<a, b>> \in newer
  BY <1>1, <1>3, <1>4 DEF IInv, DoomedAreOldest, Doomed
<1>6. <<b, a>> \in newer
  BY <1>1, <1>3, <1>4
<1>7. <<a, a>> \in newer
  BY <1>1, <1>2, <1>3, <1>5, <1>6 DEF StrictOrder
<1> QED BY <1>2, <1>3, <1>7 DEF StrictOrder

-----------------------------------------------------------------------------
(* The steps.                                                              *)

LEMMA InsertExistingMaps ==
    ASSUME RInv, RInv', NEW u \in Urls, NEW o \in Offsets, NEW x \in Data, InsertExisting(u, o, x)
    PROVE  Store!Replace(<<u, o>>, x)
<1>1. StoreIs /\ StoreIs' /\ IInv
  BY StoreOf, NextStoreOf DEF RInv
<1>2. PICK c \in RowsAt(u, o) :
         /\ chunk_data' = [chunk_data EXCEPT ![chunks[c].data_id] = x]
         /\ newer' = Newest(newer, DOMAIN chunks, c)
  BY DEF InsertExisting
<1>3. /\ tx = NoTx /\ tx' = NoTx /\ UNCHANGED <<chunks, properties, reply>>
      /\ c \in DOMAIN chunks /\ chunks[c].url = u /\ chunks[c].offset = o
  BY DEF InsertExisting, RowsAt
<1>4. chunks[c].data_id = c /\ DOMAIN chunk_data = DOMAIN chunks /\ chunk_data \in Seq(Data)
  BY <1>1, <1>3 DEF IInv, Tables
<1>5. chunk_data'[c] = x /\ \A r \in DOMAIN chunks \ {c} : chunk_data'[r] = chunk_data[r]
  BY <1>2, <1>3, <1>4
<1>6. Makes(c, u, o)
  BY <1>2, <1>3, <1>5 DEF Makes
<1>7. c \in LiveRows /\ Address[c] = <<u, o>>
  BY <1>1, RowOfKey
<1>8. OtherKeys(c) \cup {<<u, o>>} = Keys /\ <<u, o>> \in Keys /\ DOMAIN Held = Keys
  BY <1>1, <1>7, OtherKeysAre, KeysCount
<1>9. Store!Hold(<<u, o>>, x, Keys)
  BY <1>1, <1>3, <1>5, <1>6, <1>8, Holds
<1>10. Recyclable' = Recyclable
  <2>1. LiveRows' = LiveRows
    BY <1>1, <1>6, <1>7, Touches
  <2> QED BY <1>3, <2>1 DEF Recyclable
<1> QED BY <1>8, <1>9, <1>10 DEF Store!Replace, Store!Live

LEMMA ReuseRowMakes ==
    ASSUME RInv, NEW u \in Urls, NEW o \in Offsets, NEW x \in Data, NEW c \in DOMAIN chunks,
           tx = NoTx, ReuseRow(c, u, o, x)
    PROVE  /\ Makes(c, u, o) /\ chunk_data'[c] = x /\ DOMAIN chunks' = DOMAIN chunks
           /\ properties' = properties /\ reply' = reply
<1>1. /\ chunks[c].data_id = c /\ DOMAIN chunk_data = DOMAIN chunks /\ chunk_data \in Seq(Data)
      /\ chunks \in Seq(Row) /\ chunks[c] \in Row
  BY DEF RInv, IInv, Tables
<1>2. /\ chunk_data' = [chunk_data EXCEPT ![chunks[c].data_id] = x]
      /\ chunks' = [chunks EXCEPT ![c].url = u, ![c].offset = o]
      /\ newer' = Newest(newer, DOMAIN chunks, c)
      /\ UNCHANGED <<properties, tx, reply>>
  BY DEF ReuseRow
<1>3. chunk_data'[c] = x /\ \A r \in DOMAIN chunks \ {c} : chunk_data'[r] = chunk_data[r]
  BY <1>1, <1>2
<1>4. /\ DOMAIN chunks' = DOMAIN chunks
      /\ \A r \in DOMAIN chunks \ {c} : chunks'[r] = chunks[r]
      /\ chunks'[c].url = u /\ chunks'[c].offset = o
  BY <1>1, <1>2 DEF Row
<1> QED BY <1>2, <1>3, <1>4 DEF Makes

LEMMA ReuseInvalidatedMaps ==
    ASSUME RInv, RInv', NEW u \in Urls, NEW o \in Offsets, NEW x \in Data,
           InsertReuseInvalidated(u, o, x)
    PROVE  Store!FillFree(<<u, o>>, x)
<1>1. StoreIs /\ StoreIs' /\ IInv
  BY StoreOf, NextStoreOf DEF RInv
<1>2. tx = NoTx /\ RowsAt(u, o) = {}
  BY DEF InsertReuseInvalidated
<1>3. PICK c \in DOMAIN chunks : chunks[c].url = Invalidated /\ ReuseRow(c, u, o, x)
  BY DEF InsertReuseInvalidated, TailIsInvalidated, TailRow
<1>4. /\ Makes(c, u, o) /\ chunk_data'[c] = x /\ DOMAIN chunks' = DOMAIN chunks
      /\ properties' = properties /\ reply' = reply
  BY <1>2, <1>3, ReuseRowMakes
<1>5. c \notin LiveRows
  BY <1>3 DEF LiveRows
<1>6. OtherKeys(c) = Keys /\ <<u, o>> \notin Keys /\ DOMAIN Held = Keys
  BY <1>1, <1>2, <1>5, OtherKeysAre, NoSuchKey, KeysCount
<1>7. Store!Hold(<<u, o>>, x, Keys)
  BY <1>1, <1>4, <1>6, Holds
<1>8. Recyclable' = Recyclable - 1 /\ Recyclable > 0
  <2> DEFINE S == DOMAIN chunks \ LiveRows
  <2>1. LiveRows' = LiveRows \cup {c}
    BY <1>1, <1>4, Touches
  <2>2. IsFiniteSet(S) /\ c \in S
    BY <1>1, <1>3, <1>5, FS_Subset DEF StoreIs
  <2>3. DOMAIN chunks' \ LiveRows' = S \ {c}
    BY <1>4, <2>1
  <2>4. Recyclable = Cardinality(S) /\ Recyclable' = Cardinality(S \ {c})
    BY <2>3 DEF Recyclable
  <2> HIDE DEF S
  <2>5. Cardinality(S \ {c}) = Cardinality(S) - 1 /\ Cardinality(S) \in Nat /\ Cardinality(S \ {c}) \in Nat
    BY <2>2, FS_RemoveElement, FS_CardinalityType
  <2> QED BY <2>4, <2>5
<1> QED BY <1>6, <1>7, <1>8 DEF Store!FillFree, Store!Live

LEMMA EvictTailMaps ==
    ASSUME RInv, RInv', NEW u \in Urls, NEW o \in Offsets, NEW x \in Data, InsertEvictTail(u, o, x)
    PROVE  Store!Evict(<<u, o>>, x)
<1>1. StoreIs /\ StoreIs' /\ IInv
  BY StoreOf, NextStoreOf DEF RInv
<1>2. tx = NoTx /\ RowsAt(u, o) = {} /\ ~TailIsInvalidated /\ MaxChunks > 0 /\ Len(chunks) >= MaxChunks
  BY DEF InsertEvictTail, Saturated
<1>3. PICK c \in DOMAIN chunks : c = list.tail /\ ReuseRow(c, u, o, x)
  BY DEF InsertEvictTail, TailRow
<1>4. /\ Makes(c, u, o) /\ chunk_data'[c] = x /\ DOMAIN chunks' = DOMAIN chunks
      /\ properties' = properties /\ reply' = reply
  BY <1>2, <1>3, ReuseRowMakes
<1>5. LiveRows = DOMAIN chunks
  BY <1>1, <1>2, AllLive
<1>6. /\ OtherKeys(c) = Keys \ {Address[c]} /\ Address[c] \in Keys
      /\ <<u, o>> \notin Keys /\ DOMAIN Held = Keys
  BY <1>1, <1>2, <1>3, <1>5, OtherKeysAre, NoSuchKey, KeysCount
<1>7. Store!Hold(<<u, o>>, x, Keys \ {Address[c]})
  BY <1>1, <1>4, <1>6, Holds
<1>8. \A j \in Keys \ {Address[c]} : <<j, Address[c]>> \in Recent
  <2> SUFFICES ASSUME NEW j \in Keys \ {Address[c]} PROVE <<j, Address[c]>> \in Recent
    OBVIOUS
  <2>1. PICK r \in LiveRows : j = Address[r]
    BY <1>1 DEF StoreIs
  <2>2. EndsFollow(list, newer, DOMAIN chunks)
    BY <1>1 DEF IInv, Tables, Linked, Chained
  <2>3. <<r, c>> \in newer
    BY <1>3, <1>5, <2>1, <2>2 DEF EndsFollow
  <2>4. CommittedOrder = newer
    BY <1>2 DEF CommittedOrder
  <2> QED BY <1>1, <1>5, <2>1, <2>3, <2>4 DEF StoreIs
<1>9. Recyclable' = Recyclable /\ Recyclable = 0
  <2>1. LiveRows' = LiveRows
    BY <1>1, <1>3, <1>4, <1>5, Touches
  <2>2. DOMAIN chunks \ LiveRows = {}
    BY <1>5
  <2> QED BY <1>4, <2>1, <2>2, FS_EmptySet DEF Recyclable
<1>10. Cardinality(Keys) >= MaxChunks
  <2>1. DOMAIN chunks = 1..Len(chunks) /\ Len(chunks) \in Nat
    BY <1>1 DEF IInv, Tables
  <2>2. Cardinality(1..Len(chunks)) = Len(chunks)
    BY <2>1, CountTo
  <2> QED BY <1>1, <1>2, <1>5, <2>1, <2>2, KeysCount
<1>11. \E victim \in Keys : Store!Least(victim) /\ Store!Hold(<<u, o>>, x, Keys \ {victim})
  BY <1>6, <1>7, <1>8 DEF Store!Least, Store!Live
<1>12. Store!Live = Keys
  BY <1>6 DEF Store!Live
<1>13. Recyclable' = Recyclable /\ Recyclable = 0 /\ <<u, o>> \notin Keys /\ MaxChunks > 0
  BY <1>2, <1>6, <1>9
<1>14. Store!Cardinality(Store!Live) >= MaxChunks
  BY <1>10, <1>12, SameCount
<1> QED BY <1>11, <1>12, <1>13, <1>14, Zenon DEF Store!Evict

LEMMA AppendMaps ==
    ASSUME RInv, RInv', NEW u \in Urls, NEW o \in Offsets, NEW x \in Data, InsertAppend(u, o, x)
    PROVE  Store!Add(<<u, o>>, x)
<1> DEFINE n == Len(chunks)
           c == n + 1
<1>1. StoreIs /\ StoreIs' /\ IInv
  BY StoreOf, NextStoreOf DEF RInv
<1>2. tx = NoTx /\ RowsAt(u, o) = {} /\ ~TailIsInvalidated /\ ~Saturated
  BY DEF InsertAppend
<1>3. /\ chunk_data' = Append(chunk_data, x) /\ chunks' = Append(chunks, NewRow(u, o))
      /\ newer' = Newest(newer, DOMAIN chunks, c) /\ UNCHANGED <<properties, tx, reply>>
  BY DEF InsertAppend, AppendRow
<1>4. /\ chunks \in Seq(Row) /\ chunk_data \in Seq(Data) /\ n \in Nat /\ DOMAIN chunks = 1..n
      /\ Len(chunk_data) = n
  BY <1>1 DEF IInv, Tables
<1>5. /\ DOMAIN chunks' = DOMAIN chunks \cup {c} /\ c \notin DOMAIN chunks
      /\ chunks'[c] = NewRow(u, o) /\ chunk_data'[c] = x
      /\ \A r \in DOMAIN chunks : chunks'[r] = chunks[r] /\ chunk_data'[r] = chunk_data[r]
  BY <1>3, <1>4
<1>6. Makes(c, u, o)
  <2>1. chunks'[c].url = u /\ chunks'[c].offset = o
    BY <1>5 DEF NewRow
  <2>2. tx' = NoTx
    BY <1>2, <1>3
  <2> HIDE DEF c
  <2> QED BY <1>2, <1>3, <1>5, <2>1, <2>2 DEF Makes
<1>7. LiveRows = DOMAIN chunks
  BY <1>1, <1>2, AllLive
<1> HIDE DEF c
<1>8. OtherKeys(c) = Keys /\ <<u, o>> \notin Keys /\ DOMAIN Held = Keys
  BY <1>1, <1>2, <1>5, <1>7, OtherKeysAre, NoSuchKey, KeysCount
<1>9. Store!Hold(<<u, o>>, x, Keys)
  BY <1>1, <1>3, <1>5, <1>6, <1>8, Holds
<1>10. Recyclable' = Recyclable /\ Recyclable = 0
  <2>1. LiveRows' = LiveRows \cup {c}
    BY <1>1, <1>6, Touches
  <2>2. DOMAIN chunks \ LiveRows = {} /\ DOMAIN chunks' \ LiveRows' = {}
    BY <1>5, <1>7, <2>1
  <2> QED BY <2>2, FS_EmptySet DEF Recyclable
<1>11. Cardinality(Keys) = n
  BY <1>1, <1>4, <1>7, CountTo, KeysCount
<1>12. MaxChunks = 0 \/ Cardinality(Keys) < MaxChunks
  BY <1>2, <1>4, <1>11, MaxChunksIsNat DEF Saturated
<1>13. Store!Live = Keys
  BY <1>8 DEF Store!Live
<1>14. MaxChunks = 0 \/ Store!Cardinality(Store!Live) < MaxChunks
  BY <1>12, <1>13, SameCount
<1> QED BY <1>8, <1>9, <1>10, <1>13, <1>14, Zenon DEF Store!Add

(* The steps that leave the tables of chunks alone, but for the order. *)
LEMMA GetHitMaps ==
    ASSUME RInv, RInv', NEW u \in Urls, NEW o \in Offsets, GetHit(u, o)
    PROVE  Store!Lookup(<<u, o>>)
<1>1. StoreIs /\ StoreIs' /\ IInv
  BY StoreOf, NextStoreOf DEF RInv
<1>2. PICK c \in JoinedRows(u, o) :
         /\ reply' = [key |-> <<u, o>>, data |-> chunk_data[c]]
         /\ newer' = Newest(newer, DOMAIN chunks, c)
  BY DEF GetHit
<1>3. /\ tx = NoTx /\ tx' = NoTx /\ UNCHANGED <<chunk_data, chunks, properties>>
      /\ c \in RowsAt(u, o) /\ c \in DOMAIN chunks /\ chunks[c].url = u /\ chunks[c].offset = o
  BY DEF GetHit, JoinedRows, RowsAt
<1>4. Makes(c, u, o)
  BY <1>2, <1>3 DEF Makes
<1>5. c \in LiveRows /\ Address[c] = <<u, o>>
  BY <1>1, <1>3, RowOfKey
<1>6. OtherKeys(c) \cup {<<u, o>>} = Keys /\ <<u, o>> \in Keys /\ DOMAIN Held = Keys
  BY <1>1, <1>5, OtherKeysAre, KeysCount
<1>7. Recent' = Store!Touch(<<u, o>>, Keys)
  BY <1>1, <1>4, <1>6, Touches
<1>8. Held[<<u, o>>] = chunk_data[c]
  BY <1>1, <1>5 DEF StoreIs
<1>9. UNCHANGED <<Held, Recyclable>>
  BY <1>3 DEF Held, LiveRows, KeyOf, Recyclable
<1>10. Store!Live = Keys
  BY <1>6 DEF Store!Live
<1>11. Store!Answer(<<u, o>>) = chunk_data[c]
  BY <1>6, <1>8, <1>10 DEF Store!Answer
<1>12. Store!Use(<<u, o>>)
  BY <1>3, <1>6, <1>7, <1>9, <1>10 DEF Store!Use
<1> QED BY <1>2, <1>11, <1>12 DEF Store!Lookup

LEMMA GetMissMaps ==
    ASSUME RInv, NEW u \in Urls, NEW o \in Offsets, GetMiss(u, o)
    PROVE  Store!Lookup(<<u, o>>)
<1>1. StoreIs /\ IInv
  BY StoreOf DEF RInv
<1>2. DOMAIN chunk_data = DOMAIN chunks
  BY <1>1 DEF IInv, Tables
<1>3. RowsAt(u, o) = {}
  BY <1>2 DEF GetMiss, JoinedRows, RowsAt
<1>4. <<u, o>> \notin Store!Live
  BY <1>1, <1>3, NoSuchKey, KeysCount DEF Store!Live
<1>5. UNCHANGED <<Held, Recent, Recyclable, properties>>
  BY DEF GetMiss, Held, LiveRows, KeyOf, Recyclable, Recent, CommittedOrder
<1>6. reply' = [key |-> <<u, o>>, data |-> Store!Answer(<<u, o>>)]
  BY <1>4 DEF GetMiss, Store!Answer
<1> QED BY <1>4, <1>5, <1>6 DEF Store!Lookup, Store!Use

(* Nothing is discarded. *)
LEMMA PropsInsertMaps ==
    ASSUME RInv, NEW u \in Urls, NEW p \in Props, PropsInsert(u, p)
    PROVE  Store!Refresh(u, p)
<1>1. StoreIs
  BY StoreOf
<1>2. /\ properties[u] = NoRow /\ properties' = [properties EXCEPT ![u] = p]
      /\ UNCHANGED <<Held, Recent, Recyclable, reply>>
  BY DEF PropsInsert, Held, LiveRows, KeyOf, Recyclable, Recent, CommittedOrder
<1>3. Store!Live = Keys /\ Held = [k \in Keys |-> Held[k]]
  BY <1>1, KeysCount DEF Store!Live, StoreIs
<1>4. Store!Restrict(Held, Store!Live) = Held
  BY <1>3 DEF Store!Restrict
<1>5. Recent \cap (Store!Live \X Store!Live) = Recent
  BY <1>1, <1>3 DEF StoreIs
<1>6. Store!Cardinality({}) = 0
  BY SameCount, FS_EmptySet
<1>7. Recyclable \in Nat
  BY <1>1 DEF StoreIs
<1>8. Store!Live \ {} = Store!Live /\ Recyclable' = Recyclable + Store!Cardinality({})
  BY <1>2, <1>6, <1>7
<1>9. properties[u] \in {NoRow, p}
  BY <1>2
<1> QED BY <1>2, <1>4, <1>5, <1>8, <1>9 DEF Store!Refresh

(* The invalidation takes effect: the chunks of the file are discarded,    *)
(* the others stay, in the order that a rollback would have restored.      *)
LEMMA InvalidateCommitMaps ==
    ASSUME RInv, RInv', InvalidateCommit
    PROVE  Store!Refresh(tx.url, tx.props) /\ tx.url \in Urls /\ tx.props \in Props
<1> DEFINE u == tx.url
           goneRows == {c \in LiveRows : chunks[c].url = u}
           gone == {k \in Store!Live : k[1] = u}
           kept == Store!Live \ gone
<1>1. StoreIs /\ StoreIs' /\ IInv /\ Pending
  BY StoreOf, NextStoreOf DEF RInv
<1>2. tx # NoTx /\ tx \in Transaction
  BY <1>1 DEF InvalidateCommit, IInv, Others
<1>3. u \in Urls /\ tx.props \in Props /\ u # Invalidated
  BY <1>2, InvalidatedIsNoUrl DEF Transaction
<1>4. /\ chunks' = [c \in DOMAIN chunks |->
                       IF chunks[c].url = u
                       THEN [chunks[c] EXCEPT !.url = Invalidated, !.offset = NoOffset]
                       ELSE chunks[c]]
      /\ properties' = [properties EXCEPT ![u] = tx.props] /\ tx' = NoTx
      /\ UNCHANGED <<chunk_data, list, reply, newer>>
  BY DEF InvalidateCommit
<1>5. /\ DOMAIN chunks' = DOMAIN chunks
      /\ \A c \in DOMAIN chunks : chunks[c].url = u => chunks'[c].url = Invalidated
      /\ \A c \in DOMAIN chunks : chunks[c].url # u => chunks'[c] = chunks[c]
  <2>1. \A c \in DOMAIN chunks : chunks[c] \in Row
    BY <1>1 DEF IInv, Tables
  <2> QED BY <1>4, <2>1 DEF Row
<1>6. /\ Store!Live = Keys
      /\ \A c \in LiveRows : Address[c] \in Keys /\ Address[c][1] = chunks[c].url
      /\ \A k \in Keys : \E c \in LiveRows : k = Address[c]
      /\ \A a, b \in LiveRows : Address[a] = Address[b] => a = b
      /\ IsFiniteSet(DOMAIN chunks) /\ LiveRows \subseteq DOMAIN chunks
  BY <1>1, KeysCount DEF StoreIs, Store!Live
<1>7. LiveRows' = LiveRows \ goneRows
  <2>1. /\ LiveRows = {c \in DOMAIN chunks : chunks[c].url # Invalidated}
        /\ LiveRows' = {c \in DOMAIN chunks' : chunks'[c].url # Invalidated}
    BY <1>1 DEF StoreIs
  <2>2. ASSUME NEW c \in DOMAIN chunks
        PROVE  chunks'[c].url # Invalidated <=> chunks[c].url # Invalidated /\ chunks[c].url # u
    <3>1. CASE chunks[c].url = u
      BY <1>5, <3>1
    <3>2. CASE chunks[c].url # u
      BY <1>5, <3>2
    <3> QED BY <3>1, <3>2
  <2> HIDE DEF u
  <2> QED BY <1>5, <2>1, <2>2
<1>8. \A c \in LiveRows' : Address'[c] = Address[c] /\ c \in LiveRows /\ chunks[c].url # u
  <2>1. /\ \A c \in LiveRows' : Address'[c] = <<chunks'[c].url, chunks'[c].offset>>
        /\ \A c \in LiveRows : Address[c] = <<chunks[c].url, chunks[c].offset>>
    BY <1>1 DEF StoreIs
  <2> QED BY <1>5, <1>6, <1>7, <2>1
<1> HIDE DEF u
<1>9. Keys' = kept
  <2>1. /\ \A c \in LiveRows' : Address'[c] \in Keys'
        /\ \A k \in Keys' : \E c \in LiveRows' : k = Address'[c]
    BY <1>1 DEF StoreIs
  <2> QED BY <1>6, <1>7, <1>8, <2>1
<1>10. Held' = Store!Restrict(Held, kept)
  <2>1. Held' = [j \in Keys' |-> Held'[j]] /\ \A c \in LiveRows' : Held'[Address'[c]] = chunk_data'[c]
    BY <1>1 DEF StoreIs
  <2>2. \A c \in LiveRows : Held[Address[c]] = chunk_data[c]
    BY <1>1 DEF StoreIs
  <2>3. \A k \in Keys' : \E c \in LiveRows' : k = Address'[c]
    BY <1>1 DEF StoreIs
  <2>4. ASSUME NEW j \in Keys' PROVE Held'[j] = Held[j]
    <3>1. PICK c \in LiveRows' : j = Address'[c]
      BY <2>3
    <3>2. c \in LiveRows /\ j = Address[c] /\ chunk_data'[c] = chunk_data[c]
      BY <1>4, <1>8, <3>1
    <3>3. Held'[j] = chunk_data'[c]
      BY <2>1, <3>1
    <3>4. Held[j] = chunk_data[c]
      BY <2>2, <3>2
    <3> QED BY <3>2, <3>3, <3>4
  <2> HIDE DEF kept
  <2>5. Held' = [j \in kept |-> Held[j]]
    BY <1>9, <2>1, <2>4
  <2> QED BY <2>5 DEF Store!Restrict
<1>11. Recent' = Recent \cap (kept \X kept)
  <2>1. /\ Recent' \subseteq Keys' \X Keys'
        /\ \A a, b \in LiveRows' : <<Address'[a], Address'[b]>> \in Recent' <=> <<a, b>> \in CommittedOrder'
        /\ \A k \in Keys' : \E c \in LiveRows' : k = Address'[c]
    BY <1>1 DEF StoreIs
  <2>2. \A a, b \in LiveRows : <<Address[a], Address[b]>> \in Recent <=> <<a, b>> \in CommittedOrder
    BY <1>1 DEF StoreIs
  <2>3. CommittedOrder' = newer /\ CommittedOrder = tx.newer
    BY <1>2, <1>4 DEF CommittedOrder
  <2>4. \A a, b \in LiveRows' : <<a, b>> \in newer <=> <<a, b>> \in tx.newer
    BY <1>1, <1>2, <1>6, <1>8 DEF Pending, u
  <2>5. ASSUME NEW i \in Keys', NEW j \in Keys'
        PROVE  <<i, j>> \in Recent' <=> <<i, j>> \in Recent
    <3>1. PICK a \in LiveRows', b \in LiveRows' : i = Address'[a] /\ j = Address'[b]
      BY <2>1
    <3> QED BY <1>8, <2>1, <2>2, <2>3, <2>4, <3>1
  <2> HIDE DEF kept
  <2>6. Recent' \subseteq kept \X kept /\ \A i, j \in kept : <<i, j>> \in Recent' <=> <<i, j>> \in Recent
    BY <1>9, <2>1, <2>5
  <2> QED BY <2>6
<1>12. Recyclable' = Recyclable + Store!Cardinality(gone)
  <2>1. IsFiniteSet(goneRows)
    BY <1>6, FS_Subset
  <2>2. [c \in goneRows |-> Address[c]] \in Bijection(goneRows, gone)
    <3> DEFINE f == [c \in goneRows |-> Address[c]]
    <3>1. \A c \in goneRows : Address[c] \in gone /\ f[c] = Address[c]
      BY <1>6
    <3>2. \A k \in gone : \E c \in goneRows : k = Address[c]
      BY <1>6
    <3>3. \A a, b \in goneRows : Address[a] = Address[b] => a = b
      BY <1>6
    <3> HIDE DEF gone, goneRows
    <3>4. f \in [goneRows -> gone]
      BY <3>1
    <3> HIDE DEF f
    <3> QED BY <3>1, <3>2, <3>3, <3>4 DEF Bijection, Injection, Surjection, IsInjective
  <2>3. Cardinality(goneRows) = Cardinality(gone)
    BY <2>1, <2>2, FS_Bijection DEF ExistsBijection
  <2> DEFINE S == DOMAIN chunks \ LiveRows
  <2>4. IsFiniteSet(S) /\ S \cap goneRows = {} /\ DOMAIN chunks' \ LiveRows' = S \cup goneRows
    BY <1>5, <1>6, <1>7, FS_Subset
  <2>5. Recyclable = Cardinality(S) /\ Recyclable' = Cardinality(S \cup goneRows)
    BY <2>4 DEF Recyclable
  <2> HIDE DEF S, gone, goneRows
  <2>6. Cardinality(S \cup goneRows) = Cardinality(S) + Cardinality(goneRows) - Cardinality(S \cap goneRows)
    BY <2>1, <2>4, FS_Union
  <2>7. Cardinality(S \cap goneRows) = 0 /\ Cardinality(S) \in Nat /\ Cardinality(goneRows) \in Nat
    BY <2>1, <2>4, FS_EmptySet, FS_CardinalityType
  <2> QED BY <2>3, <2>5, <2>6, <2>7, SameCount
<1>13. properties[u] \notin {NoRow, tx.props}
  BY <1>1, <1>2 DEF Pending, u
<1>14. Store!Refresh(u, tx.props)
  <2>1. gone = IF properties[u] \in {NoRow, tx.props} THEN {} ELSE {k \in Store!Live : k[1] = u}
    BY <1>13
  <2> HIDE DEF gone
  <2> QED BY <1>4, <1>10, <1>11, <1>12, <2>1 DEF Store!Refresh
<1> QED BY <1>3, <1>14 DEF u

(* The steps that change nothing of the store. *)
LEMMA Stutters ==
    ASSUME RInv,
           \/ \E u \in Urls, p \in Props : InvalidateBegin(u, p)
           \/ \E c \in DOMAIN chunks : InvalidateMove(c)
           \/ Crash
           \/ UNCHANGED vars
    PROVE  UNCHANGED <<Held, Recent, Recyclable, properties, reply>>
<1>1. UNCHANGED <<chunk_data, chunks, properties, reply>>
  BY DEF InvalidateBegin, InvalidateMove, Crash, vars
<1>2. CommittedOrder' = CommittedOrder
  <2>1. ASSUME NEW u \in Urls, NEW p \in Props, InvalidateBegin(u, p)
        PROVE  CommittedOrder' = CommittedOrder
    <3>1. tx = NoTx /\ tx'.newer = newer /\ newer' = newer
      BY <2>1 DEF InvalidateBegin
    <3> QED BY <3>1 DEF CommittedOrder
  <2>2. ASSUME NEW c \in DOMAIN chunks, InvalidateMove(c)
        PROVE  CommittedOrder' = CommittedOrder
    <3>1. tx # NoTx /\ tx \in Transaction
      BY <2>2 DEF InvalidateMove, RInv, IInv, Others
    <3>2. tx' \in Transaction /\ tx'.newer = tx.newer
      BY <2>2, <3>1 DEF InvalidateMove, Transaction
    <3> QED BY <3>1, <3>2, NoTxIsNoTransaction DEF CommittedOrder
  <2>3. CASE Crash
    BY <2>3 DEF Crash, CommittedOrder
  <2>4. CASE UNCHANGED vars
    BY <2>4 DEF vars, CommittedOrder
  <2> QED BY <2>1, <2>2, <2>3, <2>4
<1>3. LiveRows' = LiveRows
  BY <1>1 DEF LiveRows
<1> QED BY <1>1, <1>2, <1>3 DEF Held, Recent, Recyclable, KeyOf

(* An empty database is an empty store. *)
IsEmpty == chunks = <<>> /\ newer = {} /\ tx = NoTx
StoreIsEmpty == Held = [k \in {} |-> Miss] /\ Recent = {} /\ Recyclable = 0

LEMMA EmptyMaps == IsEmpty => StoreIsEmpty
<1> SUFFICES ASSUME IsEmpty PROVE StoreIsEmpty
  OBVIOUS
<1>1. LiveRows = {} /\ DOMAIN chunks \ LiveRows = {}
  BY DEF LiveRows, IsEmpty
<1>2. Recyclable = 0
  BY <1>1, FS_EmptySet DEF Recyclable
<1>3. CommittedOrder = {}
  BY DEF CommittedOrder, IsEmpty
<1>4. Recent = {}
  BY <1>3 DEF Recent
<1>5. DOMAIN Held = {} /\ Held = [k \in DOMAIN Held |-> Held[k]]
  BY <1>1 DEF Held
<1>6. Held = [k \in {} |-> Miss]
  <2> HIDE DEF Held
  <2> QED BY <1>5
<1> QED BY <1>2, <1>4, <1>6 DEF StoreIsEmpty

LEMMA ClearMaps ==
    ASSUME Clear
    PROVE  Store!Clear
<1>1. IsEmpty'
  BY DEF Clear, IsEmpty
<1>2. StoreIsEmpty'
  BY <1>1, EmptyMaps, PTL
<1> QED BY <1>2 DEF Clear, StoreIsEmpty, Store!Clear

LEMMA InitMaps == Init => Store!Init
BY EmptyMaps DEF IsEmpty, StoreIsEmpty, Init, Store!Init, Store!Empty, Store!Keys

LEMMA NextMaps ==
    ASSUME RInv, RInv', [Next]_vars
    PROVE  [Store!Next]_(Store!vars)
<1>1. ASSUME NEW u \in Urls, NEW o \in Offsets, NEW x \in Data, Insert(u, o, x)
      PROVE  Store!Next
  <2>1. <<u, o>> \in Store!Keys
    BY DEF Store!Keys
  <2>2. \/ Store!Replace(<<u, o>>, x) \/ Store!FillFree(<<u, o>>, x)
        \/ Store!Evict(<<u, o>>, x) \/ Store!Add(<<u, o>>, x)
    BY <1>1, InsertExistingMaps, ReuseInvalidatedMaps, EvictTailMaps, AppendMaps DEF Insert
  <2> QED BY <2>1, <2>2, Zenon DEF Store!Next
<1>2. ASSUME NEW u \in Urls, NEW o \in Offsets, GetHit(u, o) \/ GetMiss(u, o)
      PROVE  Store!Next
  <2>1. <<u, o>> \in Store!Keys
    BY DEF Store!Keys
  <2>2. Store!Lookup(<<u, o>>)
    BY <1>2, GetHitMaps, GetMissMaps
  <2> QED BY <2>1, <2>2, Zenon DEF Store!Next
<1>3. ASSUME NEW u \in Urls, NEW p \in Props, PropsInsert(u, p)
      PROVE  Store!Next
  BY <1>3, PropsInsertMaps, Zenon DEF Store!Next
<1>4. CASE InvalidateCommit
  BY <1>4, InvalidateCommitMaps, Zenon DEF Store!Next
<1>5. CASE Clear
  BY <1>5, ClearMaps, Zenon DEF Store!Next
<1>6. ASSUME \/ \E u \in Urls, p \in Props : InvalidateBegin(u, p)
             \/ \E c \in DOMAIN chunks : InvalidateMove(c)
             \/ Crash
             \/ UNCHANGED vars
      PROVE  UNCHANGED Store!vars
  BY <1>6, Stutters DEF Store!vars
<1> QED BY <1>1, <1>2, <1>3, <1>4, <1>5, <1>6 DEF Next

LEMMA RInvInductive == RInv /\ [Next]_vars => RInv'
<1> SUFFICES ASSUME RInv, [Next]_vars PROVE RInv'
  OBVIOUS
<1>1. IInv /\ Pending /\ Keyed
  BY DEF RInv
<1> QED BY <1>1, NextIInv, PendingPreserved, KeyedPreserved DEF RInv

(* The database implements the bounded least-recently-used store, for any  *)
(* number of files, chunks and slots: whatever the tables and the linked   *)
(* list of networkfilemanager.cpp do, a caller sees a store that returns   *)
(* what was last put under a key, drops the least recently used chunk when *)
(* it is full and no slot is free, and discards the chunks of a file, and  *)
(* no other, when the properties of that file change.                      *)
THEOREM Implements == Spec => ImplementsStore
<1>1. Init => RInv
  BY InitIInv, NoTxIsNoTransaction DEF RInv, Pending, Keyed, Init, LiveRows
<1>2. RInv /\ [Next]_vars => RInv'
  BY RInvInductive
<1>3. RInv /\ RInv' /\ [Next]_vars => [Store!Next]_(Store!vars)
  BY NextMaps
<1> QED BY <1>1, <1>2, <1>3, InitMaps, PTL DEF Spec, ImplementsStore, Store!Spec
=============================================================================
