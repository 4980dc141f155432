-------------------------- MODULE FilterResultsProofs --------------------------
(***************************************************************************)
(* Proofs about FilterResults: what the list is after each of the member   *)
(* functions of filterAndSort, and from that what is never returned twice, *)
(* never lost, and the same for any order of the operations that were      *)
(* found.  They hold for any operations, lists, areas and contexts within  *)
(* the assumptions of FilterResults; where a theorem needs more of the     *)
(* operations (OpsComparable, OpsDistinct, PlaceholdersAreVague) or of the *)
(* request (TargetKnown), it says so.                                      *)
(*                                                                         *)
(* The inductive invariant, IInv, gives the list that each member function *)
(* leaves as a function of the list that was found; all else is about the  *)
(* operators: folds, an insertion sort under a relation that is only known *)
(* to be transitive, and the comparison as a lexicographic order.          *)
(***************************************************************************)
EXTENDS FilterResults, SequenceTheorems, FiniteSetTheorems, WellFoundedInduction, TLAPS

Ids == DOMAIN Op

-----------------------------------------------------------------------------
(* Folds: what FoldLeft computes for an operation that is given as a       *)
(* function, and how its value is reached one element after the other.     *)

LEMMA LeastOf ==
  ASSUME NEW T, T \subseteq Nat, T # {}
  PROVE \E x \in T : \A y \in T : x <= y
<1> DEFINE R == {ss \in Nat \X Nat : ss[1] < ss[2]}
<1>1. IsWellFoundedOn(R, Nat)
  BY NatLessThanWellFounded DEF OpToRel
<1> HIDE DEF R
<1>2. PICK x \in T : \A y \in T : ~(<<y, x>> \in R)
  BY <1>1, WFMin
<1>3. \A y \in T : ~(y < x)
  BY <1>2 DEF R
<1> QED BY <1>3

LEMMA MaxIs ==
  ASSUME NEW S, S \subseteq Int, NEW n \in S, \A k \in S : k <= n
  PROVE  Max(S) = n
<1>1. n \in S /\ \A k \in S : n >= k
  OBVIOUS
<1> DEFINE m == CHOOSE x \in S : \A y \in S : x >= y
<1>2. m \in S /\ \A y \in S : m >= y
  BY <1>1, Zenon
<1> HIDE DEF m
<1>3. m = n
  BY <1>1, <1>2
<1> QED BY <1>3 DEF m, Max

IsFold(iter, n, base, g, list) ==
  \A s \in SUBSET (1..n) :
    iter[s] = IF s = {} THEN base ELSE g[<<iter[s \ {Max(s)}], list[Max(s)]>>]

LEMMA FoldExists ==
  ASSUME NEW A, NEW B, NEW base \in A, NEW g \in [A \X B -> A], NEW list \in Seq(B)
  PROVE  \E iter \in [SUBSET (1..Len(list)) -> A] : IsFold(iter, Len(list), base, g, list)
<1> DEFINE Good(n) == \E iter \in [SUBSET (1..n) -> A] : IsFold(iter, n, base, g, list)
           T == {n \in 0..Len(list) : ~Good(n)}
<1>1. Len(list) \in Nat /\ \A i \in 1..Len(list) : list[i] \in B
  OBVIOUS
<1> HIDE DEF Good
<1>t. T = {} => Good(Len(list))
  BY <1>1
<1> SUFFICES ASSUME T # {} PROVE FALSE
  BY <1>t DEF Good
<1> USE DEF Good
<1>2. PICK n \in T : \A m \in T : n <= m
  <2>1. T \subseteq Nat
    BY <1>1
  <2> HIDE DEF T
  <2> QED BY <2>1, LeastOf
<1>3. n \in 0..Len(list) /\ ~Good(n)
  OBVIOUS
<1>4. n # 0
  <2> SUFFICES ASSUME n = 0 PROVE FALSE
    OBVIOUS
  <2> DEFINE iter == [s \in SUBSET (1..0) |-> base]
  <2>1. iter \in [SUBSET (1..0) -> A]
    OBVIOUS
  <2>2. \A s \in SUBSET (1..0) : s = {}
    OBVIOUS
  <2>3. IsFold(iter, 0, base, g, list)
    BY <2>2 DEF IsFold
  <2> QED BY <1>3, <2>1, <2>3
<1>5. n \in Nat \ {0} /\ n - 1 \in 0..Len(list) /\ n \in 1..Len(list) /\ list[n] \in B
  BY <1>1, <1>3, <1>4
<1>6. Good(n - 1)
  <2>1. ~(n <= n - 1)
    BY <1>5
  <2>2. n - 1 \notin T
    <3> HIDE DEF T
    <3> QED BY <1>2, <2>1
  <2> QED BY <1>5, <2>2
<1>7. PICK old \in [SUBSET (1..n - 1) -> A] : IsFold(old, n - 1, base, g, list)
  BY <1>6
<1> HIDE DEF T, Good
<1> DEFINE iter == [s \in SUBSET (1..n) |->
                     IF n \in s THEN g[<<old[s \ {n}], list[n]>>] ELSE old[s]]
<1>8. \A s \in SUBSET (1..n) :
        /\ s \ {n} \in SUBSET (1..n - 1)
        /\ n \notin s => s \in SUBSET (1..n - 1)
        /\ s \ {n} \in SUBSET (1..n)
  BY <1>5
<1>9. iter \in [SUBSET (1..n) -> A]
  <2> SUFFICES ASSUME NEW s \in SUBSET (1..n)
               PROVE  (IF n \in s THEN g[<<old[s \ {n}], list[n]>>] ELSE old[s]) \in A
    OBVIOUS
  <2>1. CASE n \in s
    <3>1. old[s \ {n}] \in A
      BY <1>8
    <3> QED BY <1>5, <2>1, <3>1
  <2>2. CASE n \notin s
    BY <1>8, <2>2
  <2> QED BY <2>1, <2>2
<1>10. \A s \in SUBSET (1..n) :
         iter[s] = IF s = {} THEN base ELSE g[<<iter[s \ {Max(s)}], list[Max(s)]>>]
  <2> TAKE s \in SUBSET (1..n)
  <2>1. CASE n \in s
    <3>1. Max(s) = n
      <4>1. s \subseteq Int /\ \A k \in s : k <= n
        BY <1>5
      <4> QED BY <2>1, <4>1, MaxIs
    <3>2. iter[s \ {n}] = old[s \ {n}]
      BY <1>8
    <3>3. iter[s] = g[<<old[s \ {n}], list[n]>>] /\ s # {}
      BY <2>1
    <3> HIDE DEF iter
    <3> QED BY <3>1, <3>2, <3>3
  <2>2. CASE n \notin s
    <3>1. s \in SUBSET (1..n - 1)
      BY <1>8, <2>2
    <3>2. iter[s] = old[s]
      BY <2>2
    <3>3. old[s] = IF s = {} THEN base ELSE g[<<old[s \ {Max(s)}], list[Max(s)]>>]
      BY <1>7, <3>1 DEF IsFold
    <3>4. iter[s \ {Max(s)}] = old[s \ {Max(s)}]
      BY <2>2, <3>1, <1>8
    <3> HIDE DEF iter
    <3> QED BY <3>2, <3>3, <3>4
  <2> QED BY <2>1, <2>2
<1>11. IsFold(iter, n, base, g, list)
  <2> HIDE DEF iter
  <2> QED BY <1>10 DEF IsFold
<1>12. Good(n)
  <2> HIDE DEF iter
  <2> QED BY <1>9, <1>11 DEF Good
<1> QED BY <1>3, <1>12

LEMMA MaxOfPart ==
  ASSUME NEW n \in Nat, NEW s \in SUBSET (1..n), s # {}
  PROVE  Max(s) \in s /\ \A k \in s : k <= Max(s)
<1> DEFINE T == {n - k : k \in s}
<1>1. T \subseteq Nat /\ T # {}
  <2>1. \A k \in s : n - k \in Nat
    OBVIOUS
  <2> QED BY <2>1
<1> HIDE DEF T
<1>2. PICK t \in T : \A u \in T : t <= u
  BY <1>1, LeastOf
<1>3. PICK m \in s : t = n - m
  BY DEF T
<1>4. \A k \in s : k <= m
  <2> TAKE k \in s
  <2>1. n - k \in T
    BY DEF T
  <2>2. n - m <= n - k
    BY <1>2, <1>3, <2>1
  <2> QED BY <2>2
<1>5. Max(s) = m
  <2>1. s \subseteq Int
    OBVIOUS
  <2> QED BY <1>4, <2>1, MaxIs
<1> QED BY <1>4, <1>5

-----------------------------------------------------------------------------
(* The folds of the module.                                                *)

OnlyStep(kept, id, ids) == IF id \in ids THEN Append(kept, id) ELSE kept

LEMMA OnlySteps ==
  ASSUME NEW list \in Seq(Ids), NEW ids
  PROVE  \E f : /\ f[0] = <<>> /\ Only(list, ids) = f[Len(list)]
                /\ \A i \in 1..Len(list) : f[i] = OnlyStep(f[i - 1], list[i], ids)
<1> DEFINE g == [t \in Seq(Ids) \X Ids |-> OnlyStep(t[1], t[2], ids)]
           D == DOMAIN list
           P(iter) == iter = [s \in SUBSET D |->
             IF s = {} THEN <<>> ELSE OnlyStep(iter[s \ {Max(s)}], list[Max(s)], ids)]
           c == CHOOSE iter : P(iter)
<1>1. Only(list, ids) = c[D]
  BY DEF Only, OnlyStep, FoldLeft, MapThenFoldSet
<1>2. D = 1..Len(list) /\ Len(list) \in Nat /\ \A i \in 1..Len(list) : list[i] \in Ids
  OBVIOUS
<1>3. g \in [Seq(Ids) \X Ids -> Seq(Ids)] /\ <<>> \in Seq(Ids)
  <2>1. \A t \in Seq(Ids) \X Ids : OnlyStep(t[1], t[2], ids) \in Seq(Ids)
    BY DEF OnlyStep
  <2> QED BY <2>1
<1> HIDE DEF g, D
<1>4. PICK iter \in [SUBSET (1..Len(list)) -> Seq(Ids)] : IsFold(iter, Len(list), <<>>, g, list)
  BY <1>3, FoldExists
<1>5. \A s \in SUBSET D : iter[s] =
        IF s = {} THEN <<>> ELSE OnlyStep(iter[s \ {Max(s)}], list[Max(s)], ids)
  <2> TAKE s \in SUBSET D
  <2>1. CASE s = {}
    BY <1>2, <1>4, <2>1 DEF IsFold
  <2>2. CASE s # {}
    <3>1. Max(s) \in 1..Len(list)
      BY <1>2, <2>2, MaxOfPart
    <3>2. list[Max(s)] \in Ids /\ iter[s \ {Max(s)}] \in Seq(Ids)
      BY <1>2, <3>1
    <3>3. iter[s] = g[<<iter[s \ {Max(s)}], list[Max(s)]>>]
      BY <1>2, <1>4, <2>2 DEF IsFold
    <3>4. \A a \in Seq(Ids), b \in Ids : g[<<a, b>>] = OnlyStep(a, b, ids)
      BY DEF g
    <3>5. iter[s] = OnlyStep(iter[s \ {Max(s)}], list[Max(s)], ids)
      BY <3>2, <3>3, <3>4
    <3> QED BY <2>2, <3>5
  <2> QED BY <2>1, <2>2
<1>6. iter = [s \in SUBSET D |->
        IF s = {} THEN <<>> ELSE OnlyStep(iter[s \ {Max(s)}], list[Max(s)], ids)]
  BY <1>2, <1>5
<1>7. P(c)
  BY <1>6, Zenon
<1> HIDE DEF c
<1>8. \A s \in SUBSET D : c[s] =
        IF s = {} THEN <<>> ELSE OnlyStep(c[s \ {Max(s)}], list[Max(s)], ids)
  BY <1>7, Zenon
<1> DEFINE f == [i \in 0..Len(list) |-> c[1..i]]
<1>9. f[0] = <<>> /\ Only(list, ids) = f[Len(list)]
  <2>1. 1..0 = {} /\ {} \in SUBSET D /\ 0 \in 0..Len(list) /\ Len(list) \in 0..Len(list)
    BY <1>2
  <2>2. c[{}] = <<>>
    BY <1>8, <2>1
  <2> QED BY <1>1, <1>2, <2>1, <2>2
<1>10. \A i \in 1..Len(list) : f[i] = OnlyStep(f[i - 1], list[i], ids)
  <2> TAKE i \in 1..Len(list)
  <2>1. /\ 1..i \in SUBSET D /\ 1..i # {} /\ Max(1..i) = i /\ (1..i) \ {i} = 1..i - 1
        /\ i \in 0..Len(list) /\ i - 1 \in 0..Len(list)
    <3>1. 1..i \subseteq Int /\ i \in 1..i /\ \A k \in 1..i : k <= i
      BY <1>2
    <3>2. Max(1..i) = i
      BY <3>1, MaxIs
    <3> QED BY <1>2, <3>1, <3>2
  <2>2. c[1..i] = OnlyStep(c[1..i - 1], list[i], ids)
    BY <1>8, <2>1
  <2>3. f[i] = c[1..i] /\ f[i - 1] = c[1..i - 1]
    BY <2>1
  <2> HIDE DEF f
  <2> QED BY <2>2, <2>3
<1> HIDE DEF f
<1> QED BY <1>9, <1>10

LEMMA InsertAtIs ==
  ASSUME NEW S, NEW s \in Seq(S), NEW e \in S, NEW p \in 1..Len(s) + 1
  PROVE  /\ InsertAt(s, p, e) \in Seq(S) /\ Len(InsertAt(s, p, e)) = Len(s) + 1
         /\ \A k \in 1..Len(s) + 1 : InsertAt(s, p, e)[k] =
              IF k < p THEN s[k] ELSE IF k = p THEN e ELSE s[k - 1]
<1> DEFINE a == SubSeq(s, 1, p - 1)
           b == SubSeq(s, p, Len(s))
           c == a \o <<e>>
<1>1. Len(s) \in Nat /\ p \in Int /\ \A i \in 1..Len(s) : s[i] \in S
  OBVIOUS
<1>2. /\ a \in Seq(S) /\ Len(a) = p - 1
      /\ \A i \in 1..p - 1 : a[i] = s[i]
  <2>1. \A i \in 1..p - 1 : s[i] \in S
    BY <1>1
  <2>2. /\ a \in Seq(S) /\ Len(a) = IF 1 <= p - 1 THEN p - 1 - 1 + 1 ELSE 0
        /\ \A i \in 1..p - 1 - 1 + 1 : a[i] = s[1 + i - 1]
    BY <1>1, <2>1, SubSeqProperties
  <2>3. \A i \in 1..p - 1 : i \in 1..p - 1 - 1 + 1 /\ 1 + i - 1 = i
    BY <1>1
  <2> HIDE DEF a
  <2> QED BY <1>1, <2>2, <2>3
<1>3. /\ b \in Seq(S) /\ Len(b) = Len(s) + 1 - p
      /\ \A i \in 1..Len(s) + 1 - p : b[i] = s[p + i - 1]
  <2>1. \A i \in p..Len(s) : s[i] \in S
    BY <1>1
  <2>2. /\ b \in Seq(S) /\ Len(b) = IF p <= Len(s) THEN Len(s) - p + 1 ELSE 0
        /\ \A i \in 1..Len(s) - p + 1 : b[i] = s[p + i - 1]
    BY <1>1, <2>1, SubSeqProperties
  <2>3. \A i \in 1..Len(s) + 1 - p : i \in 1..Len(s) - p + 1
    BY <1>1
  <2> HIDE DEF b
  <2> QED BY <1>1, <2>2, <2>3
<1>4. InsertAt(s, p, e) = c \o b
  BY DEF InsertAt
<1> HIDE DEF a, b
<1>5. /\ c \in Seq(S) /\ Len(c) = p
      /\ \A i \in 1..p : c[i] = IF i <= p - 1 THEN a[i] ELSE e
  <2>1. <<e>> \in Seq(S) /\ Len(<<e>>) = 1 /\ <<e>>[1] = e
    OBVIOUS
  <2>2. /\ c \in Seq(S) /\ Len(c) = Len(a) + Len(<<e>>)
        /\ \A i \in 1..Len(a) + Len(<<e>>) :
             c[i] = IF i <= Len(a) THEN a[i] ELSE <<e>>[i - Len(a)]
    BY <1>2, <2>1, ConcatProperties
  <2> HIDE DEF c
  <2>3. \A i \in 1..p : i \in 1..Len(a) + 1 /\ (~(i <= p - 1) => i - Len(a) = 1)
    BY <1>1, <1>2
  <2> QED BY <1>1, <1>2, <2>1, <2>2, <2>3
<1> HIDE DEF c
<1>6. /\ c \o b \in Seq(S) /\ Len(c \o b) = Len(c) + Len(b)
      /\ \A i \in 1..Len(c) + Len(b) :
           (c \o b)[i] = IF i <= Len(c) THEN c[i] ELSE b[i - Len(c)]
  BY <1>3, <1>5, ConcatProperties
<1> DEFINE r == c \o b
<1> HIDE DEF r
<1>7. Len(r) = Len(s) + 1
  BY <1>1, <1>3, <1>5, <1>6 DEF r
<1>8. \A k \in 1..Len(s) + 1 :
        r[k] = IF k < p THEN s[k] ELSE IF k = p THEN e ELSE s[k - 1]
  <2> TAKE k \in 1..Len(s) + 1
  <2>1. k \in 1..Len(c) + Len(b)
    BY <1>1, <1>3, <1>5
  <2>2. r[k] = IF k <= p THEN c[k] ELSE b[k - p]
    BY <1>5, <1>6, <2>1 DEF r
  <2>3. CASE k < p
    <3>1. k \in 1..p /\ k <= p - 1 /\ k \in 1..p - 1 /\ k <= p
      BY <1>1, <2>3
    <3> QED BY <1>2, <1>5, <2>2, <2>3, <3>1
  <2>4. CASE k = p
    <3>1. k \in 1..p /\ ~(k <= p - 1) /\ k <= p /\ ~(k < p)
      BY <1>1, <2>4
    <3> QED BY <1>5, <2>2, <2>4, <3>1
  <2>5. CASE k > p
    <3>1. k - p \in 1..Len(s) + 1 - p /\ p + (k - p) - 1 = k - 1 /\ ~(k <= p)
      BY <1>1, <2>5
    <3> QED BY <1>1, <1>3, <2>2, <2>5, <3>1
  <2> QED BY <1>1, <2>3, <2>4, <2>5
<1> QED BY <1>4, <1>6, <1>7, <1>8 DEF r

\* The place of an insertion: those after it are preceded by what is inserted,
\* the one before it is not; or it is the first place.
Place(list, id, p) ==
  /\ p \in 1..Len(list) + 1
  /\ \/ p = 1 /\ (list # <<>> => Precedes(Op[id], Op[list[1]]))
     \/ /\ p > 1 /\ ~Precedes(Op[id], Op[list[p - 1]])
        /\ \A k \in p..Len(list) : Precedes(Op[id], Op[list[k]])

LEMMA InsertedIs ==
  ASSUME NEW list \in Seq(Ids), NEW id \in Ids
  PROVE  \E p : Place(list, id, p) /\ Inserted(list, id) = InsertAt(list, p, id)
<1> DEFINE notAfter == {k \in DOMAIN list : ~Precedes(Op[id], Op[list[k]])}
           p == IF 1 \in notAfter THEN Max(notAfter) + 1 ELSE 1
<1>1. Inserted(list, id) = InsertAt(list, p, id)
  BY DEF Inserted
<1>2. DOMAIN list = 1..Len(list) /\ Len(list) \in Nat /\ (list # <<>> => 1 \in 1..Len(list))
  OBVIOUS
<1>3. \A k : k \in notAfter <=> k \in 1..Len(list) /\ ~Precedes(Op[id], Op[list[k]])
  BY <1>2
<1> HIDE DEF notAfter
<1>4. Place(list, id, p)
  <2>1. CASE 1 \in notAfter
    <3>1. notAfter \in SUBSET (1..Len(list)) /\ notAfter # {}
      BY <1>3, <2>1
    <3>2. Max(notAfter) \in notAfter /\ \A k \in notAfter : k <= Max(notAfter)
      BY <1>2, <3>1, MaxOfPart
    <3> DEFINE m == Max(notAfter)
    <3>3. m \in 1..Len(list) /\ ~Precedes(Op[id], Op[list[m]]) /\ p = m + 1
      BY <1>3, <2>1, <3>2
    <3>4. \A k \in 1..Len(list) : k > m => Precedes(Op[id], Op[list[k]])
      <4>1. \A k \in 1..Len(list) : k > m => k \notin notAfter
        BY <1>2, <3>2, <3>3
      <4> QED BY <1>3, <4>1
    <3> HIDE DEF m, p
    <3>5. p \in 1..Len(list) + 1 /\ p > 1 /\ p - 1 = m
      BY <1>2, <3>3
    <3>6. \A k \in p..Len(list) : k \in 1..Len(list) /\ k > m
      BY <1>2, <3>3
    <3> QED BY <3>3, <3>4, <3>5, <3>6 DEF Place
  <2>2. CASE 1 \notin notAfter
    BY <1>2, <1>3, <2>2 DEF Place
  <2> QED BY <2>1, <2>2
<1> QED BY <1>1, <1>4

LEMMA InsertedIsSeq ==
  ASSUME NEW list \in Seq(Ids), NEW id \in Ids
  PROVE  Inserted(list, id) \in Seq(Ids)
BY InsertedIs, InsertAtIs DEF Place

UninterestingStep(kept, id) ==
  IF kept # <<>> /\ IsUninteresting(Op[id], Op[Last(kept)])
  THEN kept ELSE Append(kept, id)

DuplicateStep(kept, id) ==
  IF /\ Op[id].exportable
     /\ \E k \in ToSet(kept) : Op[k].exportable /\ SameKey(Op[k], Op[id])
  THEN kept ELSE Append(kept, id)

CoverStep(covered, found) ==
  covered \cup {o \in found : \E k \in covered : MakesSuperfluous(Op[k], Op[o])}

LEMMA SortedSteps ==
  ASSUME NEW list \in Seq(Ids)
  PROVE  \E f : /\ f[0] = <<>> /\ Sorted(list) = f[Len(list)]
                /\ \A i \in 1..Len(list) : f[i] = Inserted(f[i - 1], list[i])
<1> DEFINE g == [t \in Seq(Ids) \X Ids |-> Inserted(t[1], t[2])]
           D == DOMAIN list
           P(iter) == iter = [s \in SUBSET D |->
             IF s = {} THEN <<>> ELSE Inserted(iter[s \ {Max(s)}], list[Max(s)])]
           c == CHOOSE iter : P(iter)
<1>1. Sorted(list) = c[D]
  BY DEF Sorted, FoldLeft, MapThenFoldSet
<1>2. D = 1..Len(list) /\ Len(list) \in Nat /\ \A i \in 1..Len(list) : list[i] \in Ids
  OBVIOUS
<1>3. g \in [Seq(Ids) \X Ids -> Seq(Ids)] /\ <<>> \in Seq(Ids)
  <2>1. \A t \in Seq(Ids) \X Ids : Inserted(t[1], t[2]) \in Seq(Ids)
    BY InsertedIsSeq
  <2> QED BY <2>1
<1> HIDE DEF g, D
<1>4. PICK iter \in [SUBSET (1..Len(list)) -> Seq(Ids)] : IsFold(iter, Len(list), <<>>, g, list)
  BY <1>3, FoldExists
<1>5. \A s \in SUBSET D : iter[s] =
        IF s = {} THEN <<>> ELSE Inserted(iter[s \ {Max(s)}], list[Max(s)])
  <2> TAKE s \in SUBSET D
  <2>1. CASE s = {}
    BY <1>2, <1>4, <2>1 DEF IsFold
  <2>2. CASE s # {}
    <3>1. Max(s) \in 1..Len(list)
      BY <1>2, <2>2, MaxOfPart
    <3>2. list[Max(s)] \in Ids /\ iter[s \ {Max(s)}] \in Seq(Ids)
      BY <1>2, <3>1
    <3>3. iter[s] = g[<<iter[s \ {Max(s)}], list[Max(s)]>>]
      BY <1>2, <1>4, <2>2 DEF IsFold
    <3>4. \A a \in Seq(Ids), b \in Ids : g[<<a, b>>] = Inserted(a, b)
      BY DEF g
    <3>5. iter[s] = Inserted(iter[s \ {Max(s)}], list[Max(s)])
      BY <3>2, <3>3, <3>4
    <3> QED BY <2>2, <3>5
  <2> QED BY <2>1, <2>2
<1>6. iter = [s \in SUBSET D |->
        IF s = {} THEN <<>> ELSE Inserted(iter[s \ {Max(s)}], list[Max(s)])]
  BY <1>2, <1>5
<1>7. P(c)
  BY <1>6, Zenon
<1> HIDE DEF c
<1>8. \A s \in SUBSET D : c[s] =
        IF s = {} THEN <<>> ELSE Inserted(c[s \ {Max(s)}], list[Max(s)])
  BY <1>7, Zenon
<1> DEFINE f == [i \in 0..Len(list) |-> c[1..i]]
<1>9. f[0] = <<>> /\ Sorted(list) = f[Len(list)]
  <2>1. 1..0 = {} /\ {} \in SUBSET D /\ 0 \in 0..Len(list) /\ Len(list) \in 0..Len(list)
    BY <1>2
  <2>2. c[{}] = <<>>
    BY <1>8, <2>1
  <2> QED BY <1>1, <1>2, <2>1, <2>2
<1>10. \A i \in 1..Len(list) : f[i] = Inserted(f[i - 1], list[i])
  <2> TAKE i \in 1..Len(list)
  <2>1. /\ 1..i \in SUBSET D /\ 1..i # {} /\ Max(1..i) = i /\ (1..i) \ {i} = 1..i - 1
        /\ i \in 0..Len(list) /\ i - 1 \in 0..Len(list)
    <3>1. 1..i \subseteq Int /\ i \in 1..i /\ \A k \in 1..i : k <= i
      BY <1>2
    <3>2. Max(1..i) = i
      BY <3>1, MaxIs
    <3> QED BY <1>2, <3>1, <3>2
  <2>2. c[1..i] = Inserted(c[1..i - 1], list[i])
    BY <1>8, <2>1
  <2>3. f[i] = c[1..i] /\ f[i - 1] = c[1..i - 1]
    BY <2>1
  <2> HIDE DEF f
  <2> QED BY <2>2, <2>3
<1> HIDE DEF f
<1> QED BY <1>9, <1>10

LEMMA UninterestingSteps ==
  ASSUME NEW list \in Seq(Ids)
  PROVE  \E f : /\ f[0] = <<>> /\ WithoutUninteresting(list) = f[Len(list)]
                /\ \A i \in 1..Len(list) : f[i] = UninterestingStep(f[i - 1], list[i])
<1> DEFINE g == [t \in Seq(Ids) \X Ids |-> UninterestingStep(t[1], t[2])]
           D == DOMAIN list
           P(iter) == iter = [s \in SUBSET D |->
             IF s = {} THEN <<>> ELSE UninterestingStep(iter[s \ {Max(s)}], list[Max(s)])]
           c == CHOOSE iter : P(iter)
<1>1. WithoutUninteresting(list) = c[D]
  BY DEF WithoutUninteresting, UninterestingStep, FoldLeft, MapThenFoldSet
<1>2. D = 1..Len(list) /\ Len(list) \in Nat /\ \A i \in 1..Len(list) : list[i] \in Ids
  OBVIOUS
<1>3. g \in [Seq(Ids) \X Ids -> Seq(Ids)] /\ <<>> \in Seq(Ids)
  <2>1. \A t \in Seq(Ids) \X Ids : UninterestingStep(t[1], t[2]) \in Seq(Ids)
    BY DEF UninterestingStep
  <2> QED BY <2>1
<1> HIDE DEF g, D
<1>4. PICK iter \in [SUBSET (1..Len(list)) -> Seq(Ids)] : IsFold(iter, Len(list), <<>>, g, list)
  BY <1>3, FoldExists
<1>5. \A s \in SUBSET D : iter[s] =
        IF s = {} THEN <<>> ELSE UninterestingStep(iter[s \ {Max(s)}], list[Max(s)])
  <2> TAKE s \in SUBSET D
  <2>1. CASE s = {}
    BY <1>2, <1>4, <2>1 DEF IsFold
  <2>2. CASE s # {}
    <3>1. Max(s) \in 1..Len(list)
      BY <1>2, <2>2, MaxOfPart
    <3>2. list[Max(s)] \in Ids /\ iter[s \ {Max(s)}] \in Seq(Ids)
      BY <1>2, <3>1
    <3>3. iter[s] = g[<<iter[s \ {Max(s)}], list[Max(s)]>>]
      BY <1>2, <1>4, <2>2 DEF IsFold
    <3>4. \A a \in Seq(Ids), b \in Ids : g[<<a, b>>] = UninterestingStep(a, b)
      BY DEF g
    <3>5. iter[s] = UninterestingStep(iter[s \ {Max(s)}], list[Max(s)])
      BY <3>2, <3>3, <3>4
    <3> QED BY <2>2, <3>5
  <2> QED BY <2>1, <2>2
<1>6. iter = [s \in SUBSET D |->
        IF s = {} THEN <<>> ELSE UninterestingStep(iter[s \ {Max(s)}], list[Max(s)])]
  BY <1>2, <1>5
<1>7. P(c)
  BY <1>6, Zenon
<1> HIDE DEF c
<1>8. \A s \in SUBSET D : c[s] =
        IF s = {} THEN <<>> ELSE UninterestingStep(c[s \ {Max(s)}], list[Max(s)])
  BY <1>7, Zenon
<1> DEFINE f == [i \in 0..Len(list) |-> c[1..i]]
<1>9. f[0] = <<>> /\ WithoutUninteresting(list) = f[Len(list)]
  <2>1. 1..0 = {} /\ {} \in SUBSET D /\ 0 \in 0..Len(list) /\ Len(list) \in 0..Len(list)
    BY <1>2
  <2>2. c[{}] = <<>>
    BY <1>8, <2>1
  <2> QED BY <1>1, <1>2, <2>1, <2>2
<1>10. \A i \in 1..Len(list) : f[i] = UninterestingStep(f[i - 1], list[i])
  <2> TAKE i \in 1..Len(list)
  <2>1. /\ 1..i \in SUBSET D /\ 1..i # {} /\ Max(1..i) = i /\ (1..i) \ {i} = 1..i - 1
        /\ i \in 0..Len(list) /\ i - 1 \in 0..Len(list)
    <3>1. 1..i \subseteq Int /\ i \in 1..i /\ \A k \in 1..i : k <= i
      BY <1>2
    <3>2. Max(1..i) = i
      BY <3>1, MaxIs
    <3> QED BY <1>2, <3>1, <3>2
  <2>2. c[1..i] = UninterestingStep(c[1..i - 1], list[i])
    BY <1>8, <2>1
  <2>3. f[i] = c[1..i] /\ f[i - 1] = c[1..i - 1]
    BY <2>1
  <2> HIDE DEF f
  <2> QED BY <2>2, <2>3
<1> HIDE DEF f
<1> QED BY <1>9, <1>10

LEMMA DuplicateSteps ==
  ASSUME NEW list \in Seq(Ids)
  PROVE  \E f : /\ f[0] = <<>> /\ WithoutDuplicates(list) = f[Len(list)]
                /\ \A i \in 1..Len(list) : f[i] = DuplicateStep(f[i - 1], list[i])
<1> DEFINE g == [t \in Seq(Ids) \X Ids |-> DuplicateStep(t[1], t[2])]
           D == DOMAIN list
           P(iter) == iter = [s \in SUBSET D |->
             IF s = {} THEN <<>> ELSE DuplicateStep(iter[s \ {Max(s)}], list[Max(s)])]
           c == CHOOSE iter : P(iter)
<1>1. WithoutDuplicates(list) = c[D]
  BY DEF WithoutDuplicates, DuplicateStep, FoldLeft, MapThenFoldSet
<1>2. D = 1..Len(list) /\ Len(list) \in Nat /\ \A i \in 1..Len(list) : list[i] \in Ids
  OBVIOUS
<1>3. g \in [Seq(Ids) \X Ids -> Seq(Ids)] /\ <<>> \in Seq(Ids)
  <2>1. \A t \in Seq(Ids) \X Ids : DuplicateStep(t[1], t[2]) \in Seq(Ids)
    BY DEF DuplicateStep
  <2> QED BY <2>1
<1> HIDE DEF g, D
<1>4. PICK iter \in [SUBSET (1..Len(list)) -> Seq(Ids)] : IsFold(iter, Len(list), <<>>, g, list)
  BY <1>3, FoldExists
<1>5. \A s \in SUBSET D : iter[s] =
        IF s = {} THEN <<>> ELSE DuplicateStep(iter[s \ {Max(s)}], list[Max(s)])
  <2> TAKE s \in SUBSET D
  <2>1. CASE s = {}
    BY <1>2, <1>4, <2>1 DEF IsFold
  <2>2. CASE s # {}
    <3>1. Max(s) \in 1..Len(list)
      BY <1>2, <2>2, MaxOfPart
    <3>2. list[Max(s)] \in Ids /\ iter[s \ {Max(s)}] \in Seq(Ids)
      BY <1>2, <3>1
    <3>3. iter[s] = g[<<iter[s \ {Max(s)}], list[Max(s)]>>]
      BY <1>2, <1>4, <2>2 DEF IsFold
    <3>4. \A a \in Seq(Ids), b \in Ids : g[<<a, b>>] = DuplicateStep(a, b)
      BY DEF g
    <3>5. iter[s] = DuplicateStep(iter[s \ {Max(s)}], list[Max(s)])
      BY <3>2, <3>3, <3>4
    <3> QED BY <2>2, <3>5
  <2> QED BY <2>1, <2>2
<1>6. iter = [s \in SUBSET D |->
        IF s = {} THEN <<>> ELSE DuplicateStep(iter[s \ {Max(s)}], list[Max(s)])]
  BY <1>2, <1>5
<1>7. P(c)
  BY <1>6, Zenon
<1> HIDE DEF c
<1>8. \A s \in SUBSET D : c[s] =
        IF s = {} THEN <<>> ELSE DuplicateStep(c[s \ {Max(s)}], list[Max(s)])
  BY <1>7, Zenon
<1> DEFINE f == [i \in 0..Len(list) |-> c[1..i]]
<1>9. f[0] = <<>> /\ WithoutDuplicates(list) = f[Len(list)]
  <2>1. 1..0 = {} /\ {} \in SUBSET D /\ 0 \in 0..Len(list) /\ Len(list) \in 0..Len(list)
    BY <1>2
  <2>2. c[{}] = <<>>
    BY <1>8, <2>1
  <2> QED BY <1>1, <1>2, <2>1, <2>2
<1>10. \A i \in 1..Len(list) : f[i] = DuplicateStep(f[i - 1], list[i])
  <2> TAKE i \in 1..Len(list)
  <2>1. /\ 1..i \in SUBSET D /\ 1..i # {} /\ Max(1..i) = i /\ (1..i) \ {i} = 1..i - 1
        /\ i \in 0..Len(list) /\ i - 1 \in 0..Len(list)
    <3>1. 1..i \subseteq Int /\ i \in 1..i /\ \A k \in 1..i : k <= i
      BY <1>2
    <3>2. Max(1..i) = i
      BY <3>1, MaxIs
    <3> QED BY <1>2, <3>1, <3>2
  <2>2. c[1..i] = DuplicateStep(c[1..i - 1], list[i])
    BY <1>8, <2>1
  <2>3. f[i] = c[1..i] /\ f[i - 1] = c[1..i - 1]
    BY <2>1
  <2> HIDE DEF f
  <2> QED BY <2>2, <2>3
<1> HIDE DEF f
<1> QED BY <1>9, <1>10

LEMMA CoveredSteps ==
  ASSUME NEW list \in Seq(Ids), list = sourceList,
         NEW found \in SUBSET Ids, ToSet(res) \in SUBSET Ids
  PROVE  \E f : /\ f[0] = ToSet(res) /\ Covered(found) = f[Len(list)]
                /\ \A i \in 1..Len(list) : f[i] = CoverStep(f[i - 1], found)
<1> DEFINE g == [t \in (SUBSET Ids) \X Ids |-> CoverStep(t[1], found)]
           D == DOMAIN list
           P(iter) == iter = [s \in SUBSET D |->
             IF s = {} THEN ToSet(res) ELSE CoverStep(iter[s \ {Max(s)}], found)]
           c == CHOOSE iter : P(iter)
<1>1. Covered(found) = c[D]
  BY DEF Covered, CoverStep, FoldLeft, MapThenFoldSet
<1>2. D = 1..Len(list) /\ Len(list) \in Nat /\ \A i \in 1..Len(list) : list[i] \in Ids
  OBVIOUS
<1>3. g \in [(SUBSET Ids) \X Ids -> (SUBSET Ids)] /\ ToSet(res) \in (SUBSET Ids)
  <2>1. \A t \in (SUBSET Ids) \X Ids : CoverStep(t[1], found) \in (SUBSET Ids)
    BY DEF CoverStep
  <2> QED BY <2>1
<1> HIDE DEF g, D
<1>4. PICK iter \in [SUBSET (1..Len(list)) -> (SUBSET Ids)] : IsFold(iter, Len(list), ToSet(res), g, list)
  BY <1>3, FoldExists
<1>5. \A s \in SUBSET D : iter[s] =
        IF s = {} THEN ToSet(res) ELSE CoverStep(iter[s \ {Max(s)}], found)
  <2> TAKE s \in SUBSET D
  <2>1. CASE s = {}
    BY <1>2, <1>4, <2>1 DEF IsFold
  <2>2. CASE s # {}
    <3>1. Max(s) \in 1..Len(list)
      BY <1>2, <2>2, MaxOfPart
    <3>2. list[Max(s)] \in Ids /\ iter[s \ {Max(s)}] \in (SUBSET Ids)
      BY <1>2, <3>1
    <3>3. iter[s] = g[<<iter[s \ {Max(s)}], list[Max(s)]>>]
      BY <1>2, <1>4, <2>2 DEF IsFold
    <3>4. \A a \in (SUBSET Ids), b \in Ids : g[<<a, b>>] = CoverStep(a, found)
      BY DEF g
    <3>5. iter[s] = CoverStep(iter[s \ {Max(s)}], found)
      BY <3>2, <3>3, <3>4
    <3> QED BY <2>2, <3>5
  <2> QED BY <2>1, <2>2
<1>6. iter = [s \in SUBSET D |->
        IF s = {} THEN ToSet(res) ELSE CoverStep(iter[s \ {Max(s)}], found)]
  BY <1>2, <1>5
<1>7. P(c)
  BY <1>6, Zenon
<1> HIDE DEF c
<1>8. \A s \in SUBSET D : c[s] =
        IF s = {} THEN ToSet(res) ELSE CoverStep(c[s \ {Max(s)}], found)
  BY <1>7, Zenon
<1> DEFINE f == [i \in 0..Len(list) |-> c[1..i]]
<1>9. f[0] = ToSet(res) /\ Covered(found) = f[Len(list)]
  <2>1. 1..0 = {} /\ {} \in SUBSET D /\ 0 \in 0..Len(list) /\ Len(list) \in 0..Len(list)
    BY <1>2
  <2>2. c[{}] = ToSet(res)
    BY <1>8, <2>1
  <2> QED BY <1>1, <1>2, <2>1, <2>2
<1>10. \A i \in 1..Len(list) : f[i] = CoverStep(f[i - 1], found)
  <2> TAKE i \in 1..Len(list)
  <2>1. /\ 1..i \in SUBSET D /\ 1..i # {} /\ Max(1..i) = i /\ (1..i) \ {i} = 1..i - 1
        /\ i \in 0..Len(list) /\ i - 1 \in 0..Len(list)
    <3>1. 1..i \subseteq Int /\ i \in 1..i /\ \A k \in 1..i : k <= i
      BY <1>2
    <3>2. Max(1..i) = i
      BY <3>1, MaxIs
    <3> QED BY <1>2, <3>1, <3>2
  <2>2. c[1..i] = CoverStep(c[1..i - 1], found)
    BY <1>8, <2>1
  <2>3. f[i] = c[1..i] /\ f[i - 1] = c[1..i - 1]
    BY <2>1
  <2> HIDE DEF f
  <2> QED BY <2>2, <2>3
<1> HIDE DEF f
<1> QED BY <1>9, <1>10

-----------------------------------------------------------------------------
(* Induction along a list, for a property that is given as a set.          *)

LEMMA Induct ==
  ASSUME NEW n \in Nat, NEW S, 0 \in S, \A i \in 1..n : i - 1 \in S => i \in S
  PROVE  \A i \in 0..n : i \in S
<1> DEFINE T == {i \in 0..n : i \notin S}
<1> SUFFICES ASSUME T # {} PROVE FALSE
  OBVIOUS
<1>1. T \subseteq Nat
  OBVIOUS
<1>2. PICK t \in T : \A u \in T : t <= u
  BY <1>1, LeastOf
<1>3. t \in 1..n /\ t - 1 \in 0..n /\ ~(t <= t - 1)
  OBVIOUS
<1>4. t - 1 \in S
  BY <1>2, <1>3
<1> QED BY <1>3, <1>4

LEMMA SetOfSeq ==
  ASSUME NEW S, NEW s \in Seq(S)
  PROVE  /\ ToSet(s) = {s[i] : i \in 1..Len(s)} /\ ToSet(s) \subseteq S
         /\ s = <<>> <=> ToSet(s) = {}
         /\ \A e \in S : ToSet(Append(s, e)) = ToSet(s) \cup {e}
<1>1. ToSet(s) = {s[i] : i \in 1..Len(s)} /\ ToSet(s) \subseteq S
  BY DEF ToSet
<1>2. s = <<>> <=> ToSet(s) = {}
  <2>1. s = <<>> => ToSet(s) = {}
    BY DEF ToSet
  <2>2. s # <<>> => 1 \in 1..Len(s)
    OBVIOUS
  <2> QED BY <1>1, <2>1, <2>2
<1>3. \A e \in S : ToSet(Append(s, e)) = ToSet(s) \cup {e}
  <2> TAKE e \in S
  <2> DEFINE t == Append(s, e)
  <2>1. /\ t \in Seq(S) /\ Len(t) = Len(s) + 1 /\ Len(s) \in Nat
        /\ \A i \in 1..Len(s) : t[i] = s[i]
        /\ t[Len(s) + 1] = e
    BY AppendProperties
  <2> HIDE DEF t
  <2>2. ToSet(t) = {t[i] : i \in 1..Len(s) + 1}
    BY <2>1 DEF ToSet
  <2>3. \A i : i \in 1..Len(s) + 1 <=> i \in 1..Len(s) \/ i = Len(s) + 1
    BY <2>1
  <2>4. \A x \in ToSet(t) : x \in ToSet(s) \cup {e}
    BY <1>1, <2>1, <2>2, <2>3
  <2>5. \A x \in ToSet(s) : x \in ToSet(t)
    BY <1>1, <2>1, <2>2, <2>3
  <2>6. e \in ToSet(t)
    BY <2>1, <2>2, <2>3
  <2> QED BY <2>4, <2>5, <2>6 DEF t
<1> QED BY <1>1, <1>2, <1>3

-----------------------------------------------------------------------------
(* What the steps of filterAndSort return comes from the list they were    *)
(* given, and is not empty if that was not.                                *)

LEMMA OnlyIs ==
  ASSUME NEW list \in Seq(Ids), NEW ids
  PROVE  Only(list, ids) \in Seq(Ids) /\ ToSet(Only(list, ids)) = ToSet(list) \cap ids
<1>1. PICK f : /\ f[0] = <<>> /\ Only(list, ids) = f[Len(list)]
               /\ \A i \in 1..Len(list) : f[i] = OnlyStep(f[i - 1], list[i], ids)
  BY OnlySteps
<1> DEFINE n == Len(list)
           S == {i \in 0..n : f[i] \in Seq(Ids) /\ ToSet(f[i]) = {list[k] : k \in 1..i} \cap ids}
<1>2. n \in Nat /\ \A i \in 1..n : list[i] \in Ids
  OBVIOUS
<1>3. 0 \in S
  <2>1. ToSet(<<>>) = {} /\ <<>> \in Seq(Ids) /\ 1..0 = {}
    BY DEF ToSet
  <2>2. {list[k] : k \in 1..0} = {}
    BY <2>1
  <2>3. f[0] \in Seq(Ids) /\ ToSet(f[0]) = {list[k] : k \in 1..0} \cap ids
    BY <1>1, <2>1, <2>2
  <2> QED BY <1>2, <2>3
<1>4. \A i \in 1..n : i - 1 \in S => i \in S
  <2> SUFFICES ASSUME NEW i \in 1..n, i - 1 \in S PROVE i \in S
    OBVIOUS
  <2> DEFINE a == f[i - 1]
             b == f[i]
             e == list[i]
  <2>1. /\ a \in Seq(Ids) /\ ToSet(a) = {list[k] : k \in 1..i - 1} \cap ids
        /\ b = OnlyStep(a, e, ids) /\ e \in Ids /\ i \in 0..n
    BY <1>1, <1>2
  <2>2. {list[k] : k \in 1..i} = {list[k] : k \in 1..i - 1} \cup {list[i]}
    <3>1. \A k : k \in 1..i <=> k \in 1..i - 1 \/ k = i
      BY <1>2
    <3> QED BY <3>1
  <2> HIDE DEF a, e
  <2>3. ToSet(Append(a, e)) = ToSet(a) \cup {e} /\ Append(a, e) \in Seq(Ids)
    BY <2>1, SetOfSeq
  <2>4. b \in Seq(Ids) /\ ToSet(b) = {list[k] : k \in 1..i} \cap ids
    <3>1. CASE e \in ids
      BY <2>1, <2>2, <2>3, <3>1 DEF OnlyStep, e
    <3>2. CASE e \notin ids
      BY <2>1, <2>2, <3>2 DEF OnlyStep, e
    <3> QED BY <3>1, <3>2
  <2> QED BY <2>1, <2>4
<1> HIDE DEF S, n
<1>5. n \in S
  <2>1. \A i \in 0..n : i \in S
    BY <1>2, <1>3, <1>4, Induct
  <2> QED BY <1>2, <2>1
<1> QED BY <1>1, <1>5, SetOfSeq DEF S, n

-----------------------------------------------------------------------------
(* How often an element is in a list.                                      *)

Places(list, id) == {k \in 1..Len(list) : list[k] = id}
Count(list, id) == Cardinality(Places(list, id))

LEMMA CountIs ==
  ASSUME NEW S, NEW s \in Seq(S), NEW id
  PROVE  /\ IsFiniteSet(Places(s, id)) /\ Count(s, id) \in Nat
         /\ Count(s, id) # 0 <=> id \in ToSet(s)
<1>1. Len(s) \in Nat /\ ToSet(s) = {s[i] : i \in 1..Len(s)}
  BY SetOfSeq
<1>2. IsFiniteSet(1..Len(s)) /\ Places(s, id) \in SUBSET (1..Len(s))
  <2>1. 1 \in Int /\ Len(s) \in Int
    BY <1>1
  <2> QED BY <2>1, FS_Interval DEF Places
<1>3. IsFiniteSet(Places(s, id))
  BY <1>2, FS_Subset
<1>4. Places(s, id) # {} <=> id \in ToSet(s)
  BY <1>1 DEF Places
<1> QED BY <1>3, <1>4, FS_CardinalityType, FS_EmptySet DEF Count

LEMMA CountAppend ==
  ASSUME NEW S, NEW s \in Seq(S), NEW e \in S, NEW id
  PROVE  Count(Append(s, e), id) = Count(s, id) + (IF e = id THEN 1 ELSE 0)
<1> DEFINE t == Append(s, e)
<1>1. /\ t \in Seq(S) /\ Len(t) = Len(s) + 1 /\ Len(s) \in Nat
      /\ \A i \in 1..Len(s) : t[i] = s[i]
      /\ t[Len(s) + 1] = e
  BY AppendProperties
<1> HIDE DEF t
<1>2. \A k : k \in 1..Len(s) + 1 <=> k \in 1..Len(s) \/ k = Len(s) + 1
  BY <1>1
<1>3. Len(s) + 1 \notin 1..Len(s)
  BY <1>1
<1>4. IsFiniteSet(Places(s, id)) /\ Count(s, id) \in Nat
  BY CountIs
<1>5. CASE e = id
  <2>1. \A k : k \in Places(t, id) <=> k \in Places(s, id) \cup {Len(s) + 1}
    BY <1>1, <1>2, <1>5 DEF Places
  <2>2. Places(t, id) = Places(s, id) \cup {Len(s) + 1} /\ Len(s) + 1 \notin Places(s, id)
    BY <1>3, <2>1 DEF Places
  <2> QED BY <1>4, <1>5, <2>2, FS_AddElement DEF Count, t
<1>6. CASE e # id
  <2>1. \A k : k \in Places(t, id) <=> k \in Places(s, id)
    BY <1>1, <1>2, <1>6 DEF Places
  <2>2. Places(t, id) = Places(s, id)
    BY <2>1
  <2> QED BY <1>4, <1>6, <2>2 DEF Count, t
<1> QED BY <1>5, <1>6

LEMMA CountInsertAt ==
  ASSUME NEW S, NEW s \in Seq(S), NEW e \in S, NEW p \in 1..Len(s) + 1, NEW id
  PROVE  Count(InsertAt(s, p, e), id) = Count(s, id) + (IF e = id THEN 1 ELSE 0)
<1> DEFINE r == InsertAt(s, p, e)
           n == Len(s)
           A == Places(r, id) \ {p}
           B == Places(s, id)
           m == [k \in B |-> IF k < p THEN k ELSE k + 1]
<1>1. /\ n \in Nat /\ p \in Int /\ p <= n + 1 /\ Len(r) = n + 1
      /\ \A k \in 1..n + 1 : r[k] = IF k < p THEN s[k] ELSE IF k = p THEN e ELSE s[k - 1]
  BY InsertAtIs
<1>2. IsFiniteSet(B) /\ Count(s, id) \in Nat
  BY CountIs
<1> HIDE DEF r
<1>3. \A k : k \in B <=> k \in 1..n /\ s[k] = id
  BY DEF Places
<1>4. \A k : k \in A <=> k \in 1..n + 1 /\ r[k] = id /\ k # p
  BY <1>1 DEF Places
<1> HIDE DEF A, B, n
<1>5. \A k \in B : m[k] \in A
  <2> TAKE k \in B
  <2>1. CASE k < p
    <3>1. k \in 1..n + 1 /\ m[k] = k /\ k # p
      BY <1>1, <1>3, <2>1
    <3> QED BY <1>1, <1>3, <1>4, <2>1, <3>1
  <2>2. CASE ~(k < p)
    <3>1. k + 1 \in 1..n + 1 /\ m[k] = k + 1 /\ k + 1 # p /\ ~(k + 1 < p) /\ k + 1 - 1 = k
      BY <1>1, <1>3, <2>2
    <3> QED BY <1>1, <1>3, <1>4, <3>1
  <2> QED BY <2>1, <2>2
<1>6. \A a, b \in B : m[a] = m[b] => a = b
  BY <1>1, <1>3
<1>7. \A k \in A : \E b \in B : m[b] = k
  <2> TAKE k \in A
  <2>1. CASE k < p
    <3>1. k \in 1..n
      BY <1>1, <1>4, <2>1
    <3>2. k \in B
      BY <1>1, <1>3, <1>4, <2>1, <3>1
    <3> QED BY <2>1, <3>2
  <2>2. CASE ~(k < p)
    <3>1. k - 1 \in 1..n /\ k \in 1..n + 1 /\ ~(k - 1 < p) /\ k - 1 + 1 = k
      BY <1>1, <1>4, <2>2
    <3>2. r[k] = s[k - 1] /\ r[k] = id
      BY <1>1, <1>4, <2>2, <3>1
    <3>3. k - 1 \in B
      BY <1>3, <3>1, <3>2
    <3> QED BY <3>1, <3>3
  <2> QED BY <2>1, <2>2
<1>8. m \in Bijection(B, A)
  <2> DEFINE mm == m
  <2>1. mm \in [B -> A]
    BY <1>5
  <2>2. \A a, b \in B : mm[a] = mm[b] => a = b
    BY <1>6
  <2>3. \A k \in A : \E b \in B : mm[b] = k
    BY <1>7
  <2> HIDE DEF mm
  <2>4. mm \in Bijection(B, A)
    BY <2>1, <2>2, <2>3 DEF Bijection, Injection, Surjection, IsInjective
  <2> QED BY <2>4 DEF mm
<1>9. IsFiniteSet(A) /\ Cardinality(A) = Cardinality(B)
  BY <1>2, <1>8, FS_Bijection DEF ExistsBijection
<1>10. p \in 1..n + 1 /\ r[p] = e
  BY <1>1 DEF n
<1>11. CASE e = id
  <2>1. Places(r, id) = A \cup {p} /\ p \notin A
    BY <1>1, <1>4, <1>10, <1>11 DEF A, Places
  <2> QED BY <1>2, <1>9, <1>11, <2>1, FS_AddElement DEF Count, r, B
<1>12. CASE e # id
  <2>1. Places(r, id) = A
    BY <1>1, <1>4, <1>10, <1>12 DEF A, Places
  <2> QED BY <1>2, <1>9, <1>12, <2>1 DEF Count, r, B
<1> QED BY <1>11, <1>12

LEMMA ConcatIs ==
  ASSUME NEW S, NEW a \in Seq(S), NEW b \in Seq(S)
  PROVE  a \o b \in Seq(S) /\ ToSet(a \o b) = ToSet(a) \cup ToSet(b)
<1> DEFINE c == a \o b
<1>1. /\ c \in Seq(S) /\ Len(c) = Len(a) + Len(b)
      /\ \A i \in 1..Len(a) + Len(b) : c[i] = IF i <= Len(a) THEN a[i] ELSE b[i - Len(a)]
  BY ConcatProperties
<1>2. Len(a) \in Nat /\ Len(b) \in Nat
  OBVIOUS
<1> HIDE DEF c
<1>3. /\ ToSet(c) = {c[i] : i \in 1..Len(c)} /\ ToSet(a) = {a[i] : i \in 1..Len(a)}
      /\ ToSet(b) = {b[i] : i \in 1..Len(b)}
  BY <1>1, SetOfSeq
<1>4. \A x \in ToSet(c) : x \in ToSet(a) \cup ToSet(b)
  <2> TAKE x \in ToSet(c)
  <2>1. PICK i \in 1..Len(c) : x = c[i]
    BY <1>3
  <2>2. /\ i \in 1..Len(a) + Len(b)
        /\ (i \in 1..Len(a) /\ i <= Len(a)) \/ (i - Len(a) \in 1..Len(b) /\ ~(i <= Len(a)))
    BY <1>1, <1>2
  <2>3. CASE i \in 1..Len(a) /\ i <= Len(a)
    BY <1>1, <1>3, <2>1, <2>2, <2>3
  <2>4. CASE i - Len(a) \in 1..Len(b) /\ ~(i <= Len(a))
    BY <1>1, <1>3, <2>1, <2>2, <2>4
  <2> QED BY <2>2, <2>3, <2>4
<1>5. \A x \in ToSet(a) : x \in ToSet(c)
  <2> TAKE x \in ToSet(a)
  <2>1. PICK i \in 1..Len(a) : x = a[i]
    BY <1>3
  <2>2. i \in 1..Len(c) /\ i <= Len(a)
    BY <1>1, <1>2
  <2> QED BY <1>1, <1>3, <2>1, <2>2
<1>6. \A x \in ToSet(b) : x \in ToSet(c)
  <2> TAKE x \in ToSet(b)
  <2>1. PICK i \in 1..Len(b) : x = b[i]
    BY <1>3
  <2>2. Len(a) + i \in 1..Len(c) /\ ~(Len(a) + i <= Len(a)) /\ Len(a) + i - Len(a) = i
    BY <1>1, <1>2
  <2> QED BY <1>1, <1>3, <2>1, <2>2
<1>7. c \in Seq(S) /\ ToSet(c) = ToSet(a) \cup ToSet(b)
  BY <1>1, <1>4, <1>5, <1>6
<1> QED BY <1>7 DEF c

LEMMA FilteredIs ==
  ASSUME NEW list \in Seq(Ids)
  PROVE  /\ Filtered(list) \in Seq(Ids) /\ ToSet(Filtered(list)) \subseteq ToSet(list)
         /\ \A id \in ToSet(Filtered(list)) : Allowed(Op[id])
<1> DEFINE a == AllFitting(list)
           b == AllAllowed(list)
<1>1. /\ a \in Seq(Ids) /\ ToSet(a) \subseteq ToSet(list)
      /\ \A id \in ToSet(a) : Allowed(Op[id])
  <2>1. a \in Seq(Ids) /\ ToSet(a) = ToSet(list) \cap {id \in ToSet(list) : Fits(Op[id], list)}
    BY OnlyIs DEF AllFitting
  <2> HIDE DEF a
  <2> QED BY <2>1 DEF Fits
<1>2. /\ b \in Seq(Ids) /\ ToSet(b) \subseteq ToSet(list)
      /\ \A id \in ToSet(b) : Allowed(Op[id])
  <2>1. b \in Seq(Ids) /\ ToSet(b) = ToSet(list) \cap {id \in ToSet(list) : Allowed(Op[id])}
    BY OnlyIs DEF AllAllowed
  <2> HIDE DEF b
  <2> QED BY <2>1
<1> HIDE DEF a, b
<1>3. a \o b \in Seq(Ids) /\ ToSet(a \o b) = ToSet(a) \cup ToSet(b)
  BY <1>1, <1>2, ConcatIs
<1>4. Filtered(list) = a \o b \/ Filtered(list) = a
  BY DEF Filtered, a, b
<1> QED BY <1>1, <1>2, <1>3, <1>4

LEMMA PrefixSteps ==
  ASSUME NEW S, NEW list \in Seq(S)
  PROVE  /\ SubSeq(list, 1, 0) = <<>> /\ SubSeq(list, 1, Len(list)) = list
         /\ \A i \in 0..Len(list) : SubSeq(list, 1, i) \in Seq(S)
         /\ \A i \in 1..Len(list) :
              SubSeq(list, 1, i) = Append(SubSeq(list, 1, i - 1), list[i])
<1> DEFINE n == Len(list)
           part(i) == SubSeq(list, 1, i)
<1>2. n \in Nat /\ \A i \in 1..n : list[i] \in S
  OBVIOUS
<1>3. \A i \in 0..n : part(i) \in Seq(S) /\ Len(part(i)) = i /\ \A k \in 1..i : part(i)[k] = list[k]
  <2> TAKE i \in 0..n
  <2>1. \A k \in 1..i : list[k] \in S
    BY <1>2
  <2>2. /\ part(i) \in Seq(S) /\ Len(part(i)) = IF 1 <= i THEN i - 1 + 1 ELSE 0
        /\ \A k \in 1..i - 1 + 1 : part(i)[k] = list[1 + k - 1]
    BY <1>2, <2>1, SubSeqProperties
  <2> HIDE DEF part
  <2>3. i - 1 + 1 = i /\ \A k \in 1..i : 1 + k - 1 = k
    BY <1>2
  <2> QED BY <1>2, <2>2, <2>3
<1> HIDE DEF part
<1>4. part(n) = list
  <2>1. part(n) \in Seq(S) /\ Len(part(n)) = n /\ \A k \in 1..n : part(n)[k] = list[k]
    BY <1>2, <1>3
  <2> QED BY <2>1, SeqEqual
<1>5. \A i \in 1..n : part(i) = Append(part(i - 1), list[i])
  <2> TAKE i \in 1..n
  <2> DEFINE a == part(i - 1)
             b == part(i)
             e == list[i]
             c == Append(a, e)
  <2>1. /\ a \in Seq(S) /\ Len(a) = i - 1 /\ \A k \in 1..i - 1 : a[k] = list[k]
        /\ b \in Seq(S) /\ Len(b) = i /\ \A k \in 1..i : b[k] = list[k]
        /\ e \in S
    BY <1>2, <1>3
  <2> HIDE DEF a, b
  <2>2. /\ c \in Seq(S) /\ Len(c) = Len(a) + 1 /\ (\A k \in 1..Len(a) : c[k] = a[k])
        /\ c[Len(a) + 1] = e
    BY <2>1, AppendProperties
  <2> HIDE DEF c, e
  <2>3. Len(c) = i /\ c[i] = e
    BY <1>2, <2>1, <2>2
  <2>4. \A k \in 1..i : c[k] = b[k]
    <3> TAKE k \in 1..i
    <3>1. k \in 1..i - 1 \/ k = i
      BY <1>2
    <3> QED BY <2>1, <2>2, <2>3, <3>1 DEF e
  <2>5. b = c
    BY <2>1, <2>2, <2>3, <2>4, SeqEqual
  <2> QED BY <2>5 DEF a, b, c, e
<1>6. part(0) = <<>>
  <2>1. part(0) \in Seq(S) /\ Len(part(0)) = 0
    BY <1>2, <1>3
  <2> QED BY <2>1
<1> QED BY <1>3, <1>4, <1>5, <1>6 DEF part, n

LEMMA SortedIs ==
  ASSUME NEW list \in Seq(Ids)
  PROVE  Sorted(list) \in Seq(Ids) /\ \A id \in Ids : Count(Sorted(list), id) = Count(list, id)
<1>1. PICK f : /\ f[0] = <<>> /\ Sorted(list) = f[Len(list)]
               /\ \A i \in 1..Len(list) : f[i] = Inserted(f[i - 1], list[i])
  BY SortedSteps
<1> DEFINE n == Len(list)
           part(i) == SubSeq(list, 1, i)
           Good(i) == f[i] \in Seq(Ids) /\ \A id \in Ids : Count(f[i], id) = Count(part(i), id)
           S == {i \in 0..n : Good(i)}
<1>2. n \in Nat /\ \A i \in 1..n : list[i] \in Ids
  OBVIOUS
<1>3. /\ part(0) = <<>> /\ part(n) = list
      /\ \A i \in 0..n : part(i) \in Seq(Ids)
      /\ \A i \in 1..n : part(i) = Append(part(i - 1), list[i])
  BY PrefixSteps
<1> HIDE DEF part
<1>6. 0 \in S
  <2>1. part(0) = <<>>
    BY <1>3
  <2>2. f[0] = <<>> /\ <<>> \in Seq(Ids) /\ 0 \in 0..n
    BY <1>1, <1>2
  <2>3. Good(0)
    BY <2>1, <2>2
  <2> HIDE DEF Good
  <2> QED BY <2>2, <2>3
<1>7. \A i \in 1..n : i - 1 \in S => i \in S
  <2> SUFFICES ASSUME NEW i \in 1..n, Good(i - 1) PROVE Good(i)
    <3> HIDE DEF Good
    <3> QED BY <1>2
  <2> DEFINE a == f[i - 1]
             e == list[i]
  <2>1. /\ a \in Seq(Ids) /\ e \in Ids /\ f[i] = Inserted(a, e) /\ i \in 0..n
        /\ \A id \in Ids : Count(a, id) = Count(part(i - 1), id)
        /\ part(i - 1) \in Seq(Ids) /\ part(i) = Append(part(i - 1), e)
    <3>1. i \in 0..n /\ i - 1 \in 0..n
      BY <1>2
    <3> QED BY <1>1, <1>2, <1>3, <3>1
  <2> HIDE DEF a, e
  <2>2. PICK p \in 1..Len(a) + 1 : f[i] = InsertAt(a, p, e)
    BY <2>1, InsertedIs DEF Place
  <2>3. InsertAt(a, p, e) \in Seq(Ids)
    BY <2>1, InsertAtIs
  <2>4. \A id \in Ids : Count(f[i], id) = Count(part(i), id)
    <3> TAKE id \in Ids
    <3>1. Count(f[i], id) = Count(a, id) + (IF e = id THEN 1 ELSE 0)
      BY <2>1, <2>2, CountInsertAt
    <3>2. Count(part(i), id) = Count(part(i - 1), id) + (IF e = id THEN 1 ELSE 0)
      BY <2>1, CountAppend
    <3> QED BY <2>1, <3>1, <3>2
  <2> QED BY <2>1, <2>2, <2>3, <2>4
<1> HIDE DEF S, n, Good
<1>8. n \in S
  <2>1. \A i \in 0..n : i \in S
    BY <1>2, <1>6, <1>7, Induct
  <2> QED BY <1>2, <2>1
<1>9. Good(n)
  BY <1>8 DEF S
<1> QED BY <1>1, <1>3, <1>9 DEF Good, n

LEMMA SortedHas ==
  ASSUME NEW list \in Seq(Ids)
  PROVE  Sorted(list) \in Seq(Ids) /\ ToSet(Sorted(list)) = ToSet(list)
<1>1. Sorted(list) \in Seq(Ids) /\ \A id \in Ids : Count(Sorted(list), id) = Count(list, id)
  BY SortedIs
<1>2. \A id \in Ids : id \in ToSet(Sorted(list)) <=> id \in ToSet(list)
  BY <1>1, CountIs
<1>3. ToSet(Sorted(list)) \subseteq Ids /\ ToSet(list) \subseteq Ids
  BY <1>1, SetOfSeq
<1> QED BY <1>1, <1>2, <1>3

\* What a pass that keeps some elements of a list has kept after each of them.
Pass(f, list) ==
  /\ f[0] = <<>>
  /\ \A i \in 1..Len(list) : f[i] = f[i - 1] \/ f[i] = Append(f[i - 1], list[i])

LEMMA PassKeeps ==
  ASSUME NEW list \in Seq(Ids), NEW f, Pass(f, list)
  PROVE  \A i \in 0..Len(list) :
           f[i] \in Seq(Ids) /\ ToSet(f[i]) \subseteq {list[k] : k \in 1..i}
<1> DEFINE n == Len(list)
           Good(i) == f[i] \in Seq(Ids) /\ ToSet(f[i]) \subseteq {list[k] : k \in 1..i}
           S == {i \in 0..n : Good(i)}
<1>1. n \in Nat /\ \A i \in 1..n : list[i] \in Ids
  OBVIOUS
<1>2. 0 \in S
  <2>1. f[0] = <<>> /\ <<>> \in Seq(Ids) /\ ToSet(<<>>) = {}
    BY DEF Pass, ToSet
  <2>2. Good(0)
    BY <2>1
  <2> HIDE DEF Good
  <2> QED BY <1>1, <2>2
<1>3. \A i \in 1..n : i - 1 \in S => i \in S
  <2> SUFFICES ASSUME NEW i \in 1..n, Good(i - 1) PROVE Good(i)
    <3> HIDE DEF Good
    <3> QED BY <1>1
  <2> DEFINE a == f[i - 1]
             e == list[i]
  <2>1. a \in Seq(Ids) /\ e \in Ids /\ (f[i] = a \/ f[i] = Append(a, e))
    BY <1>1 DEF Pass
  <2>2. \A x \in ToSet(a) \cup {e} : x \in {list[k] : k \in 1..i}
    <3>1. \A k : k \in 1..i <=> k \in 1..i - 1 \/ k = i
      BY <1>1
    <3> QED BY <3>1
  <2> HIDE DEF a, e
  <2>3. Append(a, e) \in Seq(Ids) /\ ToSet(Append(a, e)) = ToSet(a) \cup {e}
    BY <2>1, SetOfSeq
  <2> QED BY <2>1, <2>2, <2>3
<1> HIDE DEF Good, S, n
<1>4. \A i \in 0..n : i \in S
  BY <1>1, <1>2, <1>3, Induct
<1> QED BY <1>4 DEF Good, S, n

LEMMA PassGrows ==
  ASSUME NEW list \in Seq(Ids), NEW f, Pass(f, list), NEW i \in 0..Len(list)
  PROVE  \A j \in i..Len(list) : ToSet(f[i]) \subseteq ToSet(f[j])
<1> DEFINE m == Len(list) - i
           S == {d \in 0..m : ToSet(f[i]) \subseteq ToSet(f[i + d])}
<1>1. m \in Nat /\ i \in Nat /\ Len(list) \in Nat
  OBVIOUS
<1>2. 0 \in S
  BY <1>1
<1>3. \A d \in 1..m : d - 1 \in S => d \in S
  <2> SUFFICES ASSUME NEW d \in 1..m, ToSet(f[i]) \subseteq ToSet(f[i + (d - 1)])
               PROVE  ToSet(f[i]) \subseteq ToSet(f[i + d])
    BY <1>1
  <2>1. /\ i + d \in 1..Len(list) /\ i + d - 1 = i + (d - 1) /\ i + (d - 1) \in 0..Len(list)
    BY <1>1
  <2> DEFINE a == f[i + (d - 1)]
             e == list[i + d]
  <2>2. a \in Seq(Ids) /\ e \in Ids
    BY <2>1, PassKeeps
  <2>3. f[i + d] = a \/ f[i + d] = Append(a, e)
    BY <2>1 DEF Pass
  <2> HIDE DEF a, e
  <2>4. ToSet(Append(a, e)) = ToSet(a) \cup {e}
    BY <2>2, SetOfSeq
  <2> QED BY <2>3, <2>4 DEF a
<1> HIDE DEF S, m
<1>4. \A d \in 0..m : d \in S
  BY <1>1, <1>2, <1>3, Induct
<1>5. \A j \in i..Len(list) : j - i \in 0..m /\ i + (j - i) = j
  BY <1>1 DEF m
<1> QED BY <1>4, <1>5 DEF S

LEMMA WithoutSyntheticIs ==
  ASSUME NEW list \in Seq(Ids), NEW contained
  PROVE  /\ WithoutSynthetic(list, contained) \in Seq(Ids)
         /\ ToSet(WithoutSynthetic(list, contained)) \subseteq ToSet(list)
         /\ WithoutSynthetic(list, contained) = <<>> => list = <<>>
<1>1. Len(list) \in Nat /\ \A i \in 1..Len(list) : list[i] \in Ids
  OBVIOUS
<1>2. CASE Len(list) > 1
  <2> DEFINE a == Front(list)
  <2>1. /\ a \in Seq(Ids) /\ Len(a) = Len(list) - 1
        /\ \A i \in 1..Len(list) - 1 : a[i] = list[i]
    <3>1. \A i \in 1..Len(list) - 1 : list[i] \in Ids
      BY <1>1
    <3>2. /\ a \in Seq(Ids)
          /\ Len(a) = IF 1 <= Len(list) - 1 THEN Len(list) - 1 - 1 + 1 ELSE 0
          /\ \A i \in 1..Len(list) - 1 - 1 + 1 : a[i] = list[1 + i - 1]
      BY <1>1, <3>1, SubSeqProperties DEF Front
    <3>3. \A i \in 1..Len(list) - 1 : i \in 1..Len(list) - 1 - 1 + 1 /\ 1 + i - 1 = i
      BY <1>1
    <3> HIDE DEF a
    <3> QED BY <1>1, <1>2, <3>2, <3>3
  <2> HIDE DEF a
  <2>2. ToSet(a) = {a[i] : i \in 1..Len(a)} /\ ToSet(list) = {list[i] : i \in 1..Len(list)}
    BY <2>1, SetOfSeq
  <2>3. \A x \in ToSet(a) : x \in ToSet(list)
    <3>1. \A i \in 1..Len(a) : i \in 1..Len(list) /\ a[i] = list[i]
      BY <1>1, <2>1
    <3> QED BY <2>2, <3>1
  <2>4. a # <<>>
    BY <1>1, <1>2, <2>1
  <2> QED BY <2>1, <2>3, <2>4 DEF a, WithoutSynthetic
<1>3. CASE ~(Len(list) > 1)
  BY <1>3 DEF WithoutSynthetic
<1> QED BY <1>2, <1>3

LEMMA WithoutUninterestingIs ==
  ASSUME NEW list \in Seq(Ids)
  PROVE  /\ WithoutUninteresting(list) \in Seq(Ids)
         /\ ToSet(WithoutUninteresting(list)) \subseteq ToSet(list)
         /\ WithoutUninteresting(list) = <<>> => list = <<>>
<1>1. PICK f : /\ f[0] = <<>> /\ WithoutUninteresting(list) = f[Len(list)]
               /\ \A i \in 1..Len(list) : f[i] = UninterestingStep(f[i - 1], list[i])
  BY UninterestingSteps
<1>2. Pass(f, list)
  BY <1>1 DEF Pass, UninterestingStep
<1>3. Len(list) \in Nat /\ Len(list) \in 0..Len(list) /\ ToSet(list) = {list[k] : k \in 1..Len(list)}
  BY SetOfSeq
<1>4. f[Len(list)] \in Seq(Ids) /\ ToSet(f[Len(list)]) \subseteq ToSet(list)
  BY <1>2, <1>3, PassKeeps
<1>5. list # <<>> => f[Len(list)] # <<>>
  <2> SUFFICES ASSUME list # <<>> PROVE f[Len(list)] # <<>>
    OBVIOUS
  <2>1. 1 \in 1..Len(list) /\ 1 \in 0..Len(list) /\ Len(list) \in 1..Len(list) /\ list[1] \in Ids
        /\ 1 - 1 = 0
    BY <1>3
  <2>2. f[1] = UninterestingStep(<<>>, list[1])
    BY <1>1, <2>1
  <2>3. f[1] = Append(<<>>, list[1])
    BY <2>2 DEF UninterestingStep
  <2>4. list[1] \in ToSet(f[1])
    <3>1. <<>> \in Seq(Ids)
      OBVIOUS
    <3>2. ToSet(Append(<<>>, list[1])) = ToSet(<<>>) \cup {list[1]}
      BY <2>1, <3>1, SetOfSeq
    <3> QED BY <2>3, <3>2
  <2>5. list[1] \in ToSet(f[Len(list)])
    BY <1>2, <2>1, <2>4, PassGrows
  <2> QED BY <1>4, <2>5, SetOfSeq
<1> QED BY <1>1, <1>4, <1>5

LEMMA WithoutDuplicatesIs ==
  ASSUME NEW list \in Seq(Ids)
  PROVE  /\ WithoutDuplicates(list) \in Seq(Ids)
         /\ ToSet(WithoutDuplicates(list)) \subseteq ToSet(list)
         /\ WithoutDuplicates(list) = <<>> => list = <<>>
<1>1. PICK f : /\ f[0] = <<>> /\ WithoutDuplicates(list) = f[Len(list)]
               /\ \A i \in 1..Len(list) : f[i] = DuplicateStep(f[i - 1], list[i])
  BY DuplicateSteps
<1>2. Pass(f, list)
  BY <1>1 DEF Pass, DuplicateStep
<1>3. Len(list) \in Nat /\ Len(list) \in 0..Len(list) /\ ToSet(list) = {list[k] : k \in 1..Len(list)}
  BY SetOfSeq
<1>4. f[Len(list)] \in Seq(Ids) /\ ToSet(f[Len(list)]) \subseteq ToSet(list)
  BY <1>2, <1>3, PassKeeps
<1>5. list # <<>> => f[Len(list)] # <<>>
  <2> SUFFICES ASSUME list # <<>> PROVE f[Len(list)] # <<>>
    OBVIOUS
  <2>1. 1 \in 1..Len(list) /\ 1 \in 0..Len(list) /\ Len(list) \in 1..Len(list) /\ list[1] \in Ids
        /\ 1 - 1 = 0
    BY <1>3
  <2>2. f[1] = DuplicateStep(<<>>, list[1])
    BY <1>1, <2>1
  <2>3. f[1] = Append(<<>>, list[1])
    BY <2>2 DEF DuplicateStep, ToSet
  <2>4. list[1] \in ToSet(f[1])
    <3>1. <<>> \in Seq(Ids)
      OBVIOUS
    <3>2. ToSet(Append(<<>>, list[1])) = ToSet(<<>>) \cup {list[1]}
      BY <2>1, <3>1, SetOfSeq
    <3> QED BY <2>3, <3>2
  <2>5. list[1] \in ToSet(f[Len(list)])
    BY <1>2, <2>1, <2>4, PassGrows
  <2> QED BY <1>4, <2>5, SetOfSeq
<1> QED BY <1>1, <1>4, <1>5

-----------------------------------------------------------------------------
(* What the operators read of the state stays as it is while the list is   *)
(* worked on.                                                              *)

Same == areaOfInterest' = areaOfInterest /\ context' = context

LEMMA FitsSame ==
  ASSUME Same, NEW op, NEW list
  PROVE  /\ Allowed(op)' <=> Allowed(op)
         /\ UsesExtents' <=> UsesExtents
         /\ Placed(op, list)' <=> Placed(op, list)
         /\ ExtentContains(op)' <=> ExtentContains(op)
         /\ Fits(op, list)' <=> Fits(op, list)
<1> USE DEF Same
<1>1. (Allowed(op)' <=> Allowed(op)) /\ (UsesExtents' <=> UsesExtents) /\ (HasArea' <=> HasArea)
  BY DEF Allowed, UsesExtents, HasArea
<1>2. Placed(op, list)' <=> Placed(op, list)
  BY DEF Placed, Described, HasExtent
<1>3. ExtentContains(op)' <=> ExtentContains(op)
  <2>1. Regions' = Regions
    BY <1>1 DEF Regions
  <2> QED BY <2>1 DEF ExtentContains
<1>4. Intersects(op)' <=> Intersects(op)
  BY <1>1 DEF Intersects, Overlaps
<1>5. Fits(op, list)' <=> Fits(op, list)
  BY <1>1, <1>2, <1>3, <1>4 DEF Fits
<1> QED BY <1>1, <1>2, <1>3, <1>5

LEMMA FilteredSame ==
  ASSUME Same, NEW list
  PROVE  /\ ContainedWithoutGrid(list)' <=> ContainedWithoutGrid(list)
         /\ Filtered(list)' = Filtered(list)
<1>1. \A op : /\ Allowed(op)' <=> Allowed(op)
              /\ UsesExtents' <=> UsesExtents
              /\ Placed(op, list)' <=> Placed(op, list)
              /\ ExtentContains(op)' <=> ExtentContains(op)
              /\ Fits(op, list)' <=> Fits(op, list)
  BY FitsSame
<1>2. ContainedWithoutGrid(list)' <=> ContainedWithoutGrid(list)
  BY <1>1 DEF ContainedWithoutGrid, SomeReal
<1>3. AllFitting(list)' = AllFitting(list)
  <2>1. {id \in ToSet(list) : Fits(Op[id], list)}' = {id \in ToSet(list) : Fits(Op[id], list)}
    BY <1>1
  <2> QED BY <2>1 DEF AllFitting
<1>4. AllAllowed(list)' = AllAllowed(list)
  <2>1. {id \in ToSet(list) : Allowed(Op[id])}' = {id \in ToSet(list) : Allowed(Op[id])}
    BY <1>1
  <2> QED BY <2>1 DEF AllAllowed
<1>5. Filtered(list)' = Filtered(list)
  BY <1>1, <1>3, <1>4 DEF Filtered, SomeReal
<1> QED BY <1>2, <1>5

LEMMA CriteriaSame ==
  ASSUME Same, NEW a, NEW b
  PROVE  Criteria(a, b)' = Criteria(a, b)
<1> USE DEF Same
<1>1. HasArea' <=> HasArea
  BY DEF HasArea
<1>2. Zone' = Zone
  BY <1>1 DEF Zone
<1>3. UsedArea(a)' = UsedArea(a) /\ UsedArea(b)' = UsedArea(b)
  BY <1>2 DEF UsedArea
<1>4. (HasGrids(a)' = HasGrids(a)) /\ (HasGrids(b)' = HasGrids(b))
  BY DEF HasGrids
<1>5. (GridsAvailable(a)' = GridsAvailable(a)) /\ (GridsAvailable(b)' = GridsAvailable(b))
  BY DEF GridsAvailable
<1>6. (GridsKnown(a)' = GridsKnown(a)) /\ (GridsKnown(b)' = GridsKnown(b))
  BY DEF GridsKnown
<1>7. /\ HubFirst(a, b)' = HubFirst(a, b)
      /\ HubSecond(a, b)' = HubSecond(a, b)
  BY DEF HubFirst, HubSecond, UsesHub
<1> QED BY <1>3, <1>4, <1>5, <1>6, <1>7 DEF Criteria

LEMMA PrecedesSame ==
  ASSUME Same, NEW a, NEW b
  PROVE  Precedes(a, b)' <=> Precedes(a, b)
BY CriteriaSame DEF Precedes

LEMMA InsertedSame ==
  ASSUME Same, NEW list, NEW id
  PROVE  Inserted(list, id)' = Inserted(list, id)
BY PrecedesSame DEF Inserted

LEMMA AllSortedSteps ==
  \A list \in Seq(Ids) :
    \E f : /\ f[0] = <<>> /\ Sorted(list) = f[Len(list)]
           /\ \A i \in 1..Len(list) : f[i] = Inserted(f[i - 1], list[i])
BY SortedSteps

LEMMA SortedSame ==
  ASSUME Same
  PROVE  \A list \in Seq(Ids) : Sorted(list)' = Sorted(list)
<1>1. (\A list \in Seq(Ids) :
        \E f : /\ f[0] = <<>> /\ Sorted(list) = f[Len(list)]
               /\ \A i \in 1..Len(list) : f[i] = Inserted(f[i - 1], list[i]))'
  BY AllSortedSteps, PTL
<1>2. \A list \in Seq(Ids) :
        \E f : /\ f[0] = <<>> /\ Sorted(list)' = f[Len(list)]
               /\ \A i \in 1..Len(list) : f[i] = Inserted(f[i - 1], list[i])
  BY <1>1, InsertedSame
<1> TAKE list \in Seq(Ids)
<1>3. PICK f : /\ f[0] = <<>> /\ Sorted(list)' = f[Len(list)]
               /\ \A i \in 1..Len(list) : f[i] = Inserted(f[i - 1], list[i])
  BY <1>2
<1>4. PICK g : /\ g[0] = <<>> /\ Sorted(list) = g[Len(list)]
               /\ \A i \in 1..Len(list) : g[i] = Inserted(g[i - 1], list[i])
  BY SortedSteps
<1> DEFINE n == Len(list)
           S == {i \in 0..n : f[i] = g[i]}
<1>5. n \in Nat /\ 0 \in S
  BY <1>3, <1>4
<1>6. \A i \in 1..n : i - 1 \in S => i \in S
  BY <1>3, <1>4
<1> HIDE DEF S, n
<1>7. \A i \in 0..n : i \in S
  BY <1>5, <1>6, Induct
<1>8. n \in S
  BY <1>5, <1>7
<1> QED BY <1>3, <1>4, <1>8 DEF S, n

-----------------------------------------------------------------------------
(* What the list is after each of the member functions.                    *)

AfterSort(list) == Sorted(Filtered(list))
AfterSynthetic(list) == WithoutSynthetic(AfterSort(list), ContainedWithoutGrid(list))
AfterUninteresting(list) == WithoutUninteresting(AfterSynthetic(list))
AfterDuplicates(list) == WithoutDuplicates(AfterUninteresting(list))

LEMMA SelectedIs ==
  \A list : Selected(list) = WithoutSynthetic(AfterDuplicates(list), ContainedWithoutGrid(list))
BY DEF Selected, AfterDuplicates, AfterUninteresting, AfterSynthetic, AfterSort

Found == sourceList \in Lists /\ context \in Contexts

Working == pc \notin {"computeAreaOfInterest", "filterOut"}

IInv ==
  /\ Found
  /\ pc \in {"computeAreaOfInterest", "filterOut", "sort", "removeSyntheticNullTransforms",
             "removeUninterestingOps", "removeDuplicateOps",
             "removeSyntheticNullTransformsAgain", "done"}
  /\ Working => containsWithoutGrid = ContainedWithoutGrid(sourceList)
  /\ pc = "sort" => res = Filtered(sourceList)
  /\ pc = "removeSyntheticNullTransforms" => res = AfterSort(sourceList)
  /\ pc = "removeUninterestingOps" => res = AfterSynthetic(sourceList)
  /\ pc = "removeDuplicateOps" => res = AfterUninteresting(sourceList)
  /\ pc = "removeSyntheticNullTransformsAgain" => res = AfterDuplicates(sourceList)
  /\ pc = "done" => res = Selected(sourceList)

LEMMA FoundIsList ==
  ASSUME Found PROVE sourceList \in Seq(Ids) /\ Filtered(sourceList) \in Seq(Ids)
<1>1. sourceList \in Seq(Ids)
  BY ListsAssumption DEF Found, Ids
<1> QED BY <1>1, FilteredIs

LEMMA AfterSame ==
  ASSUME Found, Same, sourceList' = sourceList
  PROVE  /\ ContainedWithoutGrid(sourceList)' = ContainedWithoutGrid(sourceList)
         /\ Filtered(sourceList)' = Filtered(sourceList)
         /\ AfterSort(sourceList)' = AfterSort(sourceList)
         /\ AfterSynthetic(sourceList)' = AfterSynthetic(sourceList)
         /\ AfterUninteresting(sourceList)' = AfterUninteresting(sourceList)
         /\ AfterDuplicates(sourceList)' = AfterDuplicates(sourceList)
         /\ Selected(sourceList)' = Selected(sourceList)
<1>1. \A list : /\ ContainedWithoutGrid(list)' <=> ContainedWithoutGrid(list)
                /\ Filtered(list)' = Filtered(list)
  BY FilteredSame
<1>2. ContainedWithoutGrid(sourceList)' = ContainedWithoutGrid(sourceList)
  <2>1. ContainedWithoutGrid(sourceList) \in BOOLEAN /\ ContainedWithoutGrid(sourceList)' \in BOOLEAN
    BY DEF ContainedWithoutGrid
  <2> QED BY <1>1, <2>1
<1>3. Filtered(sourceList)' = Filtered(sourceList)
  BY <1>1
<1>4. AfterSort(sourceList)' = AfterSort(sourceList)
  BY <1>3, FoundIsList, SortedSame DEF AfterSort
<1>5. AfterSynthetic(sourceList)' = AfterSynthetic(sourceList)
  BY <1>2, <1>4 DEF AfterSynthetic
<1>6. AfterUninteresting(sourceList)' = AfterUninteresting(sourceList)
  BY <1>5 DEF AfterUninteresting
<1>7. AfterDuplicates(sourceList)' = AfterDuplicates(sourceList)
  BY <1>6 DEF AfterDuplicates
<1>8. Selected(sourceList)' = Selected(sourceList)
  <2>1. (\A list : Selected(list) = WithoutSynthetic(AfterDuplicates(list), ContainedWithoutGrid(list)))'
    BY SelectedIs, PTL
  <2> QED BY <1>2, <1>7, <2>1, SelectedIs
<1> QED BY <1>2, <1>3, <1>4, <1>5, <1>6, <1>7, <1>8

LEMMA InitIInv == Init => IInv
BY DEF Init, IInv, Found, Working

LEMMA StepIInv == IInv /\ [Next]_vars => IInv'
<1> SUFFICES ASSUME IInv, [Next]_vars PROVE IInv'
  OBVIOUS
<1>1. sourceList' = sourceList /\ context' = context /\ Found'
  BY DEF IInv, Found, Next, vars, ComputeAreaOfInterest, FilterOut, Sort,
         RemoveSyntheticNullTransforms, RemoveUninterestingOps, RemoveDuplicateOps
<1>2. CASE ComputeAreaOfInterest
  BY <1>1, <1>2 DEF IInv, ComputeAreaOfInterest, Working
<1> DEFINE Facts ==
         /\ ContainedWithoutGrid(sourceList)' = ContainedWithoutGrid(sourceList)
         /\ Filtered(sourceList)' = Filtered(sourceList)
         /\ AfterSort(sourceList)' = AfterSort(sourceList)
         /\ AfterSynthetic(sourceList)' = AfterSynthetic(sourceList)
         /\ AfterUninteresting(sourceList)' = AfterUninteresting(sourceList)
         /\ AfterDuplicates(sourceList)' = AfterDuplicates(sourceList)
         /\ Selected(sourceList)' = Selected(sourceList)
<1>3. areaOfInterest' = areaOfInterest => Facts
  BY <1>1, AfterSame DEF IInv, Same
<1>4. CASE FilterOut
  <2>1. Facts
    BY <1>3, <1>4 DEF FilterOut
  <2> QED BY <1>1, <1>4, <2>1 DEF IInv, FilterOut, Working
<1>5. CASE Sort
  <2>1. Facts
    BY <1>3, <1>5 DEF Sort
  <2>2. res' = AfterSort(sourceList)
    BY <1>5 DEF IInv, Sort, AfterSort
  <2> QED BY <1>1, <1>5, <2>1, <2>2 DEF IInv, Sort, Working
<1>6. CASE RemoveSyntheticNullTransforms
  <2>1. Facts
    BY <1>3, <1>6 DEF RemoveSyntheticNullTransforms
  <2>2. CASE pc = "removeSyntheticNullTransforms"
    <3>1. res' = AfterSynthetic(sourceList)
      BY <1>6, <2>2 DEF IInv, Working, RemoveSyntheticNullTransforms, AfterSynthetic
    <3> QED BY <1>1, <1>6, <2>1, <2>2, <3>1 DEF IInv, RemoveSyntheticNullTransforms, Working
  <2>3. CASE pc = "removeSyntheticNullTransformsAgain"
    <3>1. res' = Selected(sourceList)
      BY <1>6, <2>3, SelectedIs DEF IInv, Working, RemoveSyntheticNullTransforms
    <3> QED BY <1>1, <1>6, <2>1, <2>3, <3>1 DEF IInv, RemoveSyntheticNullTransforms, Working
  <2> QED BY <1>6, <2>2, <2>3 DEF RemoveSyntheticNullTransforms
<1>7. CASE RemoveUninterestingOps
  <2>1. Facts
    BY <1>3, <1>7 DEF RemoveUninterestingOps
  <2>2. res' = AfterUninteresting(sourceList)
    BY <1>7 DEF IInv, RemoveUninterestingOps, AfterUninteresting
  <2> QED BY <1>1, <1>7, <2>1, <2>2 DEF IInv, RemoveUninterestingOps, Working
<1>8. CASE RemoveDuplicateOps
  <2>1. Facts
    BY <1>3, <1>8 DEF RemoveDuplicateOps
  <2>2. res' = AfterDuplicates(sourceList)
    BY <1>8 DEF IInv, RemoveDuplicateOps, AfterDuplicates
  <2> QED BY <1>1, <1>8, <2>1, <2>2 DEF IInv, RemoveDuplicateOps, Working
<1>9. CASE UNCHANGED vars
  <2>1. Facts
    BY <1>3, <1>9 DEF vars
  <2> QED BY <1>1, <1>9, <2>1 DEF IInv, vars, Working
<1> QED BY <1>2, <1>4, <1>5, <1>6, <1>7, <1>8, <1>9 DEF Next

\* The steps compute the list that Selected defines.
THEOREM ResultIsSelected == Spec => [](Done => res = Selected(sourceList))
<1>1. IInv => (Done => res = Selected(sourceList))
  BY DEF IInv, Done
<1> QED BY <1>1, InitIInv, StepIInv, PTL DEF Spec

LEMMA FilteredEmpty ==
  ASSUME Found, Filtered(sourceList) = <<>>
  PROVE  \/ \A id \in ToSet(sourceList) : ~Allowed(Op[id])
         \/ UsesExtents /\ \E id \in ToSet(sourceList) :
              ~Op[id].ballpark /\ HasExtent(Op[id]) /\ ~Fits(Op[id], sourceList)
<1> DEFINE a == AllFitting(sourceList)
           b == AllAllowed(sourceList)
<1>1. /\ a \in Seq(Ids)
      /\ ToSet(a) = ToSet(sourceList) \cap {id \in ToSet(sourceList) : Fits(Op[id], sourceList)}
  BY FoundIsList, OnlyIs DEF AllFitting
<1>2. /\ b \in Seq(Ids)
      /\ ToSet(b) = ToSet(sourceList) \cap {id \in ToSet(sourceList) : Allowed(Op[id])}
  BY FoundIsList, OnlyIs DEF AllAllowed
<1>3. /\ a = <<>>
      /\ \/ b = <<>>
         \/ UsesExtents /\ SomeReal(sourceList, LAMBDA op : Placed(op, sourceList))
  <2>1. Filtered(sourceList) = a \o b \/ Filtered(sourceList) = a
    BY DEF Filtered, a, b
  <2>2. Filtered(sourceList) = a \o b
        \/ ~(a = <<>> /\ ~(UsesExtents /\ SomeReal(sourceList, LAMBDA op : Placed(op, sourceList))))
    BY DEF Filtered, a, b
  <2> HIDE DEF a, b
  <2>3. a \o b = <<>> => a = <<>> /\ b = <<>>
    BY <1>1, <1>2
  <2> QED BY <2>1, <2>2, <2>3
<1> HIDE DEF a, b
<1>4. CASE b = <<>>
  <2>1. ToSet(b) = {}
    BY <1>2, <1>4, SetOfSeq
  <2> QED BY <1>2, <2>1
<1>5. CASE UsesExtents /\ SomeReal(sourceList, LAMBDA op : Placed(op, sourceList))
  <2>1. PICK id \in ToSet(sourceList) : ~Op[id].ballpark /\ Placed(Op[id], sourceList)
    BY <1>5 DEF SomeReal
  <2>2. ToSet(a) = {}
    BY <1>1, <1>3, SetOfSeq
  <2>3. ~Fits(Op[id], sourceList)
    BY <1>1, <2>2
  <2> QED BY <1>5, <2>1, <2>3 DEF Placed
<1> QED BY <1>3, <1>4, <1>5

\* The steps after filterOut leave something of a list that is not empty.
LEMMA SelectedHas ==
  ASSUME Found
  PROVE  /\ AfterSort(sourceList) \in Seq(Ids) /\ AfterSynthetic(sourceList) \in Seq(Ids)
         /\ AfterUninteresting(sourceList) \in Seq(Ids) /\ AfterDuplicates(sourceList) \in Seq(Ids)
         /\ Selected(sourceList) \in Seq(Ids)
         /\ Selected(sourceList) = <<>> => Filtered(sourceList) = <<>>
<1> DEFINE list == Filtered(sourceList)
           contained == ContainedWithoutGrid(sourceList)
<1>1. list \in Seq(Ids)
  BY FoundIsList
<1>2. AfterSort(sourceList) \in Seq(Ids) /\ (AfterSort(sourceList) = <<>> => list = <<>>)
  <2>1. Sorted(list) \in Seq(Ids) /\ ToSet(Sorted(list)) = ToSet(list)
    BY <1>1, SortedHas
  <2> QED BY <1>1, <2>1, SetOfSeq DEF AfterSort
<1>3. /\ AfterSynthetic(sourceList) \in Seq(Ids)
      /\ AfterSynthetic(sourceList) = <<>> => AfterSort(sourceList) = <<>>
  BY <1>2, WithoutSyntheticIs DEF AfterSynthetic
<1>4. /\ AfterUninteresting(sourceList) \in Seq(Ids)
      /\ AfterUninteresting(sourceList) = <<>> => AfterSynthetic(sourceList) = <<>>
  BY <1>3, WithoutUninterestingIs DEF AfterUninteresting
<1>5. /\ AfterDuplicates(sourceList) \in Seq(Ids)
      /\ AfterDuplicates(sourceList) = <<>> => AfterUninteresting(sourceList) = <<>>
  BY <1>4, WithoutDuplicatesIs DEF AfterDuplicates
<1>6. /\ Selected(sourceList) \in Seq(Ids)
      /\ Selected(sourceList) = <<>> => AfterDuplicates(sourceList) = <<>>
  BY <1>5, WithoutSyntheticIs, SelectedIs
<1> QED BY <1>2, <1>3, <1>4, <1>5, <1>6

\* Nothing is returned only if nothing that was found is allowed, or if the
\* area of use of an operation that is no ballpark one is known not to fit:
\* what filterOut retains in its second pass is never removed entirely.
THEOREM NothingOnlyForAReason == Spec => []EmptyForAReason
<1>1. IInv => EmptyForAReason
  <2> SUFFICES ASSUME IInv, Done, res = <<>> PROVE EmptyForAReason
    BY DEF EmptyForAReason
  <2>1. Found /\ Selected(sourceList) = <<>>
    BY DEF IInv, Done
  <2>2. Filtered(sourceList) = <<>>
    BY <2>1, SelectedHas
  <2> QED BY <2>1, <2>2, FilteredEmpty DEF EmptyForAReason
<1> QED BY <1>1, InitIInv, StepIInv, PTL DEF Spec

-----------------------------------------------------------------------------
(* Lists in which every element is related to those after it.  The         *)
(* relation is given as a set of pairs.                                    *)

InOrder(rel, list) ==
  \A i, j \in 1..Len(list) : i < j => <<list[i], list[j]>> \in rel

LEMMA AppendInOrder ==
  ASSUME NEW rel, NEW list \in Seq(Ids), NEW e \in Ids, InOrder(rel, list),
         \A i \in 1..Len(list) : <<list[i], e>> \in rel
  PROVE  InOrder(rel, Append(list, e))
<1> DEFINE t == Append(list, e)
<1>1. /\ t \in Seq(Ids) /\ Len(t) = Len(list) + 1 /\ Len(list) \in Nat
      /\ \A i \in 1..Len(list) : t[i] = list[i]
      /\ t[Len(list) + 1] = e
  BY AppendProperties
<1> HIDE DEF t
<1>2. InOrder(rel, t)
  <2> SUFFICES ASSUME NEW i \in 1..Len(list) + 1, NEW j \in 1..Len(list) + 1, i < j
               PROVE  <<t[i], t[j]>> \in rel
    BY <1>1 DEF InOrder
  <2>1. i \in 1..Len(list) /\ (j \in 1..Len(list) \/ j = Len(list) + 1)
    BY <1>1
  <2>2. CASE j \in 1..Len(list)
    BY <1>1, <2>1, <2>2 DEF InOrder
  <2>3. CASE j = Len(list) + 1
    BY <1>1, <2>1, <2>3
  <2> QED BY <2>1, <2>2, <2>3
<1> QED BY <1>2 DEF t

LEMMA PassInOrder ==
  ASSUME NEW rel, NEW list \in Seq(Ids), NEW f, Pass(f, list), InOrder(rel, list)
  PROVE  \A i \in 0..Len(list) : InOrder(rel, f[i])
<1> DEFINE n == Len(list)
           S == {i \in 0..n : InOrder(rel, f[i])}
<1>1. n \in Nat /\ \A i \in 1..n : list[i] \in Ids
  OBVIOUS
<1>2. 0 \in S
  <2>1. f[0] = <<>> /\ Len(<<>>) = 0 /\ 1..0 = {}
    BY DEF Pass
  <2>2. InOrder(rel, f[0])
    BY <2>1 DEF InOrder
  <2> QED BY <1>1, <2>2
<1>3. \A i \in 1..n : i - 1 \in S => i \in S
  <2> SUFFICES ASSUME NEW i \in 1..n, InOrder(rel, f[i - 1]) PROVE InOrder(rel, f[i])
    BY <1>1
  <2> DEFINE a == f[i - 1]
             e == list[i]
  <2>1. i - 1 \in 0..n
    BY <1>1
  <2>2. /\ a \in Seq(Ids) /\ ToSet(a) \subseteq {list[k] : k \in 1..i - 1}
        /\ e \in Ids /\ (f[i] = a \/ f[i] = Append(a, e)) /\ InOrder(rel, a)
    BY <1>1, <2>1, PassKeeps DEF Pass
  <2> HIDE DEF a
  <2>3. \A k \in 1..Len(a) : <<a[k], e>> \in rel
    <3> TAKE k \in 1..Len(a)
    <3>1. a[k] \in ToSet(a)
      BY <2>2, SetOfSeq
    <3>2. PICK l \in 1..i - 1 : a[k] = list[l]
      BY <2>2, <3>1
    <3>3. l \in 1..n /\ l < i
      BY <1>1
    <3> QED BY <3>2, <3>3 DEF InOrder
  <2> HIDE DEF e
  <2>4. InOrder(rel, Append(a, e))
    BY <2>2, <2>3, AppendInOrder
  <2> QED BY <2>2, <2>4
<1> HIDE DEF S, n
<1>4. \A i \in 0..n : i \in S
  BY <1>1, <1>2, <1>3, Induct
<1> QED BY <1>4 DEF S, n

LEMMA WithoutSyntheticInOrder ==
  ASSUME NEW rel, NEW list \in Seq(Ids), InOrder(rel, list), NEW contained
  PROVE  InOrder(rel, WithoutSynthetic(list, contained))
<1>1. Len(list) \in Nat
  OBVIOUS
<1>2. CASE Len(list) > 1
  <2> DEFINE a == Front(list)
  <2>1. Len(a) = Len(list) - 1 /\ \A i \in 1..Len(list) - 1 : a[i] = list[i]
    <3>1. \A i \in 1..Len(list) - 1 : list[i] \in Ids
      OBVIOUS
    <3>2. /\ Len(a) = IF 1 <= Len(list) - 1 THEN Len(list) - 1 - 1 + 1 ELSE 0
          /\ \A i \in 1..Len(list) - 1 - 1 + 1 : a[i] = list[1 + i - 1]
      BY <1>1, <3>1, SubSeqProperties DEF Front
    <3>3. \A i \in 1..Len(list) - 1 : i \in 1..Len(list) - 1 - 1 + 1 /\ 1 + i - 1 = i
      BY <1>1
    <3> HIDE DEF a
    <3> QED BY <1>1, <1>2, <3>2, <3>3
  <2> HIDE DEF a
  <2>2. InOrder(rel, a)
    BY <1>1, <2>1 DEF InOrder
  <2> QED BY <2>2 DEF a, WithoutSynthetic
<1>3. CASE ~(Len(list) > 1)
  BY <1>3 DEF WithoutSynthetic
<1> QED BY <1>2, <1>3

LEMMA WithoutUninterestingInOrder ==
  ASSUME NEW rel, NEW list \in Seq(Ids), InOrder(rel, list)
  PROVE  InOrder(rel, WithoutUninteresting(list))
<1>1. PICK f : /\ f[0] = <<>> /\ WithoutUninteresting(list) = f[Len(list)]
               /\ \A i \in 1..Len(list) : f[i] = UninterestingStep(f[i - 1], list[i])
  BY UninterestingSteps
<1>2. Pass(f, list)
  BY <1>1 DEF Pass, UninterestingStep
<1>3. Len(list) \in 0..Len(list)
  OBVIOUS
<1> QED BY <1>1, <1>2, <1>3, PassInOrder

LEMMA WithoutDuplicatesInOrder ==
  ASSUME NEW rel, NEW list \in Seq(Ids), InOrder(rel, list)
  PROVE  InOrder(rel, WithoutDuplicates(list))
<1>1. PICK f : /\ f[0] = <<>> /\ WithoutDuplicates(list) = f[Len(list)]
               /\ \A i \in 1..Len(list) : f[i] = DuplicateStep(f[i - 1], list[i])
  BY DuplicateSteps
<1>2. Pass(f, list)
  BY <1>1 DEF Pass, DuplicateStep
<1>3. Len(list) \in 0..Len(list)
  OBVIOUS
<1> QED BY <1>1, <1>2, <1>3, PassInOrder

\* The relation of those that may follow one another in a sorted list.
Follows(rel) ==
  /\ \A x, y \in Ids : IF Precedes(Op[x], Op[y]) THEN <<x, y>> \in rel ELSE <<y, x>> \in rel
  /\ \A x, y, z \in Ids : <<x, y>> \in rel /\ <<y, z>> \in rel => <<x, z>> \in rel

LEMMA InsertedInOrder ==
  ASSUME NEW rel, Follows(rel), NEW list \in Seq(Ids), NEW e \in Ids, InOrder(rel, list)
  PROVE  InOrder(rel, Inserted(list, e))
<1>1. PICK p : Place(list, e, p) /\ Inserted(list, e) = InsertAt(list, p, e)
  BY InsertedIs
<1> DEFINE r == InsertAt(list, p, e)
           n == Len(list)
<1>2. /\ n \in Nat /\ p \in 1..n + 1 /\ Len(r) = n + 1 /\ \A k \in 1..n : list[k] \in Ids
      /\ \A k \in 1..n + 1 : r[k] = IF k < p THEN list[k] ELSE IF k = p THEN e ELSE list[k - 1]
  BY <1>1, InsertAtIs DEF Place
<1>3. \A k \in 1..n : k < p => <<list[k], e>> \in rel
  <2> TAKE k \in 1..n
  <2> HAVE k < p
  <2>1. p > 1 /\ p - 1 \in 1..n
    BY <1>2
  <2>2. <<list[p - 1], e>> \in rel
    <3>1. ~Precedes(Op[e], Op[list[p - 1]])
      BY <1>1, <2>1 DEF Place
    <3>2. list[p - 1] \in Ids
      BY <1>2, <2>1
    <3> QED BY <3>1, <3>2 DEF Follows
  <2>3. k < p - 1 \/ k = p - 1
    BY <1>2
  <2>4. k < p - 1 => <<list[k], list[p - 1]>> \in rel
    BY <2>1 DEF InOrder
  <2> QED BY <1>2, <2>1, <2>2, <2>3, <2>4 DEF Follows
<1>4. \A k \in 1..n : k >= p => <<e, list[k]>> \in rel
  <2> TAKE k \in 1..n
  <2> HAVE k >= p
  <2>1. CASE p = 1
    <3>1. list # <<>> /\ 1 \in 1..n
      BY <1>2
    <3>2. <<e, list[1]>> \in rel
      BY <1>1, <1>2, <2>1, <3>1 DEF Place, Follows
    <3>3. 1 < k => <<list[1], list[k]>> \in rel
      BY <3>1 DEF InOrder
    <3>4. 1 < k \/ k = 1
      BY <1>2
    <3> QED BY <1>2, <3>1, <3>2, <3>3, <3>4 DEF Follows
  <2>2. CASE p > 1
    <3>1. k \in p..n
      BY <1>2
    <3>2. Precedes(Op[e], Op[list[k]])
      BY <1>1, <2>2, <3>1 DEF Place
    <3> QED BY <1>2, <3>2 DEF Follows
  <2> QED BY <1>2, <2>1, <2>2
<1> HIDE DEF r, n
<1>5. InOrder(rel, r)
  <2> SUFFICES ASSUME NEW i \in 1..n + 1, NEW j \in 1..n + 1, i < j
               PROVE  <<r[i], r[j]>> \in rel
    BY <1>2 DEF InOrder
  <2> DEFINE at(k) == IF k < p THEN k ELSE k - 1
  <2>1. (i # p => at(i) \in 1..n /\ r[i] = list[at(i)]) /\ (j # p => at(j) \in 1..n /\ r[j] = list[at(j)])
        /\ (i = p => r[i] = e) /\ (j = p => r[j] = e)
        /\ (i # p /\ j # p => at(i) < at(j)) /\ (j = p => at(i) < p) /\ (i = p => at(j) >= p)
    <3>1. p \in Nat /\ n \in Nat
      BY <1>2
    <3>2. (i # p => at(i) \in 1..n) /\ (j # p => at(j) \in 1..n)
      BY <3>1, <1>2
    <3>3. (i # p => r[i] = list[at(i)]) /\ (j # p => r[j] = list[at(j)]) /\ (i = p => r[i] = e) /\ (j = p => r[j] = e)
      BY <1>2
    <3>4. (i # p /\ j # p => at(i) < at(j)) /\ (j = p => at(i) < p) /\ (i = p => at(j) >= p)
      BY <3>1
    <3> QED BY <3>2, <3>3, <3>4
  <2> HIDE DEF at
  <2>2. \A k, l \in 1..n : k < l => <<list[k], list[l]>> \in rel
    BY DEF InOrder, n
  <2>3. CASE i # p /\ j # p
    BY <2>1, <2>2, <2>3
  <2>4. CASE i = p
    <3>1. j # p
      BY <2>4, <1>2
    <3> QED BY <1>4, <2>1, <2>4, <3>1
  <2>5. CASE j = p /\ i # p
    BY <1>3, <2>1, <2>5
  <2> QED BY <2>3, <2>4, <2>5
<1> QED BY <1>1, <1>5 DEF r

LEMMA SortedInOrder ==
  ASSUME NEW rel, Follows(rel), NEW list \in Seq(Ids)
  PROVE  InOrder(rel, Sorted(list))
<1>1. PICK f : /\ f[0] = <<>> /\ Sorted(list) = f[Len(list)]
               /\ \A i \in 1..Len(list) : f[i] = Inserted(f[i - 1], list[i])
  BY SortedSteps
<1> DEFINE n == Len(list)
           S == {i \in 0..n : f[i] \in Seq(Ids) /\ InOrder(rel, f[i])}
<1>2. n \in Nat /\ \A i \in 1..n : list[i] \in Ids
  OBVIOUS
<1>3. 0 \in S
  <2>1. <<>> \in Seq(Ids) /\ Len(<<>>) = 0 /\ 1..0 = {}
    OBVIOUS
  <2>2. f[0] \in Seq(Ids) /\ InOrder(rel, f[0])
    BY <1>1, <2>1 DEF InOrder
  <2> QED BY <1>2, <2>2
<1>4. \A i \in 1..n : i - 1 \in S => i \in S
  <2> SUFFICES ASSUME NEW i \in 1..n, f[i - 1] \in Seq(Ids), InOrder(rel, f[i - 1])
               PROVE  f[i] \in Seq(Ids) /\ InOrder(rel, f[i])
    BY <1>2
  <2> QED BY <1>1, <1>2, InsertedIsSeq, InsertedInOrder
<1> HIDE DEF S, n
<1>5. \A i \in 0..n : i \in S
  BY <1>2, <1>3, <1>4, Induct
<1>6. n \in S
  BY <1>2, <1>5
<1> QED BY <1>1, <1>6 DEF S, n

-----------------------------------------------------------------------------
(* No operation is returned twice.                                         *)

Different == {t \in Ids \X Ids : t[1] # t[2]}

\* what can be exported is different
Once == {t \in Ids \X Ids : t[1] # t[2] \/ ~Op[t[1]].exportable}

LEMMA DifferentIsInjective ==
  ASSUME NEW list \in Seq(Ids)
  PROVE  IsInjective(list) <=> InOrder(Different, list)
<1>1. Len(list) \in Nat /\ DOMAIN list = 1..Len(list) /\ \A i \in 1..Len(list) : list[i] \in Ids
  OBVIOUS
<1>2. \A i, j \in 1..Len(list) : <<list[i], list[j]>> \in Different <=> list[i] # list[j]
  BY <1>1 DEF Different
<1>3. \A i, j \in 1..Len(list) : (i # j => i < j \/ j < i) /\ (i < j => i # j)
  BY <1>1
<1>4. IsInjective(list) => InOrder(Different, list)
  BY <1>1, <1>2, <1>3 DEF IsInjective, InOrder
<1>5. ASSUME InOrder(Different, list) PROVE IsInjective(list)
  <2> SUFFICES ASSUME NEW i \in 1..Len(list), NEW j \in 1..Len(list), list[i] = list[j], i # j
               PROVE  FALSE
    BY <1>1 DEF IsInjective
  <2>1. <<list[i], list[j]>> \in Different \/ <<list[j], list[i]>> \in Different
    BY <1>3, <1>5 DEF InOrder
  <2> QED BY <1>2, <2>1
<1> QED BY <1>4, <1>5

LEMMA ExportableOnce ==
  ASSUME NEW list \in Seq(Ids)
  PROVE  InOrder(Once, WithoutDuplicates(list))
<1>1. PICK f : /\ f[0] = <<>> /\ WithoutDuplicates(list) = f[Len(list)]
               /\ \A i \in 1..Len(list) : f[i] = DuplicateStep(f[i - 1], list[i])
  BY DuplicateSteps
<1>2. Pass(f, list)
  BY <1>1 DEF Pass, DuplicateStep
<1> DEFINE n == Len(list)
           S == {i \in 0..n : InOrder(Once, f[i])}
<1>3. n \in Nat /\ \A i \in 1..n : list[i] \in Ids
  OBVIOUS
<1>4. 0 \in S
  <2>1. f[0] = <<>> /\ Len(<<>>) = 0 /\ 1..0 = {}
    BY <1>1
  <2>2. InOrder(Once, f[0])
    BY <2>1 DEF InOrder
  <2> QED BY <1>3, <2>2
<1>5. \A i \in 1..n : i - 1 \in S => i \in S
  <2> SUFFICES ASSUME NEW i \in 1..n, InOrder(Once, f[i - 1]) PROVE InOrder(Once, f[i])
    BY <1>3
  <2> DEFINE a == f[i - 1]
             e == list[i]
  <2>1. i - 1 \in 0..n
    BY <1>3
  <2>2. a \in Seq(Ids) /\ e \in Ids /\ f[i] = DuplicateStep(a, e) /\ InOrder(Once, a)
    BY <1>1, <1>2, <1>3, <2>1, PassKeeps
  <2> HIDE DEF a, e
  <2>3. CASE f[i] = a
    BY <2>2, <2>3
  <2>4. CASE f[i] # a
    <3>1. f[i] = Append(a, e)
      BY <2>2, <2>4 DEF DuplicateStep
    <3>2. ~(Op[e].exportable /\ \E k \in ToSet(a) : Op[k].exportable /\ SameKey(Op[k], Op[e]))
      BY <2>2, <2>4 DEF DuplicateStep
    <3>3. \A k \in 1..Len(a) : <<a[k], e>> \in Once
      <4> TAKE k \in 1..Len(a)
      <4>1. a[k] \in ToSet(a) /\ a[k] \in Ids
        BY <2>2, SetOfSeq
      <4>2. ~(a[k] = e /\ Op[e].exportable)
        BY <3>2, <4>1 DEF SameKey, SameArea
      <4> QED BY <2>2, <4>1, <4>2 DEF Once
    <3> QED BY <2>2, <3>1, <3>3, AppendInOrder
  <2> QED BY <2>3, <2>4
<1> HIDE DEF S, n
<1>6. \A i \in 0..n : i \in S
  BY <1>3, <1>4, <1>5, Induct
<1>7. n \in S
  BY <1>3, <1>6
<1> QED BY <1>1, <1>7 DEF S, n

LEMMA SelectedFrom ==
  ASSUME Found
  PROVE  ToSet(Selected(sourceList)) \subseteq ToSet(sourceList)
<1>1. Filtered(sourceList) \in Seq(Ids) /\ ToSet(Filtered(sourceList)) \subseteq ToSet(sourceList)
  BY FoundIsList, FilteredIs
<1>2. ToSet(AfterSort(sourceList)) \subseteq ToSet(sourceList)
  BY <1>1, SortedHas DEF AfterSort
<1>3. ToSet(AfterSynthetic(sourceList)) \subseteq ToSet(sourceList)
  BY <1>2, SelectedHas, WithoutSyntheticIs DEF AfterSynthetic
<1>4. ToSet(AfterUninteresting(sourceList)) \subseteq ToSet(sourceList)
  BY <1>3, SelectedHas, WithoutUninterestingIs DEF AfterUninteresting
<1>5. ToSet(AfterDuplicates(sourceList)) \subseteq ToSet(sourceList)
  BY <1>4, SelectedHas, WithoutDuplicatesIs DEF AfterDuplicates
<1> QED BY <1>5, SelectedHas, WithoutSyntheticIs, SelectedIs

\* Whatever was found, and in whatever order sort leaves it: an operation that
\* can be exported is not returned twice, since removeDuplicateOps looks at all
\* those it has kept and an operation has the same key as itself.
THEOREM NoExportableTwice ==
  Spec => []((\A id \in ToSet(sourceList) : Op[id].exportable) => NoOperationTwice)
<1>1. IInv => ((\A id \in ToSet(sourceList) : Op[id].exportable) => NoOperationTwice)
  <2> SUFFICES ASSUME IInv, Done, \A id \in ToSet(sourceList) : Op[id].exportable
               PROVE  IsInjective(res)
    BY DEF NoOperationTwice
  <2>1. Found /\ res = Selected(sourceList)
    BY DEF IInv, Done
  <2>2. res \in Seq(Ids) /\ ToSet(res) \subseteq ToSet(sourceList)
    BY <2>1, SelectedHas, SelectedFrom
  <2>3. InOrder(Once, res)
    <3>1. AfterDuplicates(sourceList) \in Seq(Ids) /\ AfterUninteresting(sourceList) \in Seq(Ids)
      BY <2>1, SelectedHas
    <3>2. InOrder(Once, AfterDuplicates(sourceList))
      BY <3>1, ExportableOnce DEF AfterDuplicates
    <3> QED BY <2>1, <3>1, <3>2, WithoutSyntheticInOrder, SelectedIs
  <2>4. \A i, j \in 1..Len(res) : <<res[i], res[j]>> \in Once => <<res[i], res[j]>> \in Different
    <3>1. \A i \in 1..Len(res) : res[i] \in Ids /\ Op[res[i]].exportable
      BY <2>2, SetOfSeq
    <3> QED BY <3>1 DEF Once, Different
  <2>5. InOrder(Different, res)
    BY <2>3, <2>4 DEF InOrder
  <2> QED BY <2>2, <2>5, DifferentIsInjective
<1> QED BY <1>1, InitIInv, StepIInv, PTL DEF Spec

-----------------------------------------------------------------------------
(* The comparison.  What its criteria look at is a tuple of numbers, and   *)
(* the criteria compare the tuples in lexicographic order.                 *)

Late(first) == IF first THEN 0 ELSE 1

Ranks(op) ==
  << Late(op.exportable), Late(~op.ballpark), Late(~op.ballparkVertical),
     Late(~op.synthetic), Late(GridsAvailable(op)), Late(GridsKnown(op)),
     Late(op.accuracy >= 0), Late(op.accuracy < 0 /\ HasGrids(op)), -UsedArea(op),
     IF op.accuracy >= 0 THEN op.accuracy ELSE 0,
     Late(~(op.accuracy >= 0 /\ HasGrids(op))), Late(op.xyzGridShift), 0,
     op.steps, op.projSteps, Late(op.offsetFrom = "similar"),
     op.nameSize, -op.nameRank >>

Lex(a, b) ==
  \E i \in 1..18 : a[i] < b[i] /\ \A j \in 1..(i - 1) : a[j] = b[j]

Numbers == [1..18 -> Int]

LEMMA RanksType ==
  ASSUME NEW id \in Ids
  PROVE  Ranks(Op[id]) \in Numbers
<1> DEFINE op == Op[id]
<1>1. op \in Operation
  BY OpAssumption DEF Ids
<1> HIDE DEF op
<1>2. UsedArea(op) \in Nat
  <2>1. op.extent.area \cap Zone \in SUBSET Cells
    BY <1>1 DEF Operation, Areas
  <2>2. IsFiniteSet(op.extent.area \cap Zone)
    BY <2>1, CellsAssumption, FS_Subset
  <2> QED BY <2>2, FS_CardinalityType DEF UsedArea
<1>3. /\ op.accuracy \in Int /\ op.steps \in Nat /\ op.projSteps \in Nat
      /\ op.nameSize \in Nat /\ op.nameRank \in Nat
  BY <1>1 DEF Operation
<1>4. \A p : Late(p) \in Int
  BY DEF Late
<1>5. Ranks(op) \in Seq(Int) /\ Len(Ranks(op)) = 18
  <2>1. -UsedArea(op) \in Int /\ -op.nameRank \in Int /\ (IF op.accuracy >= 0 THEN op.accuracy ELSE 0) \in Int
    BY <1>2, <1>3
  <2> QED BY <1>3, <1>4, <2>1 DEF Ranks
<1>6. \A s \in Seq(Int) : s \in [1..Len(s) -> Int]
  OBVIOUS
<1>7. Ranks(op) \in [1..18 -> Int]
  BY <1>5, <1>6
<1> QED BY <1>7 DEF op, Numbers

LEMMA LexIsOrder ==
  /\ \A a \in Numbers : ~Lex(a, a)
  /\ \A a, b, c \in Numbers : Lex(a, b) /\ Lex(b, c) => Lex(a, c)
  /\ \A a, b \in Numbers : a = b \/ Lex(a, b) \/ Lex(b, a)
<1>1. \A a \in Numbers : ~Lex(a, a)
  BY DEF Lex, Numbers
<1>2. ASSUME NEW a \in Numbers, NEW b \in Numbers, NEW c \in Numbers, Lex(a, b), Lex(b, c)
      PROVE  Lex(a, c)
  <2>1. PICK i \in 1..18 : a[i] < b[i] /\ \A j \in 1..(i - 1) : a[j] = b[j]
    BY <1>2 DEF Lex
  <2>2. PICK k \in 1..18 : b[k] < c[k] /\ \A j \in 1..(k - 1) : b[j] = c[j]
    BY <1>2 DEF Lex
  <2>3. \A l \in 1..18 : a[l] \in Int /\ b[l] \in Int /\ c[l] \in Int
    BY <1>2 DEF Numbers
  <2>4. CASE i < k
    <3>1. i \in 1..(k - 1) /\ \A j \in 1..(i - 1) : j \in 1..(k - 1)
      BY <2>4
    <3>2. a[i] < c[i] /\ \A j \in 1..(i - 1) : a[j] = c[j]
      BY <2>1, <2>2, <3>1
    <3> QED BY <3>2 DEF Lex
  <2>5. CASE k < i
    <3>1. k \in 1..(i - 1) /\ \A j \in 1..(k - 1) : j \in 1..(i - 1)
      BY <2>5
    <3>2. a[k] < c[k] /\ \A j \in 1..(k - 1) : a[j] = c[j]
      BY <2>1, <2>2, <3>1
    <3> QED BY <3>2 DEF Lex
  <2>6. CASE i = k
    <3>1. a[i] < c[i]
      BY <2>1, <2>2, <2>3, <2>6
    <3> QED BY <2>1, <2>2, <2>6, <3>1 DEF Lex
  <2> QED BY <2>4, <2>5, <2>6
<1>3. ASSUME NEW a \in Numbers, NEW b \in Numbers, a # b
      PROVE  Lex(a, b) \/ Lex(b, a)
  <2> DEFINE T == {i \in 1..18 : a[i] # b[i]}
  <2>1. T \subseteq Nat /\ T # {}
    BY <1>3 DEF Numbers
  <2>2. PICK i \in T : \A j \in T : i <= j
    BY <2>1, LeastOf
  <2>3. i \in 1..18 /\ a[i] \in Int /\ b[i] \in Int /\ a[i] # b[i]
    BY <1>3 DEF Numbers
  <2>4. \A j \in 1..(i - 1) : a[j] = b[j]
    <3> TAKE j \in 1..(i - 1)
    <3>1. j \in 1..18 /\ ~(i <= j)
      BY <2>3
    <3>2. j \notin T
      <4> HIDE DEF T
      <4> QED BY <2>2, <3>1
    <3> QED BY <3>1, <3>2
  <2>5. a[i] < b[i] \/ b[i] < a[i]
    BY <2>3
  <2> QED BY <2>3, <2>4, <2>5 DEF Lex
<1> QED BY <1>1, <1>2, <1>3

\* Where the ranks before the k-th are the same, the k-th criterion compares
\* the k-th.
Compares(x, y, k) ==
  (\A j \in 1..(k - 1) : Ranks(x)[j] = Ranks(y)[j]) =>
    /\ Criteria(x, y)[k][1] <=> Ranks(x)[k] < Ranks(y)[k]
    /\ Criteria(x, y)[k][2] <=> Ranks(y)[k] < Ranks(x)[k]

LEMMA CriteriaCompare ==
  ASSUME ~context.etrs89, StepsCounted, OffsetsCompare, NEW a \in Ids, NEW b \in Ids
  PROVE  \A k \in 1..18 : Compares(Op[a], Op[b], k)
<1> DEFINE x == Op[a]
           y == Op[b]
<1>1. x \in Operation /\ y \in Operation
  BY OpAssumption DEF Ids
<1>2. /\ x.projSteps = 0 <=> ~x.exportable \/ x.xyzGridShift
      /\ y.projSteps = 0 <=> ~y.exportable \/ y.xyzGridShift
  BY DEF StepsCounted, Ids
<1>3. x.ballpark = y.ballpark => (x.offsetFrom = "none" <=> y.offsetFrom = "none")
  BY DEF OffsetsCompare, Ids
<1> HIDE DEF x, y
<1>4. UsedArea(x) \in Nat /\ UsedArea(y) \in Nat
  <2>1. \A op \in Operation : UsedArea(op) \in Nat
    <3> TAKE op \in Operation
    <3>1. op.extent.area \cap Zone \in SUBSET Cells
      BY DEF Operation, Areas
    <3>2. IsFiniteSet(op.extent.area \cap Zone)
      BY <3>1, CellsAssumption, FS_Subset
    <3> QED BY <3>2, FS_CardinalityType DEF UsedArea
  <2> QED BY <1>1, <2>1
<1>5. /\ x.accuracy \in Int /\ x.steps \in Nat /\ x.projSteps \in Nat
      /\ x.nameSize \in Nat /\ x.nameRank \in Nat
      /\ y.accuracy \in Int /\ y.steps \in Nat /\ y.projSteps \in Nat
      /\ y.nameSize \in Nat /\ y.nameRank \in Nat
  BY <1>1 DEF Operation
<1>6. /\ x.exportable \in BOOLEAN /\ x.ballpark \in BOOLEAN /\ x.ballparkVertical \in BOOLEAN
      /\ x.synthetic \in BOOLEAN /\ x.xyzGridShift \in BOOLEAN
      /\ y.exportable \in BOOLEAN /\ y.ballpark \in BOOLEAN /\ y.ballparkVertical \in BOOLEAN
      /\ y.synthetic \in BOOLEAN /\ y.xyzGridShift \in BOOLEAN
      /\ x.offsetFrom \in {"none", "similar", "different"}
      /\ y.offsetFrom \in {"none", "similar", "different"}
  BY <1>1 DEF Operation
<1>c1. Compares(x, y, 1)
  <2>1. /\ Criteria(x, y)[1][1] <=> x.exportable /\ ~y.exportable
        /\ Criteria(x, y)[1][2] <=> y.exportable /\ ~x.exportable
    BY DEF Criteria
  <2>2. Ranks(x)[1] = Late(x.exportable) /\ Ranks(y)[1] = Late(y.exportable)
    BY DEF Ranks
  <2> QED BY <1>6, <2>1, <2>2 DEF Compares, Late
<1>c2. Compares(x, y, 2)
  <2>1. /\ Criteria(x, y)[2][1] <=> ~x.ballpark /\ y.ballpark
        /\ Criteria(x, y)[2][2] <=> ~y.ballpark /\ x.ballpark
    BY DEF Criteria
  <2>2. Ranks(x)[2] = Late(~x.ballpark) /\ Ranks(y)[2] = Late(~y.ballpark)
    BY DEF Ranks
  <2> QED BY <1>6, <2>1, <2>2 DEF Compares, Late
<1>c3. Compares(x, y, 3)
  <2>1. /\ Criteria(x, y)[3][1] <=> ~x.ballparkVertical /\ y.ballparkVertical
        /\ Criteria(x, y)[3][2] <=> ~y.ballparkVertical /\ x.ballparkVertical
    BY DEF Criteria
  <2>2. Ranks(x)[3] = Late(~x.ballparkVertical) /\ Ranks(y)[3] = Late(~y.ballparkVertical)
    BY DEF Ranks
  <2> QED BY <1>6, <2>1, <2>2 DEF Compares, Late
<1>c4. Compares(x, y, 4)
  <2>1. /\ Criteria(x, y)[4][1] <=> ~x.synthetic /\ y.synthetic
        /\ Criteria(x, y)[4][2] <=> ~y.synthetic /\ x.synthetic
    BY DEF Criteria
  <2>2. Ranks(x)[4] = Late(~x.synthetic) /\ Ranks(y)[4] = Late(~y.synthetic)
    BY DEF Ranks
  <2> QED BY <1>6, <2>1, <2>2 DEF Compares, Late
<1>c5. Compares(x, y, 5)
  <2>1. /\ Criteria(x, y)[5][1] <=> GridsAvailable(x) /\ ~GridsAvailable(y)
        /\ Criteria(x, y)[5][2] <=> GridsAvailable(y) /\ ~GridsAvailable(x)
    BY DEF Criteria
  <2>2. Ranks(x)[5] = Late(GridsAvailable(x)) /\ Ranks(y)[5] = Late(GridsAvailable(y))
    BY DEF Ranks
  <2> QED BY <2>1, <2>2 DEF Compares, Late
<1>c6. Compares(x, y, 6)
  <2>1. /\ Criteria(x, y)[6][1] <=> GridsKnown(x) /\ ~GridsKnown(y)
        /\ Criteria(x, y)[6][2] <=> GridsKnown(y) /\ ~GridsKnown(x)
    BY DEF Criteria
  <2>2. Ranks(x)[6] = Late(GridsKnown(x)) /\ Ranks(y)[6] = Late(GridsKnown(y))
    BY DEF Ranks
  <2> QED BY <2>1, <2>2 DEF Compares, Late
<1>c7. Compares(x, y, 7)
  <2>1. /\ Criteria(x, y)[7][1] <=> x.accuracy >= 0 /\ ~(y.accuracy >= 0)
        /\ Criteria(x, y)[7][2] <=> y.accuracy >= 0 /\ ~(x.accuracy >= 0)
    BY DEF Criteria
  <2>2. Ranks(x)[7] = Late(x.accuracy >= 0) /\ Ranks(y)[7] = Late(y.accuracy >= 0)
    BY DEF Ranks
  <2> QED BY <1>5, <2>1, <2>2 DEF Compares, Late
<1>c8. Compares(x, y, 8)
  <2>1. /\ Criteria(x, y)[8][1] <=> x.accuracy < 0 /\ HasGrids(x) /\ ~HasGrids(y)
        /\ Criteria(x, y)[8][2] <=> y.accuracy < 0 /\ HasGrids(y) /\ ~HasGrids(x)
    BY DEF Criteria
  <2>2. Ranks(x)[8] = Late(x.accuracy < 0 /\ HasGrids(x)) /\ Ranks(y)[8] = Late(y.accuracy < 0 /\ HasGrids(y))
    BY DEF Ranks
  <2>3. 7 \in 1..(8 - 1)
    OBVIOUS
  <2>4. /\ Ranks(x)[7] = Late(x.accuracy >= 0) /\ Ranks(y)[7] = Late(y.accuracy >= 0)
    BY DEF Ranks
  <2> QED BY <1>5, <2>1, <2>2, <2>3, <2>4 DEF Compares, Late
<1>c9. Compares(x, y, 9)
  <2>1. /\ Criteria(x, y)[9][1] <=> UsedArea(x) > UsedArea(y)
        /\ Criteria(x, y)[9][2] <=> UsedArea(y) > UsedArea(x)
    BY DEF Criteria
  <2>2. Ranks(x)[9] = -UsedArea(x) /\ Ranks(y)[9] = -UsedArea(y)
    BY DEF Ranks
  <2> QED BY <1>4, <2>1, <2>2 DEF Compares, Late
<1>c10. Compares(x, y, 10)
  <2>1. /\ Criteria(x, y)[10][1] <=> x.accuracy >= 0 /\ x.accuracy < y.accuracy
        /\ Criteria(x, y)[10][2] <=> y.accuracy >= 0 /\ y.accuracy < x.accuracy
    BY DEF Criteria
  <2>2. Ranks(x)[10] = (IF x.accuracy >= 0 THEN x.accuracy ELSE 0) /\ Ranks(y)[10] = (IF y.accuracy >= 0 THEN y.accuracy ELSE 0)
    BY DEF Ranks
  <2>3. 7 \in 1..(10 - 1)
    OBVIOUS
  <2>4. /\ Ranks(x)[7] = Late(x.accuracy >= 0) /\ Ranks(y)[7] = Late(y.accuracy >= 0)
    BY DEF Ranks
  <2> QED BY <1>5, <2>1, <2>2, <2>3, <2>4 DEF Compares, Late
<1>c11. Compares(x, y, 11)
  <2>1. /\ Criteria(x, y)[11][1] <=> x.accuracy >= 0 /\ ~HasGrids(x) /\ HasGrids(y)
        /\ Criteria(x, y)[11][2] <=> y.accuracy >= 0 /\ ~HasGrids(y) /\ HasGrids(x)
    BY DEF Criteria
  <2>2. Ranks(x)[11] = Late(~(x.accuracy >= 0 /\ HasGrids(x))) /\ Ranks(y)[11] = Late(~(y.accuracy >= 0 /\ HasGrids(y)))
    BY DEF Ranks
  <2>3. 7 \in 1..(11 - 1)
    OBVIOUS
  <2>4. /\ Ranks(x)[7] = Late(x.accuracy >= 0) /\ Ranks(y)[7] = Late(y.accuracy >= 0)
    BY DEF Ranks
  <2> QED BY <1>5, <2>1, <2>2, <2>3, <2>4 DEF Compares, Late
<1>c12. Compares(x, y, 12)
  <2>1. /\ Criteria(x, y)[12][1] <=> x.xyzGridShift /\ ~y.xyzGridShift
        /\ Criteria(x, y)[12][2] <=> y.xyzGridShift /\ ~x.xyzGridShift
    BY DEF Criteria
  <2>2. Ranks(x)[12] = Late(x.xyzGridShift) /\ Ranks(y)[12] = Late(y.xyzGridShift)
    BY DEF Ranks
  <2> QED BY <1>6, <2>1, <2>2 DEF Compares, Late
<1>c13. Compares(x, y, 13)
  <2>1. Criteria(x, y)[13] = <<HubFirst(x, y), HubSecond(x, y)>> /\ ~HubFirst(x, y) /\ ~HubSecond(x, y)
    BY DEF Criteria, HubFirst, HubSecond
  <2>2. Ranks(x)[13] = 0 /\ Ranks(y)[13] = 0
    BY DEF Ranks
  <2> QED BY <2>1, <2>2 DEF Compares
<1>c14. Compares(x, y, 14)
  <2>1. /\ Criteria(x, y)[14][1] <=> x.steps < y.steps
        /\ Criteria(x, y)[14][2] <=> y.steps < x.steps
    BY DEF Criteria
  <2>2. Ranks(x)[14] = x.steps /\ Ranks(y)[14] = y.steps
    BY DEF Ranks
  <2> QED BY <1>5, <2>1, <2>2 DEF Compares, Late
<1>c15. Compares(x, y, 15)
  <2>1. /\ Criteria(x, y)[15][1] <=> x.projSteps # 0 /\ x.projSteps < y.projSteps
        /\ Criteria(x, y)[15][2] <=> y.projSteps # 0 /\ y.projSteps < x.projSteps
    BY DEF Criteria
  <2>2. Ranks(x)[15] = x.projSteps /\ Ranks(y)[15] = y.projSteps
    BY DEF Ranks
  <2>3. 1 \in 1..(15 - 1) /\ 12 \in 1..(15 - 1)
    OBVIOUS
  <2>4. /\ Ranks(x)[1] = Late(x.exportable) /\ Ranks(y)[1] = Late(y.exportable)
        /\ Ranks(x)[12] = Late(x.xyzGridShift) /\ Ranks(y)[12] = Late(y.xyzGridShift)
    BY DEF Ranks
  <2> QED BY <1>2, <1>5, <1>6, <2>1, <2>2, <2>3, <2>4 DEF Compares, Late
<1>c16. Compares(x, y, 16)
  <2>1. /\ Criteria(x, y)[16][1] <=> x.offsetFrom = "similar" /\ y.offsetFrom = "different"
        /\ Criteria(x, y)[16][2] <=> y.offsetFrom = "similar" /\ x.offsetFrom = "different"
    BY DEF Criteria
  <2>2. Ranks(x)[16] = Late(x.offsetFrom = "similar") /\ Ranks(y)[16] = Late(y.offsetFrom = "similar")
    BY DEF Ranks
  <2>3. 2 \in 1..(16 - 1)
    OBVIOUS
  <2>4. /\ Ranks(x)[2] = Late(~x.ballpark) /\ Ranks(y)[2] = Late(~y.ballpark)
    BY DEF Ranks
  <2> QED BY <1>3, <1>6, <2>1, <2>2, <2>3, <2>4 DEF Compares, Late
<1>c17. Compares(x, y, 17)
  <2>1. /\ Criteria(x, y)[17][1] <=> x.nameSize < y.nameSize
        /\ Criteria(x, y)[17][2] <=> y.nameSize < x.nameSize
    BY DEF Criteria
  <2>2. Ranks(x)[17] = x.nameSize /\ Ranks(y)[17] = y.nameSize
    BY DEF Ranks
  <2> QED BY <1>5, <2>1, <2>2 DEF Compares, Late
<1>c18. Compares(x, y, 18)
  <2>1. /\ Criteria(x, y)[18][1] <=> x.nameRank > y.nameRank
        /\ Criteria(x, y)[18][2] <=> y.nameRank > x.nameRank
    BY DEF Criteria
  <2>2. Ranks(x)[18] = -x.nameRank /\ Ranks(y)[18] = -y.nameRank
    BY DEF Ranks
  <2> QED BY <1>5, <2>1, <2>2 DEF Compares, Late
<1>7. \A k \in 1..18 : k \in {1, 2, 3, 4, 5, 6, 7, 8, 9, 10, 11, 12, 13, 14, 15, 16, 17, 18}
  OBVIOUS
<1>8. \A k \in 1..18 : Compares(x, y, k)
  BY <1>7, <1>c1, <1>c2, <1>c3, <1>c4, <1>c5, <1>c6, <1>c7, <1>c8, <1>c9, <1>c10, <1>c11,
     <1>c12, <1>c13, <1>c14, <1>c15, <1>c16, <1>c17, <1>c18
<1> QED BY <1>8 DEF x, y

LEMMA MinIs ==
  ASSUME NEW S, S \subseteq Int, NEW n \in S, \A k \in S : n <= k
  PROVE  Min(S) = n
<1> DEFINE m == CHOOSE x \in S : \A y \in S : x <= y
<1>1. m \in S /\ \A y \in S : m <= y
  BY Zenon
<1> HIDE DEF m
<1>2. m = n
  BY <1>1
<1> QED BY <1>2 DEF m, Min

LEMMA PrecedesIsLex ==
  ASSUME ~context.etrs89, StepsCounted, OffsetsCompare, NEW a \in Ids, NEW b \in Ids
  PROVE  Precedes(Op[a], Op[b]) <=> Lex(Ranks(Op[a]), Ranks(Op[b]))
<1> DEFINE c == Criteria(Op[a], Op[b])
           x == Ranks(Op[a])
           y == Ranks(Op[b])
           deciding == {i \in DOMAIN c : c[i][1] \/ c[i][2]}
<1>1. DOMAIN c = 1..18
  BY DEF Criteria
<1>2. Precedes(Op[a], Op[b]) <=> deciding # {} /\ c[Min(deciding)][1]
  BY DEF Precedes
<1>3. x \in Numbers /\ y \in Numbers
  BY RanksType
<1>4. \A k \in 1..18 : (\A j \in 1..(k - 1) : x[j] = y[j]) =>
        (c[k][1] <=> x[k] < y[k]) /\ (c[k][2] <=> y[k] < x[k])
  BY CriteriaCompare DEF Compares
<1> HIDE DEF c, x, y
<1>5. \A k : k \in deciding <=> k \in 1..18 /\ (c[k][1] \/ c[k][2])
  BY <1>1
<1> HIDE DEF deciding
<1>6. \A k \in 1..18 : x[k] \in Int /\ y[k] \in Int
  BY <1>3 DEF Numbers
<1>7. ASSUME Lex(x, y) PROVE Precedes(Op[a], Op[b])
  <2>1. PICK i \in 1..18 : x[i] < y[i] /\ \A j \in 1..(i - 1) : x[j] = y[j]
    BY <1>7 DEF Lex
  <2>2. i \in deciding /\ c[i][1]
    BY <1>4, <1>5, <2>1
  <2>3. \A k \in deciding : i <= k
    <3> SUFFICES ASSUME NEW k \in deciding, ~(i <= k) PROVE FALSE
      OBVIOUS
    <3>1. k \in 1..18 /\ k \in 1..(i - 1) /\ \A j \in 1..(k - 1) : j \in 1..(i - 1)
      BY <1>5
    <3>2. x[k] = y[k] /\ \A j \in 1..(k - 1) : x[j] = y[j]
      BY <2>1, <3>1
    <3>3. ~c[k][1] /\ ~c[k][2]
      BY <1>4, <1>6, <3>1, <3>2
    <3> QED BY <1>5, <3>3
  <2>4. deciding \subseteq Int
    BY <1>5
  <2>5. Min(deciding) = i
    BY <2>2, <2>3, <2>4, MinIs
  <2> QED BY <1>2, <2>2, <2>5
<1>8. ASSUME Precedes(Op[a], Op[b]) PROVE Lex(x, y)
  <2>1. deciding # {} /\ deciding \subseteq Nat /\ deciding \subseteq Int
    BY <1>2, <1>5, <1>8
  <2>2. PICK i \in deciding : \A k \in deciding : i <= k
    BY <2>1, LeastOf
  <2>3. Min(deciding) = i
    BY <2>1, <2>2, MinIs
  <2>4. c[i][1] /\ i \in 1..18
    BY <1>2, <1>5, <1>8, <2>3
  <2> DEFINE T == {j \in 1..(i - 1) : x[j] # y[j]}
  <2>5. T = {}
    <3> SUFFICES ASSUME T # {} PROVE FALSE
      OBVIOUS
    <3>1. T \subseteq Nat
      BY <2>4
    <3>2. PICK k \in T : \A j \in T : k <= j
      BY <3>1, LeastOf
    <3>3. k \in 1..18 /\ k < i /\ x[k] # y[k]
      BY <2>4
    <3>4. \A j \in 1..(k - 1) : x[j] = y[j]
      <4> TAKE j \in 1..(k - 1)
      <4>1. j \in 1..(i - 1) /\ ~(k <= j)
        BY <2>4, <3>3
      <4>2. j \notin T
        <5> HIDE DEF T
        <5> QED BY <3>2, <4>1
      <4> QED BY <4>1, <4>2
    <3>5. x[k] < y[k] \/ y[k] < x[k]
      BY <1>6, <3>3
    <3>6. k \in deciding
      BY <1>4, <1>5, <3>3, <3>4, <3>5
    <3>7. i <= k
      BY <2>2, <3>6
    <3> QED BY <2>4, <3>3, <3>7
  <2>6. x[i] < y[i]
    BY <1>4, <2>4, <2>5
  <2> QED BY <2>4, <2>5, <2>6 DEF Lex
<1> QED BY <1>7, <1>8 DEF x, y

\* The order of the ranks, and the operation itself.
NotAfter == {t \in Ids \X Ids : t[1] = t[2] \/ Lex(Ranks(Op[t[1]]), Ranks(Op[t[2]]))}

LEMMA NotAfterIsOrder ==
  ASSUME ~context.etrs89, OpsComparable
  PROVE  /\ Follows(NotAfter)
         /\ \A x, y \in Ids : <<x, y>> \in NotAfter /\ <<y, x>> \in NotAfter => x = y
<1>1. \A x, y \in Ids : Precedes(Op[x], Op[y]) <=> Lex(Ranks(Op[x]), Ranks(Op[y]))
  BY PrecedesIsLex DEF OpsComparable
<1>2. \A x \in Ids : Ranks(Op[x]) \in Numbers
  BY RanksType
<1>3. \A x, y \in Ids : Ranks(Op[x]) = Ranks(Op[y]) => x = y
  <2> SUFFICES ASSUME NEW x \in Ids, NEW y \in Ids, Ranks(Op[x]) = Ranks(Op[y]), x # y
               PROVE  FALSE
    OBVIOUS
  <2> DEFINE a == Op[x]
             b == Op[y]
  <2>1. a \in Operation /\ b \in Operation
    BY OpAssumption DEF Ids
  <2>2. /\ a.ballpark \in BOOLEAN /\ b.ballpark \in BOOLEAN
        /\ a.accuracy \in Int /\ b.accuracy \in Int
        /\ a.nameSize \in Nat /\ b.nameSize \in Nat
        /\ a.nameRank \in Nat /\ b.nameRank \in Nat
    BY <2>1 DEF Operation
  <2>3. Ranks(a) = Ranks(b)
    OBVIOUS
  <2> HIDE DEF a, b
  <2>4. Late(~a.ballpark) = Late(~b.ballpark)
    BY <2>3 DEF Ranks
  <2>5. Late(a.accuracy >= 0) = Late(b.accuracy >= 0)
    BY <2>3 DEF Ranks
  <2>6. (IF a.accuracy >= 0 THEN a.accuracy ELSE 0) = (IF b.accuracy >= 0 THEN b.accuracy ELSE 0)
    BY <2>3 DEF Ranks
  <2>7. a.nameSize = b.nameSize /\ -a.nameRank = -b.nameRank
    BY <2>3 DEF Ranks
  <2>8. a.ballpark = b.ballpark
    BY <2>2, <2>4 DEF Late
  <2>9. a.accuracy = b.accuracy \/ (a.accuracy < 0 /\ b.accuracy < 0)
    BY <2>2, <2>5, <2>6 DEF Late
  <2>10. a.nameRank = b.nameRank
    BY <2>2, <2>7
  <2> QED BY <2>7, <2>8, <2>9, <2>10 DEF OpsComparable, NamesTellApart, Ids, a, b
<1>4. \A x, y \in Ids : <<x, y>> \in NotAfter <=> x = y \/ Lex(Ranks(Op[x]), Ranks(Op[y]))
  BY DEF NotAfter
<1>5. \A x, y \in Ids : IF Precedes(Op[x], Op[y]) THEN <<x, y>> \in NotAfter ELSE <<y, x>> \in NotAfter
  BY <1>1, <1>2, <1>3, <1>4, LexIsOrder
<1>6. \A x, y, z \in Ids : <<x, y>> \in NotAfter /\ <<y, z>> \in NotAfter => <<x, z>> \in NotAfter
  BY <1>2, <1>4, LexIsOrder
<1>7. \A x, y \in Ids : <<x, y>> \in NotAfter /\ <<y, x>> \in NotAfter => x = y
  BY <1>2, <1>4, LexIsOrder
<1> QED BY <1>5, <1>6, <1>7 DEF Follows

LEMMA OrderedOnce ==
  ASSUME NEW rel, \A x, y \in Ids : <<x, y>> \in rel /\ <<y, x>> \in rel => x = y,
         NEW list \in Seq(Ids), InOrder(rel, list)
  PROVE  InOrder(Different, WithoutUninteresting(list))
<1>1. PICK f : /\ f[0] = <<>> /\ WithoutUninteresting(list) = f[Len(list)]
               /\ \A i \in 1..Len(list) : f[i] = UninterestingStep(f[i - 1], list[i])
  BY UninterestingSteps
<1>2. Pass(f, list)
  BY <1>1 DEF Pass, UninterestingStep
<1> DEFINE n == Len(list)
           S == {i \in 0..n : InOrder(Different, f[i])}
<1>3. n \in Nat /\ \A i \in 1..n : list[i] \in Ids
  OBVIOUS
<1>4. 0 \in S
  <2>1. f[0] = <<>> /\ Len(<<>>) = 0 /\ 1..0 = {}
    BY <1>1
  <2>2. InOrder(Different, f[0])
    BY <2>1 DEF InOrder
  <2> QED BY <1>3, <2>2
<1>5. \A i \in 1..n : i - 1 \in S => i \in S
  <2> SUFFICES ASSUME NEW i \in 1..n, InOrder(Different, f[i - 1]) PROVE InOrder(Different, f[i])
    BY <1>3
  <2> DEFINE a == f[i - 1]
             e == list[i]
  <2>1. i - 1 \in 0..n
    BY <1>3
  <2>2. /\ a \in Seq(Ids) /\ e \in Ids /\ f[i] = UninterestingStep(a, e)
        /\ InOrder(Different, a) /\ InOrder(rel, a)
        /\ ToSet(a) \subseteq {list[k] : k \in 1..i - 1}
    BY <1>1, <1>2, <1>3, <2>1, PassKeeps, PassInOrder
  <2> HIDE DEF a
  <2>3. CASE f[i] = a
    BY <2>2, <2>3
  <2>4. CASE f[i] # a
    <3>1. f[i] = Append(a, e)
      BY <2>2, <2>4 DEF UninterestingStep
    <3>2. \A k \in 1..Len(a) : <<a[k], e>> \in Different
      <4> SUFFICES ASSUME NEW k \in 1..Len(a), a[k] = e PROVE FALSE
        BY <2>2 DEF Different
      <4> DEFINE m == Len(a)
      <4>1. m \in Nat /\ m \in 1..m /\ a # <<>> /\ (k < m \/ k = m) /\ a[m] \in Ids /\ a[m] \in ToSet(a)
        BY <2>2, SetOfSeq
      <4>2. PICK l \in 1..i - 1 : a[m] = list[l]
        BY <2>2, <4>1
      <4>3. <<a[m], e>> \in rel
        <5>1. l \in 1..n /\ l < i
          BY <1>3
        <5> QED BY <4>2, <5>1 DEF InOrder
      <4>4. k < m => <<e, a[m]>> \in rel
        BY <2>2, <4>1 DEF InOrder
      <4>5. a[m] = e
        BY <2>2, <4>1, <4>3, <4>4
      <4>6. IsUninteresting(Op[e], Op[Last(a)])
        BY <4>5 DEF Last, IsUninteresting
      <4>7. f[i] = a
        BY <2>2, <4>1, <4>6 DEF UninterestingStep
      <4> QED BY <2>4, <4>7
    <3> HIDE DEF e
    <3> QED BY <2>2, <3>1, <3>2, AppendInOrder
  <2> QED BY <2>3, <2>4
<1> HIDE DEF S, n
<1>6. \A i \in 0..n : i \in S
  BY <1>3, <1>4, <1>5, Induct
<1>7. n \in S
  BY <1>3, <1>6
<1> QED BY <1>1, <1>7 DEF S, n

LEMMA SelectedOnce ==
  ASSUME Found, ~context.etrs89, OpsComparable
  PROVE  IsInjective(Selected(sourceList))
<1>1. /\ Follows(NotAfter)
      /\ \A x, y \in Ids : <<x, y>> \in NotAfter /\ <<y, x>> \in NotAfter => x = y
  BY NotAfterIsOrder
<1>2. /\ Filtered(sourceList) \in Seq(Ids) /\ AfterSort(sourceList) \in Seq(Ids)
      /\ AfterSynthetic(sourceList) \in Seq(Ids) /\ AfterUninteresting(sourceList) \in Seq(Ids)
      /\ AfterDuplicates(sourceList) \in Seq(Ids) /\ Selected(sourceList) \in Seq(Ids)
  BY FoundIsList, SelectedHas
<1>3. InOrder(NotAfter, AfterSort(sourceList))
  BY <1>1, <1>2, SortedInOrder DEF AfterSort
<1>4. InOrder(NotAfter, AfterSynthetic(sourceList))
  BY <1>2, <1>3, WithoutSyntheticInOrder DEF AfterSynthetic
<1>5. InOrder(Different, AfterUninteresting(sourceList))
  BY <1>1, <1>2, <1>4, OrderedOnce DEF AfterUninteresting
<1>6. InOrder(Different, AfterDuplicates(sourceList))
  BY <1>2, <1>5, WithoutDuplicatesInOrder DEF AfterDuplicates
<1>7. InOrder(Different, Selected(sourceList))
  BY <1>2, <1>6, WithoutSyntheticInOrder, SelectedIs
<1> QED BY <1>2, <1>7, DifferentIsInjective

\* Where the comparison is a total order, the two of an operation that filterOut
\* has appended again are next to each other after sort, and the second is
\* removed as uninteresting, whether or not it can be exported.
THEOREM NothingTwice ==
  OpsComparable => (Spec => [](~context.etrs89 => NoOperationTwice))
<1> SUFFICES ASSUME OpsComparable PROVE Spec => [](~context.etrs89 => NoOperationTwice)
  OBVIOUS
<1>1. IInv => (~context.etrs89 => NoOperationTwice)
  BY SelectedOnce DEF IInv, Done, NoOperationTwice
<1> QED BY <1>1, InitIInv, StepIInv, PTL DEF Spec

-----------------------------------------------------------------------------
(* The result does not depend on the order in which the operations were    *)
(* found.                                                                  *)

LEMMA CountOnly ==
  ASSUME NEW list \in Seq(Ids), NEW ids, NEW id \in Ids
  PROVE  Count(Only(list, ids), id) = IF id \in ids THEN Count(list, id) ELSE 0
<1>1. PICK f : /\ f[0] = <<>> /\ Only(list, ids) = f[Len(list)]
               /\ \A i \in 1..Len(list) : f[i] = OnlyStep(f[i - 1], list[i], ids)
  BY OnlySteps
<1>2. Pass(f, list)
  BY <1>1 DEF Pass, OnlyStep
<1> DEFINE n == Len(list)
           part(i) == SubSeq(list, 1, i)
           Good(i) == Count(f[i], id) = IF id \in ids THEN Count(part(i), id) ELSE 0
           S == {i \in 0..n : Good(i)}
<1>3. /\ part(0) = <<>> /\ part(n) = list /\ n \in Nat
      /\ \A i \in 0..n : part(i) \in Seq(Ids) /\ f[i] \in Seq(Ids)
      /\ \A i \in 1..n : part(i) = Append(part(i - 1), list[i]) /\ list[i] \in Ids
  BY <1>2, PrefixSteps, PassKeeps
<1> HIDE DEF part
<1>4. Count(<<>>, id) = 0
  <2>1. Places(<<>>, id) = {}
    BY DEF Places
  <2> QED BY <2>1, FS_EmptySet DEF Count
<1>5. 0 \in S
  BY <1>1, <1>3, <1>4
<1>6. \A i \in 1..n : i - 1 \in S => i \in S
  <2> SUFFICES ASSUME NEW i \in 1..n, Good(i - 1) PROVE Good(i)
    <3> HIDE DEF Good
    <3> QED BY <1>3
  <2> DEFINE a == f[i - 1]
             b == part(i - 1)
             e == list[i]
  <2>1. i - 1 \in 0..n
    BY <1>3
  <2>2. /\ a \in Seq(Ids) /\ b \in Seq(Ids) /\ e \in Ids
        /\ f[i] = OnlyStep(a, e, ids) /\ part(i) = Append(b, e)
        /\ Count(a, id) = IF id \in ids THEN Count(b, id) ELSE 0
    BY <1>1, <1>3, <2>1
  <2> HIDE DEF a, b, e
  <2>3. /\ Count(Append(a, e), id) = Count(a, id) + (IF e = id THEN 1 ELSE 0)
        /\ Count(Append(b, e), id) = Count(b, id) + (IF e = id THEN 1 ELSE 0)
        /\ Count(a, id) \in Nat /\ Count(b, id) \in Nat
    BY <2>2, CountAppend, CountIs
  <2>4. CASE e \in ids
    <3>1. f[i] = Append(a, e)
      BY <2>2, <2>4 DEF OnlyStep
    <3>2. CASE id \in ids
      BY <2>2, <2>3, <3>1, <3>2
    <3>3. CASE id \notin ids
      BY <2>2, <2>3, <2>4, <3>1, <3>3
    <3> QED BY <3>2, <3>3
  <2>5. CASE e \notin ids
    <3>1. f[i] = a
      BY <2>2, <2>5 DEF OnlyStep
    <3>2. CASE id \in ids
      <4>1. e # id
        BY <2>5, <3>2
      <4> QED BY <2>2, <2>3, <3>1, <3>2, <4>1
    <3>3. CASE id \notin ids
      BY <2>2, <3>1, <3>3
    <3> QED BY <3>2, <3>3
  <2> QED BY <2>4, <2>5
<1> HIDE DEF S, n, Good
<1>7. \A i \in 0..n : i \in S
  BY <1>3, <1>5, <1>6, Induct
<1>8. Good(n)
  BY <1>3, <1>7 DEF S
<1> QED BY <1>1, <1>3, <1>8 DEF Good, n

LEMMA CountConcat ==
  ASSUME NEW S, NEW a \in Seq(S), NEW b \in Seq(S), NEW id
  PROVE  Count(a \o b, id) = Count(a, id) + Count(b, id)
<1> DEFINE c == a \o b
           A == Places(a, id)
           B == Places(b, id)
           after == {k \in Places(c, id) : k > Len(a)}
           m == [k \in B |-> Len(a) + k]
<1>1. /\ Len(c) = Len(a) + Len(b) /\ Len(a) \in Nat /\ Len(b) \in Nat
      /\ \A i \in 1..Len(a) + Len(b) : c[i] = IF i <= Len(a) THEN a[i] ELSE b[i - Len(a)]
  BY ConcatProperties
<1>2. IsFiniteSet(A) /\ IsFiniteSet(B)
  BY CountIs
<1> HIDE DEF c
<1>3. \A k : k \in A <=> k \in 1..Len(a) /\ a[k] = id
  BY DEF Places
<1>4. \A k : k \in B <=> k \in 1..Len(b) /\ b[k] = id
  BY DEF Places
<1>5. \A k : k \in Places(c, id) <=> k \in 1..Len(a) + Len(b) /\ c[k] = id
  BY <1>1 DEF Places
<1> DEFINE C == Places(c, id)
<1> HIDE DEF A, B, C
<1>6. \A k \in B : m[k] \in after
  <2> TAKE k \in B
  <2>1. /\ Len(a) + k \in 1..Len(a) + Len(b) /\ ~(Len(a) + k <= Len(a))
        /\ Len(a) + k > Len(a) /\ Len(a) + k - Len(a) = k
    BY <1>1, <1>4
  <2>2. c[Len(a) + k] = id
    BY <1>1, <1>4, <2>1
  <2> QED BY <1>5, <2>1, <2>2
<1>7. \A k \in after : \E l \in B : m[l] = k
  <2> TAKE k \in after
  <2>1. /\ k \in 1..Len(a) + Len(b) /\ c[k] = id /\ ~(k <= Len(a))
        /\ k - Len(a) \in 1..Len(b) /\ Len(a) + (k - Len(a)) = k
    BY <1>1, <1>5
  <2>2. k - Len(a) \in B
    BY <1>1, <1>4, <2>1
  <2> QED BY <2>1, <2>2
<1>8. \A k, l \in B : m[k] = m[l] => k = l
  BY <1>1, <1>4
<1>9. ExistsBijection(B, after)
  <2> DEFINE mm == m
             to == after
  <2>1. mm \in [B -> to] /\ (\A k, l \in B : mm[k] = mm[l] => k = l) /\ \A t \in to : \E s \in B : mm[s] = t
    <3>1. \A k \in B : m[k] \in to
      BY <1>6
    <3> QED BY <1>7, <1>8, <3>1
  <2> HIDE DEF mm, to
  <2>2. mm \in Bijection(B, to)
    BY <2>1 DEF Bijection, Injection, Surjection, IsInjective
  <2> QED BY <2>2 DEF ExistsBijection, to
<1>10. IsFiniteSet(after) /\ Cardinality(after) = Cardinality(B)
  BY <1>2, <1>9, FS_Bijection
<1>11. C = A \cup after
  <2>1. \A k \in A : k \in C
    <3> TAKE k \in A
    <3>1. k \in 1..Len(a) + Len(b) /\ k <= Len(a)
      BY <1>1, <1>3
    <3> QED BY <1>1, <1>3, <1>5, <3>1 DEF C
  <2>2. \A k \in C : k \in A \cup after
    <3> TAKE k \in C
    <3>1. k \in 1..Len(a) + Len(b) /\ c[k] = id /\ (k > Len(a) \/ k \in 1..Len(a))
      BY <1>1, <1>5 DEF C
    <3>2. CASE k > Len(a)
      BY <3>2 DEF C
    <3>3. CASE k \in 1..Len(a)
      <4>1. k <= Len(a)
        BY <1>1, <3>3
      <4> QED BY <1>1, <1>3, <3>1, <3>3, <4>1
    <3> QED BY <3>1, <3>2, <3>3
  <2> QED BY <2>1, <2>2 DEF C
<1>12. A \cap after = {}
  BY <1>1, <1>3
<1> HIDE DEF after
<1>13. Cardinality(C) = Cardinality(A) + Cardinality(B)
  <2>1. Cardinality(A) \in Nat /\ Cardinality(B) \in Nat
    BY <1>2, FS_CardinalityType
  <2>2. Cardinality(C) = Cardinality(A) + Cardinality(after) - Cardinality(A \cap after)
    BY <1>2, <1>10, <1>11, FS_Union
  <2>3. Cardinality(A \cap after) = 0
    BY <1>12, FS_EmptySet
  <2> QED BY <1>10, <2>1, <2>2, <2>3
<1> QED BY <1>13 DEF Count, A, B, C, c

LEMMA CountDifferent ==
  ASSUME NEW list \in Seq(Ids), IsInjective(list), NEW id
  PROVE  Count(list, id) = IF id \in ToSet(list) THEN 1 ELSE 0
<1>1. DOMAIN list = 1..Len(list) /\ ToSet(list) = {list[k] : k \in 1..Len(list)}
  BY SetOfSeq
<1>2. CASE id \in ToSet(list)
  <2>1. PICK k \in 1..Len(list) : id = list[k]
    BY <1>1, <1>2
  <2>2. Places(list, id) = {k}
    BY <1>1, <2>1 DEF Places, IsInjective
  <2>3. Cardinality({k}) = 1
    BY FS_Singleton
  <2> QED BY <1>2, <2>2, <2>3 DEF Count
<1>3. CASE id \notin ToSet(list)
  <2>1. Places(list, id) = {}
    BY <1>1, <1>3 DEF Places
  <2> QED BY <1>3, <2>1, FS_EmptySet DEF Count
<1> QED BY <1>2, <1>3

LEMMA FewerLater ==
  ASSUME NEW s \in Seq(Ids), NEW t \in Seq(Ids), NEW i \in 1..Len(s),
         \A k \in 1..(i - 1) : k \in 1..Len(t) => t[k] = s[k],
         \A k \in 1..Len(t) : k >= i => t[k] # s[i]
  PROVE  Count(t, s[i]) < Count(s, s[i])
<1> DEFINE x == s[i]
           A == Places(s, x)
           B == Places(t, x)
<1>1. IsFiniteSet(A) /\ Cardinality(A) \in Nat
  BY CountIs DEF Count
<1>2. i \in A
  BY DEF Places
<1>3. B \in SUBSET (A \ {i})
  <2> SUFFICES ASSUME NEW k \in B PROVE k \in A /\ k # i
    OBVIOUS
  <2>1. k \in 1..Len(t) /\ t[k] = x
    BY DEF Places
  <2>2. ~(k >= i)
    BY <2>1
  <2>3. k \in 1..(i - 1) /\ k \in 1..Len(s)
    BY <2>1, <2>2
  <2>4. s[k] = x /\ k # i
    BY <2>1, <2>3
  <2> QED BY <2>3, <2>4 DEF Places
<1> HIDE DEF A, B
<1>4. IsFiniteSet(A \ {i}) /\ Cardinality(A \ {i}) = Cardinality(A) - 1
  BY <1>1, <1>2, FS_RemoveElement
<1>5. Cardinality(B) <= Cardinality(A \ {i}) /\ IsFiniteSet(B)
  BY <1>3, <1>4, FS_Subset
<1>6. Cardinality(B) \in Nat
  BY <1>5, FS_CardinalityType
<1>7. Cardinality(B) < Cardinality(A)
  BY <1>1, <1>4, <1>5, <1>6
<1> QED BY <1>7 DEF Count, A, B

\* A sorted list is determined by what is in it, and how often.
LEMMA OrderedIsUnique ==
  ASSUME NEW rel, NEW s \in Seq(Ids), NEW t \in Seq(Ids), InOrder(rel, s), InOrder(rel, t),
         \A x, y \in Ids : <<x, y>> \in rel /\ <<y, x>> \in rel => x = y,
         \A x, y \in Ids : <<x, y>> \in rel \/ <<y, x>> \in rel,
         \A id \in Ids : Count(s, id) = Count(t, id)
  PROVE  s = t
<1>1. /\ Len(s) \in Nat /\ Len(t) \in Nat
      /\ (\A i \in 1..Len(s) : s[i] \in Ids) /\ \A i \in 1..Len(t) : t[i] \in Ids
  OBVIOUS
<1>2. \A id \in Ids : Count(s, id) \in Nat /\ Count(t, id) \in Nat
  BY CountIs
<1>3. \A i \in 1..Len(s) : i \in 1..Len(t) => s[i] = t[i]
  <2> DEFINE T == {i \in 1..Len(s) : i \in 1..Len(t) /\ s[i] # t[i]}
  <2> SUFFICES ASSUME T # {} PROVE FALSE
    OBVIOUS
  <2>1. T \subseteq Nat
    BY <1>1
  <2>2. PICK i \in T : \A j \in T : i <= j
    BY <2>1, LeastOf
  <2>3. i \in 1..Len(s) /\ i \in 1..Len(t) /\ s[i] # t[i] /\ s[i] \in Ids /\ t[i] \in Ids
    BY <1>1
  <2>4. \A k \in 1..(i - 1) : k \in 1..Len(s) /\ k \in 1..Len(t) /\ s[k] = t[k]
    <3> TAKE k \in 1..(i - 1)
    <3>1. k \in 1..Len(s) /\ k \in 1..Len(t) /\ ~(i <= k)
      BY <1>1, <2>3
    <3>2. k \notin T
      <4> HIDE DEF T
      <4> QED BY <2>2, <3>1
    <3> QED BY <3>1, <3>2
  <2>5. CASE <<s[i], t[i]>> \in rel
    <3>1. \A k \in 1..Len(t) : k >= i => t[k] # s[i]
      <4> SUFFICES ASSUME NEW k \in 1..Len(t), k >= i, t[k] = s[i] PROVE FALSE
        OBVIOUS
      <4>1. i < k
        BY <1>1, <2>3
      <4>2. <<t[i], s[i]>> \in rel
        BY <2>3, <4>1 DEF InOrder
      <4> QED BY <2>3, <2>5, <4>2
    <3>2. Count(t, s[i]) < Count(s, s[i])
      BY <2>3, <2>4, <3>1, FewerLater
    <3> QED BY <1>2, <2>3, <3>2
  <2>6. CASE <<t[i], s[i]>> \in rel
    <3>1. \A k \in 1..Len(s) : k >= i => s[k] # t[i]
      <4> SUFFICES ASSUME NEW k \in 1..Len(s), k >= i, s[k] = t[i] PROVE FALSE
        OBVIOUS
      <4>1. i < k
        BY <1>1, <2>3
      <4>2. <<s[i], t[i]>> \in rel
        BY <2>3, <4>1 DEF InOrder
      <4> QED BY <2>3, <2>6, <4>2
    <3>2. Count(s, t[i]) < Count(t, t[i])
      BY <2>3, <2>4, <3>1, FewerLater
    <3> QED BY <1>2, <2>3, <3>2
  <2> QED BY <2>3, <2>5, <2>6
<1>4. ~(Len(s) < Len(t))
  <2> SUFFICES ASSUME Len(s) < Len(t) PROVE FALSE
    OBVIOUS
  <2> DEFINE i == Len(s) + 1
  <2>1. i \in 1..Len(t) /\ (\A k \in 1..(i - 1) : k \in 1..Len(s) => s[k] = t[k])
        /\ \A k \in 1..Len(s) : ~(k >= i)
    <3>1. i \in 1..Len(t) /\ \A k \in 1..Len(s) : ~(k >= i) /\ k \in 1..Len(t)
      BY <1>1
    <3> QED BY <1>3, <3>1
  <2> HIDE DEF i
  <2>2. Count(s, t[i]) < Count(t, t[i])
    BY <2>1, FewerLater
  <2> QED BY <1>1, <1>2, <2>1, <2>2
<1>5. ~(Len(t) < Len(s))
  <2> SUFFICES ASSUME Len(t) < Len(s) PROVE FALSE
    OBVIOUS
  <2> DEFINE i == Len(t) + 1
  <2>1. i \in 1..Len(s) /\ (\A k \in 1..(i - 1) : k \in 1..Len(t) => t[k] = s[k])
        /\ \A k \in 1..Len(t) : ~(k >= i)
    <3>1. i \in 1..Len(s) /\ \A k \in 1..Len(t) : ~(k >= i) /\ k \in 1..Len(s)
      BY <1>1
    <3> QED BY <1>3, <3>1
  <2> HIDE DEF i
  <2>2. Count(t, s[i]) < Count(s, s[i])
    BY <2>1, FewerLater
  <2> QED BY <1>1, <1>2, <2>1, <2>2
<1>6. Len(s) = Len(t)
  BY <1>1, <1>4, <1>5
<1>7. \A i \in 1..Len(s) : s[i] = t[i]
  BY <1>3, <1>6
<1> QED BY <1>6, <1>7, SeqEqual

LEMMA SetToSeqIs ==
  ASSUME NEW S \in SUBSET Ids, IsFiniteSet(S)
  PROVE  SetToSeq(S) \in Seq(Ids) /\ IsInjective(SetToSeq(S)) /\ ToSet(SetToSeq(S)) = S
<1> DEFINE n == Cardinality(S)
           P(f) == f \in [1..n -> S] /\ IsInjective(f)
           q == CHOOSE f \in [1..n -> S] : IsInjective(f)
<1>1. n \in Nat /\ ExistsBijection(1..n, S)
  BY FS_CardinalityType
<1>2. \E f \in [1..n -> S] : IsInjective(f)
  BY <1>1 DEF ExistsBijection, Bijection, Injection
<1>3. q \in [1..n -> S] /\ IsInjective(q)
  BY <1>2, Zenon
<1>4. SetToSeq(S) = q
  BY DEF SetToSeq
<1> HIDE DEF q, n
<1>5. q \in Seq(Ids) /\ Len(q) = n
  <2>1. q \in Seq(S) /\ Len(q) = n
    BY <1>1, <1>3
  <2> QED BY <2>1
<1>6. q \in Injection(1..n, S)
  BY <1>3 DEF Injection
<1>7. q \in Surjection(1..n, S)
  <2>1. Cardinality(1..n) = n
    <3>1. 1 \in Int /\ n \in Int
      BY <1>1
    <3> QED BY <1>1, <3>1, FS_Interval
  <2> QED BY <1>6, <2>1, FS_Injection DEF n
<1>8. ToSet(q) = S
  <2>1. ToSet(q) = {q[i] : i \in 1..n} 
    BY <1>5, SetOfSeq
  <2>2. \A x \in S : \E i \in 1..n : q[i] = x
    BY <1>7 DEF Surjection
  <2>3. \A i \in 1..n : q[i] \in S
    BY <1>3
  <2> QED BY <2>1, <2>2, <2>3
<1> QED BY <1>3, <1>4, <1>5, <1>8

LEMMA SameListed ==
  ASSUME NEW s \in Seq(Ids), NEW t \in Seq(Ids), IsInjective(s), IsInjective(t),
         ToSet(s) = ToSet(t)
  PROVE  /\ ContainedWithoutGrid(s) = ContainedWithoutGrid(t)
         /\ \A id \in Ids : Count(Filtered(s), id) = Count(Filtered(t), id)
<1>1. \A op : Placed(op, s) <=> Placed(op, t)
  BY DEF Placed, Described
<1>2. \A op : Fits(op, s) <=> Fits(op, t)
  BY <1>1 DEF Fits
<1>3. ContainedWithoutGrid(s) = ContainedWithoutGrid(t)
  BY <1>1 DEF ContainedWithoutGrid, SomeReal
<1> DEFINE fit == {id \in ToSet(s) : Fits(Op[id], s)}
           allowed == {id \in ToSet(s) : Allowed(Op[id])}
<1>4. fit = {id \in ToSet(t) : Fits(Op[id], t)} /\ allowed = {id \in ToSet(t) : Allowed(Op[id])}
  BY <1>2
<1>5. /\ AllFitting(s) = Only(s, fit) /\ AllFitting(t) = Only(t, fit)
      /\ AllAllowed(s) = Only(s, allowed) /\ AllAllowed(t) = Only(t, allowed)
  BY <1>4 DEF AllFitting, AllAllowed
<1> HIDE DEF fit, allowed
<1>6. \A id \in Ids : Count(s, id) = Count(t, id)
  BY CountDifferent
<1>7. /\ AllFitting(s) \in Seq(Ids) /\ AllFitting(t) \in Seq(Ids)
      /\ AllAllowed(s) \in Seq(Ids) /\ AllAllowed(t) \in Seq(Ids)
      /\ ToSet(AllFitting(s)) = ToSet(AllFitting(t))
  <2>1. \A ids : /\ Only(s, ids) \in Seq(Ids) /\ ToSet(Only(s, ids)) = ToSet(s) \cap ids
                 /\ Only(t, ids) \in Seq(Ids) /\ ToSet(Only(t, ids)) = ToSet(t) \cap ids
    BY OnlyIs
  <2> QED BY <1>5, <2>1
<1>8. \A id \in Ids : /\ Count(AllFitting(s), id) = Count(AllFitting(t), id)
                      /\ Count(AllAllowed(s), id) = Count(AllAllowed(t), id)
  BY <1>5, <1>6, CountOnly
<1>9. AllFitting(s) = <<>> <=> AllFitting(t) = <<>>
  BY <1>7, SetOfSeq
<1> DEFINE again(list) ==
      \/ /\ AllFitting(list) = <<>>
         /\ ~(UsesExtents /\ SomeReal(list, LAMBDA op : Placed(op, list)))
      \/ /\ \A id \in ToSet(AllFitting(list)) : Op[id].ballpark
         /\ UsesExtents /\ SomeReal(list, LAMBDA op : ~HasExtent(op))
<1>10. again(s) <=> again(t)
  BY <1>1, <1>7, <1>9 DEF SomeReal
<1>11. \A list : Filtered(list) = IF again(list) THEN AllFitting(list) \o AllAllowed(list)
                                  ELSE AllFitting(list)
  BY DEF Filtered
<1> HIDE DEF again
<1>12. \A id \in Ids : Count(Filtered(s), id) = Count(Filtered(t), id)
  <2> TAKE id \in Ids
  <2>1. CASE again(s)
    <3>1. /\ Filtered(s) = AllFitting(s) \o AllAllowed(s)
          /\ Filtered(t) = AllFitting(t) \o AllAllowed(t)
      BY <1>10, <1>11, <2>1
    <3>2. /\ Count(Filtered(s), id) = Count(AllFitting(s), id) + Count(AllAllowed(s), id)
          /\ Count(Filtered(t), id) = Count(AllFitting(t), id) + Count(AllAllowed(t), id)
      BY <1>7, <3>1, CountConcat
    <3> QED BY <1>8, <3>2
  <2>2. CASE ~again(s)
    <3>1. Filtered(s) = AllFitting(s) /\ Filtered(t) = AllFitting(t)
      BY <1>10, <1>11, <2>2
    <3> QED BY <1>8, <3>1
  <2> QED BY <2>1, <2>2
<1> QED BY <1>3, <1>12

LEMMA SelectedSame ==
  ASSUME ~context.etrs89, OpsComparable, NEW s \in Seq(Ids), NEW t \in Seq(Ids),
         IsInjective(s), IsInjective(t), ToSet(s) = ToSet(t)
  PROVE  Selected(s) = Selected(t)
<1>1. /\ ContainedWithoutGrid(s) = ContainedWithoutGrid(t)
      /\ \A id \in Ids : Count(Filtered(s), id) = Count(Filtered(t), id)
  BY SameListed
<1>2. Filtered(s) \in Seq(Ids) /\ Filtered(t) \in Seq(Ids)
  BY FilteredIs
<1>3. /\ Follows(NotAfter)
      /\ \A x, y \in Ids : <<x, y>> \in NotAfter /\ <<y, x>> \in NotAfter => x = y
  BY NotAfterIsOrder
<1>4. \A x, y \in Ids : <<x, y>> \in NotAfter \/ <<y, x>> \in NotAfter
  BY <1>3 DEF Follows
<1>5. /\ AfterSort(s) \in Seq(Ids) /\ AfterSort(t) \in Seq(Ids)
      /\ \A id \in Ids : Count(AfterSort(s), id) = Count(AfterSort(t), id)
  BY <1>1, <1>2, SortedIs DEF AfterSort
<1>6. InOrder(NotAfter, AfterSort(s)) /\ InOrder(NotAfter, AfterSort(t))
  BY <1>2, <1>3, SortedInOrder DEF AfterSort
<1>7. AfterSort(s) = AfterSort(t)
  BY <1>3, <1>4, <1>5, <1>6, OrderedIsUnique
<1>8. AfterSynthetic(s) = AfterSynthetic(t)
  BY <1>1, <1>7 DEF AfterSynthetic
<1>9. AfterDuplicates(s) = AfterDuplicates(t)
  BY <1>8 DEF AfterDuplicates, AfterUninteresting
<1> QED BY <1>1, <1>9, SelectedIs

\* The comparison is a total order on operations that it can tell apart, so the
\* sorted list, and what is removed from it, are the same for any order in which
\* the search has found them.
THEOREM SameForAnyOrder == OpsComparable => (Spec => []OrderIndependent)
<1> SUFFICES ASSUME OpsComparable PROVE Spec => []OrderIndependent
  OBVIOUS
<1>1. IInv => OrderIndependent
  <2> SUFFICES ASSUME IInv, Done, IsInjective(sourceList), ~context.etrs89
               PROVE  res = Selected(SetToSeq(ToSet(sourceList)))
    BY DEF OrderIndependent
  <2>1. sourceList \in Seq(Ids) /\ res = Selected(sourceList)
    BY FoundIsList DEF IInv, Done
  <2>2. ToSet(sourceList) \in SUBSET Ids /\ IsFiniteSet(ToSet(sourceList))
    <3>1. Len(sourceList) \in Nat /\ 1 \in Int /\ Len(sourceList) \in Int
      BY <2>1
    <3>2. IsFiniteSet(1..Len(sourceList))
      BY <3>1, FS_Interval
    <3>3. ToSet(sourceList) = {sourceList[i] : i \in 1..Len(sourceList)} /\ ToSet(sourceList) \subseteq Ids
      BY <2>1, SetOfSeq
    <3>4. sourceList \in Surjection(1..Len(sourceList), ToSet(sourceList))
      BY <2>1, <3>3 DEF Surjection
    <3> QED BY <3>2, <3>3, <3>4, FS_Surjection
  <2>3. /\ SetToSeq(ToSet(sourceList)) \in Seq(Ids) /\ IsInjective(SetToSeq(ToSet(sourceList)))
        /\ ToSet(SetToSeq(ToSet(sourceList))) = ToSet(sourceList)
    BY <2>2, SetToSeqIs
  <2> QED BY <2>1, <2>3, SelectedSame
<1> QED BY <1>1, InitIInv, StepIInv, PTL DEF Spec

-----------------------------------------------------------------------------
(* Nothing is lost without a reason.                                       *)

\* What filterOut puts before what: an operation that can be exported, and of
\* these one that is no ballpark operation.
Class(op) == IF op.exportable THEN (IF op.ballpark THEN 1 ELSE 0) ELSE 2

ByClass == {t \in Ids \X Ids : Class(Op[t[1]]) <= Class(Op[t[2]])}

LEMMA FollowsByClass == Follows(ByClass)
<1>1. \A x, y : Class(x) < Class(y) => Precedes(x, y)
  <2> SUFFICES ASSUME NEW x, NEW y, Class(x) < Class(y) PROVE Precedes(x, y)
    OBVIOUS
  <2> DEFINE c == Criteria(x, y)
             deciding == {i \in DOMAIN c : c[i][1] \/ c[i][2]}
  <2>1. DOMAIN c = 1..18
    BY DEF Criteria
  <2>2. /\ c[1][1] <=> x.exportable /\ ~y.exportable
        /\ c[1][2] <=> y.exportable /\ ~x.exportable
        /\ c[2][1] <=> ~x.ballpark /\ y.ballpark
        /\ c[2][2] <=> ~y.ballpark /\ x.ballpark
    BY DEF Criteria
  <2>3. Precedes(x, y) <=> deciding # {} /\ c[Min(deciding)][1]
    BY DEF Precedes
  <2> HIDE DEF c
  <2>4. \A k : k \in deciding <=> k \in 1..18 /\ (c[k][1] \/ c[k][2])
    BY <2>1
  <2> HIDE DEF deciding
  <2>5. deciding \subseteq Int /\ \A k \in deciding : k >= 1
    BY <2>4
  <2>6. CASE x.exportable /\ ~y.exportable
    <3>1. 1 \in deciding
      BY <2>2, <2>4, <2>6
    <3>2. Min(deciding) = 1
      BY <2>5, <3>1, MinIs
    <3> QED BY <2>2, <2>3, <2>6, <3>1, <3>2
  <2>7. CASE x.exportable /\ y.exportable
    <3>1. ~x.ballpark /\ y.ballpark
      BY <2>7 DEF Class
    <3>2. 2 \in deciding /\ 1 \notin deciding
      BY <2>2, <2>4, <2>7, <3>1
    <3>3. \A k \in deciding : 2 <= k
      BY <2>4, <3>2
    <3>4. Min(deciding) = 2
      BY <2>5, <3>2, <3>3, MinIs
    <3> QED BY <2>2, <2>3, <3>1, <3>2, <3>4
  <2>8. x.exportable
    BY DEF Class
  <2> QED BY <2>6, <2>7, <2>8
<1>2. \A x, y : Class(y) < Class(x) => ~Precedes(x, y)
  <2> SUFFICES ASSUME NEW x, NEW y, Class(y) < Class(x) PROVE ~Precedes(x, y)
    OBVIOUS
  <2> DEFINE c == Criteria(x, y)
             deciding == {i \in DOMAIN c : c[i][1] \/ c[i][2]}
  <2>1. DOMAIN c = 1..18
    BY DEF Criteria
  <2>2. /\ c[1][1] <=> x.exportable /\ ~y.exportable
        /\ c[1][2] <=> y.exportable /\ ~x.exportable
        /\ c[2][1] <=> ~x.ballpark /\ y.ballpark
        /\ c[2][2] <=> ~y.ballpark /\ x.ballpark
    BY DEF Criteria
  <2>3. Precedes(x, y) <=> deciding # {} /\ c[Min(deciding)][1]
    BY DEF Precedes
  <2> HIDE DEF c
  <2>4. \A k : k \in deciding <=> k \in 1..18 /\ (c[k][1] \/ c[k][2])
    BY <2>1
  <2> HIDE DEF deciding
  <2>5. deciding \subseteq Int /\ \A k \in deciding : k >= 1
    BY <2>4
  <2>6. CASE y.exportable /\ ~x.exportable
    <3>1. 1 \in deciding
      BY <2>2, <2>4, <2>6
    <3>2. Min(deciding) = 1
      BY <2>5, <3>1, MinIs
    <3> QED BY <2>2, <2>3, <2>6, <3>2
  <2>7. CASE x.exportable /\ y.exportable
    <3>1. ~y.ballpark /\ x.ballpark
      BY <2>7 DEF Class
    <3>2. 2 \in deciding /\ 1 \notin deciding
      BY <2>2, <2>4, <2>7, <3>1
    <3>3. \A k \in deciding : 2 <= k
      BY <2>4, <3>2
    <3>4. Min(deciding) = 2
      BY <2>5, <3>2, <3>3, MinIs
    <3> QED BY <2>2, <2>3, <3>1, <3>4
  <2>8. y.exportable
    BY DEF Class
  <2> QED BY <2>6, <2>7, <2>8
<1>3. \A x : Class(x) \in Int
  BY DEF Class
<1>4. \A x, y \in Ids : <<x, y>> \in ByClass <=> Class(Op[x]) <= Class(Op[y])
  BY DEF ByClass
<1>5. \A x, y \in Ids : IF Precedes(Op[x], Op[y]) THEN <<x, y>> \in ByClass ELSE <<y, x>> \in ByClass
  <2> SUFFICES ASSUME NEW x \in Ids, NEW y \in Ids
               PROVE  /\ Precedes(Op[x], Op[y]) => Class(Op[x]) <= Class(Op[y])
                      /\ ~Precedes(Op[x], Op[y]) => Class(Op[y]) <= Class(Op[x])
    BY <1>4
  <2>1. Class(Op[x]) \in Int /\ Class(Op[y]) \in Int
    BY <1>3
  <2> QED BY <1>1, <1>2, <2>1
<1>6. \A x, y, z \in Ids : <<x, y>> \in ByClass /\ <<y, z>> \in ByClass => <<x, z>> \in ByClass
  BY <1>3, <1>4
<1> QED BY <1>5, <1>6 DEF Follows

LEMMA SyntheticReason ==
  ASSUME NEW list \in Seq(Ids), NEW contained, NEW x \in ToSet(list)
  PROVE  \/ x \in ToSet(WithoutSynthetic(list, contained))
         \/ contained /\ IsPlaceholder(Op[x])
<1>1. Len(list) \in Nat /\ ToSet(list) = {list[i] : i \in 1..Len(list)}
  BY SetOfSeq
<1>2. PICK i \in 1..Len(list) : x = list[i]
  BY <1>1
<1>3. CASE contained /\ Len(list) > 1 /\ IsPlaceholder(Op[Last(list)])
  <2> DEFINE a == Front(list)
  <2>1. a \in Seq(Ids) /\ Len(a) = Len(list) - 1 /\ \A k \in 1..Len(list) - 1 : a[k] = list[k]
    <3>1. \A k \in 1..Len(list) - 1 : list[k] \in Ids
      OBVIOUS
    <3>2. /\ a \in Seq(Ids) /\ Len(a) = IF 1 <= Len(list) - 1 THEN Len(list) - 1 - 1 + 1 ELSE 0
          /\ \A k \in 1..Len(list) - 1 - 1 + 1 : a[k] = list[1 + k - 1]
      BY <1>1, <3>1, SubSeqProperties DEF Front
    <3>3. \A k \in 1..Len(list) - 1 : k \in 1..Len(list) - 1 - 1 + 1 /\ 1 + k - 1 = k
      BY <1>1
    <3> HIDE DEF a
    <3> QED BY <1>1, <1>3, <3>2, <3>3
  <2>2. WithoutSynthetic(list, contained) = a
    BY <1>3 DEF WithoutSynthetic
  <2> HIDE DEF a
  <2>3. CASE i = Len(list)
    BY <1>2, <1>3, <2>3 DEF Last
  <2>4. CASE i # Len(list)
    <3>1. i \in 1..Len(list) - 1 /\ i \in 1..Len(a)
      BY <1>1, <2>1, <2>4
    <3>2. a[i] \in ToSet(a)
      BY <2>1, <3>1, SetOfSeq
    <3> QED BY <1>2, <2>1, <2>2, <3>1, <3>2
  <2> QED BY <2>3, <2>4
<1>4. CASE ~(contained /\ Len(list) > 1 /\ IsPlaceholder(Op[Last(list)]))
  BY <1>4 DEF WithoutSynthetic
<1> QED BY <1>3, <1>4

LEMMA UninterestingReason ==
  ASSUME NEW list \in Seq(Ids), NEW x \in ToSet(list)
  PROVE  \/ x \in ToSet(WithoutUninteresting(list))
         \/ \E m \in ToSet(WithoutUninteresting(list)) : IsUninteresting(Op[x], Op[m])
<1>1. PICK f : /\ f[0] = <<>> /\ WithoutUninteresting(list) = f[Len(list)]
               /\ \A i \in 1..Len(list) : f[i] = UninterestingStep(f[i - 1], list[i])
  BY UninterestingSteps
<1>2. Pass(f, list)
  BY <1>1 DEF Pass, UninterestingStep
<1>3. Len(list) \in Nat /\ ToSet(list) = {list[i] : i \in 1..Len(list)}
  BY SetOfSeq
<1>4. PICK i \in 1..Len(list) : x = list[i]
  BY <1>3
<1> DEFINE a == f[i - 1]
<1>5. /\ i - 1 \in 0..Len(list) /\ i \in 0..Len(list) /\ Len(list) \in (i - 1)..Len(list)
      /\ Len(list) \in i..Len(list) /\ x \in Ids
  BY <1>3, <1>4
<1>6. a \in Seq(Ids) /\ ToSet(a) \subseteq ToSet(f[Len(list)]) /\ ToSet(f[i]) \subseteq ToSet(f[Len(list)])
  BY <1>2, <1>5, PassKeeps, PassGrows
<1>7. f[i] = UninterestingStep(a, x)
  BY <1>1, <1>4
<1> HIDE DEF a
<1>8. CASE a # <<>> /\ IsUninteresting(Op[x], Op[Last(a)])
  <2>1. Len(a) \in 1..Len(a)
    BY <1>6, <1>8
  <2>2. Last(a) \in ToSet(a)
    BY <1>6, <2>1, SetOfSeq DEF Last
  <2> QED BY <1>1, <1>6, <1>8, <2>2
<1>9. CASE ~(a # <<>> /\ IsUninteresting(Op[x], Op[Last(a)]))
  <2>1. f[i] = Append(a, x)
    BY <1>7, <1>9 DEF UninterestingStep
  <2>2. x \in ToSet(f[i])
    <3>1. ToSet(Append(a, x)) = ToSet(a) \cup {x}
      BY <1>5, <1>6, SetOfSeq
    <3> QED BY <2>1, <3>1
  <2> QED BY <1>1, <1>6, <2>2
<1> QED BY <1>8, <1>9

LEMMA DuplicateReason ==
  ASSUME NEW rel, NEW list \in Seq(Ids), InOrder(rel, list), NEW x \in ToSet(list)
  PROVE  \/ x \in ToSet(WithoutDuplicates(list))
         \/ \E k \in ToSet(WithoutDuplicates(list)) :
              /\ Op[k].exportable /\ Op[x].exportable /\ SameKey(Op[k], Op[x])
              /\ <<k, x>> \in rel
<1>1. PICK f : /\ f[0] = <<>> /\ WithoutDuplicates(list) = f[Len(list)]
               /\ \A i \in 1..Len(list) : f[i] = DuplicateStep(f[i - 1], list[i])
  BY DuplicateSteps
<1>2. Pass(f, list)
  BY <1>1 DEF Pass, DuplicateStep
<1>3. Len(list) \in Nat /\ ToSet(list) = {list[i] : i \in 1..Len(list)}
  BY SetOfSeq
<1>4. PICK i \in 1..Len(list) : x = list[i]
  BY <1>3
<1> DEFINE a == f[i - 1]
<1>5. /\ i - 1 \in 0..Len(list) /\ i \in 0..Len(list) /\ Len(list) \in (i - 1)..Len(list)
      /\ Len(list) \in i..Len(list) /\ x \in Ids
  BY <1>3, <1>4
<1>6. /\ a \in Seq(Ids) /\ ToSet(a) \subseteq ToSet(f[Len(list)])
      /\ ToSet(f[i]) \subseteq ToSet(f[Len(list)]) /\ ToSet(a) \subseteq {list[k] : k \in 1..i - 1}
  BY <1>2, <1>5, PassKeeps, PassGrows
<1>7. f[i] = DuplicateStep(a, x)
  BY <1>1, <1>4
<1> HIDE DEF a
<1>8. ASSUME Op[x].exportable, NEW k \in ToSet(a), Op[k].exportable, SameKey(Op[k], Op[x])
      PROVE  <<k, x>> \in rel /\ k \in ToSet(f[Len(list)])
  <2>1. PICK l \in 1..i - 1 : k = list[l]
    BY <1>6
  <2>2. l \in 1..Len(list) /\ l < i
    BY <1>3
  <2> QED BY <1>4, <1>6, <2>1, <2>2 DEF InOrder
<1>9. CASE Op[x].exportable /\ \E k \in ToSet(a) : Op[k].exportable /\ SameKey(Op[k], Op[x])
  BY <1>1, <1>8, <1>9
<1>10. CASE ~(Op[x].exportable /\ \E k \in ToSet(a) : Op[k].exportable /\ SameKey(Op[k], Op[x]))
  <2>1. f[i] = Append(a, x)
    BY <1>7, <1>10 DEF DuplicateStep
  <2>2. x \in ToSet(f[i])
    <3>1. ToSet(Append(a, x)) = ToSet(a) \cup {x}
      BY <1>5, <1>6, SetOfSeq
    <3> QED BY <2>1, <3>1
  <2> QED BY <1>1, <1>6, <2>2
<1> QED BY <1>9, <1>10

LEMMA SetOfList ==
  ASSUME NEW S, NEW s \in Seq(S)
  PROVE  IsFiniteSet(ToSet(s)) /\ Cardinality(ToSet(s)) \in Nat /\ Cardinality(ToSet(s)) <= Len(s)
<1>1. Len(s) \in Nat /\ 1 \in Int /\ Len(s) \in Int
  OBVIOUS
<1>2. IsFiniteSet(1..Len(s)) /\ Cardinality(1..Len(s)) = Len(s)
  <2>1. Cardinality(1..Len(s)) = IF 1 > Len(s) THEN 0 ELSE Len(s) - 1 + 1
    BY <1>1, FS_Interval
  <2> QED BY <1>1, <2>1, FS_Interval
<1>3. ToSet(s) = {s[i] : i \in 1..Len(s)}
  BY SetOfSeq
<1>4. s \in Surjection(1..Len(s), ToSet(s))
  BY <1>3 DEF Surjection
<1> QED BY <1>2, <1>4, FS_Surjection, FS_CardinalityType

\* As many steps as there are operations are enough: what is covered is closed.
LEMMA CoveredIsClosed ==
  ASSUME sourceList \in Seq(Ids), ToSet(res) \subseteq ToSet(sourceList)
  PROVE  LET found == ToSet(sourceList)
         IN  /\ ToSet(res) \subseteq Covered(found)
             /\ \A k \in Covered(found), o \in found :
                  MakesSuperfluous(Op[k], Op[o]) => o \in Covered(found)
<1> DEFINE found == ToSet(sourceList)
           n == Len(sourceList)
<1>1. found \in SUBSET Ids /\ n \in Nat
  BY SetOfSeq
<1>2. PICK f : /\ f[0] = ToSet(res) /\ Covered(found) = f[n]
               /\ \A i \in 1..n : f[i] = CoverStep(f[i - 1], found)
  BY <1>1, CoveredSteps
<1>3. IsFiniteSet(found) /\ Cardinality(found) \in Nat /\ Cardinality(found) <= n
  BY SetOfList
<1>r. ToSet(res) \subseteq found
  OBVIOUS
<1> DEFINE Closed(s) == CoverStep(s, found) = s
           Good(i) == /\ f[i] \subseteq found /\ ToSet(res) \subseteq f[i]
                      /\ Closed(f[i]) \/ Cardinality(f[i]) >= i
           S == {i \in 0..n : Good(i)}
<1> HIDE DEF found, n
<1>4. \A s : s \subseteq CoverStep(s, found) /\ (s \subseteq found => CoverStep(s, found) \subseteq found)
  BY DEF CoverStep
<1> HIDE DEF Closed
<1>5. 0 \in S
  <2>1. f[0] \subseteq found /\ IsFiniteSet(f[0])
    BY <1>2, <1>3, <1>r, FS_Subset
  <2>2. Cardinality(f[0]) >= 0
    BY <2>1, FS_CardinalityType
  <2> QED BY <1>1, <1>2, <2>1, <2>2
<1>6. \A i \in 1..n : i - 1 \in S => i \in S
  <2> SUFFICES ASSUME NEW i \in 1..n, Good(i - 1) PROVE Good(i)
    <3> HIDE DEF Good
    <3> QED BY <1>1
  <2> DEFINE a == f[i - 1]
             b == f[i]
  <2>1. b = CoverStep(a, found) /\ a \subseteq found /\ i \in Nat
    BY <1>1, <1>2
  <2>c. ToSet(res) \subseteq a /\ (Closed(a) \/ Cardinality(a) >= i - 1)
    OBVIOUS
  <2> HIDE DEF a, b
  <2>2. a \subseteq b /\ b \subseteq found
    BY <1>4, <2>1
  <2>3. IsFiniteSet(b) /\ Cardinality(a) \in Nat /\ Cardinality(b) \in Nat
        /\ Cardinality(a) <= Cardinality(b) /\ (Cardinality(a) = Cardinality(b) => a = b)
    <3>1. IsFiniteSet(b) /\ IsFiniteSet(a)
      BY <1>3, <2>1, <2>2, FS_Subset
    <3> QED BY <2>2, <3>1, FS_Subset, FS_CardinalityType
  <2>4. CASE Closed(a)
    <3>1. b = a
      BY <2>1, <2>4 DEF Closed
    <3> QED BY <2>4, <2>c, <2>2, <3>1 DEF a, b
  <2>5. CASE ~Closed(a)
    <3>1. a # b
      BY <2>1, <2>5 DEF Closed
    <3>2. Cardinality(b) >= i
      BY <2>1, <2>c, <2>3, <2>5, <3>1
    <3>3. ToSet(res) \subseteq b
      BY <2>c, <2>2
    <3> QED BY <2>2, <3>2, <3>3 DEF b
  <2> QED BY <2>4, <2>5
<1> HIDE DEF S, Good
<1>7. \A i \in 0..n : i \in S
  BY <1>1, <1>5, <1>6, Induct
<1>8. Good(n)
  BY <1>1, <1>7 DEF S
<1>9. Closed(f[n])
  <2>1. f[n] \subseteq found /\ (Closed(f[n]) \/ Cardinality(f[n]) >= n)
    BY <1>8 DEF Good
  <2>2. CASE Cardinality(f[n]) >= n
    <3>1. IsFiniteSet(f[n]) /\ Cardinality(f[n]) \in Nat /\ Cardinality(f[n]) <= Cardinality(found)
          /\ (Cardinality(f[n]) = Cardinality(found) => f[n] = found)
      BY <1>3, <2>1, FS_Subset, FS_CardinalityType
    <3>2. f[n] = found
      BY <1>1, <1>3, <2>2, <3>1
    <3>3. CoverStep(found, found) = found
      <4>1. found \subseteq CoverStep(found, found) /\ CoverStep(found, found) \subseteq found
        BY <1>4
      <4> QED BY <4>1
    <3> QED BY <3>2, <3>3 DEF Closed
  <2> QED BY <2>1, <2>2
<1>10. /\ ToSet(res) \subseteq Covered(found)
       /\ \A k \in Covered(found), o \in found :
            MakesSuperfluous(Op[k], Op[o]) => o \in Covered(found)
  <2>1. ToSet(res) \subseteq f[n]
    BY <1>8 DEF Good
  <2> QED BY <1>2, <1>9, <2>1 DEF Closed, CoverStep
<1> QED BY <1>10 DEF found

LEMMA PromisedIsListed ==
  ASSUME Found, TargetKnown, NEW o \in ToSet(sourceList), Promised(Op[o])
  PROVE  o \in ToSet(Filtered(sourceList))
<1> DEFINE a == AllFitting(sourceList)
           b == AllAllowed(sourceList)
<1>1. context \in Context
  BY ContextsAssumption DEF Found
<1>2. Fits(Op[o], sourceList)
  <2>1. UsesExtents /\ ~context.strict => Intersects(Op[o])
    <3> SUFFICES ASSUME UsesExtents, ~context.strict PROVE Intersects(Op[o])
      OBVIOUS
    <3>1. \A r \in Regions : r \subseteq Op[o].extent.area
      BY DEF Promised, ExtentContains
    <3>2. CASE HasArea
      BY <3>1, <3>2 DEF Regions, HasArea, Intersects, Overlaps
    <3>3. CASE ~HasArea
      <4>1. context.extent2 # {}
        BY <3>3 DEF TargetKnown
      <4>2. Regions = {context.extent1, context.extent2} \ {{}}
        BY <3>3 DEF Regions
      <4>3. context.extent1 = {} \/ context.extent1 \subseteq Op[o].extent.area
        BY <3>1, <4>2
      <4>4. context.extent2 \subseteq Op[o].extent.area
        BY <3>1, <4>1, <4>2
      <4> QED BY <3>3, <4>1, <4>3, <4>4 DEF Intersects, Overlaps
    <3> QED BY <3>2, <3>3
  <2> QED BY <2>1 DEF Fits, Promised
<1>3. a \in Seq(Ids) /\ ToSet(a) = ToSet(sourceList) \cap {id \in ToSet(sourceList) : Fits(Op[id], sourceList)}
  BY FoundIsList, OnlyIs DEF AllFitting
<1>4. b \in Seq(Ids)
  BY FoundIsList, OnlyIs DEF AllAllowed
<1> HIDE DEF a, b
<1>5. o \in ToSet(a)
  BY <1>2, <1>3
<1>6. ToSet(a \o b) = ToSet(a) \cup ToSet(b)
  BY <1>3, <1>4, ConcatIs
<1>7. Filtered(sourceList) = a \o b \/ Filtered(sourceList) = a
  BY DEF Filtered, a, b
<1> QED BY <1>5, <1>6, <1>7

LEMMA PromisedIsCovered ==
  ASSUME PlaceholdersAreVague, OpsDistinct, Found, TargetKnown, res = Selected(sourceList),
         NEW o \in ToSet(sourceList), Promised(Op[o])
  PROVE  o \in Covered(ToSet(sourceList))
<1> DEFINE found == ToSet(sourceList)
           C == Covered(found)
           contained == ContainedWithoutGrid(sourceList)
           list == AfterSort(sourceList)
           some == AfterSynthetic(sourceList)
           better == AfterUninteresting(sourceList)
           once == AfterDuplicates(sourceList)
<1>1. /\ sourceList \in Seq(Ids) /\ found \subseteq Ids
      /\ list \in Seq(Ids) /\ some \in Seq(Ids) /\ better \in Seq(Ids) /\ once \in Seq(Ids)
  BY FoundIsList, SelectedHas, SetOfSeq
<1>2. ToSet(res) \subseteq C /\ \A k \in C, x \in found : MakesSuperfluous(Op[k], Op[x]) => x \in C
  <2>1. ToSet(res) \subseteq found
    BY SelectedFrom
  <2> QED BY <1>1, <2>1, CoveredIsClosed
<1> HIDE DEF C
<1>3. \A x \in found : Promised(Op[x]) => x \in ToSet(list)
  <2>1. Filtered(sourceList) \in Seq(Ids)
    BY FoundIsList
  <2>2. ToSet(list) = ToSet(Filtered(sourceList))
    BY <2>1, SortedHas DEF AfterSort
  <2> QED BY <2>2, PromisedIsListed
<1>4. /\ some = WithoutSynthetic(list, contained) /\ better = WithoutUninteresting(some)
      /\ once = WithoutDuplicates(better) /\ res = WithoutSynthetic(once, contained)
  BY SelectedIs DEF AfterSynthetic, AfterUninteresting, AfterDuplicates
<1>5. InOrder(ByClass, better)
  <2>1. Filtered(sourceList) \in Seq(Ids)
    BY FoundIsList
  <2>2. InOrder(ByClass, list)
    BY <2>1, FollowsByClass, SortedInOrder DEF AfterSort
  <2>3. InOrder(ByClass, some)
    BY <1>1, <1>4, <2>2, WithoutSyntheticInOrder
  <2> HIDE DEF some, better
  <2> QED BY <1>1, <1>4, <2>3, WithoutUninterestingInOrder
<1>6. ToSet(list) \subseteq found /\ ToSet(some) \subseteq found /\ ToSet(better) \subseteq found /\ ToSet(once) \subseteq found
  <2>1. Filtered(sourceList) \in Seq(Ids) /\ ToSet(Filtered(sourceList)) \subseteq found
    BY FoundIsList, FilteredIs
  <2>2. ToSet(list) \subseteq found
    BY <2>1, SortedHas DEF AfterSort
  <2> HIDE DEF list, some, better, once, found
  <2>3. ToSet(some) \subseteq found
    BY <1>1, <1>4, <2>2, WithoutSyntheticIs
  <2>4. ToSet(better) \subseteq found
    BY <1>1, <1>4, <2>3, WithoutUninterestingIs
  <2>5. ToSet(once) \subseteq found
    BY <1>1, <1>4, <2>4, WithoutDuplicatesIs
  <2> QED BY <2>2, <2>3, <2>4, <2>5
<1> DEFINE Real(x) == ~Op[x].ballpark
<1>7. \A x \in Ids : Real(x) => ~IsPlaceholder(Op[x])
  BY DEF PlaceholdersAreVague, IsPlaceholder, Ids
<1> HIDE DEF found, contained, list, some, better, once
\* 1. What is real after removeUninterestingOps is covered.
<1>8. \A x \in ToSet(better) : Real(x) => x \in C
  <2> SUFFICES ASSUME NEW x \in ToSet(better), Real(x) PROVE x \in C
    OBVIOUS
  <2>1. \A y \in ToSet(once) : Real(y) => y \in C
    BY <1>1, <1>2, <1>4, <1>6, <1>7, SyntheticReason
  <2>2. CASE x \in ToSet(once)
    BY <2>1, <2>2
  <2>3. CASE x \notin ToSet(once)
    <3>1. PICK k \in ToSet(once) :
            Op[k].exportable /\ Op[x].exportable /\ SameKey(Op[k], Op[x]) /\ <<k, x>> \in ByClass
      BY <1>1, <1>4, <1>5, <2>3, DuplicateReason
    <3>2. Class(Op[k]) <= Class(Op[x])
      BY <3>1 DEF ByClass
    <3>3. Real(k)
      BY <3>1, <3>2 DEF Class
    <3>4. k \in C /\ MakesSuperfluous(Op[k], Op[x])
      BY <2>1, <3>1, <3>3 DEF MakesSuperfluous
    <3> QED BY <1>2, <1>6, <3>4
  <2> QED BY <2>2, <2>3
\* 2. So is what is real, or what was superfluous, before.
<1>9. \A x \in ToSet(some) : x \in ToSet(better) \/ x \in C
  <2> SUFFICES ASSUME NEW x \in ToSet(some), x \notin ToSet(better) PROVE x \in C
    OBVIOUS
  <2>1. PICK m \in ToSet(better) : IsUninteresting(Op[x], Op[m])
    BY <1>1, <1>4, UninterestingReason
  <2>2. x \in Ids /\ m \in Ids
    BY <1>1, <1>6
  <2>3. Op[x] # Op[m]
    BY <2>1, <2>2 DEF OpsDistinct, Ids
  <2>4. NotMoreAccurate(Op[x], Op[m]) /\ SameArea(Op[x], Op[m]) /\ Weight(Op[x]) > Weight(Op[m])
    BY <2>1, <2>3 DEF IsUninteresting
  <2>5. Real(m)
    <3>1. Op[m].accuracy \in Int /\ Op[m].accuracy >= 0
      BY <2>2, <2>4, OpAssumption DEF NotMoreAccurate, Operation, Ids
    <3> QED BY <2>2, <3>1 DEF PlaceholdersAreVague, Ids
  <2>6. Weight(Op[x]) \in Int /\ Weight(Op[m]) \in Int
    BY <2>2, OpAssumption DEF Weight, Operation, Ids
  <2>7. MakesSuperfluous(Op[m], Op[x])
    BY <2>4, <2>6 DEF MakesSuperfluous, SameArea
  <2> QED BY <1>2, <1>6, <1>8, <2>5, <2>7
\* 3. Real operations that are promised are covered,
<1>10. \A x \in found : Promised(Op[x]) /\ Real(x) => x \in C
  <2> SUFFICES ASSUME NEW x \in found, Promised(Op[x]), Real(x) PROVE x \in C
    OBVIOUS
  <2>1. x \in ToSet(some)
    BY <1>1, <1>3, <1>4, <1>7, SyntheticReason
  <2> QED BY <1>8, <1>9, <2>1
\* 4. and placeholders, where one of these contains the area without grids.
<1>11. contained => \A x \in found : IsPlaceholder(Op[x]) => x \in C
  <2> SUFFICES ASSUME contained, NEW x \in found, IsPlaceholder(Op[x]) PROVE x \in C
    OBVIOUS
  <2>1. PICK k \in found : /\ Allowed(Op[k]) /\ ~Op[k].ballpark
                           /\ Placed(Op[k], sourceList) /\ ExtentContains(Op[k])
    BY DEF contained, found, ContainedWithoutGrid, SomeReal
  <2>2. k \in C
    BY <1>10, <2>1 DEF Promised
  <2>3. MakesSuperfluous(Op[k], Op[x])
    BY <2>1 DEF MakesSuperfluous
  <2> QED BY <1>2, <2>2, <2>3
<1>12. \A x \in ToSet(once) : x \in C
  <2> SUFFICES ASSUME NEW x \in ToSet(once), x \notin ToSet(res) PROVE x \in C
    BY <1>2
  <2> QED BY <1>1, <1>4, <1>6, <1>11, SyntheticReason
<1>13. \A x \in ToSet(better) : x \in C
  <2> SUFFICES ASSUME NEW x \in ToSet(better), x \notin ToSet(once) PROVE x \in C
    BY <1>12
  <2>1. PICK k \in ToSet(once) : Op[k].exportable /\ Op[x].exportable /\ SameKey(Op[k], Op[x])
    BY <1>1, <1>4, <1>5, DuplicateReason
  <2>2. MakesSuperfluous(Op[k], Op[x])
    BY <2>1 DEF MakesSuperfluous
  <2> QED BY <1>2, <1>6, <1>12, <2>2
<1>14. \A x \in ToSet(list) : x \in C
  <2> SUFFICES ASSUME NEW x \in ToSet(list) PROVE x \in C
    OBVIOUS
  <2>1. x \in ToSet(some) \/ (contained /\ IsPlaceholder(Op[x]))
    BY <1>1, <1>4, SyntheticReason
  <2> QED BY <1>6, <1>9, <1>11, <1>13, <2>1
<1>15. o \in ToSet(list)
  BY <1>3 DEF found
<1> QED BY <1>14, <1>15 DEF C, found

\* An operation that keeps what the documentation of filterAndSort promises is
\* returned, or what is returned makes it superfluous. What a removal is
\* justified by may itself have been removed, but only for something that is
\* returned: the justifications never go round in a circle, since every one
\* leads to an operation that is less of a placeholder or earlier in the list.
THEOREM NothingIsLost ==
  PlaceholdersAreVague /\ OpsDistinct => (Spec => [](TargetKnown => NothingLost))
<1> SUFFICES ASSUME PlaceholdersAreVague, OpsDistinct
             PROVE  Spec => [](TargetKnown => NothingLost)
  OBVIOUS
<1>1. IInv => (TargetKnown => NothingLost)
  BY PromisedIsCovered DEF IInv, Done, NothingLost
<1> QED BY <1>1, InitIInv, StepIInv, PTL DEF Spec
================================================================================
