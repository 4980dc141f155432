--------------------------- MODULE GridShiftProofs ---------------------------
(***************************************************************************)
(* Proofs about GridShift: what a point that is shifted owes to the sets   *)
(* of grids, for any files, any successive versions of them, any failures  *)
(* of the network and any number of calls.                                 *)
(***************************************************************************)
EXTENDS GridShift, WellFoundedInduction, TLAPS

-----------------------------------------------------------------------------
(* What a recursive definition computes is shown by the least counterexample:   *)
(* a set of natural numbers that is not empty has a least member.               *)

LEMMA LeastOf ==
  ASSUME NEW T, T \subseteq Nat, T # {}
  PROVE \E x \in T : \A y \in T : x <= y
<1> DEFINE R == {ss \in Nat \X Nat : ss[1] < ss[2]}
<1>1. IsWellFoundedOn(R, Nat)
  BY NatLessThanWellFounded DEF OpToRel
<1> HIDE DEF R
<1>2. PICK x \in T : \A y \in T : ~(<<y, x>> \in R)
  BY <1>1, WFMin
<1>3. \A y \in T : ~(y < x)
  BY <1>2 DEF R
<1> QED BY <1>3

LEMMA ElementOf ==
  ASSUME NEW S, NEW s \in Seq(S), NEW n \in 1..Len(s)
  PROVE  s[n] \in S
OBVIOUS

-----------------------------------------------------------------------------
(* FlattenSeq is the last of the partial concatenations.                   *)

IsFlattening(f, seqs) ==
  \A i \in 1..Len(seqs) : f[i] = IF i = 1 THEN seqs[i] ELSE f[i-1] \o seqs[i]

LEMMA FlattenSeqDef ==
  ASSUME NEW S, NEW seqs \in Seq(Seq(S)), Len(seqs) # 0
  PROVE  \E f : IsFlattening(f, seqs) /\ FlattenSeq(seqs) = f[Len(seqs)]
<1> DEFINE N == Len(seqs)
           Row(f, i) == IF i = 1 THEN seqs[i] ELSE f[i-1] \o seqs[i]
           flatten == CHOOSE f : f = [i \in 1..N |-> Row(f, i)]
<1>1. FlattenSeq(seqs) = flatten[N]
  BY DEF FlattenSeq
<1>2. N \in Nat \ {0}
  OBVIOUS
<1> HIDE DEF N
<1>3. \A n \in 1..N : \E f : f = [i \in 1..n |-> Row(f, i)]
  <2> DEFINE T == {n \in 1..N : ~ \E f : f = [i \in 1..n |-> Row(f, i)]}
  <2> SUFFICES ASSUME T # {} PROVE FALSE
    OBVIOUS
  <2>1. T \subseteq 1..N /\ T \subseteq Nat
    <3>1. T \subseteq 1..N
      <4> HIDE DEF Row
      <4> QED BY Zenon
    <3> HIDE DEF T
    <3> QED BY <3>1, <1>2
  <2> HIDE DEF T
  <2>2. PICK n \in T : \A m \in T : n <= m
    BY LeastOf, <2>1
  <2> USE DEF T
  <2>3. n # 1
    <3> SUFFICES ASSUME n = 1 PROVE FALSE
      OBVIOUS
    <3> DEFINE f == [i \in 1..1 |-> seqs[1]]
    <3>1. f = [i \in 1..1 |-> Row(f, i)]
      OBVIOUS
    <3> HIDE DEF f
    <3> QED BY <3>1, <2>2
  <2>4. n-1 \in 1..N /\ n-1 \notin T /\ n \in 1..N
    <3> HIDE DEF T
    <3>1. n \in 1..N
      BY <2>1
    <3>2. n-1 \in 1..N /\ ~(n <= n-1)
      BY <3>1, <2>3, <1>2
    <3> QED BY <3>1, <3>2, <2>2
  <2>5. PICK g : g = [i \in 1..(n-1) |-> Row(g, i)]
    BY <2>4
  <2> DEFINE f == [i \in 1..n |-> IF i = n THEN g[n-1] \o seqs[n] ELSE g[i]]
  <2> HIDE DEF T
  <2>6. \A i \in 1..n : f[i] = Row(f, i)
    <3> SUFFICES ASSUME NEW i \in 1..n PROVE f[i] = Row(f, i)
      OBVIOUS
    <3>1. CASE i = n
      <4>1. n-1 \in 1..n /\ n \in 1..n /\ n-1 # n
        BY <2>3, <2>4, <1>2
      <4>2. f[n] = g[n-1] \o seqs[n] /\ f[n-1] = g[n-1]
        BY <4>1
      <4> QED BY <4>2, <3>1, <2>3
    <3>2. CASE i # n
      <4>1. i \in 1..(n-1)
        BY <3>2, <2>4, <1>2
      <4>2. g[i] = Row(g, i)
        <5> HIDE DEF Row, f
        <5> QED BY <4>1, <2>5, Zenon
      <4>3. f[i] = g[i] /\ (i # 1 => f[i-1] = g[i-1])
        BY <3>2, <4>1, <2>4
      <4> QED BY <4>2, <4>3
    <3> QED BY <3>1, <3>2
  <2>7. f = [i \in 1..n |-> Row(f, i)]
    BY <2>6
  <2> HIDE DEF f
  <2> QED BY <2>2, <2>7 DEF T
<1>4. PICK f : f = [i \in 1..N |-> Row(f, i)]
  <2> HIDE DEF Row
  <2>1. N \in 1..N
    BY <1>2
  <2> QED BY <2>1, <1>3
<1>5. flatten = [i \in 1..N |-> Row(flatten, i)]
  <2> HIDE DEF Row
  <2> QED BY <1>4, Zenon
<1> HIDE DEF flatten
<1>6. \A i \in 1..N : flatten[i] = Row(flatten, i)
  <2> HIDE DEF Row
  <2> QED BY <1>5, Zenon
<1> QED BY <1>1, <1>6 DEF IsFlattening, N

LEMMA FlattenSeqIsSeq ==
  ASSUME NEW S, NEW seqs \in Seq(Seq(S))
  PROVE  /\ FlattenSeq(seqs) \in Seq(S)
         /\ \A e : e \in Range(FlattenSeq(seqs)) <=>
                     \E i \in 1..Len(seqs) : e \in Range(seqs[i])
<1>1. CASE Len(seqs) = 0
  <2>1. seqs = <<>>
    BY <1>1
  <2>2. FlattenSeq(seqs) = <<>>
    BY <1>1, <2>1 DEF FlattenSeq
  <2> QED BY <1>1, <2>2 DEF Range
<1>2. CASE Len(seqs) # 0
  <2> DEFINE N == Len(seqs)
             Has(s, n) == \A e : e \in Range(s) <=> \E i \in 1..n : e \in Range(seqs[i])
  <2>1. PICK f : IsFlattening(f, seqs) /\ FlattenSeq(seqs) = f[N]
    BY <1>2, FlattenSeqDef
  <2>2. /\ N \in Nat \ {0} /\ \A i \in 1..N : seqs[i] \in Seq(S)
        /\ \A i \in 1..N : f[i] = IF i = 1 THEN seqs[i] ELSE f[i-1] \o seqs[i]
    BY <1>2, <2>1 DEF IsFlattening
  <2> HIDE DEF N
  <2>3. \A n \in 1..N : f[n] \in Seq(S) /\ Has(f[n], n)
    <3> DEFINE T == {n \in 1..N : ~(f[n] \in Seq(S) /\ Has(f[n], n))}
    <3> HIDE DEF Has
    <3> SUFFICES ASSUME T # {} PROVE FALSE
      OBVIOUS
    <3>1. T \subseteq 1..N /\ T \subseteq Nat
      BY <2>2
    <3> HIDE DEF T
    <3>2. PICK n \in T : \A m \in T : n <= m
      BY LeastOf, <3>1
    <3>3. n \in 1..N /\ n \in Nat
      BY <3>1
    <3>4. CASE n = 1
      <4>1. f[1] = seqs[1] /\ seqs[1] \in Seq(S)
        BY <2>2, <3>3, <3>4
      <4>2. Has(f[1], 1)
        BY <4>1 DEF Has
      <4> QED BY <3>2, <3>4, <4>1, <4>2 DEF T
    <3>5. CASE n # 1
      <4>1. n-1 \in 1..N /\ ~(n <= n-1)
        BY <2>2, <3>3, <3>5
      <4>2. f[n-1] \in Seq(S) /\ Has(f[n-1], n-1)
        BY <3>2, <4>1 DEF T
      <4>3. f[n] = f[n-1] \o seqs[n] /\ seqs[n] \in Seq(S)
        BY <2>2, <3>3, <3>5
      <4>4. f[n] \in Seq(S)
        BY <4>2, <4>3
      <4>5. \A e : e \in Range(f[n]) <=> e \in Range(f[n-1]) \/ e \in Range(seqs[n])
        <5> DEFINE a == f[n-1]
                   b == seqs[n]
        <5>1. a \in Seq(S) /\ b \in Seq(S) /\ f[n] = a \o b
          BY <4>2, <4>3
        <5> HIDE DEF a, b
        <5>2. Range(a \o b) = Range(a) \cup Range(b)
          <6>1. Len(a) \in Nat /\ Len(b) \in Nat /\ Len(a \o b) = Len(a) + Len(b)
            BY <5>1
          <6>2. /\ \A i \in 1..Len(a) : (a \o b)[i] = a[i]
                /\ \A i \in 1..Len(b) : (a \o b)[Len(a) + i] = b[i]
            BY <5>1, <6>1
          <6>3. \A i \in 1..Len(a \o b) :
                  i \in 1..Len(a) \/ \E j \in 1..Len(b) : i = Len(a) + j
            <7> TAKE i \in 1..Len(a \o b)
            <7>1. CASE i <= Len(a)
              BY <6>1, <7>1
            <7>2. CASE i > Len(a)
              <8>1. i - Len(a) \in 1..Len(b) /\ i = Len(a) + (i - Len(a))
                BY <6>1, <7>2
              <8> QED BY <8>1
            <7> QED BY <6>1, <7>1, <7>2
          <6>4. /\ \A i \in 1..Len(a) : i \in 1..Len(a \o b)
                /\ \A j \in 1..Len(b) : Len(a) + j \in 1..Len(a \o b)
            BY <6>1
          <6>5. Range(a) = {a[i] : i \in 1..Len(a)} /\ Range(b) = {b[i] : i \in 1..Len(b)}
                /\ Range(a \o b) = {(a \o b)[i] : i \in 1..Len(a \o b)}
            <7>1. DOMAIN a = 1..Len(a) /\ DOMAIN b = 1..Len(b)
              BY <5>1
            <7>2. DOMAIN (a \o b) = 1..Len(a \o b)
              BY <5>1
            <7> QED BY <7>1, <7>2, Zenon DEF Range
          <6> QED BY <6>2, <6>3, <6>4, <6>5
        <5> QED BY <5>1, <5>2 DEF a, b
      <4>6. \A i : i \in 1..n <=> i \in 1..(n-1) \/ i = n
        BY <3>3, <4>1
      <4>7. Has(f[n], n)
        BY <4>2, <4>5, <4>6, Zenon DEF Has
      <4> QED BY <3>2, <4>4, <4>7 DEF T
    <3> QED BY <3>4, <3>5
  <2>4. N \in 1..N
    BY <2>2
  <2>5. f[N] \in Seq(S) /\ Has(f[N], N)
    BY <2>3, <2>4
  <2> QED BY <2>1, <2>5 DEF N
<1> QED BY <1>1, <1>2

-----------------------------------------------------------------------------
(* The types.                                                              *)

Info == [last : Places, buffer : Shift \cup {NoShift}]

StoreFits ==
    /\ opened \in [Sets -> Nat] /\ \A s \in Sets : opened[s] \in Versions(s) \cup {0}
    /\ address \in [Sets -> Addresses]
    /\ cache \in [GridKeys -> Info]

TypesFit ==
    /\ kind \in Kinds
    /\ server \in [Sets -> Nat] /\ \A s \in Sets : server[s] \in Versions(s)
    /\ known \in BOOLEAN
    /\ deferred \in BOOLEAN
    /\ deferError \in Errors
    /\ grids \in Seq(Sets)
    /\ StoreFits
    /\ call \in Call
    /\ errno \in Errors
    /\ failed \in BOOLEAN

Active == call.stage \in {"find", "first", "iterate"}
Answers == call.stage = "done" /\ call.out \notin {"none", "huge"}

(* The grid that the call is reading is one of the set it belongs to. *)
Located ==
    call.stage \in {"first", "iterate"} =>
        call.set \in Sets /\ call.grid \in DOMAIN GridsOf(call.set)

(* Between its creation, or its first use, and its end an operation has    *)
(* every set that must be there, or remembers why it has none.             *)
ListIsWhole ==
    /\ call.stage = "none" => ~deferred /\ deferError = NoError /\ ~failed
    /\ call.stage # "none" /\ ~deferred /\ deferError = NoError => Sets \ Optional \subseteq Range(grids)
    /\ Active \/ Answers => ~deferred /\ deferError = NoError

(* A failure of the network is not forgotten before the call returns. *)
FailureIsKept == failed => errno # NoError

FromOpenGrids(c) == \A u \in c : u[2] = opened[u[1]]
FirstShift == {<<f[1], opened[f[1]], f[2], call.cell>> : f \in FindGrid("none", call.cell)}

(* The shifts gathered so far all come from the versions open now: a set   *)
(* that is opened again makes the call start again with none.              *)
Gathered ==
    kind # "gridshift" =>
        /\ Active => call.used = {} /\ FromOpenGrids(call.tried)
        /\ call.stage \in {"find", "first"} => call.tried = {}
        /\ call.stage = "first" => <<call.set, call.grid>> \in FindGrid("none", call.cell)
        /\ call.stage = "iterate" => ~call.forward
        /\ call.stage = "done" /\ call.out = "shifted" =>
              /\ FromOpenGrids(call.used)
              /\ call.forward => call.used = FirstShift

IInv == TypesFit /\ Located /\ ListIsWhole /\ FailureIsKept /\ Gathered

-----------------------------------------------------------------------------
(* The files and the sets.                                                 *)

LEMMA ContentIs ==
  ASSUME NEW s \in Sets, NEW v \in Versions(s)
  PROVE  /\ Content[s][v] \in Seq(Grid)
         /\ \A g \in DOMAIN Content[s][v] : g \in Indices(s) /\ g \in Nat
                                            /\ Content[s][v][g] \in Grid
<1>1. Content[s] \in Seq(Seq(Grid))
  BY ContentIsGrids, ElementOf DEF Sets
<1>2. Content[s][v] \in Seq(Grid)
  BY <1>1, ElementOf DEF Versions
<1>3. DOMAIN Content[s][v] = 1..Len(Content[s][v]) /\ Len(Content[s][v]) \in Nat
  BY <1>2
<1>4. \A g \in DOMAIN Content[s][v] : Content[s][v][g] \in Grid
  BY <1>2, <1>3, ElementOf
<1>5. \A g \in DOMAIN Content[s][v] : g \in Indices(s)
  BY DEF Indices
<1> QED BY <1>2, <1>3, <1>4, <1>5

LEMMA GridsAre ==
  ASSUME StoreFits, NEW s \in Sets
  PROVE  /\ DOMAIN GridsOf(s) \subseteq Nat \ {0}
         /\ \A g \in DOMAIN GridsOf(s) :
              /\ g \in Indices(s) /\ GridsOf(s)[g].cells \subseteq Cells
              /\ opened[s] \in Versions(s)
<1>1. opened[s] \in Versions(s) \cup {0}
  BY DEF StoreFits
<1>2. CASE opened[s] = 0
  <2>1. DOMAIN GridsOf(s) = {}
    BY <1>2 DEF GridsOf
  <2> QED BY <2>1
<1>3. CASE opened[s] # 0
  <2>1. GridsOf(s) = Content[s][opened[s]] /\ opened[s] \in Versions(s)
    BY <1>1, <1>3 DEF GridsOf
  <2>2. GridsOf(s) \in Seq(Grid) /\ \A g \in DOMAIN GridsOf(s) : g \in Indices(s) /\ GridsOf(s)[g] \in Grid
    BY <2>1, ContentIs
  <2>3. DOMAIN GridsOf(s) \subseteq Nat \ {0}
    BY <2>2
  <2>4. \A g \in Grid : g.cells \subseteq Cells
    BY DEF Grid
  <2> QED BY <2>1, <2>2, <2>3, <2>4
<1> QED BY <1>2, <1>3

LEMMA FindGridIs ==
  ASSUME StoreFits, grids \in Seq(Sets), NEW type, NEW place, NEW f \in FindGrid(type, place)
  PROVE  /\ f = <<f[1], f[2]>> /\ f[1] \in Sets /\ f[2] \in DOMAIN GridsOf(f[1])
         /\ f[2] \in Nat
<1>1. PICK n \in DOMAIN grids : \E g : g \in GridAt(grids[n], type, place) /\ f = <<grids[n], g>>
  BY DEF FindGrid, FindIn
<1>2. grids[n] \in Sets
  BY <1>1
<1> PICK g : g \in GridAt(grids[n], type, place) /\ f = <<grids[n], g>>
  BY <1>1
<1>3. g \in DOMAIN GridsOf(grids[n])
  BY <1>1 DEF GridAt
<1> QED BY <1>1, <1>2, <1>3, GridsAre

Comes(f, type, place) ==
  \E n \in DOMAIN grids : \E a :
      /\ \A m \in 1..(n - 1) : GridAt(grids[m], type, place) = {}
      /\ a \in GridAt(grids[n], type, place) /\ f = <<grids[n], a>>

LEMMA FindGridFrom ==
  ASSUME NEW type, NEW place, NEW f \in FindGrid(type, place)
  PROVE  Comes(f, type, place)
BY DEF FindGrid, FindIn, Comes

(* There is at most one grid to use. *)
LEMMA FindGridIsUnique ==
  ASSUME StoreFits, grids \in Seq(Sets), NEW type, NEW place,
         NEW f \in FindGrid(type, place), NEW h \in FindGrid(type, place)
  PROVE  f = h
<1> DEFINE NoneBefore(n) == \A m \in 1..(n - 1) : GridAt(grids[m], type, place) = {}
<1> HIDE DEF NoneBefore
<1>1. PICK n \in DOMAIN grids : \E a : NoneBefore(n) /\ a \in GridAt(grids[n], type, place) /\ f = <<grids[n], a>>
  <2>1. Comes(f, type, place)
    BY FindGridFrom
  <2> QED BY <2>1, Zenon DEF Comes, NoneBefore
<1>2. PICK m \in DOMAIN grids : \E b : NoneBefore(m) /\ b \in GridAt(grids[m], type, place) /\ h = <<grids[m], b>>
  <2>1. Comes(h, type, place)
    BY FindGridFrom
  <2> QED BY <2>1, Zenon DEF Comes, NoneBefore
<1> USE DEF NoneBefore
<1> PICK a : NoneBefore(n) /\ a \in GridAt(grids[n], type, place) /\ f = <<grids[n], a>>
  BY <1>1
<1> PICK b : NoneBefore(m) /\ b \in GridAt(grids[m], type, place) /\ h = <<grids[m], b>>
  BY <1>2
<1>3. n \in Nat \ {0} /\ m \in Nat \ {0} /\ grids[n] \in Sets
  BY <1>1, <1>2
<1>4. n = m
  <2>1. ~(n < m) /\ ~(m < n)
    <3>1. n < m => n \in 1..(m - 1)
      BY <1>3
    <3>2. m < n => m \in 1..(n - 1)
      BY <1>3
    <3> QED BY <3>1, <3>2, <1>1, <1>2
  <2> QED BY <2>1, <1>3
<1>5. a = b
  <2>1. a \in Nat \ {0} /\ b \in Nat \ {0}
    BY <1>1, <1>2, <1>3, <1>4, GridsAre DEF GridAt
  <2>2. a < b => a \in 1..(b - 1)
    BY <2>1
  <2>3. b < a => b \in 1..(a - 1)
    BY <2>1
  <2>4. ~(a < b) /\ ~(b < a)
    BY <2>2, <2>3, <1>1, <1>2, <1>4 DEF GridAt
  <2> QED BY <2>1, <2>4
<1> QED BY <1>1, <1>2, <1>4, <1>5

LEMMA TypeIsIgnored ==
  ASSUME kind # "gridshift", NEW type, NEW place
  PROVE  FindGrid(type, place) = FindGrid("none", place)
<1>1. \A g : Covers(g, type, place) <=> Covers(g, "none", place)
  BY DEF Covers
<1>2. \A s : GridAt(s, type, place) = GridAt(s, "none", place)
  BY <1>1 DEF GridAt
<1>3. \A ns : FindIn(ns, type, place) = FindIn(ns, "none", place)
  BY <1>2 DEF FindIn
<1>4. {n \in DOMAIN grids : \A m \in 1..(n - 1) : GridAt(grids[m], type, place) = {}}
        = {n \in DOMAIN grids : \A m \in 1..(n - 1) : GridAt(grids[m], "none", place) = {}}
  BY <1>2
<1> QED BY <1>3, <1>4, Zenon DEF FindGrid

(* The list has every set that must be there, unless there is an error.    *)
LEMMA ListedIs ==
  ASSUME NEW reached
  PROVE  /\ Listed(reached) \in Seq(Sets)
         /\ OpenError(reached) \in Errors
         /\ OpenError(reached) = NoError => Sets \ Optional \subseteq Range(Listed(reached))
<1> DEFINE If(s) == IF Opens(reached, s) THEN <<s>> ELSE <<>>
           seqs == [s \in Sets |-> If(s)]
<1>1. Sets = 1..Len(Content) /\ Len(Content) \in Nat
  BY ContentIsGrids DEF Sets
<1>2. ASSUME NEW s \in Sets PROVE If(s) \in Seq(Sets)
  OBVIOUS
<1>3. \A s \in Sets : Opens(reached, s) => s \in Range(If(s))
  BY DEF Range
<1> HIDE DEF If
<1>4. seqs \in Seq(Seq(Sets)) /\ Len(seqs) = Len(Content) /\ \A s \in Sets : seqs[s] = If(s)
  BY <1>1, <1>2
<1> HIDE DEF seqs
<1>5. /\ FlattenSeq(seqs) \in Seq(Sets)
      /\ \A s \in Sets : Opens(reached, s) => s \in Range(FlattenSeq(seqs))
  BY <1>1, <1>3, <1>4, FlattenSeqIsSeq
<1>6. Listed(reached) = IF Missing(reached) # {} THEN <<>> ELSE FlattenSeq(seqs)
  BY DEF Listed, seqs, If
<1>7. Listed(reached) \in Seq(Sets)
  BY <1>5, <1>6
<1>8. OpenError(reached) \in Errors /\ (OpenError(reached) = NoError => Missing(reached) = {})
  BY DEF OpenError, Errors, NoError
<1>9. Missing(reached) = {} => \A s \in Sets \ Optional : Opens(reached, s)
  BY DEF Missing
<1> QED BY <1>5, <1>6, <1>7, <1>8, <1>9

-----------------------------------------------------------------------------
(* Interpolation.                                                          *)

LEMMA KeyIs ==
  ASSUME StoreFits, NEW s \in Sets, NEW g \in Indices(s)
  PROVE  Key(s, g) \in GridKeys
BY DEF StoreFits, Key, GridKeys

LEMMA ShiftIs ==
  ASSUME NEW s \in Sets, NEW v \in Versions(s), NEW g \in Indices(s), NEW place \in Cells
  PROVE  <<s, v, g, place>> \in Shift /\ <<s, v, g, place>> # NoShift
BY DEF Shift, NoShift

LEMMA InterpolationIs ==
  ASSUME TypesFit, NEW s \in Sets, NEW g \in DOMAIN GridsOf(s), NEW place \in Places,
         NEW x \in Interpolations(s, g, place)
  PROVE  /\ x.val \in Shift \cup {NoShift} /\ x.info \in Info /\ x.err \in Errors
         /\ x.changed \in BOOLEAN
         /\ errno # NoError => x.err # NoError
         /\ x.val # NoShift => x.err = errno
         /\ kind # "gridshift" /\ ~x.changed /\ x.val # NoShift =>
              x.val = <<s, opened[s], g, place>>
<1> DEFINE grid == GridsOf(s)[g]
           v == opened[s]
           info == cache[Key(s, g)]
           filled(w) == IF kind = "gridshift" THEN [last |-> place, buffer |-> <<s, w, g, place>>] ELSE info
           spoilt(w) == IF kind = "gridshift" THEN [info EXCEPT !.buffer = <<s, w, g, place>>] ELSE info
           hole == place \in grid.nodata
<1>1. g \in Indices(s) /\ grid.cells \subseteq Cells /\ v \in Versions(s)
  BY GridsAre DEF TypesFit
<1>2. info \in Info
  BY <1>1, KeyIs DEF TypesFit, StoreFits
<1>3. server[s] \in Versions(s)
  BY DEF TypesFit
<1>4. errno \in Errors
  BY DEF TypesFit
<1>5. ASSUME NEW w \in Versions(s), place \in Cells
      PROVE  <<s, w, g, place>> \in Shift /\ <<s, w, g, place>> # NoShift
             /\ filled(w) \in Info /\ spoilt(w) \in Info
  <2>1. <<s, w, g, place>> \in Shift /\ <<s, w, g, place>> # NoShift
    BY <1>1, <1>5, ShiftIs
  <2> HIDE DEF info
  <2> QED BY <2>1, <1>2 DEF Info
<1>6. info.buffer \in Shift \cup {NoShift}
  BY <1>2 DEF Info
<1>7. "NETWORK_ERROR" \in Errors /\ "GRID_AT_NODATA" \in Errors
      /\ NoError # "NETWORK_ERROR" /\ NoError # "GRID_AT_NODATA"
  BY DEF Errors, NoError
<1>8. CASE place \notin grid.cells
  <2>1. x = Value(NoShift, errno, FALSE, info)
    BY <1>8 DEF Interpolations
  <2> HIDE DEF info
  <2> QED BY <2>1, <1>2, <1>4 DEF Value
<1>9. CASE place \in grid.cells /\ kind = "gridshift" /\ info.last = place
  <2>1. x = Value(info.buffer, errno, FALSE, info)
    BY <1>9 DEF Interpolations
  <2> HIDE DEF info
  <2> QED BY <2>1, <1>2, <1>4, <1>6, <1>9 DEF Value
<1>10. CASE place \in grid.cells /\ ~(kind = "gridshift" /\ info.last = place)
  <2>1. place \in Cells
    BY <1>1, <1>10
  <2>2. \/ x = Value(NoShift, "GRID_AT_NODATA", FALSE, info)
        \/ x = Value(NoShift, errno, FALSE, spoilt(v))
        \/ x = Value(<<s, v, g, place>>, errno, FALSE, filled(v))
        \/ x = Value(NoShift, "NETWORK_ERROR", FALSE, info)
        \/ x = Value(NoShift, "NETWORK_ERROR", FALSE, spoilt(v))
        \/ x = Value(NoShift, errno, TRUE, spoilt(v))
        \/ x = Value(<<s, server[s], g, place>>, errno, TRUE, filled(server[s]))
    BY <1>10 DEF Interpolations
  <2>3. /\ <<s, v, g, place>> \in Shift /\ <<s, v, g, place>> # NoShift
        /\ filled(v) \in Info /\ spoilt(v) \in Info
        /\ <<s, server[s], g, place>> \in Shift /\ filled(server[s]) \in Info
    BY <1>1, <1>3, <1>5, <2>1
  <2>4. NoShift \in Shift \cup {NoShift} /\ v = opened[s]
    OBVIOUS
  <2> HIDE DEF info, filled, spoilt, v
  <2>6. CASE x = Value(NoShift, "GRID_AT_NODATA", FALSE, info)
    <3>1. x.val = NoShift /\ x.err = "GRID_AT_NODATA" /\ x.changed = FALSE /\ x.info = info
      BY <2>6 DEF Value
    <3> QED BY <3>1, <2>4, <1>2, <1>7
  <2>7. CASE x = Value(NoShift, errno, FALSE, spoilt(v))
    <3>1. x.val = NoShift /\ x.err = errno /\ x.changed = FALSE /\ x.info = spoilt(v)
      BY <2>7 DEF Value
    <3> QED BY <3>1, <2>3, <2>4, <1>4
  <2>8. CASE x = Value(<<s, v, g, place>>, errno, FALSE, filled(v))
    <3>1. x.val = <<s, v, g, place>> /\ x.err = errno /\ x.changed = FALSE /\ x.info = filled(v)
      BY <2>8 DEF Value
    <3> QED BY <3>1, <2>3, <2>4, <1>4
  <2>9. CASE x = Value(NoShift, "NETWORK_ERROR", FALSE, info)
    <3>1. x.val = NoShift /\ x.err = "NETWORK_ERROR" /\ x.changed = FALSE /\ x.info = info
      BY <2>9 DEF Value
    <3> QED BY <3>1, <2>4, <1>2, <1>7
  <2>10. CASE x = Value(NoShift, "NETWORK_ERROR", FALSE, spoilt(v))
    <3>1. x.val = NoShift /\ x.err = "NETWORK_ERROR" /\ x.changed = FALSE /\ x.info = spoilt(v)
      BY <2>10 DEF Value
    <3> QED BY <3>1, <2>3, <2>4, <1>7
  <2>11. CASE x = Value(NoShift, errno, TRUE, spoilt(v))
    <3>1. x.val = NoShift /\ x.err = errno /\ x.changed = TRUE /\ x.info = spoilt(v)
      BY <2>11 DEF Value
    <3> QED BY <3>1, <2>3, <2>4, <1>4
  <2>12. CASE x = Value(<<s, server[s], g, place>>, errno, TRUE, filled(server[s]))
    <3>1. x.val = <<s, server[s], g, place>> /\ x.err = errno /\ x.changed = TRUE /\ x.info = filled(server[s])
      BY <2>12 DEF Value
    <3> QED BY <3>1, <2>3, <2>4, <1>4
  <2> QED BY <2>2, <2>6, <2>7, <2>8, <2>9, <2>10, <2>11, <2>12
<1> QED BY <1>8, <1>9, <1>10

-----------------------------------------------------------------------------
(* Steps of a call.                                                        *)

NoSite(c) == c.set = 0 /\ c.grid = 0

(* What the list and the open sets make of a place, for lists and sets     *)
(* given as values.                                                        *)
GridsIn(o, s) == IF o[s] = 0 THEN <<>> ELSE Content[s][o[s]]
CoversIn(k, g, type, place) == place \in g.cells /\ (k = "gridshift" => g.type = type)
GridAtIn(k, o, s, type, place) ==
  {g \in DOMAIN GridsIn(o, s) :
      CoversIn(k, GridsIn(o, s)[g], type, place)
      /\ \A h \in 1..(g - 1) : ~CoversIn(k, GridsIn(o, s)[h], type, place)}
FindInList(k, l, o, type, place) ==
  UNION {{<<l[n], g>> : g \in GridAtIn(k, o, l[n], type, place)} :
         n \in {n \in DOMAIN l : \A m \in 1..(n - 1) : GridAtIn(k, o, l[m], type, place) = {}}}

LEMMA FindGridOfValues ==
  ASSUME NEW type, NEW place
  PROVE  FindGrid(type, place) = FindInList(kind, grids, opened, type, place)
BY DEF FindInList, GridAtIn, CoversIn, GridsIn, FindGrid, FindIn, GridAt, Covers, GridsOf

LEMMA SameFind ==
  ASSUME UNCHANGED <<kind, grids, opened>>
  PROVE  /\ \A s : GridsOf(s)' = GridsOf(s)
         /\ \A type, place : FindGrid(type, place)' = FindGrid(type, place)
<1>1. \A s : GridsOf(s)' = GridsOf(s)
  BY DEF GridsOf
<1>2. \A type, place : FindGrid(type, place)' = FindInList(kind', grids', opened', type, place)
  BY DEF FindInList, GridAtIn, CoversIn, GridsIn, FindGrid, FindIn, GridAt, Covers, GridsOf
<1>3. \A type, place : FindGrid(type, place)' = FindGrid(type, place)
  BY <1>2, FindGridOfValues
<1> QED BY <1>1, <1>3

LEMMA NoCallFits == NoCall \in Call
<1>1. 0 \in 0..MaxIterations
  BY IterationsArePositive
<1> QED BY <1>1 DEF NoCall, Call, Places

(* A step inside a call leaves the operation and its list alone. *)
LEMMA StepFits ==
  ASSUME IInv, Active, UNCHANGED <<surroundings, object>>, StoreFits',
         call' \in Call, call'.stage # "none", errno' \in Errors, failed' \in BOOLEAN,
         failed' => errno' # NoError, Located', Gathered'
  PROVE  IInv'
<1>1. TypesFit'
  BY DEF IInv, TypesFit, surroundings, object
<1>2. ListIsWhole'
  BY DEF IInv, ListIsWhole, Active, Answers, object
<1> QED BY <1>1, <1>2 DEF IInv, FailureIsKept

LEMMA EndIs ==
  ASSUME NEW c \in Call, NEW out \in {"huge", "hole", "same", "shifted", "shift"}, NEW err \in Errors,
         End(c, out, err)
  PROVE  /\ call' \in Call /\ call'.stage = "done" /\ call'.out = out
         /\ call'.used = c.used \cup c.tried /\ call'.forward = c.forward /\ call'.cell = c.cell
         /\ errno' \in Errors /\ (err # NoError => errno' # NoError)
<1>1. 0 \in 0..MaxIterations /\ Outside \in Places /\ {} \in SUBSET Shift
  BY IterationsArePositive DEF Places
<1>2. c.used \cup c.tried \in SUBSET Shift
  BY DEF Call
<1>3. call' = [c EXCEPT !.stage = "done", !.out = out, !.used = @ \cup c.tried, !.tried = {},
                        !.set = 0, !.grid = 0, !.guess = Outside, !.i = 0]
      /\ errno' = ErrnoOf(c, out, err)
  BY DEF End, Goto
<1>4. call' \in Call
  BY <1>1, <1>2, <1>3 DEF Call
<1>5. /\ call'.stage = "done" /\ call'.out = out
      /\ call'.used = c.used \cup c.tried /\ call'.forward = c.forward /\ call'.cell = c.cell
  BY <1>3 DEF Call
<1>6. errno' \in Errors /\ (err # NoError => errno' # NoError)
  BY <1>3 DEF ErrnoOf, Errors, NoError
<1> QED BY <1>4, <1>5, <1>6

(* The call ends. *)
LEMMA EndKeeps ==
  ASSUME IInv, Active, UNCHANGED <<surroundings, object>>, StoreFits', failed' \in BOOLEAN,
         NEW c \in Call, NEW out \in {"huge", "hole", "same", "shifted", "shift"}, NEW err \in Errors,
         End(c, out, err), failed' => err # NoError,
         kind # "gridshift" /\ out = "shifted" =>
            /\ UNCHANGED opened /\ c.used = {} /\ FromOpenGrids(c.tried)
            /\ c.cell = call.cell /\ (c.forward => c.tried = FirstShift)
  PROVE  IInv'
<1>1. /\ call' \in Call /\ call'.stage = "done" /\ call'.out = out
      /\ call'.used = c.used \cup c.tried /\ call'.forward = c.forward /\ call'.cell = c.cell
      /\ errno' \in Errors /\ (err # NoError => errno' # NoError)
  BY EndIs
<1>2. Located'
  BY <1>1 DEF Located
<1>3. Gathered'
  <2>1. kind' = kind /\ grids' = grids
    BY DEF surroundings, object
  <2>2. ASSUME kind # "gridshift", out = "shifted"
        PROVE  FromOpenGrids(call.used)' /\ (call'.forward => call'.used = FirstShift')
    <3>1. opened' = opened /\ call'.used = c.tried /\ call'.cell = call.cell
          /\ FromOpenGrids(c.tried) /\ (c.forward => c.tried = FirstShift)
      BY <1>1, <2>2
    <3>2. \A type, place : FindGrid(type, place)' = FindGrid(type, place)
      BY <2>1, <3>1, SameFind
    <3>3. FirstShift' = FirstShift
      BY <3>1, <3>2 DEF FirstShift
    <3> QED BY <1>1, <3>1, <3>3 DEF FromOpenGrids
  <2> QED BY <1>1, <2>1, <2>2 DEF Gathered, Active
<1> QED BY <1>1, <1>2, <1>3, StepFits

LEMMA PassDoneKeeps ==
  ASSUME IInv, Active, UNCHANGED <<surroundings, object>>, StoreFits', failed' \in BOOLEAN,
         NEW c \in Call, NEW err \in Errors,
         PassDone(c, "shifted", err), failed' => err # NoError,
         kind # "gridshift" =>
            /\ UNCHANGED opened /\ c.used = {} /\ FromOpenGrids(c.tried)
            /\ c.cell = call.cell /\ (c.forward => c.tried = FirstShift)
  PROVE  IInv'
<1>1. CASE NeedsSecond(c)
  <2>1. /\ call' = [c EXCEPT !.stage = "find", !.second = TRUE, !.used = @ \cup c.tried, !.tried = {},
                             !.set = 0, !.grid = 0, !.out = "shifted"]
        /\ errno' = err /\ kind = "gridshift"
    BY <1>1 DEF PassDone, Goto, NeedsSecond
  <2>2. c.used \cup c.tried \in SUBSET Shift /\ {} \in SUBSET Shift
    BY DEF Call
  <2>3. call' \in Call /\ call'.stage = "find"
    BY <2>1, <2>2 DEF Call
  <2>4. Located' /\ Gathered'
    BY <2>1, <2>3 DEF Located, Gathered, surroundings
  <2> QED BY <2>1, <2>3, <2>4, StepFits
<1>2. CASE ~NeedsSecond(c)
  <2>1. End(c, "shifted", err)
    BY <1>2 DEF PassDone
  <2> QED BY <2>1, EndKeeps
<1> QED BY <1>1, <1>2

(* The file has changed. *)
LEMMA HasChangedKeeps ==
  ASSUME IInv, Active, UNCHANGED <<surroundings, object>>, cache' \in [GridKeys -> Info],
         NEW x, HasChanged(x), call.set \in Sets
  PROVE  IInv'
<1>1. PICK r \in Reopenings(call.set) :
         /\ Reopen(call.set, r)
         /\ failed' = (failed \/ r.err = "NETWORK_ERROR")
         /\ IF r.ok THEN Goto(Retry) /\ UNCHANGED errno
            ELSE End(call, GiveUpWith(x), r.err)
  BY DEF HasChanged
<1>2. TypesFit /\ StoreFits /\ call \in Call /\ errno \in Errors
      /\ (failed => errno # NoError) /\ server[call.set] \in Versions(call.set)
  BY DEF IInv, TypesFit, FailureIsKept
<1>3. /\ r.err \in Errors /\ r.ver \in Versions(call.set) \cup {0} /\ r.at \in Addresses
      /\ r.err \in {errno, "NETWORK_ERROR"} /\ (r.ok => r.err = errno)
  <2>1. address[call.set] \in Addresses /\ "NETWORK_ERROR" \in Errors
    BY <1>2 DEF StoreFits, Errors
  <2>2. \/ r = [ok |-> FALSE, err |-> "NETWORK_ERROR", ver |-> 0, at |-> address[call.set]]
        \/ \E a \in Addresses : r = [ok |-> TRUE, err |-> errno, ver |-> server[call.set], at |-> a]
        \/ r = [ok |-> FALSE, err |-> errno, ver |-> 0, at |-> address[call.set]]
    BY DEF Reopenings
  <2> QED BY <1>2, <2>1, <2>2
<1>4. failed' \in BOOLEAN /\ (failed' => r.err # NoError)
  BY <1>1, <1>2, <1>3 DEF NoError
<1>5. StoreFits'
  <2>1. opened' = [opened EXCEPT ![call.set] = r.ver] /\ address' = [address EXCEPT ![call.set] = r.at]
    BY <1>1 DEF Reopen
  <2>2. \A s \in Sets : Versions(s) \subseteq Nat
    BY DEF Versions
  <2>3. opened' \in [Sets -> Nat] /\ \A s \in Sets : opened'[s] \in Versions(s) \cup {0}
    BY <1>2, <1>3, <2>1, <2>2 DEF StoreFits
  <2>4. address' \in [Sets -> Addresses]
    BY <1>2, <1>3, <2>1 DEF StoreFits
  <2> QED BY <2>3, <2>4 DEF StoreFits
<1>6. CASE r.ok
  <2>1. call' = Retry /\ errno' = errno /\ kind' = kind
    BY <1>1, <1>6 DEF Goto, surroundings
  <2>2. 0 \in 0..MaxIterations /\ Outside \in Places /\ {} \in SUBSET Shift
    BY IterationsArePositive DEF Places
  <2>3. call' \in Call /\ call'.stage = "find" /\ call'.used = call.used /\ call'.tried = {}
    BY <1>2, <2>1, <2>2 DEF Retry, Call
  <2>4. Located' /\ Gathered'
    BY <2>1, <2>3 DEF IInv, Located, Gathered, FromOpenGrids, Active
  <2> QED BY <1>2, <1>3, <1>4, <1>5, <1>6, <2>1, <2>3, <2>4, StepFits
<1>7. CASE ~r.ok
  <2>1. End(call, GiveUpWith(x), r.err) /\ GiveUpWith(x) \in {"huge", "hole", "shift"}
    BY <1>1, <1>7 DEF GiveUpWith
  <2> QED BY <1>2, <1>3, <1>4, <1>5, <2>1, EndKeeps
<1> QED BY <1>6, <1>7

LEMMA KeepFits ==
  ASSUME StoreFits, NEW x, x.info \in Info, Keep(x), call.set \in Sets,
         call.grid \in Indices(call.set)
  PROVE  cache' \in [GridKeys -> Info]
<1>1. Key(call.set, call.grid) \in GridKeys
  BY KeyIs
<1> QED BY <1>1 DEF Keep, StoreFits

-----------------------------------------------------------------------------
LEMMA SearchKeeps == IInv /\ Search => IInv'
<1> SUFFICES ASSUME IInv, Search PROVE IInv'
  OBVIOUS
<1>1. /\ TypesFit /\ StoreFits /\ call.stage = "find" /\ Active /\ call \in Call
      /\ grids \in Seq(Sets) /\ failed \in BOOLEAN /\ errno \in Errors
      /\ (failed => errno # NoError)
      /\ UNCHANGED <<surroundings, object, sets, cache, failed>>
  BY DEF IInv, TypesFit, Search, Active, FailureIsKept
<1>2. StoreFits' /\ kind' = kind /\ grids' = grids /\ opened' = opened
  BY <1>1 DEF StoreFits, sets, surroundings, object
<1>3. CASE End(call, IF kind = "vgridshift" THEN "hole" ELSE "huge", "OUTSIDE_GRID")
  <2>1. "OUTSIDE_GRID" \in Errors /\ "OUTSIDE_GRID" # NoError
    BY DEF Errors, NoError
  <2>2. PICK out \in {"hole", "huge"} : End(call, out, "OUTSIDE_GRID")
    BY <1>3
  <2> QED BY <1>1, <1>2, <2>1, <2>2, EndKeeps
<1>4. CASE /\ \E f \in FindGrid(SearchType, call.cell) :
                Goto([call EXCEPT !.stage = "first", !.set = f[1], !.grid = f[2],
                                  !.found3D = @ \/ (Main /\ ~Switches)])
           /\ UNCHANGED errno
  <2>1. PICK f \in FindGrid(SearchType, call.cell) :
           call' = [call EXCEPT !.stage = "first", !.set = f[1], !.grid = f[2],
                                !.found3D = @ \/ (Main /\ ~Switches)]
    BY <1>4 DEF Goto
  <2>2. f = <<f[1], f[2]>> /\ f[1] \in Sets /\ f[2] \in DOMAIN GridsOf(f[1]) /\ f[2] \in Nat
    BY <1>1, FindGridIs
  <2>3. (call.found3D \/ (Main /\ ~Switches)) \in BOOLEAN
    BY <1>1 DEF Call
  <2>4. /\ call' \in Call /\ call'.stage = "first" /\ call'.set = f[1] /\ call'.grid = f[2]
        /\ call'.used = call.used /\ call'.tried = call.tried /\ call'.cell = call.cell
        /\ call'.forward = call.forward
    BY <1>1, <2>1, <2>2, <2>3 DEF Call
  <2>5. /\ \A s : GridsOf(s)' = GridsOf(s)
        /\ \A type, place : FindGrid(type, place)' = FindGrid(type, place)
    BY <1>2, SameFind
  <2>6. Located'
    BY <2>2, <2>4, <2>5 DEF Located
  <2>7. Gathered'
    <3>1. kind # "gridshift" => f \in FindGrid("none", call.cell)
      BY TypeIsIgnored
    <3>2. kind # "gridshift" => <<call'.set, call'.grid>> \in FindGrid("none", call.cell)'
      BY <2>2, <2>4, <2>5, <3>1
    <3>3. kind # "gridshift" => call'.used = {} /\ call'.tried = {}
      BY <1>1, <2>4 DEF IInv, Gathered
    <3> QED BY <1>2, <2>4, <3>2, <3>3 DEF Gathered, FromOpenGrids, Active
  <2> QED BY <1>1, <1>2, <1>4, <2>4, <2>6, <2>7, StepFits
<1> QED BY <1>3, <1>4 DEF Search

(* What an interpolation in a call can come to, besides a file that has    *)
(* changed.                                                                *)
LEMMA FirstKeeps == IInv /\ First => IInv'
<1> SUFFICES ASSUME IInv, First PROVE IInv'
  OBVIOUS
<1>1. PICK x \in Interpolations(call.set, call.grid, call.cell) :
          /\ Keep(x)
          /\ \/ x.changed /\ HasChanged(x)
             \/ /\ ~x.changed
                /\ failed' = (failed \/ x.err = "NETWORK_ERROR")
                /\ UNCHANGED sets
                /\ \/ x.val = NoShift /\ End(call, IF kind = "vgridshift" THEN "hole" ELSE "huge", x.err)
                   \/ /\ x.val # NoShift
                      /\ ~Iterates
                      /\ PassDone([call EXCEPT !.tried = {x.val}], "shifted", x.err)
                   \/ /\ x.val # NoShift
                      /\ Iterates
                      /\ \E p \in Places :
                            Goto([call EXCEPT !.stage = "iterate", !.tried = {x.val}, !.guess = p, !.i = MaxIterations])
                      /\ UNCHANGED errno
  BY DEF First
<1>2. /\ TypesFit /\ StoreFits /\ call.stage = "first" /\ Active /\ call \in Call
      /\ grids \in Seq(Sets) /\ failed \in BOOLEAN /\ errno \in Errors
      /\ (failed => errno # NoError) /\ call.cell \in Places
      /\ call.set \in Sets /\ call.grid \in DOMAIN GridsOf(call.set)
      /\ UNCHANGED <<surroundings, object>>
  BY DEF IInv, TypesFit, First, Active, FailureIsKept, Located, Call
<1>3. /\ x.val \in Shift \cup {NoShift} /\ x.info \in Info /\ x.err \in Errors
      /\ (errno # NoError => x.err # NoError) /\ (x.val # NoShift => x.err = errno)
      /\ (kind # "gridshift" /\ ~x.changed /\ x.val # NoShift =>
            x.val = <<call.set, opened[call.set], call.grid, call.cell>>)
  BY <1>2, InterpolationIs
<1>4. cache' \in [GridKeys -> Info]
  BY <1>1, <1>2, <1>3, GridsAre, KeepFits
<1>5. CASE x.changed /\ HasChanged(x)
  BY <1>2, <1>4, <1>5, HasChangedKeeps
<1>6. CASE /\ ~x.changed /\ failed' = (failed \/ x.err = "NETWORK_ERROR") /\ UNCHANGED sets
  <2>1. StoreFits' /\ UNCHANGED <<opened, kind, grids>>
    BY <1>2, <1>4, <1>6 DEF StoreFits, sets, surroundings, object
  <2>2. failed' \in BOOLEAN /\ (failed' => x.err # NoError)
    BY <1>2, <1>3, <1>6 DEF NoError
  <2>3. ASSUME x.val # NoShift
        PROVE  /\ {x.val} \in SUBSET Shift
               /\ kind # "gridshift" => call.used = {} /\ FromOpenGrids({x.val})
               /\ kind # "gridshift" /\ call.forward => {x.val} = FirstShift
    <3>1. {x.val} \in SUBSET Shift
      BY <1>3, <2>3
    <3>2. kind # "gridshift" => FromOpenGrids({x.val})
      BY <1>3, <1>6, <2>3 DEF FromOpenGrids
    <3>3. kind # "gridshift" => call.used = {}
      BY <1>2 DEF IInv, Gathered
    <3>4. ASSUME kind # "gridshift" PROVE {x.val} = FirstShift
      <4>1. <<call.set, call.grid>> \in FindGrid("none", call.cell)
        BY <1>2, <3>4 DEF IInv, Gathered
      <4>2. \A f \in FindGrid("none", call.cell) : f = <<call.set, call.grid>>
        BY <1>2, <4>1, FindGridIsUnique
      <4>3. FindGrid("none", call.cell) = {<<call.set, call.grid>>}
        BY <4>1, <4>2
      <4>4. FirstShift = {<<call.set, opened[call.set], call.grid, call.cell>>}
        <5> DEFINE e == <<call.set, opened[call.set], call.grid, call.cell>>
        <5>1. \A f \in FindGrid("none", call.cell) : <<f[1], opened[f[1]], f[2], call.cell>> = e
          BY <4>2
        <5> HIDE DEF e
        <5>2. FirstShift \subseteq {e}
          BY <5>1 DEF FirstShift
        <5>3. e \in FirstShift
          BY <4>1, <5>1 DEF FirstShift
        <5> QED BY <5>2, <5>3 DEF e
      <4> QED BY <1>3, <1>6, <2>3, <3>4, <4>4
    <3> QED BY <3>1, <3>2, <3>3, <3>4
  <2>4. CASE x.val = NoShift /\ End(call, IF kind = "vgridshift" THEN "hole" ELSE "huge", x.err)
    <3>1. PICK out \in {"hole", "huge"} : End(call, out, x.err)
      BY <2>4
    <3> QED BY <1>2, <1>3, <2>1, <2>2, <3>1, EndKeeps
  <2>5. CASE x.val # NoShift /\ PassDone([call EXCEPT !.tried = {x.val}], "shifted", x.err)
    <3> DEFINE c == [call EXCEPT !.tried = {x.val}]
    <3>1. c \in Call /\ c.tried = {x.val} /\ c.used = call.used /\ c.cell = call.cell /\ c.forward = call.forward
      BY <1>2, <2>3, <2>5 DEF Call
    <3>2. PassDone(c, "shifted", x.err)
      BY <2>5
    <3> HIDE DEF c
    <3>3. kind # "gridshift" =>
             /\ UNCHANGED opened /\ c.used = {} /\ FromOpenGrids(c.tried)
             /\ c.cell = call.cell /\ (c.forward => c.tried = FirstShift)
      BY <2>1, <2>3, <2>5, <3>1
    <3> QED BY <1>2, <1>3, <2>1, <2>2, <3>1, <3>2, <3>3, PassDoneKeeps
  <2>6. CASE /\ x.val # NoShift
             /\ Iterates
             /\ \E p \in Places :
                   Goto([call EXCEPT !.stage = "iterate", !.tried = {x.val}, !.guess = p, !.i = MaxIterations])
             /\ UNCHANGED errno
    <3>1. PICK p \in Places :
             call' = [call EXCEPT !.stage = "iterate", !.tried = {x.val}, !.guess = p, !.i = MaxIterations]
      BY <2>6 DEF Goto
    <3>2. MaxIterations \in 0..MaxIterations
      BY IterationsArePositive
    <3>3. /\ call' \in Call /\ call'.stage = "iterate" /\ call'.tried = {x.val} /\ call'.used = call.used
          /\ call'.set = call.set /\ call'.grid = call.grid /\ call'.forward = call.forward
      BY <1>2, <2>3, <2>6, <3>1, <3>2 DEF Call
    <3>4. ~call.forward /\ errno' = errno
      BY <2>6 DEF Iterates
    <3>5. \A s : GridsOf(s)' = GridsOf(s)
      BY <2>1, SameFind
    <3>6. Located'
      BY <1>2, <3>3, <3>5 DEF Located
    <3>7. Gathered'
      BY <2>1, <2>3, <2>6, <3>3, <3>4 DEF Gathered, FromOpenGrids, Active
    <3> QED BY <1>2, <1>3, <2>1, <2>2, <2>6, <3>3, <3>4, <3>6, <3>7, StepFits
  <2> QED BY <1>1, <1>6, <2>4, <2>5, <2>6
<1> QED BY <1>1, <1>5, <1>6

LEMMA IterateKeeps == IInv /\ Iterate => IInv'
<1> SUFFICES ASSUME IInv, Iterate PROVE IInv'
  OBVIOUS
<1> DEFINE AtEdge(x) ==
             x.val = NoShift /\ Elsewhere = {}
             /\ PassDone([call EXCEPT !.i = 0, !.guess = Outside], "shifted", EdgeErrno(x))
           TooMany(x) == call.i = 1 /\ End(call, "huge", NotConverged)
           Wanders(x) ==
             /\ x.val = NoShift /\ call.i > 1
             /\ \E f \in Elsewhere : Goto([call EXCEPT !.i = @ - 1, !.set = f[1], !.grid = f[2]])
             /\ errno' = x.err
           Converges(x) ==
             /\ x.val # NoShift
             /\ PassDone([call EXCEPT !.tried = @ \cup {x.val}, !.i = 0, !.guess = Outside], "shifted", x.err)
           GoesOn(x) ==
             /\ x.val # NoShift /\ call.i > 1
             /\ \E p \in Places : Goto([call EXCEPT !.tried = @ \cup {x.val}, !.i = @ - 1, !.guess = p])
             /\ errno' = x.err
<1>1. PICK x \in Interpolations(call.set, call.grid, call.guess) :
         /\ Keep(x)
         /\ \/ ~Unchanged(x) /\ HasChanged(x)
            \/ /\ Unchanged(x)
               /\ failed' = (failed \/ x.err = "NETWORK_ERROR")
               /\ UNCHANGED sets
               /\ AtEdge(x) \/ TooMany(x) \/ Wanders(x) \/ Converges(x) \/ GoesOn(x)
  BY DEF Iterate
<1>2. /\ TypesFit /\ StoreFits /\ call.stage = "iterate" /\ Active /\ call \in Call
      /\ grids \in Seq(Sets) /\ failed \in BOOLEAN /\ errno \in Errors
      /\ (failed => errno # NoError) /\ call.guess \in Places
      /\ call.set \in Sets /\ call.grid \in DOMAIN GridsOf(call.set)
      /\ call.i \in 0..MaxIterations /\ MaxIterations \in Nat
      /\ UNCHANGED <<surroundings, object>>
  BY IterationsArePositive DEF IInv, TypesFit, Iterate, Active, FailureIsKept, Located, Call
<1>3. /\ x.val \in Shift \cup {NoShift} /\ x.info \in Info /\ x.err \in Errors
      /\ (errno # NoError => x.err # NoError) /\ (x.val # NoShift => x.err = errno)
      /\ (kind # "gridshift" /\ ~x.changed /\ x.val # NoShift =>
            x.val = <<call.set, opened[call.set], call.grid, call.guess>>)
  BY <1>2, InterpolationIs
<1>4. cache' \in [GridKeys -> Info]
  BY <1>1, <1>2, <1>3, GridsAre, KeepFits
<1>5. CASE HasChanged(x)
  BY <1>2, <1>4, <1>5, HasChangedKeeps
<1>6. CASE /\ Unchanged(x) /\ failed' = (failed \/ x.err = "NETWORK_ERROR") /\ UNCHANGED sets
  <2>1. StoreFits' /\ UNCHANGED <<opened, kind, grids>>
    BY <1>2, <1>4, <1>6 DEF StoreFits, sets, surroundings, object
  <2>2. failed' \in BOOLEAN /\ (failed' => x.err # NoError)
    BY <1>2, <1>3, <1>6 DEF NoError
  <2>3. kind # "gridshift" => call.used = {} /\ FromOpenGrids(call.tried) /\ ~call.forward
    BY <1>2 DEF IInv, Gathered
  <2>4. ASSUME x.val # NoShift
        PROVE  /\ call.tried \cup {x.val} \in SUBSET Shift
               /\ kind # "gridshift" => FromOpenGrids(call.tried \cup {x.val})
    <3>1. call.tried \cup {x.val} \in SUBSET Shift
      BY <1>2, <1>3, <2>4 DEF Call
    <3>2. kind # "gridshift" => x.val = <<call.set, opened[call.set], call.grid, call.guess>>
      BY <1>3, <1>6, <2>4 DEF Unchanged
    <3> QED BY <2>3, <3>1, <3>2 DEF FromOpenGrids
  <2>5. /\ 0 \in 0..MaxIterations /\ Outside \in Places
        /\ (call.i > 1 => call.i - 1 \in 0..MaxIterations)
    BY <1>2 DEF Places
  <2>6. /\ \A s : GridsOf(s)' = GridsOf(s)
        /\ \A type, place : FindGrid(type, place)' = FindGrid(type, place)
    BY <2>1, SameFind
  <2>7. CASE AtEdge(x)
    <3> DEFINE c == [call EXCEPT !.i = 0, !.guess = Outside]
    <3>1. c \in Call /\ c.tried = call.tried /\ c.used = call.used /\ c.cell = call.cell /\ c.forward = call.forward
      BY <1>2, <2>5 DEF Call
    <3>2. PassDone(c, "shifted", x.err)
      BY <2>7 DEF EdgeErrno
    <3> HIDE DEF c
    <3>3. kind # "gridshift" =>
             /\ UNCHANGED opened /\ c.used = {} /\ FromOpenGrids(c.tried)
             /\ c.cell = call.cell /\ (c.forward => c.tried = FirstShift)
      BY <2>1, <2>3, <3>1
    <3> QED BY <1>2, <1>3, <2>1, <2>2, <3>1, <3>2, <3>3, PassDoneKeeps
  <2>8. CASE TooMany(x)
    <3>1. End(call, "huge", NotConverged) /\ NotConverged \in Errors /\ NotConverged # NoError
      BY <2>8 DEF NotConverged, Errors, NoError
    <3> QED BY <1>2, <2>1, <2>2, <3>1, EndKeeps
  <2>9. CASE Wanders(x)
    <3>1. PICK f \in FindGrid(SearchType, call.guess) :
             call' = [call EXCEPT !.i = @ - 1, !.set = f[1], !.grid = f[2]]
      BY <2>9 DEF Goto, Elsewhere
    <3>2. f[1] \in Sets /\ f[2] \in DOMAIN GridsOf(f[1]) /\ f[2] \in Nat
      BY <1>2, FindGridIs
    <3>3. /\ call' \in Call /\ call'.stage = "iterate" /\ call'.tried = call.tried /\ call'.used = call.used
          /\ call'.set = f[1] /\ call'.grid = f[2] /\ call'.forward = call.forward
      BY <1>2, <2>5, <2>9, <3>1, <3>2 DEF Call
    <3>4. Located'
      BY <2>6, <3>2, <3>3 DEF Located
    <3>5. Gathered'
      BY <2>1, <2>3, <3>3 DEF Gathered, FromOpenGrids, Active
    <3> QED BY <1>2, <1>3, <2>1, <2>2, <2>9, <3>3, <3>4, <3>5, StepFits
  <2>10. CASE Converges(x)
    <3> DEFINE c == [call EXCEPT !.tried = @ \cup {x.val}, !.i = 0, !.guess = Outside]
    <3>1. /\ c \in Call /\ c.tried = call.tried \cup {x.val} /\ c.used = call.used /\ c.cell = call.cell
          /\ c.forward = call.forward
      BY <1>2, <2>4, <2>5, <2>10 DEF Call
    <3>2. PassDone(c, "shifted", x.err)
      BY <2>10
    <3> HIDE DEF c
    <3>3. kind # "gridshift" =>
             /\ UNCHANGED opened /\ c.used = {} /\ FromOpenGrids(c.tried)
             /\ c.cell = call.cell /\ (c.forward => c.tried = FirstShift)
      BY <2>1, <2>3, <2>4, <2>10, <3>1
    <3> QED BY <1>2, <1>3, <2>1, <2>2, <3>1, <3>2, <3>3, PassDoneKeeps
  <2>11. CASE GoesOn(x)
    <3>1. PICK p \in Places : call' = [call EXCEPT !.tried = @ \cup {x.val}, !.i = @ - 1, !.guess = p]
      BY <2>11 DEF Goto
    <3>2. /\ call' \in Call /\ call'.stage = "iterate" /\ call'.tried = call.tried \cup {x.val}
          /\ call'.used = call.used /\ call'.set = call.set /\ call'.grid = call.grid
          /\ call'.forward = call.forward
      BY <1>2, <2>4, <2>5, <2>11, <3>1 DEF Call
    <3>3. Located'
      BY <1>2, <2>6, <3>2 DEF Located
    <3>4. Gathered'
      BY <2>1, <2>3, <2>4, <2>11, <3>2 DEF Gathered, FromOpenGrids, Active
    <3> QED BY <1>2, <1>3, <2>1, <2>2, <2>11, <3>2, <3>3, <3>4, StepFits
  <2> HIDE DEF AtEdge, TooMany, Wanders, Converges, GoesOn
  <2> QED BY <1>1, <1>6, <2>7, <2>8, <2>9, <2>10, <2>11
<1> QED BY <1>1, <1>5, <1>6

-----------------------------------------------------------------------------
(* The steps between calls.                                                *)

(* After them no grid is being read. *)
LEMMA IdleKeeps ==
  ASSUME TypesFit', ListIsWhole', FailureIsKept', call'.stage \in {"none", "find", "done"},
         call'.stage = "find" => call'.used = {} /\ call'.tried = {}, call'.out # "shifted"
  PROVE  IInv'
<1>1. Located'
  BY DEF Located
<1>2. Gathered'
  BY DEF Gathered, FromOpenGrids, Active
<1> QED BY <1>1, <1>2 DEF IInv

LEMMA CallsFit ==
  ASSUME NEW forward \in BOOLEAN, NEW cell \in Cells
  PROVE  /\ [NoCall EXCEPT !.stage = "done"] \in Call
         /\ [Point(forward, cell) EXCEPT !.stage = "done", !.out = "same"] \in Call
         /\ Point(forward, cell) \in Call
         /\ Failing(forward, cell) \in Call
<1>1. Point(forward, cell) \in Call /\ NoCall \in Call
  BY NoCallFits DEF Point, Call, Places
<1> QED BY <1>1 DEF Failing, Call

LEMMA OpenListFits ==
  ASSUME TypesFit, NEW reached, OpenList(reached), cache' = cache
  PROVE  StoreFits' /\ grids' \in Seq(Sets)
<1>1. grids' \in Seq(Sets)
  BY ListedIs DEF OpenList
<1>2. \A s \in Sets : server[s] \in Versions(s) /\ server[s] \in Nat
  BY DEF TypesFit
<1>3. opened' \in [Sets -> Nat] /\ \A s \in Sets : opened'[s] \in Versions(s) \cup {0}
  <2> DEFINE In(s) == s \in Range(Listed(reached))
  <2>1. opened' = [s \in Sets |-> IF In(s) THEN server[s] ELSE 0]
    BY DEF OpenList
  <2> HIDE DEF In
  <2> QED BY <1>2, <2>1
<1>4. address' = address
  BY DEF OpenList
<1> QED BY <1>1, <1>3, <1>4 DEF StoreFits, TypesFit

LEMMA CreateDeferredKeeps == IInv /\ CreateDeferred => IInv'
<1> SUFFICES ASSUME IInv, CreateDeferred PROVE IInv'
  OBVIOUS
<1>1. /\ TypesFit /\ ListIsWhole /\ call.stage = "none" /\ ~failed
      /\ deferred' = TRUE /\ errno' = NoError /\ call' = [NoCall EXCEPT !.stage = "done"]
      /\ UNCHANGED <<surroundings, deferError, grids, sets, types, cache, failed>>
  BY DEF IInv, CreateDeferred, Goto, ListIsWhole
<1>2. call' \in Call /\ call'.stage = "done" /\ call'.out = "none"
  BY <1>1, NoCallFits DEF NoCall, Call
<1>3. TypesFit'
  BY <1>1, <1>2 DEF TypesFit, StoreFits, surroundings, sets, Errors
<1>4. ListIsWhole' /\ FailureIsKept'
  BY <1>1, <1>2 DEF ListIsWhole, FailureIsKept, Active, Answers
<1> QED BY <1>2, <1>3, <1>4, IdleKeeps

LEMMA CreateKeeps == IInv /\ (\E reached \in SUBSET Sets : Create(reached)) => IInv'
<1> SUFFICES ASSUME IInv, NEW reached \in SUBSET Sets, Create(reached) PROVE IInv'
  OBVIOUS
<1>1. /\ TypesFit /\ ListIsWhole /\ call.stage = "none" /\ ~failed
      /\ UNCHANGED <<kind, server, published, deferred, deferError, cache, failed>>
  BY DEF IInv, Create, ListIsWhole
<1>2. CASE OpenError(reached) = NoError /\ Checked(Listed(reached))
  <2>1. /\ OpenList(reached) /\ known' = TRUE /\ errno' = NoError
        /\ call' = [NoCall EXCEPT !.stage = "done"]
    BY <1>2 DEF Create, Goto
  <2>2. call' \in Call /\ call'.stage = "done" /\ call'.out = "none"
    BY <2>1, NoCallFits DEF NoCall, Call
  <2>3. StoreFits' /\ grids' \in Seq(Sets)
    BY <1>1, <2>1, OpenListFits
  <2>4. TypesFit'
    BY <1>1, <2>1, <2>2, <2>3 DEF TypesFit, Errors
  <2>5. Sets \ Optional \subseteq Range(grids')
    BY <1>2, <2>1, ListedIs DEF OpenList
  <2>6. ListIsWhole' /\ FailureIsKept'
    BY <1>1, <2>2, <2>5 DEF ListIsWhole, FailureIsKept, Active, Answers
  <2> QED BY <2>2, <2>4, <2>6, IdleKeeps
<1>3. CASE ~(OpenError(reached) = NoError /\ Checked(Listed(reached)))
  <2>1. errno' = "FILE_NOT_FOUND_OR_INVALID" /\ UNCHANGED <<known, grids, sets, types, call>>
    BY <1>3 DEF Create
  <2>2. TypesFit'
    BY <1>1, <2>1 DEF TypesFit, StoreFits, sets, Errors
  <2>3. ListIsWhole' /\ FailureIsKept' /\ Located' /\ Gathered'
    BY <1>1, <2>1 DEF ListIsWhole, FailureIsKept, Located, Gathered, Active, Answers
  <2> QED BY <2>2, <2>3 DEF IInv
<1> QED BY <1>2, <1>3

LEMMA DestroyKeeps == IInv /\ Destroy => IInv'
<1> SUFFICES ASSUME IInv, Destroy PROVE IInv'
  OBVIOUS
<1>1. /\ TypesFit /\ deferred' = FALSE /\ deferError' = NoError /\ grids' = <<>>
      /\ opened' = [s \in Sets |-> 0] /\ cache' = [k \in GridKeys |-> NoInfo]
      /\ call' = NoCall /\ errno' = NoError /\ failed' = FALSE
      /\ UNCHANGED <<surroundings, address>>
  BY DEF IInv, Destroy, Goto
<1>2. call' \in Call /\ call'.stage = "none" /\ call'.out = "none"
  BY <1>1, NoCallFits DEF NoCall
<1>3. NoInfo \in Info
  BY DEF NoInfo, Info, Places
<1>4. StoreFits'
  BY <1>1, <1>3 DEF TypesFit, StoreFits
<1>5. TypesFit'
  <2>1. grids' \in Seq(Sets) /\ UNCHANGED <<kind, server, known>> /\ NoError \in Errors
    BY <1>1 DEF surroundings, Errors
  <2> QED BY <1>1, <1>2, <1>4, <2>1 DEF TypesFit
<1>6. ListIsWhole' /\ FailureIsKept'
  BY <1>1, <1>2 DEF ListIsWhole, FailureIsKept, Active, Answers
<1> QED BY <1>2, <1>5, <1>6, IdleKeeps

LEMMA BeginKeeps ==
  ASSUME IInv, NEW forward \in BOOLEAN, NEW cell \in Cells, Begin(forward, cell)
  PROVE  IInv'
<1>1. /\ TypesFit /\ ListIsWhole /\ call.stage = "done" /\ ~deferred /\ failed' = FALSE
      /\ errno' = deferError /\ UNCHANGED <<surroundings, object, sets, types, cache>>
  BY DEF IInv, Begin
<1>2. \/ deferError # NoError /\ call' = Failing(forward, cell)
      \/ deferError = NoError /\ call' = [Point(forward, cell) EXCEPT !.stage = "done", !.out = "same"]
      \/ deferError = NoError /\ call' = Point(forward, cell)
  BY DEF Begin, Goto
<1>3. call' \in Call
  BY <1>2, CallsFit
<1>4. \/ deferError # NoError /\ call'.stage = "done" /\ call'.out = "huge"
      \/ deferError = NoError /\ call'.stage = "done" /\ call'.out = "same"
      \/ /\ deferError = NoError /\ call'.stage = "find" /\ call'.out = "none"
         /\ call'.used = {} /\ call'.tried = {}
  BY <1>2 DEF Failing, Point, NoCall
<1>5. TypesFit'
  BY <1>1, <1>3 DEF TypesFit, StoreFits, surroundings, object, sets
<1>6. ListIsWhole' /\ FailureIsKept'
  BY <1>1, <1>4 DEF ListIsWhole, FailureIsKept, Active, Answers, object
<1> QED BY <1>4, <1>5, <1>6, IdleKeeps

LEMMA BeginDeferredKeeps ==
  ASSUME IInv, NEW forward \in BOOLEAN, NEW cell \in Cells, NEW reached \in SUBSET Sets,
         BeginDeferred(forward, cell, reached)
  PROVE  IInv'
<1>1. /\ TypesFit /\ ListIsWhole /\ call.stage = "done" /\ failed' = FALSE /\ deferred' = FALSE
      /\ OpenList(reached) /\ deferError' = OpenError(reached) /\ errno' = OpenError(reached)
      /\ UNCHANGED <<surroundings, cache>>
  BY DEF IInv, BeginDeferred, Remember
<1>2. \/ call' = Failing(forward, cell)
      \/ deferError' = NoError /\ call' = [Point(forward, cell) EXCEPT !.stage = "done", !.out = "same"]
      \/ deferError' = NoError /\ call' = Point(forward, cell)
  BY <1>1 DEF BeginDeferred, Goto, Remember
<1>3. call' \in Call
  BY <1>2, CallsFit
<1>4. \/ call'.stage = "done" /\ call'.out = "huge"
      \/ deferError' = NoError /\ call'.stage = "done" /\ call'.out = "same"
      \/ /\ deferError' = NoError /\ call'.stage = "find" /\ call'.out = "none"
         /\ call'.used = {} /\ call'.tried = {}
  BY <1>2 DEF Failing, Point, NoCall
<1>5. StoreFits' /\ grids' \in Seq(Sets)
  BY <1>1, OpenListFits
<1>6. OpenError(reached) \in Errors
      /\ (OpenError(reached) = NoError => Sets \ Optional \subseteq Range(grids'))
  BY <1>1, ListedIs DEF OpenList
<1>7. TypesFit'
  BY <1>1, <1>3, <1>5, <1>6 DEF TypesFit, surroundings
<1>8. ListIsWhole' /\ FailureIsKept'
  BY <1>1, <1>4, <1>6 DEF ListIsWhole, FailureIsKept, Active, Answers
<1> QED BY <1>4, <1>7, <1>8, IdleKeeps

LEMMA PublishKeeps == IInv /\ (\E s \in Sets : Publish(s)) => IInv'
<1> SUFFICES ASSUME IInv, NEW s \in Sets, Publish(s) PROVE IInv'
  OBVIOUS
<1>1. /\ TypesFit /\ server[s] + 1 \in Versions(s) /\ server' = [server EXCEPT ![s] = server[s] + 1]
      /\ UNCHANGED <<kind, known, object, sets, types, cache, call, errno, failed>>
  BY DEF IInv, Publish
<1>2. server' \in [Sets -> Nat] /\ \A t \in Sets : server'[t] \in Versions(t)
  BY <1>1 DEF TypesFit, Versions
<1>3. TypesFit'
  BY <1>1, <1>2 DEF TypesFit, StoreFits, object, sets
<1>4. /\ UNCHANGED <<kind, grids, opened, call, deferred, deferError, failed, errno>>
  BY <1>1 DEF object, sets
<1>5. /\ \A t : GridsOf(t)' = GridsOf(t)
      /\ \A type, place : FindGrid(type, place)' = FindGrid(type, place)
  BY <1>4, SameFind
<1>6. Located' /\ ListIsWhole' /\ FailureIsKept'
  BY <1>4, <1>5 DEF IInv, Located, ListIsWhole, FailureIsKept, Active, Answers
<1>7. FirstShift' = FirstShift /\ FromOpenGrids(call.used)' = FromOpenGrids(call.used)
      /\ FromOpenGrids(call.tried)' = FromOpenGrids(call.tried)
  BY <1>4, <1>5 DEF FirstShift, FromOpenGrids
<1>8. Gathered'
  BY <1>4, <1>5, <1>7 DEF IInv, Gathered, Active
<1> QED BY <1>3, <1>6, <1>8 DEF IInv

LEMMA InitIInv == Init => IInv
<1> SUFFICES ASSUME Init PROVE IInv
  OBVIOUS
<1>1. \A s \in Sets : 1 \in Versions(s)
  <2> SUFFICES ASSUME NEW s \in Sets PROVE 1 \in Versions(s)
    OBVIOUS
  <2>1. Content[s] \in Seq(Seq(Grid)) /\ Content[s] # <<>>
    BY ContentIsGrids, FirstVersionsAreReadable, ElementOf DEF Sets
  <2>2. Len(Content[s]) \in Nat /\ Len(Content[s]) # 0
    BY <2>1
  <2> QED BY <2>2 DEF Versions
<1>2. (CHOOSE a \in Addresses : TRUE) \in Addresses
  BY AddressesAreSome
<1>3. NoInfo \in Info
  BY DEF NoInfo, Info, Places
<1>4. StoreFits
  BY <1>2, <1>3 DEF Init, StoreFits
<1>5. call \in Call /\ call.stage = "none" /\ call.out = "none" /\ grids \in Seq(Sets)
  BY NoCallFits DEF Init, NoCall
<1>6. TypesFit
  <2>1. server = [s \in Sets |-> 1] /\ server \in [Sets -> Nat] /\ \A s \in Sets : server[s] \in Versions(s)
    BY <1>1 DEF Init
  <2>2. /\ kind \in Kinds /\ known = FALSE /\ deferred = FALSE /\ deferError = NoError /\ errno = NoError
        /\ failed = FALSE /\ NoError \in Errors
    BY DEF Init, Errors
  <2> QED BY <1>4, <1>5, <2>1, <2>2 DEF TypesFit
<1>7. Located /\ ListIsWhole /\ FailureIsKept /\ Gathered
  BY <1>5 DEF Init, Located, ListIsWhole, FailureIsKept, Gathered, Active, Answers
<1> QED BY <1>6, <1>7 DEF IInv

LEMMA NextIInv == IInv /\ [Next]_vars => IInv'
<1> SUFFICES ASSUME IInv, [Next]_vars PROVE IInv'
  OBVIOUS
<1>1. CASE Step
  BY <1>1, SearchKeeps, FirstKeeps, IterateKeeps DEF Step
<1>2. CASE CreateDeferred
  BY <1>2, CreateDeferredKeeps
<1>3. CASE \E reached \in SUBSET Sets : Create(reached)
  BY <1>3, CreateKeeps
<1>4. CASE Destroy
  BY <1>4, DestroyKeeps
<1>5. CASE \E forward \in BOOLEAN, cell \in Cells :
              Begin(forward, cell) \/ \E reached \in SUBSET Sets : BeginDeferred(forward, cell, reached)
  <2> PICK forward \in BOOLEAN, cell \in Cells :
              Begin(forward, cell) \/ \E reached \in SUBSET Sets : BeginDeferred(forward, cell, reached)
    BY <1>5
  <2>1. CASE Begin(forward, cell)
    BY <2>1, BeginKeeps
  <2>2. CASE \E reached \in SUBSET Sets : BeginDeferred(forward, cell, reached)
    BY <2>2, BeginDeferredKeeps
  <2> QED BY <2>1, <2>2
<1>6. CASE \E s \in Sets : Publish(s)
  BY <1>6, PublishKeeps
<1>7. CASE UNCHANGED vars
  <2>1. UNCHANGED <<kind, server, known, deferred, deferError, grids, opened, address, cache, call, errno, failed>>
    BY <1>7 DEF vars, surroundings, object, sets
  <2>2. TypesFit' /\ ListIsWhole' /\ FailureIsKept'
    BY <2>1 DEF IInv, TypesFit, StoreFits, ListIsWhole, FailureIsKept, Active, Answers
  <2>3. /\ \A s : GridsOf(s)' = GridsOf(s)
        /\ \A type, place : FindGrid(type, place)' = FindGrid(type, place)
    BY <2>1, SameFind
  <2>4. FirstShift' = FirstShift /\ FromOpenGrids(call.used)' = FromOpenGrids(call.used)
        /\ FromOpenGrids(call.tried)' = FromOpenGrids(call.tried)
    BY <2>1, <2>3 DEF FirstShift, FromOpenGrids
  <2>5. Located' /\ Gathered'
    BY <2>1, <2>3, <2>4 DEF IInv, Located, Gathered, Active
  <2> QED BY <2>2, <2>5 DEF IInv
<1> QED BY <1>1, <1>2, <1>3, <1>4, <1>5, <1>6, <1>7 DEF Next

LEMMA Inductive == Spec => []IInv
BY InitIInv, NextIInv, PTL DEF Spec

-----------------------------------------------------------------------------
(* The shifts of an answer of hgridshift or vgridshift come from the       *)
(* versions of the files that its sets have open, and those of a forward   *)
(* one from the first set of the list that covers the point: reopening a   *)
(* set (hgridshift.cpp, grids.cpp) never lets an answer mix two versions.  *)
THEOREM AnswersAreOfOpenGrids == Spec => []AnswerFromOpenGrids
<1>1. IInv => AnswerFromOpenGrids
  <2> SUFFICES ASSUME IInv, Success, call.out = "shifted", kind # "gridshift"
               PROVE  /\ \A u \in call.used : u[2] = opened[u[1]]
                      /\ call.forward => call.used = {<<f[1], opened[f[1]], f[2], call.cell>> :
                                                       f \in FindGrid("none", call.cell)}
    BY DEF AnswerFromOpenGrids
  <2>1. FromOpenGrids(call.used) /\ (call.forward => call.used = FirstShift)
    BY DEF IInv, Gathered, Success
  <2> QED BY <2>1 DEF FromOpenGrids, FirstShift
<1> QED BY <1>1, Inductive, PTL

(* A network failure during a call ends in an error of the call, also      *)
(* where the iteration goes on with what it has (grids.cpp,                *)
(* pj_hgrid_apply_internal).                                               *)
THEOREM NetworkErrorsAreReported == Spec => []NetworkErrorIsReported
<1>1. IInv => NetworkErrorIsReported
  BY DEF IInv, FailureIsKept, NetworkErrorIsReported
<1> QED BY <1>1, Inductive, PTL

(* An operation that transforms a point has every set of grids that is not *)
(* optional in its list, whether it was opened at the creation or late.    *)
THEOREM MandatoryGridsStay == Spec => []MandatoryGridsAreThere
<1>1. IInv => MandatoryGridsAreThere
  BY DEF IInv, ListIsWhole, Answers, Success, MandatoryGridsAreThere
<1> QED BY <1>1, Inductive, PTL
=============================================================================
