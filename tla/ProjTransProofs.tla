--------------------------- MODULE ProjTransProofs ---------------------------
(***************************************************************************)
(* Proofs about ProjTrans: what a transformation with several candidate    *)
(* operations answers, for any lists of operations, any points and any     *)
(* number of calls.                                                        *)
(*                                                                         *)
(* The inductive invariant describes the search half way: what the best    *)
(* candidate so far beats, and what the attempts before it have excluded.  *)
(***************************************************************************)
EXTENDS ProjTrans, WellFoundedInduction, TLAPS

-----------------------------------------------------------------------------
(* What a recursive definition computes is shown by the least counterexample:   *)
(* a set of natural numbers that is not empty has a least member.               *)

LEMMA LeastOf ==
  ASSUME NEW T, T \subseteq Nat, T # {}
  PROVE \E x \in T : \A y \in T : x <= y
<1> DEFINE R == {ss \in Nat \X Nat : ss[1] < ss[2]}
<1>1. IsWellFoundedOn(R, Nat)
  BY NatLessThanWellFounded DEF OpToRel
<1> HIDE DEF R
<1>2. PICK x \in T : \A y \in T : ~(<<y, x>> \in R)
  BY <1>1, WFMin
<1>3. \A y \in T : ~(y < x)
  BY <1>2 DEF R
<1> QED BY <1>3

LEMMA ElementOf ==
  ASSUME NEW S, NEW s \in Seq(S), NEW n \in 1..Len(s)
  PROVE  s[n] \in S
OBVIOUS

-----------------------------------------------------------------------------
(* FlattenSeq is the last of the partial concatenations.                   *)

IsFlattening(f, seqs) ==
  \A i \in 1..Len(seqs) : f[i] = IF i = 1 THEN seqs[i] ELSE f[i-1] \o seqs[i]

LEMMA FlattenSeqDef ==
  ASSUME NEW S, NEW seqs \in Seq(Seq(S)), Len(seqs) # 0
  PROVE  \E f : IsFlattening(f, seqs) /\ FlattenSeq(seqs) = f[Len(seqs)]
<1> DEFINE N == Len(seqs)
           Row(f, i) == IF i = 1 THEN seqs[i] ELSE f[i-1] \o seqs[i]
           flatten == CHOOSE f : f = [i \in 1..N |-> Row(f, i)]
<1>1. FlattenSeq(seqs) = flatten[N]
  BY DEF FlattenSeq
<1>2. N \in Nat \ {0}
  OBVIOUS
<1> HIDE DEF N
<1>3. \A n \in 1..N : \E f : f = [i \in 1..n |-> Row(f, i)]
  <2> DEFINE T == {n \in 1..N : ~ \E f : f = [i \in 1..n |-> Row(f, i)]}
  <2> SUFFICES ASSUME T # {} PROVE FALSE
    OBVIOUS
  <2>1. T \subseteq 1..N /\ T \subseteq Nat
    <3>1. T \subseteq 1..N
      <4> HIDE DEF Row
      <4> QED BY Zenon
    <3> HIDE DEF T
    <3> QED BY <3>1, <1>2
  <2> HIDE DEF T
  <2>2. PICK n \in T : \A m \in T : n <= m
    BY LeastOf, <2>1
  <2> USE DEF T
  <2>3. n # 1
    <3> SUFFICES ASSUME n = 1 PROVE FALSE
      OBVIOUS
    <3> DEFINE f == [i \in 1..1 |-> seqs[1]]
    <3>1. f = [i \in 1..1 |-> Row(f, i)]
      OBVIOUS
    <3> HIDE DEF f
    <3> QED BY <3>1, <2>2
  <2>4. n-1 \in 1..N /\ n-1 \notin T /\ n \in 1..N
    <3> HIDE DEF T
    <3>1. n \in 1..N
      BY <2>1
    <3>2. n-1 \in 1..N /\ ~(n <= n-1)
      BY <3>1, <2>3, <1>2
    <3> QED BY <3>1, <3>2, <2>2
  <2>5. PICK g : g = [i \in 1..(n-1) |-> Row(g, i)]
    BY <2>4
  <2> DEFINE f == [i \in 1..n |-> IF i = n THEN g[n-1] \o seqs[n] ELSE g[i]]
  <2> HIDE DEF T
  <2>6. \A i \in 1..n : f[i] = Row(f, i)
    <3> SUFFICES ASSUME NEW i \in 1..n PROVE f[i] = Row(f, i)
      OBVIOUS
    <3>1. CASE i = n
      <4>1. n-1 \in 1..n /\ n \in 1..n /\ n-1 # n
        BY <2>3, <2>4, <1>2
      <4>2. f[n] = g[n-1] \o seqs[n] /\ f[n-1] = g[n-1]
        BY <4>1
      <4> QED BY <4>2, <3>1, <2>3
    <3>2. CASE i # n
      <4>1. i \in 1..(n-1)
        BY <3>2, <2>4, <1>2
      <4>2. g[i] = Row(g, i)
        <5> HIDE DEF Row, f
        <5> QED BY <4>1, <2>5, Zenon
      <4>3. f[i] = g[i] /\ (i # 1 => f[i-1] = g[i-1])
        BY <3>2, <4>1, <2>4
      <4> QED BY <4>2, <4>3
    <3> QED BY <3>1, <3>2
  <2>7. f = [i \in 1..n |-> Row(f, i)]
    BY <2>6
  <2> HIDE DEF f
  <2> QED BY <2>2, <2>7 DEF T
<1>4. PICK f : f = [i \in 1..N |-> Row(f, i)]
  <2> HIDE DEF Row
  <2>1. N \in 1..N
    BY <1>2
  <2> QED BY <2>1, <1>3
<1>5. flatten = [i \in 1..N |-> Row(flatten, i)]
  <2> HIDE DEF Row
  <2> QED BY <1>4, Zenon
<1> HIDE DEF flatten
<1>6. \A i \in 1..N : flatten[i] = Row(flatten, i)
  <2> HIDE DEF Row
  <2> QED BY <1>5, Zenon
<1> QED BY <1>1, <1>6 DEF IsFlattening, N

LEMMA FlattenSeqIsSeq ==
  ASSUME NEW S, NEW seqs \in Seq(Seq(S))
  PROVE  /\ FlattenSeq(seqs) \in Seq(S)
         /\ \A e : e \in Range(FlattenSeq(seqs)) <=>
                     \E i \in 1..Len(seqs) : e \in Range(seqs[i])
<1>1. CASE Len(seqs) = 0
  <2>1. seqs = <<>>
    BY <1>1
  <2>2. FlattenSeq(seqs) = <<>>
    BY <1>1, <2>1 DEF FlattenSeq
  <2> QED BY <1>1, <2>2 DEF Range
<1>2. CASE Len(seqs) # 0
  <2> DEFINE N == Len(seqs)
             Has(s, n) == \A e : e \in Range(s) <=> \E i \in 1..n : e \in Range(seqs[i])
  <2>1. PICK f : IsFlattening(f, seqs) /\ FlattenSeq(seqs) = f[N]
    BY <1>2, FlattenSeqDef
  <2>2. /\ N \in Nat \ {0} /\ \A i \in 1..N : seqs[i] \in Seq(S)
        /\ \A i \in 1..N : f[i] = IF i = 1 THEN seqs[i] ELSE f[i-1] \o seqs[i]
    BY <1>2, <2>1 DEF IsFlattening
  <2> HIDE DEF N
  <2>3. \A n \in 1..N : f[n] \in Seq(S) /\ Has(f[n], n)
    <3> DEFINE T == {n \in 1..N : ~(f[n] \in Seq(S) /\ Has(f[n], n))}
    <3> HIDE DEF Has
    <3> SUFFICES ASSUME T # {} PROVE FALSE
      OBVIOUS
    <3>1. T \subseteq 1..N /\ T \subseteq Nat
      BY <2>2
    <3> HIDE DEF T
    <3>2. PICK n \in T : \A m \in T : n <= m
      BY LeastOf, <3>1
    <3>3. n \in 1..N /\ n \in Nat
      BY <3>1
    <3>4. CASE n = 1
      <4>1. f[1] = seqs[1] /\ seqs[1] \in Seq(S)
        BY <2>2, <3>3, <3>4
      <4>2. Has(f[1], 1)
        BY <4>1 DEF Has
      <4> QED BY <3>2, <3>4, <4>1, <4>2 DEF T
    <3>5. CASE n # 1
      <4>1. n-1 \in 1..N /\ ~(n <= n-1)
        BY <2>2, <3>3, <3>5
      <4>2. f[n-1] \in Seq(S) /\ Has(f[n-1], n-1)
        BY <3>2, <4>1 DEF T
      <4>3. f[n] = f[n-1] \o seqs[n] /\ seqs[n] \in Seq(S)
        BY <2>2, <3>3, <3>5
      <4>4. f[n] \in Seq(S)
        BY <4>2, <4>3
      <4>5. \A e : e \in Range(f[n]) <=> e \in Range(f[n-1]) \/ e \in Range(seqs[n])
        <5> DEFINE a == f[n-1]
                   b == seqs[n]
        <5>1. a \in Seq(S) /\ b \in Seq(S) /\ f[n] = a \o b
          BY <4>2, <4>3
        <5> HIDE DEF a, b
        <5>2. Range(a \o b) = Range(a) \cup Range(b)
          <6>1. Len(a) \in Nat /\ Len(b) \in Nat /\ Len(a \o b) = Len(a) + Len(b)
            BY <5>1
          <6>2. /\ \A i \in 1..Len(a) : (a \o b)[i] = a[i]
                /\ \A i \in 1..Len(b) : (a \o b)[Len(a) + i] = b[i]
            BY <5>1, <6>1
          <6>3. \A i \in 1..Len(a \o b) :
                  i \in 1..Len(a) \/ \E j \in 1..Len(b) : i = Len(a) + j
            <7> TAKE i \in 1..Len(a \o b)
            <7>1. CASE i <= Len(a)
              BY <6>1, <7>1
            <7>2. CASE i > Len(a)
              <8>1. i - Len(a) \in 1..Len(b) /\ i = Len(a) + (i - Len(a))
                BY <6>1, <7>2
              <8> QED BY <8>1
            <7> QED BY <6>1, <7>1, <7>2
          <6>4. /\ \A i \in 1..Len(a) : i \in 1..Len(a \o b)
                /\ \A j \in 1..Len(b) : Len(a) + j \in 1..Len(a \o b)
            BY <6>1
          <6>5. Range(a) = {a[i] : i \in 1..Len(a)} /\ Range(b) = {b[i] : i \in 1..Len(b)}
                /\ Range(a \o b) = {(a \o b)[i] : i \in 1..Len(a \o b)}
            <7>1. DOMAIN a = 1..Len(a) /\ DOMAIN b = 1..Len(b)
              BY <5>1
            <7>2. DOMAIN (a \o b) = 1..Len(a \o b)
              BY <5>1
            <7> QED BY <7>1, <7>2, Zenon DEF Range
          <6> QED BY <6>2, <6>3, <6>4, <6>5
        <5> QED BY <5>1, <5>2 DEF a, b
      <4>6. \A i : i \in 1..n <=> i \in 1..(n-1) \/ i = n
        BY <3>3, <4>1
      <4>7. Has(f[n], n)
        BY <4>2, <4>5, <4>6, Zenon DEF Has
      <4> QED BY <3>2, <4>4, <4>7 DEF T
    <3> QED BY <3>4, <3>5
  <2>4. N \in 1..N
    BY <2>2
  <2>5. f[N] \in Seq(S) /\ Has(f[N], N)
    BY <2>3, <2>4
  <2> QED BY <2>1, <2>5 DEF N
<1> QED BY <1>1, <1>2

-----------------------------------------------------------------------------
(* The types.                                                              *)

Entry == [op : Operation, box : Area]

Stages == {"new", "failed", "idle", "begin", "scan", "fallback", "returned",
           "arrayReturned"}
Call == [pc : Stages, array : BOOLEAN, todo : Seq(Points), tried : Seq(Nat),
         skip : BOOLEAN, i : Nat, best : Nat, accuracy : Int, net : BOOLEAN]
Flags == [error : BOOLEAN, warn : BOOLEAN, skip : BOOLEAN]
Answer == [by : Nat, fallback : BOOLEAN, error : Errors]
Batch == [ret : Errors, isSet : BOOLEAN, same : BOOLEAN, failed : BOOLEAN]

Types ==
  /\ network \in BOOLEAN
  /\ server \in BOOLEAN
  /\ ops \in Seq(Entry)
  /\ flags \in Flags
  /\ cur \in Nat
  /\ errno \in Errors
  /\ call \in Call
  /\ answer \in Answer
  /\ batch \in Batch

Busy == call.pc \in {"begin", "scan", "fallback", "returned"}

\* a candidate that the search leaves out of account
Excluded(n) == n \in Tried \/ (call.skip /\ ~Usable(ops[n]))
\* a candidate that is better than accuracy a
Better(n, a) ==
  /\ Covers(ops[n], Point) /\ ~ops[n].op.offshore
  /\ 0 <= ops[n].op.accuracy /\ ops[n].op.accuracy < a

\* The loop of pj_get_suggested_operation: what it has seen so far.
BestSoFar ==
  /\ call.best \in 1..NOps
  /\ call.best \notin Tried
  /\ call.accuracy = ops[call.best].op.accuracy
  /\ \A n \in 1..NOps :
       n < call.i /\ Better(n, call.accuracy) => Excluded(n)
NoneSoFar ==
  \A n \in 1..NOps : n < call.i /\ Covers(ops[n], Point) => Excluded(n)
Scan ==
  call.pc = "scan" =>
    call.i # 0 /\ IF call.best = 0 THEN NoneSoFar ELSE BestSoFar

\* the fallback is reached when the attempts are exhausted, or the candidates
Exhausted ==
  call.pc = "fallback" =>
    \/ Len(call.tried) = MaxAttempts
    \/ \A n \in 1..NOps : Covers(ops[n], Point) => Excluded(n)

\* ONLY_BEST=YES: one attempt, with every candidate in the running
OneAttempt ==
  /\ call.pc = "begin" => call.tried = <<>>
  /\ call.pc \in {"scan", "fallback"} /\ flags.error =>
       call.tried = <<>> /\ ~call.skip

\* an error number that stands for a network error is this point's
OwnNetworkError ==
  call.array /\ errno = "network" =>
    /\ call.pc # "begin"
    /\ call.pc \in {"scan", "fallback", "returned"} => call.net

\* a call has a point to transform
PointsLeft == Busy => call.todo # <<>>

\* what a call has come to
Outcomes ==
  Returned => /\ errno = answer.error
              /\ (answer.by = 0 => errno # "none")

\* the failures gathered by proj_trans_array
Gathered ==
  /\ batch.failed => batch.isSet
  /\ batch.isSet => batch.ret # "none"
  /\ call.pc = "arrayReturned" => errno = batch.ret

IInv ==
  /\ Types
  /\ Scan
  /\ Exhausted
  /\ OneAttempt
  /\ OwnNetworkError
  /\ PointsLeft
  /\ Outcomes
  /\ Gathered
  /\ LastUsedIsProducer
  /\ MoreAccurateOnesFailed
  /\ BestOrNothing
  /\ NoOperationIsTrue

-----------------------------------------------------------------------------
(* The lists of candidates are lists of entries.                           *)

LEMMA ListsAreOperations ==
  ASSUME NEW choice \in Searches, NEW opt
  PROVE  /\ Candidates(choice, opt) \in Seq(Operation)
         /\ choice.discarding \in Seq(Operation)
<1>1. choice \in [kept : Seq(Operation), discarding : Seq(Operation)]
  BY SearchesAreLists
<1>2. choice.kept \in Seq(Operation) /\ choice.discarding \in Seq(Operation)
  BY <1>1
<1> QED BY <1>2 DEF Candidates

LEMMA PreparedIsEntries ==
  ASSUME NEW list \in Seq(Operation)
  PROVE  Prepared(list) \in Seq(Entry)
<1> DEFINE Boxes(n) == [b \in 1..Len(list[n].boxes) |->
                          [op |-> list[n], box |-> list[n].boxes[b]]]
<1>1. ASSUME NEW n \in 1..Len(list) PROVE Boxes(n) \in Seq(Entry)
  <2>1. list[n] \in Operation
    OBVIOUS
  <2>2. list[n].boxes \in Seq(Area)
    BY <2>1 DEF Operation
  <2>3. Len(list[n].boxes) \in Nat
    BY <2>2
  <2>4. \A b \in 1..Len(list[n].boxes) :
           [op |-> list[n], box |-> list[n].boxes[b]] \in Entry
    BY <2>1, <2>2 DEF Entry
  <2> QED BY <2>3, <2>4
<1> HIDE DEF Boxes
<1>2. [n \in 1..Len(list) |-> Boxes(n)] \in Seq(Seq(Entry))
  BY <1>1
<1>3. FlattenSeq([n \in 1..Len(list) |-> Boxes(n)]) \in Seq(Entry)
  BY <1>2, FlattenSeqIsSeq
<1> QED BY <1>3 DEF Prepared, Boxes

LEMMA WithoutBallparkIsEntries ==
  ASSUME NEW list \in Seq(Entry)
  PROVE  WithoutBallpark(list) \in Seq(Entry)
<1> DEFINE Kept(n) == IF list[n].op.ballpark THEN <<>> ELSE <<list[n]>>
<1>1. ASSUME NEW n \in 1..Len(list) PROVE Kept(n) \in Seq(Entry)
  OBVIOUS
<1> HIDE DEF Kept
<1>2. [n \in 1..Len(list) |-> Kept(n)] \in Seq(Seq(Entry))
  BY <1>1
<1>3. FlattenSeq([n \in 1..Len(list) |-> Kept(n)]) \in Seq(Entry)
  BY <1>2, FlattenSeqIsSeq
<1> QED BY <1>3 DEF WithoutBallpark, Kept

LEMMA CompletedIsEntries ==
  ASSUME NEW choice \in Searches, NEW opt
  PROVE  Completed(choice, opt) \in Seq(Entry)
<1> DEFINE first == Prepared(Candidates(choice, opt))
           second == Prepared(choice.discarding)
<1>1. first \in Seq(Entry) /\ second \in Seq(Entry)
  BY ListsAreOperations, PreparedIsEntries
<1> HIDE DEF first, second
<1>2. WithoutBallpark(first) \in Seq(Entry)
  BY <1>1, WithoutBallparkIsEntries
<1>3. WithoutBallpark(first) \o second \in Seq(Entry)
  BY <1>1, <1>2
<1> QED BY <1>1, <1>3 DEF Completed, first, second

LEMMA AloneIsEntries ==
  ASSUME NEW op \in Operation
  PROVE  Alone(op) \in Seq(Entry)
BY DEF Alone, Entry, Area

-----------------------------------------------------------------------------
LEMMA NoCallFits ==
  ASSUME NEW pc \in Stages
  PROVE  [NoCall EXCEPT !.pc = pc] \in Call
<1>1. <<>> \in Seq(Points) /\ <<>> \in Seq(Nat)
  OBVIOUS
<1>2. 0 \in Nat /\ 0 \in Int /\ FALSE \in BOOLEAN /\ "idle" \in Stages
  BY DEF Stages
<1>3. NoCall \in Call
  BY <1>1, <1>2, Zenon DEF NoCall, Call
<1> QED BY <1>3 DEF Call

LEMMA InitIInv == Init => IInv
<1> SUFFICES ASSUME Init PROVE IInv
  OBVIOUS
<1>1. Types
  <2>1. call \in Call
    BY NoCallFits DEF Init, Stages
  <2>2. ops \in Seq(Entry)
    BY DEF Init
  <2>3. /\ flags \in Flags /\ answer \in Answer /\ batch \in Batch
        /\ errno \in Errors /\ cur \in Nat
    BY DEF Init, Flags, Answer, Batch, NoAnswer, NoBatch, Errors
  <2> QED BY <2>1, <2>2, <2>3 DEF Init, Types
<1>2. call.pc = "new" /\ batch = NoBatch
  BY DEF Init, NoCall
<1> QED
  BY <1>1, <1>2 DEF IInv, Scan, Exhausted, OneAttempt, OwnNetworkError, PointsLeft, Busy,
     Outcomes, Returned, Answered, Gathered, NoBatch, LastUsedIsProducer,
     MoreAccurateOnesFailed, BestOrNothing, NoOperationIsTrue

\* between two calls the invariant says nothing of the search
LEMMA AtRest ==
  ASSUME Types', Gathered',
         call.pc' \notin {"begin", "scan", "fallback", "returned"}
  PROVE  IInv'
BY DEF IInv, Scan, Exhausted, OneAttempt, OwnNetworkError, PointsLeft, Busy, Outcomes,
   Returned, Answered, LastUsedIsProducer, MoreAccurateOnesFailed,
   BestOrNothing, NoOperationIsTrue

LEMMA EnterFits ==
  ASSUME NEW pc \in Stages, Enter(pc)
  PROVE  call' \in Call /\ call'.pc = pc /\ call'.tried = <<>>
BY NoCallFits DEF Enter, NoCall

LEMMA CreateKeeps == IInv /\ Create => IInv'
<1> SUFFICES ASSUME IInv, Create PROVE IInv'
  OBVIOUS
<1>1. PICK choice \in Searches, error \in BOOLEAN, warn \in BOOLEAN, net \in BOOLEAN :
        LET opt == [error |-> error, warn |-> warn, network |-> net]
        IN /\ network' = net
           /\ \/ CreateFails(choice, opt)
              \/ CreateSingle(choice, opt)
              \/ CreateSet(choice, opt)
  BY DEF Create
<1> DEFINE opt == [error |-> error, warn |-> warn, network |-> net]
           list == Candidates(choice, opt)
           f == OptionFlags(opt)
<1>2. f \in Flags /\ AfterWarning(f) \in Flags /\ [f EXCEPT !.skip = TRUE] \in Flags
  BY DEF OptionFlags, Flags, AfterWarning, Warns
<1>3. list \in Seq(Operation) /\ Completed(choice, opt) \in Seq(Entry)
  BY ListsAreOperations, CompletedIsEntries
<1>4. network' \in BOOLEAN /\ (CreateFails(choice, opt) \/ CreateSingle(choice, opt)
                               \/ CreateSet(choice, opt))
  BY <1>1
<1> HIDE DEF opt
<1>5. ops' \in Seq(Entry) /\ flags' \in Flags /\ (Enter("idle") \/ Enter("failed"))
  <2>1. CASE CreateFails(choice, opt)
    BY <2>1 DEF CreateFails, IInv, Types
  <2>2. CASE CreateSingle(choice, opt)
    <3>1. ops' = Alone(list[1]) /\ flags' \in Flags /\ Enter("idle") /\ Len(list) = 1
      BY <1>2, <2>2 DEF CreateSingle, ReturnsFirst
    <3> HIDE DEF list
    <3>2. list[1] \in Operation
      <4>1. 1 \in 1..Len(list)
        BY <3>1
      <4> QED BY <4>1, <1>3, ElementOf
    <3> QED BY <3>1, <3>2, AloneIsEntries
  <2>3. CASE CreateSet(choice, opt)
    <3> DEFINE all == Completed(choice, opt)
    <3>1. /\ ops' = IF Len(all) = 1 THEN Alone(all[1].op) ELSE all
          /\ flags' \in Flags
          /\ Enter("idle")
      BY <1>2, <2>3 DEF CreateSet
    <3>2. all \in Seq(Entry)
      BY <1>3
    <3> HIDE DEF all
    <3>3. Len(all) = 1 => all[1] \in Entry
      BY <3>2, ElementOf
    <3>4. Len(all) = 1 => all[1].op \in Operation
      BY <3>3 DEF Entry
    <3> QED BY <3>1, <3>2, <3>4, AloneIsEntries
  <2> QED BY <1>4, <2>1, <2>2, <2>3
<1>6. call' \in Call /\ call'.pc \in {"idle", "failed"}
  BY <1>5, EnterFits DEF Stages
<1>7. UNCHANGED <<server, cur, errno, answer, batch>>
  BY DEF Create
<1>8. Types'
  BY <1>4, <1>5, <1>6, <1>7 DEF IInv, Types
<1>9. Gathered'
  BY <1>6, <1>7 DEF IInv, Gathered, PointsLeft, Busy
<1> QED BY <1>6, <1>8, <1>9, AtRest

-----------------------------------------------------------------------------
(* Operations and the attempts.                                            *)

LEMMA OutcomeIs ==
  ASSUME NEW op, NEW p
  PROVE  /\ Outcome(op, p) \in {"no_inverse_op", "network", "none", "outside"}
         /\ op.grids = "none" => Outcome(op, p) \in {"none", "outside"}
BY DEF Outcome, IsInstantiable

LEMMA OpsAre ==
  ASSUME Types
  PROVE  /\ NOps \in Nat
         /\ \A n \in 1..NOps : ops[n].op.accuracy \in Int
<1>1. ops \in Seq(Entry)
  BY DEF Types
<1>2. Len(ops) \in Nat /\ \A n \in 1..Len(ops) : ops[n] \in Entry
  BY <1>1
<1>3. \A e \in Entry : e.op.accuracy \in Int
  BY DEF Entry, Operation
<1> QED BY <1>2, <1>3 DEF NOps

LEMMA TriedIs ==
  ASSUME Types
  PROVE  /\ call.tried' = call.tried => Tried' = Tried
         /\ call.tried' = Append(call.tried, call.best) =>
              Tried' = Tried \cup {call.best}
<1>1. call.tried \in Seq(Nat) /\ call.best \in Nat
  BY DEF Types, Call
<1>2. ASSUME call.tried' = Append(call.tried, call.best)
      PROVE  Tried' = Tried \cup {call.best}
  <2> DEFINE s == call.tried
             t == Append(s, call.best)
  <2>1. /\ Len(s) \in Nat /\ Len(t) = Len(s) + 1
        /\ \A n \in 1..Len(s) : t[n] = s[n]
        /\ t[Len(s) + 1] = call.best
    BY <1>1
  <2>2. Tried = {s[n] : n \in 1..Len(s)} /\ Tried' = {t[n] : n \in 1..Len(t)}
    BY <1>2 DEF Tried
  <2> HIDE DEF s, t
  <2>3. 1..Len(t) = 1..Len(s) \cup {Len(s) + 1}
    BY <2>1
  <2> QED BY <2>1, <2>2, <2>3
<1> QED BY <1>2 DEF Tried

\* the search of the call under way, unless it has returned
LEMMA Searching ==
  ASSUME Types', Scan', Exhausted', OneAttempt', OwnNetworkError', PointsLeft', Gathered',
         call.pc' # "returned"
  PROVE  IInv'
BY DEF IInv, Outcomes, Returned, Answered, LastUsedIsProducer,
   MoreAccurateOnesFailed, BestOrNothing, NoOperationIsTrue

LEMMA ConsiderKeeps == IInv /\ Consider => IInv'
<1> SUFFICES ASSUME IInv, Consider PROVE IInv'
  OBVIOUS
<1>1. Types /\ Scan /\ call.pc = "scan" /\ call.i <= NOps
  BY DEF IInv, Consider
<1>2. /\ call \in Call /\ NOps \in Nat
      /\ \A n \in 1..NOps : ops[n].op.accuracy \in Int
  BY <1>1, OpsAre DEF Types
<1>3. call.i \in 1..NOps
  BY <1>1, <1>2 DEF Scan, Call
<1>4. /\ call'.pc = "scan" /\ call'.i = call.i + 1
      /\ call'.tried = call.tried /\ call'.todo = call.todo
      /\ call'.skip = call.skip /\ call'.net = call.net /\ call'.array = call.array
      /\ Suits(call.i) => call'.best = call.i /\ call'.accuracy = ops[call.i].op.accuracy
      /\ ~Suits(call.i) => call'.best = call.best /\ call'.accuracy = call.accuracy
  BY <1>2 DEF Consider, Call
<1>5. call' \in Call
  <2> DEFINE a == ops[call.i].op.accuracy
  <2>1. a \in Int /\ call.i \in Nat /\ call.i + 1 \in Nat
    BY <1>2, <1>3
  <2>2. call' = IF Suits(call.i)
                  THEN [call EXCEPT !.i = @ + 1, !.best = call.i, !.accuracy = a]
                  ELSE [call EXCEPT !.i = @ + 1]
    BY DEF Consider
  <2> HIDE DEF a
  <2>3. CASE Suits(call.i)
    BY <1>2, <2>1, <2>2, <2>3 DEF Call
  <2>4. CASE ~Suits(call.i)
    BY <1>2, <2>1, <2>2, <2>4 DEF Call
  <2> QED BY <2>3, <2>4
<1>6. UNCHANGED <<network, server, ops, flags, cur, errno, answer, batch>>
  BY DEF Consider
<1>7. Types'
  BY <1>1, <1>5, <1>6 DEF Types
<1>8. Tried' = Tried /\ Point' = Point /\ NOps' = NOps
  BY <1>1, <1>4, <1>6, TriedIs DEF Point, NOps
<1>9. /\ \A n : Excluded(n)' <=> Excluded(n)
      /\ \A n : Covers(ops[n], Point)' <=> Covers(ops[n], Point)
  BY <1>4, <1>6, <1>8 DEF Excluded, Covers, Usable, IsInstantiable
<1>10. Scan'
  <2> DEFINE k == call.i
             acc(n) == ops[n].op.accuracy
  <2>1. CASE Suits(k)
    <3>1. k \notin Tried /\ Covers(ops[k], Point) /\ Wins(ops[k])
      BY <2>1 DEF Suits
    <3>2. ASSUME NEW n \in 1..NOps, n < k + 1, Covers(ops[n], Point), ~ops[n].op.offshore,
                 0 <= acc(n), acc(n) < acc(k)
          PROVE  Excluded(n)
      <4>1. n < k
        BY <1>2, <1>3, <3>2
      <4>2. CASE call.best = 0
        BY <1>1, <3>2, <4>1, <4>2 DEF Scan, NoneSoFar
      <4>3. CASE call.best # 0
        <5>1. BestSoFar
          BY <1>1, <4>3 DEF Scan
        <5>2. acc(k) <= call.accuracy
          BY <1>2, <1>3, <3>1, <4>3, <5>1 DEF Wins, MoreAccurate, SmallerArea, BestSoFar
        <5>3. acc(n) < call.accuracy
          BY <1>2, <1>3, <3>2, <5>1, <5>2 DEF BestSoFar
        <5> QED BY <3>2, <4>1, <5>1, <5>3 DEF BestSoFar, Better
      <4> QED BY <4>2, <4>3
    <3>3. call'.best = k /\ call'.accuracy = acc(k) /\ call'.i = k + 1 /\ k # 0
      BY <1>2, <1>3, <1>4, <2>1
    <3>4. BestSoFar'
      BY <1>3, <1>6, <1>8, <1>9, <3>1, <3>2, <3>3 DEF BestSoFar, Better
    <3> QED BY <1>3, <3>3, <3>4 DEF Scan
  <2>2. CASE ~Suits(k)
    <3>1. call'.best = call.best /\ call'.accuracy = call.accuracy /\ call'.i = k + 1
      BY <1>4, <2>2
    <3>2. CASE call.best = 0
      <4>1. Covers(ops[k], Point) => Excluded(k)
        BY <2>2, <3>2 DEF Suits, Wins, Excluded
      <4>2. ASSUME NEW n \in 1..NOps, n < k + 1, Covers(ops[n], Point) PROVE Excluded(n)
        <5>1. n = k \/ n < k
          BY <1>2, <1>3, <4>2
        <5> QED BY <1>1, <3>2, <4>1, <4>2, <5>1 DEF Scan, NoneSoFar
      <4>3. NoneSoFar'
        BY <1>8, <1>9, <3>1, <4>2 DEF NoneSoFar
      <4> QED BY <1>2, <1>3, <3>1, <3>2, <4>3 DEF Scan
    <3>3. CASE call.best # 0
      <4>1. BestSoFar
        BY <1>1, <3>3 DEF Scan
      <4>2. Better(k, call.accuracy) => Excluded(k)
        BY <2>2, <3>3 DEF Suits, Wins, MoreAccurate, Better, Excluded
      <4>3. ASSUME NEW n \in 1..NOps, n < k + 1, Better(n, call.accuracy) PROVE Excluded(n)
        <5>1. n = k \/ n < k
          BY <1>2, <1>3, <4>3
        <5> QED BY <4>1, <4>2, <4>3, <5>1 DEF BestSoFar
      <4>4. BestSoFar'
        BY <1>6, <1>8, <1>9, <3>1, <4>1, <4>3 DEF BestSoFar, Better
      <4> QED BY <1>2, <1>3, <3>1, <3>3, <4>4 DEF Scan
    <3> QED BY <3>2, <3>3
  <2> QED BY <2>1, <2>2
<1>11. Exhausted' /\ OneAttempt' /\ OwnNetworkError' /\ PointsLeft' /\ Gathered' /\ call'.pc # "returned"
  BY <1>1, <1>4, <1>6 DEF IInv, Exhausted, OneAttempt, OwnNetworkError, PointsLeft, PointsLeft, Busy, Gathered
<1> QED BY <1>7, <1>10, <1>11, Searching

LEMMA OutOfCandidatesKeeps == IInv /\ OutOfCandidates => IInv'
<1> SUFFICES ASSUME IInv, OutOfCandidates PROVE IInv'
  OBVIOUS
<1>1. /\ Types /\ Scan /\ call.pc = "scan" /\ call.i > NOps /\ call.best = 0
      /\ UNCHANGED <<network, server, ops, flags, cur, errno, answer, batch>>
  BY DEF IInv, OutOfCandidates
<1>2. call \in Call /\ NOps \in Nat
  BY <1>1, OpsAre DEF Types
<1>3. /\ call' \in Call /\ call'.pc = "fallback"
      /\ call'.tried = call.tried /\ call'.todo = call.todo
      /\ call'.skip = call.skip /\ call'.net = call.net /\ call'.array = call.array
  BY <1>2 DEF OutOfCandidates, Call, Stages
<1>4. Types'
  BY <1>1, <1>3 DEF Types
<1>5. Tried' = Tried /\ Point' = Point /\ NOps' = NOps
  BY <1>1, <1>3, TriedIs DEF Point, NOps
<1>6. \A n \in 1..NOps : Covers(ops[n], Point) => Excluded(n)
  <2>1. \A n \in 1..NOps : n < call.i
    BY <1>1, <1>2 DEF Call
  <2> QED BY <1>1, <2>1 DEF Scan, NoneSoFar
<1>7. \A n \in 1..NOps : Covers(ops[n], Point)' => Excluded(n)'
  BY <1>1, <1>3, <1>5, <1>6 DEF Excluded, Covers, Usable, IsInstantiable
<1>8. Exhausted'
  BY <1>5, <1>7 DEF Exhausted
<1>9. Scan' /\ OneAttempt' /\ OwnNetworkError' /\ PointsLeft' /\ Gathered' /\ call'.pc # "returned"
  BY <1>1, <1>3 DEF IInv, Scan, OneAttempt, OwnNetworkError, PointsLeft, PointsLeft, Busy, Gathered
<1> QED BY <1>4, <1>8, <1>9, Searching

LEMMA AfterIs ==
  ASSUME Types, NEW pc \in Stages
  PROVE  /\ After(pc) \in Call /\ After(pc).pc = pc
         /\ After(pc).tried = Append(call.tried, call.best)
         /\ After(pc).todo = call.todo /\ After(pc).array = call.array
         /\ After(pc).skip = call.skip
         /\ After(pc).net = (call.net \/ Out = "network")
<1>1. call \in Call /\ Append(call.tried, call.best) \in Seq(Nat)
  BY DEF Types, Call
<1>2. (call.net \/ Out = "network") \in BOOLEAN
  OBVIOUS
<1> QED BY <1>1, <1>2 DEF After, Call

LEMMA OutIs ==
  ASSUME Types
  PROVE  /\ Out \in {"no_inverse_op", "network", "none", "outside"}
         /\ Err \in Errors
         /\ Out # "none" => Err = Out
         /\ Out = "none" /\ call.tried # <<>> => Err = "none"
         /\ Out = "none" /\ call.tried = <<>> => Err = errno
<1>1. Out \in {"no_inverse_op", "network", "none", "outside"}
  BY OutcomeIs DEF Out
<1> QED BY <1>1 DEF Err, ErrnoAfter, Types, Errors

\* the candidate that an attempt runs
LEMMA AttemptIs ==
  ASSUME Types, Scan, call.pc = "scan", Attempts
  PROVE  /\ call.best \in 1..NOps /\ call.best # 0 /\ call.best \in Nat
         /\ call.best \notin Tried
         /\ \A n \in 1..NOps : Better(n, ops[call.best].op.accuracy) => Excluded(n)
<1>1. BestSoFar /\ call.i > NOps /\ call.best # 0
  BY DEF Attempts, Scan
<1>2. NOps \in Nat /\ call.i \in Nat
  BY OpsAre DEF Types, Call
<1> QED BY <1>1, <1>2 DEF BestSoFar

\* a call that returns
LEMMA Returning ==
  ASSUME Types', OwnNetworkError', PointsLeft', Outcomes', Gathered', call.pc' = "returned",
         LastUsedIsProducer', MoreAccurateOnesFailed', BestOrNothing',
         NoOperationIsTrue'
  PROVE  IInv'
BY DEF IInv, Scan, Exhausted, OneAttempt

LEMMA ReturnsIs ==
  ASSUME NEW by \in Nat, NEW fallback \in BOOLEAN, NEW error \in Errors,
         Returns(by, fallback, error)
  PROVE  /\ answer' \in Answer /\ errno' \in Errors /\ errno' = error
         /\ answer'.by = by /\ answer'.fallback = fallback /\ answer'.error = error
BY DEF Returns, Answer

LEMMA AttemptNetworkErrorKeeps == IInv /\ AttemptNetworkError => IInv'
<1> SUFFICES ASSUME IInv, AttemptNetworkError PROVE IInv'
  OBVIOUS
<1>1. /\ Types /\ Scan /\ call.pc = "scan" /\ cur' = call.best
      /\ Attempts /\ Err = "network" /\ Returns(0, FALSE, Err)
      /\ call' = After("returned")
      /\ UNCHANGED <<network, server, ops, flags, batch>>
  BY DEF IInv, AttemptNetworkError, Attempts
<1>2. /\ call' \in Call /\ call'.pc = "returned" /\ call'.array = call.array
      /\ call'.todo = call.todo
      /\ call'.net = (call.net \/ Out = "network")
  BY <1>1, AfterIs DEF Stages
<1>3. /\ answer' \in Answer /\ errno' \in Errors /\ errno' = "network"
      /\ answer'.by = 0 /\ answer'.error = "network"
  BY <1>1, ReturnsIs DEF Errors
<1>4. Types'
  BY <1>1, <1>2, <1>3, AttemptIs DEF Types
<1>5. OwnNetworkError'
  <2>1. CASE Out = "network"
    BY <1>2, <2>1 DEF OwnNetworkError
  <2>2. CASE Out # "network"
    <3>1. errno = "network"
      BY <1>1, <2>2, OutIs
    <3>2. call.array => call.net
      BY <1>1, <3>1 DEF IInv, OwnNetworkError, Busy
    <3> QED BY <1>2, <3>2 DEF OwnNetworkError
  <2> QED BY <2>1, <2>2
<1>6. Outcomes' /\ LastUsedIsProducer' /\ MoreAccurateOnesFailed' /\ BestOrNothing'
      /\ NoOperationIsTrue'
  BY <1>3 DEF Outcomes, LastUsedIsProducer, MoreAccurateOnesFailed, BestOrNothing,
     NoOperationIsTrue, Answered
<1>7. PointsLeft' /\ Gathered'
  BY <1>1, <1>2 DEF IInv, Gathered, PointsLeft, Busy
<1> QED BY <1>2, <1>4, <1>5, <1>6, <1>7, Returning

LEMMA AttemptFailsForGoodKeeps == IInv /\ AttemptFailsForGood => IInv'
<1> SUFFICES ASSUME IInv, AttemptFailsForGood PROVE IInv'
  OBVIOUS
<1>1. /\ Types /\ Scan /\ call.pc = "scan" /\ cur' = call.best
      /\ Attempts /\ flags.error /\ Returns(0, FALSE, "no_operation")
      /\ call' = After("returned")
      /\ UNCHANGED <<network, server, ops, flags, batch>>
  BY DEF IInv, AttemptFailsForGood, Attempts, OnlyBest
<1>2. call' \in Call /\ call'.pc = "returned" /\ call'.todo = call.todo
  BY <1>1, AfterIs DEF Stages
<1>3. /\ answer' \in Answer /\ errno' \in Errors /\ errno' = "no_operation"
      /\ answer'.by = 0 /\ answer'.error = "no_operation"
  BY <1>1, ReturnsIs DEF Errors
<1>4. Types'
  BY <1>1, <1>2, <1>3, AttemptIs DEF Types
<1>5. OwnNetworkError' /\ Outcomes' /\ LastUsedIsProducer' /\ MoreAccurateOnesFailed'
      /\ BestOrNothing' /\ NoOperationIsTrue'
  BY <1>1, <1>3 DEF Outcomes, LastUsedIsProducer, MoreAccurateOnesFailed, BestOrNothing,
     NoOperationIsTrue, Answered, OwnNetworkError
<1>6. PointsLeft' /\ Gathered'
  BY <1>1, <1>2 DEF IInv, Gathered, PointsLeft, Busy
<1> QED BY <1>2, <1>4, <1>5, <1>6, Returning

LEMMA AttemptAnswersKeeps == IInv /\ AttemptAnswers => IInv'
<1> SUFFICES ASSUME IInv, AttemptAnswers PROVE IInv'
  OBVIOUS
<1> DEFINE b == call.best
<1>1. /\ Types /\ Scan /\ call.pc = "scan" /\ cur' = b
      /\ Attempts /\ Err # "network" /\ Out = "none" /\ Returns(b, FALSE, Err)
      /\ call' = After("returned")
      /\ UNCHANGED <<network, server, ops, flags, batch>>
  BY DEF IInv, AttemptAnswers, Attempts
<1>2. /\ call' \in Call /\ call'.pc = "returned" /\ call'.skip = call.skip
      /\ call'.tried = Append(call.tried, b) /\ call'.todo = call.todo
  BY <1>1, AfterIs DEF Stages
<1>3. /\ b \in 1..NOps /\ b # 0 /\ b \in Nat /\ b \notin Tried
      /\ \A n \in 1..NOps : Better(n, ops[b].op.accuracy) => Excluded(n)
  BY <1>1, AttemptIs
<1>4. /\ answer' \in Answer /\ errno' \in Errors /\ errno' = Err
      /\ answer'.by = b /\ answer'.error = Err
  BY <1>1, <1>3, ReturnsIs, OutIs
<1>5. Types'
  BY <1>1, <1>2, <1>3, <1>4 DEF Types
<1>6. Tried' = Tried \cup {b} /\ Point' = Point /\ NOps' = NOps
  BY <1>1, <1>2, TriedIs DEF Point, NOps
<1>7. OwnNetworkError' /\ Outcomes' /\ LastUsedIsProducer' /\ NoOperationIsTrue'
  BY <1>1, <1>3, <1>4 DEF OwnNetworkError, Outcomes, LastUsedIsProducer, NoOperationIsTrue
<1>8. ASSUME NEW n \in 1..NOps,
             (/\ Covers(ops[n], Point) /\ ~ops[n].op.offshore
              /\ 0 <= ops[n].op.accuracy
              /\ ops[n].op.accuracy < ops[b].op.accuracy)
      PROVE  Excluded(n) /\ n # b
  <2>1. Excluded(n)
    BY <1>3, <1>8 DEF Better
  <2>2. n # b
    BY <1>1, <1>3, <1>8, OpsAre
  <2> QED BY <2>1, <2>2
<1>9. MoreAccurateOnesFailed'
  <2>1. \A n : Covers(ops[n], Point)' <=> Covers(ops[n], Point)
    BY <1>1, <1>6 DEF Covers
  <2>2. \A n : Usable(ops[n])' <=> Usable(ops[n])
    BY <1>1 DEF Usable, IsInstantiable
  <2> QED
    BY <1>1, <1>2, <1>4, <1>6, <1>8, <2>1, <2>2 DEF MoreAccurateOnesFailed, Excluded
<1>10. BestOrNothing'
  <2>1. ASSUME flags.error, NEW n \in 1..NOps PROVE ~Excluded(n)
    <3>1. call.tried = <<>> /\ ~call.skip
      BY <1>1, <2>1 DEF IInv, OneAttempt
    <3> QED BY <3>1 DEF Excluded, Tried
  <2>2. \A n : Covers(ops[n], Point)' <=> Covers(ops[n], Point)
    BY <1>1, <1>6 DEF Covers
  <2> QED BY <1>1, <1>4, <1>6, <1>8, <2>1, <2>2 DEF BestOrNothing
<1>11. PointsLeft' /\ Gathered'
  BY <1>1, <1>2 DEF IInv, Gathered, PointsLeft, Busy
<1> QED BY <1>2, <1>5, <1>7, <1>9, <1>10, <1>11, Returning

LEMMA ScanningIs ==
  ASSUME NEW c \in Call
  PROVE  /\ Scanning(c) \in Call /\ Scanning(c).pc = "scan"
         /\ Scanning(c).i = 1 /\ Scanning(c).best = 0
         /\ Scanning(c).tried = c.tried /\ Scanning(c).todo = c.todo
         /\ Scanning(c).skip = c.skip /\ Scanning(c).net = c.net
         /\ Scanning(c).array = c.array
<1>1. 1 \in Nat /\ 0 \in Nat /\ 0 \in Int /\ "scan" \in Stages
  BY DEF Stages
<1> QED BY <1>1 DEF Scanning, Call

LEMMA AttemptFailsKeeps == IInv /\ AttemptFails => IInv'
<1> SUFFICES ASSUME IInv, AttemptFails PROVE IInv'
  OBVIOUS
<1> DEFINE next == [After("scan") EXCEPT !.skip = @ \/ flags.warn]
<1>1. /\ Types /\ Scan /\ call.pc = "scan" /\ cur' = call.best
      /\ Attempts /\ Out \notin {"none", "network"} /\ ~flags.error
      /\ flags' = IF flags.warn THEN WarningDone(flags) ELSE flags
      /\ errno' = Err
      /\ call' = IF LastTry THEN [next EXCEPT !.pc = "fallback"] ELSE Scanning(next)
      /\ UNCHANGED <<network, server, ops, answer, batch>>
  BY DEF IInv, AttemptFails, Attempts, OnlyBest
<1>2. /\ After("scan") \in Call /\ After("scan").array = call.array
      /\ After("scan").todo = call.todo
      /\ After("scan").tried = Append(call.tried, call.best)
  BY <1>1, AfterIs DEF Stages
<1>3. /\ next \in Call /\ next.array = call.array /\ next.todo = call.todo
      /\ next.tried = Append(call.tried, call.best)
  <2>1. flags.warn \in BOOLEAN
    BY <1>1 DEF Types, Flags
  <2> HIDE DEF next
  <2>2. next = [After("scan") EXCEPT !.skip = @ \/ flags.warn]
    BY DEF next
  <2> QED BY <1>2, <2>1, <2>2 DEF Call
<1> HIDE DEF next
<1>4. /\ call' \in Call /\ call'.array = call.array /\ call'.todo = call.todo
      /\ LastTry => call'.pc = "fallback" /\ call'.tried = Append(call.tried, call.best)
      /\ ~LastTry => call'.pc = "scan" /\ call'.i = 1 /\ call'.best = 0
  <2>1. CASE LastTry
    <3>1. call' = [next EXCEPT !.pc = "fallback"]
      BY <1>1, <2>1
    <3> QED BY <1>3, <2>1, <3>1 DEF Call, Stages
  <2>2. CASE ~LastTry
    BY <1>1, <1>3, <2>2, ScanningIs
  <2> QED BY <2>1, <2>2
<1>5. flags' \in Flags /\ ~flags'.error
  BY <1>1 DEF Types, Flags, WarningDone
<1>6. Err = Out /\ Err \in Errors
  BY <1>1, OutIs
<1>7. Types'
  BY <1>1, <1>4, <1>5, <1>6, AttemptIs DEF Types
<1>8. Scan'
  <2>1. call'.pc = "scan" => call'.i = 1 /\ call'.best = 0
    BY <1>4
  <2>2. call'.i = 1 => NoneSoFar'
    BY <1>7, OpsAre DEF NoneSoFar, NOps, Types
  <2> QED BY <2>1, <2>2 DEF Scan
<1>9. Exhausted'
  <2>1. LastTry => Len(call'.tried) = MaxAttempts
    <3>1. call.tried \in Seq(Nat) /\ call.best \in Nat
      BY <1>1 DEF Types, Call
    <3>2. Len(Append(call.tried, call.best)) = Len(call.tried) + 1
      BY <3>1
    <3>3. LastTry => Len(call.tried) = 2
      BY DEF LastTry, MaxAttempts
    <3>4. LastTry => Len(call'.tried) = Len(call.tried) + 1
      BY <1>4, <3>2
    <3>5. ASSUME LastTry PROVE Len(call'.tried) = 2 + 1
      BY <3>3, <3>4, <3>5
    <3>6. 2 + 1 = MaxAttempts
      BY DEF MaxAttempts
    <3> QED BY <3>5, <3>6
  <2> QED BY <1>4, <2>1 DEF Exhausted
<1>10. OneAttempt' /\ OwnNetworkError' /\ call'.pc # "returned" /\ PointsLeft' /\ Gathered'
  BY <1>1, <1>4, <1>5, <1>6 DEF OneAttempt, OwnNetworkError, PointsLeft, Busy, IInv, Gathered
<1> QED BY <1>7, <1>8, <1>9, <1>10, Searching

-----------------------------------------------------------------------------
(* The fallback, and a transformation with one operation.                  *)

LEMMA FallbackKeeps == IInv /\ Fallback => IInv'
<1> SUFFICES ASSUME IInv, Fallback PROVE IInv'
  OBVIOUS
<1>1. PICK k \in WithoutGrids : FallbackTo(k)
  BY DEF Fallback
<1> DEFINE out == Outcome(ops[k].op, Point)
           by == IF out = "none" THEN k ELSE 0
           err == ErrnoAfter(out, errno)
<1>2. /\ Types /\ call.pc = "fallback" /\ cur' = k
      /\ Returns(by, TRUE, err)
      /\ call' = [call EXCEPT !.pc = "returned"]
      /\ UNCHANGED <<network, server, ops, flags, batch>>
  BY <1>1 DEF IInv, Fallback, FallbackTo
<1>3. k \in 1..NOps /\ k \in Nat /\ k # 0 /\ out \in {"none", "outside"}
  BY <1>1, <1>2, OpsAre, OutcomeIs DEF WithoutGrids
<1>4. err \in Errors /\ (out = "none" => err = errno) /\ (out # "none" => err = "outside")
  BY <1>2, <1>3 DEF ErrnoAfter, Types, Errors
<1>5. by \in Nat /\ (by # 0 => by = k) /\ (by = 0 <=> out # "none")
  BY <1>3
<1> HIDE DEF out, by, err
<1>6. /\ answer' \in Answer /\ errno' \in Errors /\ errno' = err
      /\ answer'.by = by /\ answer'.error = err /\ answer'.fallback
  BY <1>2, <1>4, <1>5, ReturnsIs
<1>7. /\ call' \in Call /\ call'.pc = "returned" /\ call'.skip = call.skip
      /\ call'.tried = call.tried /\ call'.todo = call.todo
      /\ call'.array = call.array /\ call'.net = call.net
  BY <1>2 DEF Types, Call, Stages
<1>8. Types'
  BY <1>2, <1>3, <1>6, <1>7 DEF Types
<1>9. Tried' = Tried /\ Point' = Point /\ NOps' = NOps
  BY <1>2, <1>7, TriedIs DEF Point, NOps
<1>10. LastUsedIsProducer' /\ MoreAccurateOnesFailed' /\ Outcomes'
  BY <1>2, <1>3, <1>4, <1>5, <1>6 DEF LastUsedIsProducer, MoreAccurateOnesFailed,
     Answered, Outcomes
<1>11. OwnNetworkError'
  BY <1>2, <1>3, <1>4, <1>6, <1>7 DEF IInv, OwnNetworkError
<1>12. BestOrNothing'
  <2>1. ASSUME flags.error, NEW n \in 1..NOps PROVE ~Covers(ops[n], Point)
    <3>1. call.tried = <<>> /\ ~call.skip
      BY <1>2, <2>1 DEF IInv, OneAttempt
    <3>2. Len(call.tried) # MaxAttempts
      BY <3>1 DEF MaxAttempts
    <3>3. ~Excluded(n)
      BY <3>1 DEF Excluded, Tried
    <3> QED BY <1>2, <3>2, <3>3 DEF IInv, Exhausted
  <2> QED BY <1>2, <1>9, <2>1 DEF BestOrNothing, Covers
<1>13. NoOperationIsTrue'
  BY <1>3, <1>4, <1>5, <1>6 DEF NoOperationIsTrue
<1>14. PointsLeft' /\ Gathered'
  BY <1>2, <1>7 DEF IInv, Gathered, PointsLeft, Busy
<1> QED BY <1>7, <1>8, <1>10, <1>11, <1>12, <1>13, <1>14, Returning

LEMMA NoFallbackKeeps == IInv /\ NoFallback => IInv'
<1> SUFFICES ASSUME IInv, NoFallback PROVE IInv'
  OBVIOUS
<1>1. /\ Types /\ call.pc = "fallback" /\ WithoutGrids = {}
      /\ Returns(0, TRUE, "no_operation")
      /\ call' = [call EXCEPT !.pc = "returned"]
      /\ UNCHANGED <<network, server, ops, flags, cur, batch>>
  BY DEF IInv, NoFallback
<1>2. /\ answer' \in Answer /\ errno' \in Errors /\ errno' = "no_operation"
      /\ answer'.by = 0 /\ answer'.error = "no_operation"
  BY <1>1, ReturnsIs DEF Errors
<1>3. /\ call' \in Call /\ call'.pc = "returned" /\ call'.skip = call.skip
      /\ call'.tried = call.tried /\ call'.todo = call.todo
  BY <1>1 DEF Types, Call, Stages
<1>4. Types'
  BY <1>1, <1>2, <1>3 DEF Types
<1>5. Tried' = Tried /\ Point' = Point /\ NOps' = NOps
  BY <1>1, <1>3, TriedIs DEF Point, NOps
<1>6. LastUsedIsProducer' /\ MoreAccurateOnesFailed' /\ Outcomes' /\ BestOrNothing'
      /\ OwnNetworkError'
  BY <1>2 DEF LastUsedIsProducer, MoreAccurateOnesFailed, BestOrNothing, Answered,
     Outcomes, OwnNetworkError
<1>7. NoOperationIsTrue'
  <2>1. WithoutGrids' = {}
    BY <1>1, <1>5 DEF WithoutGrids
  <2>2. \/ Len(call.tried) = MaxAttempts
        \/ \A n \in 1..NOps : Covers(ops[n], Point) /\ Usable(ops[n]) => n \in Tried
    BY <1>1 DEF IInv, Exhausted, Excluded
  <2>3. \/ Len(call'.tried) = MaxAttempts
        \/ \A n \in 1..NOps : (Covers(ops[n], Point) /\ Usable(ops[n]))' => n \in Tried'
    BY <1>1, <1>3, <1>5, <2>2 DEF Covers, Usable, IsInstantiable
  <2> QED BY <1>5, <2>1, <2>3 DEF NoOperationIsTrue
<1>8. PointsLeft' /\ Gathered'
  BY <1>1, <1>3 DEF IInv, Gathered, PointsLeft, Busy
<1> QED BY <1>3, <1>4, <1>6, <1>7, <1>8, Returning

LEMMA RunSingleKeeps == IInv /\ RunSingle => IInv'
<1> SUFFICES ASSUME IInv, RunSingle PROVE IInv'
  OBVIOUS
<1> DEFINE out == Outcome(ops[1].op, Point)
           by == IF out = "none" THEN 1 ELSE 0
           err == ErrnoAfter(out, errno)
<1>1. /\ Types /\ call.pc = "begin" /\ NOps = 1 /\ cur' = 1
      /\ Returns(by, FALSE, err)
      /\ call' = [call EXCEPT !.pc = "returned", !.net = (out = "network")]
      /\ UNCHANGED <<network, server, ops, flags, batch>>
  BY DEF IInv, RunSingle
<1>2. out \in {"no_inverse_op", "network", "none", "outside"}
  BY OutcomeIs
<1>3. err \in Errors /\ (out = "none" => err = errno) /\ (out # "none" => err = out)
  BY <1>1, <1>2 DEF ErrnoAfter, Types, Errors
<1>4. by \in Nat /\ (by # 0 => by = 1) /\ (by = 0 <=> out # "none")
  OBVIOUS
<1> HIDE DEF out, by, err
<1>5. /\ answer' \in Answer /\ errno' \in Errors /\ errno' = err
      /\ answer'.by = by /\ answer'.error = err
  BY <1>1, <1>3, <1>4, ReturnsIs
<1>6. /\ call' \in Call /\ call'.pc = "returned" /\ call'.todo = call.todo
      /\ call'.array = call.array /\ call'.net = (out = "network")
  BY <1>1 DEF Types, Call, Stages
<1>7. Types'
  BY <1>1, <1>5, <1>6 DEF Types
<1>8. OwnNetworkError'
  BY <1>1, <1>3, <1>5, <1>6 DEF IInv, OwnNetworkError
<1>9. LastUsedIsProducer' /\ Outcomes' /\ NoOperationIsTrue'
  BY <1>1, <1>2, <1>3, <1>4, <1>5 DEF LastUsedIsProducer, NoOperationIsTrue, Answered, Outcomes
<1>11. MoreAccurateOnesFailed' /\ BestOrNothing'
  <2>1. NOps' = 1
    BY <1>1 DEF NOps
  <2> QED BY <2>1 DEF MoreAccurateOnesFailed, BestOrNothing
<1>10. PointsLeft' /\ Gathered'
  BY <1>1, <1>6 DEF IInv, Gathered, PointsLeft, Busy
<1> QED BY <1>6, <1>7, <1>8, <1>9, <1>10, <1>11, Returning

LEMMA BeginSearchKeeps == IInv /\ BeginSearch => IInv'
<1> SUFFICES ASSUME IInv, BeginSearch PROVE IInv'
  OBVIOUS
<1> DEFINE skips == flags.skip /\ ~flags.warn /\ ~flags.error
<1>1. /\ Types /\ call.pc = "begin"
      /\ call' = [Scanning(call) EXCEPT !.skip = skips]
      /\ UNCHANGED <<network, server, ops, flags, cur, errno, answer, batch>>
  BY DEF IInv, BeginSearch
<1>2. call \in Call /\ skips \in BOOLEAN /\ (flags.error => ~skips)
  BY <1>1 DEF Types, Flags
<1> HIDE DEF skips
<1>3. /\ call' \in Call /\ call'.pc = "scan" /\ call'.i = 1 /\ call'.best = 0
      /\ call'.tried = call.tried /\ call'.todo = call.todo
      /\ call'.array = call.array /\ call'.net = call.net /\ call'.skip = skips
  BY <1>1, <1>2, ScanningIs DEF Call
<1>4. Types'
  BY <1>1, <1>3 DEF Types
<1>5. Scan'
  <2>1. NoneSoFar'
    BY <1>3, <1>4, OpsAre DEF NoneSoFar, NOps, Types
  <2> QED BY <1>3, <2>1 DEF Scan
<1>6. OneAttempt'
  BY <1>1, <1>2, <1>3 DEF IInv, OneAttempt
<1>7. Exhausted' /\ OwnNetworkError' /\ PointsLeft' /\ Gathered' /\ call'.pc # "returned"
  BY <1>1, <1>3 DEF IInv, Exhausted, OwnNetworkError, PointsLeft, Busy, Gathered
<1> QED BY <1>4, <1>5, <1>6, <1>7, Searching

-----------------------------------------------------------------------------
(* The callers.                                                            *)

LEMMA NoCallIs == NoCall \in Call /\ NoCall.tried = <<>> /\ NoCall.array = FALSE
<1>1. NoCall = [NoCall EXCEPT !.pc = "idle"]
  BY DEF NoCall
<1> QED BY <1>1, NoCallFits DEF NoCall, Stages

LEMMA BeginsIs ==
  ASSUME NEW array \in BOOLEAN, NEW todo \in Seq(Points),
         call' = [NoCall EXCEPT !.pc = "begin", !.array = array, !.todo = todo]
  PROVE  /\ call' \in Call /\ call'.pc = "begin" /\ call'.array = array
         /\ call'.todo = todo /\ call'.tried = <<>>
BY NoCallIs DEF Call, Stages

\* a call that begins
LEMMA Beginning ==
  ASSUME Types', OwnNetworkError', PointsLeft', Gathered', call.pc' = "begin",
         call.tried' = <<>>
  PROVE  IInv'
BY DEF IInv, Scan, Exhausted, OneAttempt, Outcomes, Returned, Answered,
   LastUsedIsProducer, MoreAccurateOnesFailed, BestOrNothing, NoOperationIsTrue

LEMMA NoneYet == NoAnswer \in Answer /\ NoBatch \in Batch
BY DEF NoAnswer, NoBatch, Answer, Batch, Errors

LEMMA TransKeeps ==
  ASSUME IInv, NEW p \in Points, Trans(p)
  PROVE  IInv'
<1>1. /\ Types /\ answer' = NoAnswer
      /\ call' = [NoCall EXCEPT !.pc = "begin", !.todo = <<p>>]
      /\ UNCHANGED <<network, server, ops, flags, cur, errno, batch>>
  BY DEF IInv, Trans
<1>2. <<p>> \in Seq(Points) /\ <<p>> # <<>>
  OBVIOUS
<1>4. /\ call' \in Call /\ call'.pc = "begin" /\ ~call'.array
      /\ call'.todo # <<>> /\ call'.tried = <<>>
  BY <1>1, <1>2, NoCallIs DEF Call, Stages
<1>5. Types'
  BY <1>1, <1>4, NoneYet DEF Types
<1>6. OwnNetworkError' /\ PointsLeft' /\ Gathered'
  BY <1>1, <1>4 DEF IInv, OwnNetworkError, PointsLeft, Gathered
<1> QED BY <1>4, <1>5, <1>6, Beginning

LEMMA TransArrayKeeps ==
  ASSUME IInv, NEW points \in SeqOf(Points, MaxArray) \ {<<>>}, TransArray(points)
  PROVE  IInv'
<1>1. /\ Types /\ answer' = NoAnswer /\ batch' = NoBatch /\ errno' = "none"
      /\ call' = [NoCall EXCEPT !.pc = "begin", !.array = TRUE, !.todo = points]
      /\ UNCHANGED <<network, server, ops, flags, cur>>
  BY DEF IInv, TransArray, StartPoint
<1>2. points \in Seq(Points) /\ points # <<>>
  BY MaxArrayAssumption DEF SeqOf
<1>3. /\ call' \in Call /\ call'.pc = "begin"
      /\ call'.todo # <<>> /\ call'.tried = <<>>
  BY <1>1, <1>2, BeginsIs
<1>4. Types'
  BY <1>1, <1>3, NoneYet DEF Types, Errors
<1>5. OwnNetworkError' /\ PointsLeft' /\ Gathered'
  BY <1>1, <1>3 DEF OwnNetworkError, PointsLeft, Gathered, NoBatch
<1> QED BY <1>3, <1>4, <1>5, Beginning

LEMMA TransReturnsKeeps == IInv /\ (TransReturns \/ ArrayReturns) => IInv'
<1> SUFFICES ASSUME IInv, TransReturns \/ ArrayReturns PROVE IInv'
  OBVIOUS
<1>1. /\ Types /\ Gathered /\ Enter("idle")
      /\ UNCHANGED <<network, server, ops, flags, cur, errno, answer, batch>>
  BY DEF IInv, TransReturns, ArrayReturns
<1>2. call' \in Call /\ call'.pc = "idle"
  BY <1>1, EnterFits DEF Stages
<1>3. Types' /\ Gathered'
  BY <1>1, <1>2 DEF Types, Gathered
<1> QED BY <1>2, <1>3, AtRest

LEMMA CollectedIs ==
  ASSUME NEW b \in Batch, NEW err \in Errors, b.isSet => b.ret # "none"
  PROVE  /\ Collected(b, err) \in Batch
         /\ Collected(b, err).failed = b.failed
         /\ Collected(b, err).isSet => Collected(b, err).ret # "none"
         /\ b.isSet \/ err # "none" => Collected(b, err).isSet
<1>1. CASE err = "none"
  BY <1>1 DEF Collected
<1>2. CASE err # "none" /\ ~b.isSet
  BY <1>2 DEF Collected, Batch
<1>3. CASE err # "none" /\ b.isSet /\ b.same /\ b.ret # err
  BY <1>3 DEF Collected, Batch, Errors
<1>4. CASE err # "none" /\ b.isSet /\ ~(b.same /\ b.ret # err)
  BY <1>4 DEF Collected
<1> QED BY <1>1, <1>2, <1>3, <1>4

LEMMA ArrayPointReturnsKeeps == IInv /\ ArrayPointReturns => IInv'
<1> SUFFICES ASSUME IInv, ArrayPointReturns PROVE IInv'
  OBVIOUS
<1> DEFINE b == Collected(batch, errno)
<1>1. /\ Types /\ Gathered /\ Outcomes /\ call.pc = "returned" /\ call.todo # <<>>
      /\ batch' = [b EXCEPT !.failed = @ \/ answer.by = 0]
      /\ UNCHANGED <<network, server, ops, flags, cur>>
  BY DEF IInv, ArrayPointReturns, PointsLeft, Busy
<1>2. /\ b \in Batch /\ b.failed = batch.failed
      /\ b.isSet => b.ret # "none"
      /\ batch.isSet \/ errno # "none" => b.isSet
  BY <1>1, CollectedIs DEF Types, Gathered
<1>3. answer.by = 0 => errno # "none"
  BY <1>1 DEF Outcomes, Returned
<1> HIDE DEF b
<1>4. /\ batch' \in Batch /\ batch'.isSet = b.isSet /\ batch'.ret = b.ret
      /\ batch'.failed = (batch.failed \/ answer.by = 0)
  BY <1>1, <1>2 DEF Batch
<1>5. /\ batch'.failed => batch'.isSet
      /\ batch'.isSet => batch'.ret # "none"
  BY <1>1, <1>2, <1>3, <1>4 DEF Gathered
<1>6. CASE Len(call.todo) = 1
  <2>1. Enter("arrayReturned") /\ errno' = batch'.ret /\ UNCHANGED answer
    BY <1>6 DEF ArrayPointReturns
  <2>2. call' \in Call /\ call'.pc = "arrayReturned"
    BY <2>1, EnterFits DEF Stages
  <2>3. errno' \in Errors
    BY <1>4, <2>1 DEF Batch
  <2>4. Types' /\ Gathered'
    BY <1>1, <1>4, <1>5, <2>1, <2>2, <2>3 DEF Types, Gathered
  <2> QED BY <2>2, <2>4, AtRest
<1>7. CASE Len(call.todo) # 1
  <2>1. /\ call' = [NoCall EXCEPT !.pc = "begin", !.array = TRUE, !.todo = Tail(call.todo)]
        /\ errno' = "none" /\ answer' = NoAnswer
    BY <1>7 DEF ArrayPointReturns, StartPoint
  <2>2. Tail(call.todo) \in Seq(Points) /\ Tail(call.todo) # <<>>
    <3>1. call.todo \in Seq(Points) /\ call.todo # <<>>
      BY <1>1 DEF Types, Call
    <3>2. Tail(call.todo) \in Seq(Points) /\ Len(Tail(call.todo)) = Len(call.todo) - 1
      BY <3>1
    <3>3. Len(call.todo) \in Nat /\ Len(call.todo) # 0
      BY <3>1
    <3>4. Len(Tail(call.todo)) # 0
      BY <1>7, <3>2, <3>3
    <3>5. Tail(call.todo) # <<>>
      <4> SUFFICES ASSUME Tail(call.todo) = <<>> PROVE FALSE
        OBVIOUS
      <4>1. Len(<<>>) = 0
        OBVIOUS
      <4> QED BY <3>4, <4>1
    <3> QED BY <3>2, <3>5
  <2>3. /\ call' \in Call /\ call'.pc = "begin"
        /\ call'.todo # <<>> /\ call'.tried = <<>>
    BY <2>1, <2>2, BeginsIs
  <2>4. Types'
    BY <1>1, <1>4, <2>1, <2>3, NoneYet DEF Types, Errors
  <2>5. OwnNetworkError' /\ PointsLeft' /\ Gathered'
    BY <1>5, <2>1, <2>3 DEF OwnNetworkError, PointsLeft, Gathered
  <2> QED BY <2>3, <2>4, <2>5, Beginning
<1> QED BY <1>6, <1>7

LEMMA ErrnoResetKeeps == IInv /\ ErrnoReset => IInv'
<1> SUFFICES ASSUME IInv, ErrnoReset PROVE IInv'
  OBVIOUS
<1>1. /\ Types /\ Gathered /\ call.pc = "idle" /\ errno' = "none"
      /\ UNCHANGED <<network, server, ops, flags, cur, call, answer, batch>>
  BY DEF IInv, ErrnoReset
<1>2. Types' /\ Gathered'
  BY <1>1 DEF Types, Gathered, Errors
<1> QED BY <1>1, <1>2, AtRest

\* the state of the server is no part of what has been found so far
LEMMA SurroundingsKeep ==
  ASSUME IInv, server' \in BOOLEAN,
         UNCHANGED <<network, ops, flags, cur, errno, call, answer, batch>>
  PROVE  IInv'
<1>1. Types' /\ Exhausted' /\ OneAttempt' /\ OwnNetworkError' /\ PointsLeft' /\ Outcomes'
      /\ Gathered' /\ LastUsedIsProducer'
  BY DEF IInv, Types, Exhausted, OneAttempt, OwnNetworkError, PointsLeft, Busy, Outcomes,
     Returned, Answered, Gathered, LastUsedIsProducer, Excluded, Tried, Usable, Covers,
     Point, NOps, IsInstantiable
<1>2. Scan'
  BY DEF IInv, Scan, BestSoFar, NoneSoFar, Better, Excluded, Tried, Usable, Covers, Point,
     NOps, IsInstantiable
<1>3. MoreAccurateOnesFailed'
  BY DEF IInv, MoreAccurateOnesFailed, Returned, Answered, Tried, Usable, Covers, Point,
     NOps, IsInstantiable
<1>4. BestOrNothing' /\ NoOperationIsTrue'
  BY DEF IInv, BestOrNothing, NoOperationIsTrue, WithoutGrids, Returned, Answered, Tried,
     Usable, Covers, Point, NOps, IsInstantiable
<1> QED BY <1>1, <1>2, <1>3, <1>4 DEF IInv

LEMMA NextIInv == IInv /\ [Next]_vars => IInv'
<1> SUFFICES ASSUME IInv, [Next]_vars PROVE IInv'
  OBVIOUS
<1>1. CASE Create
  BY <1>1, CreateKeeps
<1>2. CASE \E p \in Points : Trans(p)
  BY <1>2, TransKeeps
<1>3. CASE \E points \in SeqOf(Points, MaxArray) \ {<<>>} : TransArray(points)
  BY <1>3, TransArrayKeeps
<1>4. CASE RunSingle \/ BeginSearch \/ Consider \/ OutOfCandidates
  BY <1>4, RunSingleKeeps, BeginSearchKeeps, ConsiderKeeps, OutOfCandidatesKeeps
<1>5. CASE AttemptNetworkError \/ AttemptAnswers \/ AttemptFailsForGood \/ AttemptFails
  BY <1>5, AttemptNetworkErrorKeeps, AttemptAnswersKeeps, AttemptFailsForGoodKeeps,
     AttemptFailsKeeps
<1>6. CASE Fallback \/ NoFallback
  BY <1>6, FallbackKeeps, NoFallbackKeeps
<1>7. CASE TransReturns \/ ArrayPointReturns \/ ArrayReturns \/ ErrnoReset
  BY <1>7, TransReturnsKeeps, ArrayPointReturnsKeeps, ErrnoResetKeeps
<1>8. CASE ServerChanges \/ UNCHANGED vars
  <2>1. server' \in BOOLEAN
    BY <1>8 DEF ServerChanges, vars, IInv, Types
  <2> QED BY <1>8, <2>1, SurroundingsKeep DEF ServerChanges, vars
<1> QED BY <1>1, <1>2, <1>3, <1>4, <1>5, <1>6, <1>7, <1>8 DEF Next

LEMMA Inductive == Spec => []IInv
<1> QED BY InitIInv, NextIInv, PTL DEF Spec

-----------------------------------------------------------------------------
(* The properties.                                                         *)

\* The operation that is named as the last one used is the one that computed
\* the coordinates, whichever attempt of proj_trans gave them.
THEOREM LastUsedIsTheProducer == Spec => []LastUsedIsProducer
<1>1. IInv => LastUsedIsProducer
  BY DEF IInv
<1> QED BY <1>1, Inductive, PTL

\* An operation answers only when the more accurate ones that cover the point
\* have failed or are skipped, for any lists that the search can give.
THEOREM AnswersAreTheBestLeft == Spec => []MoreAccurateOnesFailed
<1>1. IInv => MoreAccurateOnesFailed
  BY DEF IInv
<1> QED BY <1>1, Inductive, PTL

\* With ONLY_BEST=YES, the best operation answers or none does.
THEOREM OnlyTheBestAnswers == Spec => []BestOrNothing
<1>1. IInv => BestOrNothing
  BY DEF IInv
<1> QED BY <1>1, Inductive, PTL

\* "No operation" is reported only when there is none left.
THEOREM NoOperationIsJustified == Spec => []NoOperationIsTrue
<1>1. IInv => NoOperationIsTrue
  BY DEF IInv
<1> QED BY <1>1, Inductive, PTL

\* proj_trans_array does not return 0 when a point failed.
THEOREM ArraysReportFailures == Spec => []ArrayReportsFailures
<1>1. IInv => ArrayReportsFailures
  BY DEF IInv, Gathered, ArrayReportsFailures
<1> QED BY <1>1, Inductive, PTL

\* In an array, the network error of a point is its own.
THEOREM NetworkErrorsAreOwn == Spec => []NetworkErrorIsOfThisPoint
<1>1. IInv => NetworkErrorIsOfThisPoint
  BY DEF IInv, OwnNetworkError, Outcomes, Returned, NetworkErrorIsOfThisPoint
<1> QED BY <1>1, Inductive, PTL
==============================================================================
