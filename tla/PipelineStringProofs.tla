------------------------- MODULE PipelineStringProofs -------------------------
(***************************************************************************)
(* Proofs about the simplification of pipelines, for inputs of any kind    *)
(* and length: where the cursor of the loops stays, that the last loop     *)
(* leaves nothing that it was made to remove, and that the pipeline that   *)
(* comes out does what the one that went in does, in both directions.      *)
(*                                                                         *)
(* The last takes most of the module. What running a list is made of comes *)
(* first, then each operation and its inverse, then the rules, one by one, *)
(* on the steps they look at, and last the actions of the loops.           *)
(***************************************************************************)
EXTENDS PipelineString, SequenceTheorems, WellFoundedInduction, TLAPS

IsList(s) == s \in Seq(ToSet(s))

\* The rule for a vertical grid between saved coordinates is applied at the
\* beginning of the list, where there is no step before what it erases
\* (divergence 14 of the README): the source asserts that this does not happen.
ErasesTheBeginning == phase = "grids" /\ pos = 2 /\ SavedAroundVertical

Cursor ==
  /\ phase \in {"remove", "merge", "grids", "cancel", "done"}
  /\ pos \in Nat
  /\ phase = "remove" => pos \in 1..Len(steps) + 1
  /\ phase \in {"merge", "grids", "cancel"} => pos >= 2

\* What the last loop has looked at contains nothing it removes.
Scanned ==
  /\ phase = "cancel" =>
       \A n \in 1..Len(steps) - 1 : n <= pos - 2 => ~Cancels(steps[n], steps[n + 1])
  /\ NothingLeftToCancel

IInv ==
  /\ inverse \in BOOLEAN
  /\ IsList(steps)
  /\ Cursor
  /\ Scanned

-----------------------------------------------------------------------------
(* Lists.                                                                  *)

LEMMA SeqIsList ==
  ASSUME NEW S, NEW s \in Seq(S)
  PROVE  IsList(s)
<1>1. DOMAIN s = 1..Len(s) /\ Len(s) \in Nat
  OBVIOUS
<1>2. \A i \in 1..Len(s) : s[i] \in ToSet(s)
  BY <1>1 DEF ToSet
<1>3. s = [i \in 1..Len(s) |-> s[i]]
  BY <1>1
<1> QED BY <1>1, <1>2, <1>3, SeqOfRange DEF IsList, ToSet, Range

LEMMA ListLength ==
  ASSUME NEW s, IsList(s)
  PROVE  /\ Len(s) \in Nat /\ DOMAIN s = 1..Len(s)
         /\ \A i \in 1..Len(s) : s[i] \in ToSet(s)
BY DEF IsList

\* What takes the place of a part of the list leaves what comes before it.
LEMMA Spliced ==
  ASSUME IsList(steps), NEW from \in 1..Len(steps) + 1,
         NEW to \in from - 1..Len(steps), NEW mid, IsList(mid)
  PROVE  /\ IsList(Splice(from, to, mid))
         /\ Len(Splice(from, to, mid)) = Len(steps) - (to - from + 1) + Len(mid)
         /\ \A n \in 1..from - 1 : Splice(from, to, mid)[n] = steps[n]
<1> DEFINE S == ToSet(steps) \cup ToSet(mid)
           a == SubSeq(steps, 1, from - 1)
           b == SubSeq(steps, to + 1, Len(steps))
<1>1. Len(steps) \in Nat /\ Len(mid) \in Nat /\ from \in Int /\ to \in Int
  BY ListLength
<1>2. \A i \in 1..Len(steps) : steps[i] \in S
  BY ListLength
<1>3. mid \in Seq(S)
  BY SeqMonotonic DEF IsList
<1> HIDE DEF S
<1>4. /\ a \in Seq(S) /\ Len(a) = from - 1
      /\ \A i \in 1..from - 1 : a[i] = steps[i]
  <2>1. \A i \in 1..from - 1 : i \in 1..Len(steps)
    BY <1>1
  <2>2. \A i \in 1..from - 1 : steps[i] \in S
    BY <2>1, <1>2
  <2>3. /\ a \in Seq(S)
        /\ Len(a) = IF 1 <= from - 1 THEN from - 1 - 1 + 1 ELSE 0
        /\ \A i \in 1..from - 1 - 1 + 1 : a[i] = steps[1 + i - 1]
    BY <1>1, <2>2, SubSeqProperties
  <2>4. \A i \in 1..from - 1 : i \in 1..from - 1 - 1 + 1 /\ 1 + i - 1 = i
    BY <1>1
  <2> HIDE DEF a
  <2> QED BY <2>3, <2>4, <1>1
<1>5. b \in Seq(S) /\ Len(b) = Len(steps) - to
  <2>1. \A i \in to + 1..Len(steps) : i \in 1..Len(steps)
    BY <1>1
  <2>2. \A i \in to + 1..Len(steps) : steps[i] \in S
    BY <2>1, <1>2
  <2>3. /\ b \in Seq(S)
        /\ Len(b) = IF to + 1 <= Len(steps) THEN Len(steps) - (to + 1) + 1 ELSE 0
    BY <1>1, <2>2, SubSeqProperties
  <2> HIDE DEF b
  <2> QED BY <2>3, <1>1
<1>6. Splice(from, to, mid) = a \o mid \o b
  BY DEF Splice
<1> HIDE DEF a, b
<1>7. /\ a \o mid \in Seq(S) /\ Len(a \o mid) = Len(a) + Len(mid)
      /\ \A i \in 1..Len(a) + Len(mid) :
           (a \o mid)[i] = IF i <= Len(a) THEN a[i] ELSE mid[i - Len(a)]
  BY <1>3, <1>4, ConcatProperties
<1> DEFINE c == a \o mid
<1> HIDE DEF c
<1>8. /\ c \o b \in Seq(S) /\ Len(c \o b) = Len(c) + Len(b)
      /\ \A i \in 1..Len(c) + Len(b) :
           (c \o b)[i] = IF i <= Len(c) THEN c[i] ELSE b[i - Len(c)]
  <2>1. c \in Seq(S)
    BY <1>7 DEF c
  <2> QED BY <1>5, <2>1, ConcatProperties
<1>9. Len(c) = from - 1 + Len(mid)
  BY <1>4, <1>7 DEF c
<1>10. \A i \in 1..from - 1 : (c \o b)[i] = steps[i]
  <2> TAKE i \in 1..from - 1
  <2>1. /\ i \in 1..Len(a) + Len(mid) /\ i <= Len(a)
        /\ i \in 1..Len(c) + Len(b) /\ i <= Len(c)
    BY <1>1, <1>4, <1>5, <1>9
  <2> QED BY <2>1, <1>4, <1>7, <1>8 DEF c
<1>11. Len(c \o b) = Len(steps) - (to - from + 1) + Len(mid)
  BY <1>1, <1>5, <1>8, <1>9
<1> QED BY <1>6, <1>8, <1>10, <1>11, SeqIsList DEF c

LEMMA FunctionIsList ==
  ASSUME NEW k \in Nat, NEW f, f = [i \in 1..k |-> f[i]]
  PROVE  IsList(f) /\ Len(f) = k
<1> DEFINE S == {f[i] : i \in 1..k}
<1>1. \A i \in 1..k : f[i] \in S
  OBVIOUS
<1> HIDE DEF S
<1>2. f \in [1..k -> S]
  BY <1>1
<1>3. f \in Seq(S) /\ Len(f) = k
  BY <1>2
<1> QED BY <1>3, SeqIsList

LEMMA NoneIsList == IsList(<<>>) /\ Len(<<>>) = 0
BY DEF IsList

\* No change of the last loop leaves the cursor before the second step.
LEMMA BackIsSecond ==
  ASSUME pos \in Nat
  PROVE  Back \in Nat /\ Back >= 2
BY DEF Back

-----------------------------------------------------------------------------
(* The first two loops.                                                    *)

LEMMA InitIInv ==
  ASSUME Init
  PROVE  IInv
<1>1. IsList(input)
  BY InputsAreLists DEF Init, IsList
<1>2. IsList(Inverted(input))
  <2> DEFINE f == [n \in 1..Len(input) |->
                    [input[n] EXCEPT !.inv = ~@, !.omit = OtherOmit(@)]]
  <2>1. Len(input) \in Nat
    BY <1>1, ListLength
  <2>2. IsList(f) /\ Len(f) = Len(input)
    <3>1. f = [i \in 1..Len(input) |-> f[i]]
      OBVIOUS
    <3> HIDE DEF f
    <3> QED BY <2>1, <3>1, FunctionIsList
  <2> DEFINE g == Reverse(f)
  <2>3. Inverted(input) = g
    BY DEF Inverted
  <2> HIDE DEF f
  <2>4. g = [i \in 1..Len(f) |-> g[i]]
    BY DEF Reverse
  <2> HIDE DEF g
  <2> QED BY <2>1, <2>2, <2>3, <2>4, FunctionIsList
<1>3. IsList(steps)
  BY <1>1, <1>2 DEF Init
<1>4. Len(steps) \in Nat
  BY <1>3, ListLength
<1> QED BY <1>3, <1>4 DEF Init, IInv, Cursor, Scanned, NothingLeftToCancel

LEMMA RemoveStepIInv ==
  ASSUME IInv, RemoveStep
  PROVE  IInv'
<1>1. /\ IsList(steps) /\ pos \in 1..Len(steps)
      /\ phase = "remove" /\ UNCHANGED <<inverse, pos, phase>>
  BY DEF IInv, Cursor, RemoveStep
<1>2. Len(steps) \in Nat
  BY <1>1, ListLength
<1>3. steps' = Splice(pos, pos, <<>>)
  <2> DEFINE a == SubSeq(steps, 1, pos - 1)
             b == SubSeq(steps, pos + 1, Len(steps))
  <2>1. steps' = a \o b
    BY DEF RemoveStep, RemoveAt
  <2>2. Splice(pos, pos, <<>>) = a \o <<>> \o b
    BY DEF Splice
  <2>3. a \in Seq(ToSet(steps))
    <3>1. \A i \in 1..pos - 1 : steps[i] \in ToSet(steps)
      <4>1. \A i \in 1..pos - 1 : i \in 1..Len(steps)
        BY <1>1, <1>2
      <4> QED BY <4>1, <1>1, ListLength
    <3> QED BY <1>1, <1>2, <3>1, SubSeqProperties
  <2> HIDE DEF a, b
  <2>4. a \o <<>> = a
    BY <2>3, ConcatEmptySeq, SMTT(60)
  <2> QED BY <2>1, <2>2, <2>4
<1>4. IsList(steps') /\ Len(steps') = Len(steps) - 1
  <2>1. pos \in 1..Len(steps) + 1 /\ pos \in pos - 1..Len(steps)
    BY <1>1, <1>2
  <2>2. Len(steps) - (pos - pos + 1) + 0 = Len(steps) - 1
    BY <1>1, <1>2
  <2> QED BY <1>1, <1>3, <2>1, <2>2, NoneIsList, Spliced, ZenonT(60)
<1> QED BY <1>1, <1>2, <1>4 DEF IInv, IsList, Cursor, Scanned, NothingLeftToCancel

LEMMA KeepStepIInv ==
  ASSUME IInv, KeepStep
  PROVE  IInv'
<1>1. /\ IsList(steps) /\ pos \in 1..Len(steps)
      /\ phase = "remove" /\ pos' = pos + 1 /\ UNCHANGED <<inverse, phase>>
  BY DEF IInv, Cursor, KeepStep
<1>2. Len(steps) \in Nat /\ DOMAIN steps = 1..Len(steps)
  BY <1>1, ListLength
<1>3. steps' = [steps EXCEPT ![pos] = Renamed(steps[pos])]
  BY DEF KeepStep
<1>4. steps' = [i \in 1..Len(steps) |-> (steps')[i]]
  BY <1>2, <1>3
<1>5. IsList(steps') /\ Len(steps') = Len(steps)
  BY <1>2, <1>4, FunctionIsList
<1> QED BY <1>1, <1>2, <1>5 DEF IInv, IsList, Cursor, Scanned, NothingLeftToCancel

LEMMA UninvertIInv ==
  ASSUME IInv, Uninvert
  PROVE  IInv'
<1>1. Len(steps) \in Nat
  BY ListLength DEF IInv
<1>2. steps' = [i \in 1..Len(steps) |-> (steps')[i]]
  BY DEF Uninvert
<1>3. IsList(steps')
  BY <1>1, <1>2, FunctionIsList
<1>4. phase' = "merge" /\ pos' = 2 /\ inverse' = inverse
  BY DEF Uninvert, Goto
<1> QED BY <1>3, <1>4 DEF IInv, IsList, Cursor, Scanned, NothingLeftToCancel

-----------------------------------------------------------------------------
(* The rules of the third and fourth loop: the list stays one, the cursor  *)
(* after its first step.                                                   *)

RuleKeeps ==
  /\ phase' \in {"merge", "grids"}
  /\ inverse' = inverse
  /\ IsList(steps)'
  /\ pos' \in Nat /\ pos' >= 2

LEMMA RuleKeepsIInv ==
  ASSUME IInv, RuleKeeps
  PROVE  IInv'
BY DEF IInv, RuleKeeps, Cursor, Scanned, NothingLeftToCancel

\* What a rule puts in the place of a part of the list is a list.
LEMMA SpliceIsList ==
  ASSUME IInv, phase \in {"merge", "grids", "cancel"}, pos <= Len(steps),
         NEW from \in {pos - 1, pos}, NEW to \in from..Len(steps),
         NEW mid, IsList(mid)
  PROVE  IsList(Splice(from, to, mid))
<1>1. IsList(steps) /\ pos \in Nat /\ pos >= 2
  BY DEF IInv, Cursor
<1>2. Len(steps) \in Nat
  BY <1>1, ListLength
<1>3. from \in 1..Len(steps) + 1 /\ to \in from - 1..Len(steps)
  BY <1>1, <1>2
<1> QED BY <1>1, <1>3, Spliced

LEMMA ShortLists ==
  /\ \A a : IsList(<<a>>)
  /\ \A a, b : IsList(<<a, b>>)
  /\ \A a, b, c : IsList(<<a, b, c>>)
  /\ \A a, b, c, d : IsList(<<a, b, c, d>>)
  /\ \A a, b, c, d, e : IsList(<<a, b, c, d>> \o <<e>>)
<1>1. \A a : IsList(<<a>>)
  <2> TAKE a
  <2>1. <<a>> \in Seq({a})
    OBVIOUS
  <2> QED BY <2>1, SeqIsList
<1>2. \A a, b : IsList(<<a, b>>)
  <2> TAKE a, b
  <2>1. <<a, b>> \in Seq({a, b})
    OBVIOUS
  <2> QED BY <2>1, SeqIsList
<1>3. \A a, b, c : IsList(<<a, b, c>>)
  <2> TAKE a, b, c
  <2>1. <<a, b, c>> \in Seq({a, b, c})
    OBVIOUS
  <2> QED BY <2>1, SeqIsList
<1>4. \A a, b, c, d : IsList(<<a, b, c, d>>)
  <2> TAKE a, b, c, d
  <2>1. <<a, b, c, d>> \in Seq({a, b, c, d})
    OBVIOUS
  <2> QED BY <2>1, SeqIsList
<1>5. \A a, b, c, d, e : IsList(<<a, b, c, d>> \o <<e>>)
  <2> TAKE a, b, c, d, e
  <2>1. /\ <<a, b, c, d>> \in Seq({a, b, c, d, e})
        /\ <<e>> \in Seq({a, b, c, d, e})
    OBVIOUS
  <2> QED BY <2>1, ConcatProperties, SeqIsList
<1> QED BY <1>1, <1>2, <1>3, <1>4, <1>5

LEMMA InMergeLoop ==
  ASSUME IInv, Merging
  PROVE  /\ IsList(steps) /\ Len(steps) \in Nat
         /\ pos \in Nat /\ pos >= 2 /\ pos <= Len(steps)
         /\ phase = "merge" /\ Back \in Nat /\ Back >= 2
BY ListLength, BackIsSecond DEF IInv, Cursor, Merging

LEMMA InGridLoop ==
  ASSUME IInv, Gridding
  PROVE  /\ IsList(steps) /\ Len(steps) \in Nat
         /\ pos \in Nat /\ pos >= 2 /\ pos <= Len(steps)
         /\ phase = "grids"
BY ListLength DEF IInv, Cursor, Gridding

LEMMA EraseCurIsList ==
  ASSUME IInv, Merging
  PROVE  IsList(EraseCur) /\ Len(EraseCur) = Len(steps) - 1
<1>1. pos \in 1..Len(steps) + 1 /\ pos \in pos - 1..Len(steps)
  BY InMergeLoop
<1>2. Len(steps) - (pos - pos + 1) + 0 = Len(steps) - 1
  BY InMergeLoop
<1> QED BY <1>1, <1>2, InMergeLoop, NoneIsList, Spliced, ZenonT(60) DEF EraseCur

LEMMA ReplacedPair ==
  ASSUME IInv, Merging, NEW mid, IsList(mid), steps' = Splice(pos - 1, pos, mid)
  PROVE  IsList(steps)'
<1>1. pos - 1 \in {pos - 1, pos} /\ pos \in pos - 1..Len(steps)
  BY InMergeLoop
<1> QED BY <1>1, InMergeLoop, SpliceIsList DEF IsList

LEMMA MergeLoopIInv ==
  ASSUME IInv,
         \/ DropLonglat \/ MergeUndone \/ MergeUnits \/ SwapUnitsAndAxes
         \/ DropAxesAroundUnits \/ MergeAxes \/ DropSet \/ SumTranslations
         \/ TurnKrovak \/ MergeNothing \/ MergeEnds
  PROVE  RuleKeeps \/ MergeEnds
<1>1. CASE DropLonglat
  <2>1. Merging /\ steps' = EraseCur /\ pos' = pos /\ phase' = phase /\ inverse' = inverse
    BY <1>1 DEF DropLonglat, Unchanged
  <2> QED BY <2>1, InMergeLoop, EraseCurIsList DEF RuleKeeps, IsList
<1>2. CASE MergeUndone
  <2>1. /\ Merging /\ steps' = Splice(pos - 1, pos, <<>>) /\ pos' = Back
        /\ phase' = phase /\ inverse' = inverse
    BY <1>2 DEF MergeUndone, DeletePrevAndCur, Unchanged
  <2>2. IsList(steps)'
    BY <2>1, NoneIsList, ReplacedPair
  <2> QED BY <2>1, <2>2, InMergeLoop DEF RuleKeeps
<1>3. CASE MergeUnits
  <2>1. /\ Merging /\ steps' = Splice(pos - 1, pos, <<MergedUnits(Prev, Cur)>>)
        /\ pos' = Back /\ phase' = phase /\ inverse' = inverse
    BY <1>3 DEF MergeUnits, ReplacePrevAndCur, Unchanged
  <2>2. IsList(steps)'
    BY <2>1, ShortLists, ReplacedPair
  <2> QED BY <2>1, <2>2, InMergeLoop DEF RuleKeeps
<1>4. CASE SwapUnitsAndAxes
  <2>1. /\ Merging /\ steps' = Splice(pos - 1, pos, <<Cur, Prev>>)
        /\ pos' = pos + 1 /\ phase' = phase /\ inverse' = inverse
    BY <1>4 DEF SwapUnitsAndAxes, Unchanged
  <2>2. IsList(steps)'
    BY <2>1, ShortLists, ReplacedPair
  <2> QED BY <2>1, <2>2, InMergeLoop DEF RuleKeeps
<1>5. CASE DropAxesAroundUnits
  <2>1. /\ Merging /\ HasNext /\ steps' = Splice(pos - 1, pos + 1, <<Cur>>)
        /\ pos' = Back /\ phase' = phase /\ inverse' = inverse
    BY <1>5 DEF DropAxesAroundUnits, AxesUnitsAxes, Unchanged
  <2>2. pos - 1 \in {pos - 1, pos} /\ pos + 1 \in pos - 1..Len(steps)
    BY <2>1, InMergeLoop DEF HasNext
  <2>3. IsList(steps)'
    BY <2>1, <2>2, InMergeLoop, ShortLists, SpliceIsList DEF IsList
  <2> QED BY <2>1, <2>3, InMergeLoop DEF RuleKeeps
<1>6. CASE MergeAxes
  <2>1. /\ Merging /\ steps' = [EraseCur EXCEPT ![pos - 1] = MergedAxes(Prev, Cur)]
        /\ pos' = pos /\ phase' = phase /\ inverse' = inverse
    BY <1>6 DEF MergeAxes, Unchanged
  <2> DEFINE k == Len(EraseCur)
  <2>2. k \in Nat /\ DOMAIN EraseCur = 1..k
    BY <2>1, EraseCurIsList, ListLength
  <2> HIDE DEF k
  <2>3. steps' = [i \in 1..k |-> (steps')[i]]
    BY <2>1, <2>2
  <2>4. IsList(steps)'
    BY <2>2, <2>3, FunctionIsList DEF IsList
  <2> QED BY <2>1, <2>4, InMergeLoop DEF RuleKeeps
<1>7. CASE DropSet
  <2>1. Merging /\ phase' = phase /\ inverse' = inverse
    BY <1>7 DEF DropSet, Unchanged
  <2>2. CASE steps' = EraseCur /\ pos' = pos
    BY <2>1, <2>2, InMergeLoop, EraseCurIsList DEF RuleKeeps, IsList
  <2>3. CASE ReplacePrevAndCur(Cur)
    <3>1. steps' = Splice(pos - 1, pos, <<Cur>>) /\ pos' = Back
      BY <2>3 DEF ReplacePrevAndCur
    <3>2. IsList(steps)'
      BY <2>1, <3>1, ShortLists, ReplacedPair
    <3> QED BY <2>1, <3>1, <3>2, InMergeLoop DEF RuleKeeps
  <2> QED BY <1>7, <2>2, <2>3 DEF DropSet
<1>8. CASE SumTranslations
  <2> DEFINE first == [EraseCur EXCEPT ![pos - 1].inv = FALSE]
             k == Len(EraseCur)
  <2>1. /\ Merging /\ steps' = [first EXCEPT ![pos - 1].par.t = Sum(Prev, Cur)]
        /\ pos' = pos /\ phase' = phase /\ inverse' = inverse
    BY <1>8 DEF SumTranslations, Unchanged
  <2>2. k \in Nat /\ DOMAIN EraseCur = 1..k
    BY <2>1, EraseCurIsList, ListLength
  <2>3. DOMAIN first = 1..k
    BY <2>2
  <2> HIDE DEF k, first
  <2>4. steps' = [i \in 1..k |-> (steps')[i]]
    BY <2>1, <2>3
  <2>5. IsList(steps)'
    BY <2>2, <2>4, FunctionIsList DEF IsList
  <2> QED BY <2>1, <2>5, InMergeLoop DEF RuleKeeps
<1>9. CASE TurnKrovak
  <2>1. /\ Merging /\ pos' = Back /\ phase' = phase /\ inverse' = inverse
        /\ steps' = Splice(pos - 1, pos, <<Step("axisswap", <<-2, -1, 3>>)>>)
    BY <1>9 DEF TurnKrovak, ReplacePrevAndCur, Unchanged
  <2>2. IsList(steps)'
    BY <2>1, ShortLists, ReplacedPair
  <2> QED BY <2>1, <2>2, InMergeLoop DEF RuleKeeps
<1>10. CASE MergeNothing
  <2>1. Merging /\ pos' = pos + 1 /\ UNCHANGED <<inverse, steps, phase>>
    BY <1>10 DEF MergeNothing
  <2> QED BY <2>1, InMergeLoop DEF RuleKeeps, IsList
<1> QED BY <1>1, <1>2, <1>3, <1>4, <1>5, <1>6, <1>7, <1>8, <1>9, <1>10

LEMMA GridLoopIInv ==
  ASSUME IInv, ~ErasesTheBeginning,
         \/ SaveAroundShift \/ DropConversions \/ MoveVerticalAfterPush \/ GridNothing
  PROVE  RuleKeeps
<1>1. CASE SaveAroundShift
  <2>1. /\ Gridding /\ Reaches(3) /\ pos' = pos + 1 /\ phase' = phase /\ inverse' = inverse
        /\ steps' = Splice(pos - 1, pos + 1,
                      <<Step("push", Horizontal), OmittedInInverse(Prev), Cur,
                        OmittedForward(Following)>> \o <<Step("pop", Horizontal)>>)
    BY <1>1 DEF SaveAroundShift, ShiftedHeight, Restored, Unchanged
  <2>2. pos - 1 \in {pos - 1, pos} /\ pos + 1 \in pos - 1..Len(steps)
    BY <2>1, InGridLoop DEF Reaches
  <2>3. IsList(steps)'
    BY <2>1, <2>2, InGridLoop, ShortLists, SpliceIsList DEF IsList
  <2> QED BY <2>1, <2>3, InGridLoop DEF RuleKeeps
<1>2. CASE DropConversions
  <2>1. /\ Gridding /\ SavedAroundVertical /\ pos' = pos - 1
        /\ phase' = phase /\ inverse' = inverse
        /\ steps' = Splice(pos - 1, pos + 7, <<Window(6), Window(7), Window(8)>>)
    BY <1>2 DEF DropConversions, Unchanged
  <2>2. pos # 2
    BY <2>1, InGridLoop DEF ErasesTheBeginning
  <2>3. pos - 1 \in {pos - 1, pos} /\ pos + 7 \in pos - 1..Len(steps)
    BY <2>1, InGridLoop DEF SavedAroundVertical, Reaches
  <2>4. IsList(steps)'
    BY <2>1, <2>3, InGridLoop, ShortLists, SpliceIsList DEF IsList
  <2> QED BY <2>1, <2>2, <2>4, InGridLoop DEF RuleKeeps
<1>3. CASE MoveVerticalAfterPush
  <2>1. /\ Gridding /\ Reaches(8) /\ pos' = pos /\ phase' = phase /\ inverse' = inverse
        /\ steps' = Splice(pos - 1, pos + 6, <<Window(6), Window(7), Window(8), Window(3)>>)
    BY <1>3 DEF MoveVerticalAfterPush, VerticalBeforePush, Unchanged
  <2>2. pos - 1 \in {pos - 1, pos} /\ pos + 6 \in pos - 1..Len(steps)
    BY <2>1, InGridLoop DEF Reaches
  <2>3. IsList(steps)'
    BY <2>1, <2>2, InGridLoop, ShortLists, SpliceIsList DEF IsList
  <2> QED BY <2>1, <2>3, InGridLoop DEF RuleKeeps
<1>4. CASE GridNothing
  <2>1. Gridding /\ pos' = pos + 1 /\ UNCHANGED <<inverse, steps, phase>>
    BY <1>4 DEF GridNothing
  <2> QED BY <2>1, InGridLoop DEF RuleKeeps, IsList
<1> QED BY <1>1, <1>2, <1>3, <1>4

-----------------------------------------------------------------------------
(* The last loop.                                                          *)

LEMMA LoopEndsIInv ==
  ASSUME IInv, MergeEnds \/ GridsEnd
  PROVE  IInv'
<1>1. /\ phase' \in {"grids", "cancel"} /\ pos' = 2
      /\ UNCHANGED <<inverse, steps>>
  BY DEF MergeEnds, GridsEnd, Goto
<1>2. IsList(steps) /\ Len(steps) \in Nat
  BY ListLength DEF IInv
<1>3. Scanned'
  BY <1>1, <1>2 DEF Scanned, NothingLeftToCancel
<1> QED BY <1>1, <1>2, <1>3 DEF IInv, IsList, Cursor

\* After a change the cursor goes back far enough: the pairs before it are the
\* ones that were before it already.
LEMMA CancelUndoneIInv ==
  ASSUME IInv, CancelUndone
  PROVE  IInv'
<1>1. /\ Cancelling /\ steps' = Splice(pos - 1, pos, <<>>) /\ pos' = Back
      /\ UNCHANGED <<inverse, phase>>
  BY DEF CancelUndone, DeletePrevAndCur, Unchanged
<1>2. /\ IsList(steps) /\ Len(steps) \in Nat /\ pos \in Nat
      /\ pos >= 2 /\ pos <= Len(steps) /\ phase = "cancel"
  BY <1>1, ListLength DEF IInv, Cursor, Cancelling
<1>3. pos - 1 \in 1..Len(steps) + 1 /\ pos \in pos - 1 - 1..Len(steps)
  BY <1>2
<1>4. /\ IsList(steps')
      /\ Len(steps') = Len(steps) - (pos - (pos - 1) + 1) + 0
      /\ \A n \in 1..pos - 1 - 1 : (steps')[n] = steps[n]
  BY <1>1, <1>2, <1>3, NoneIsList, Spliced
<1>5. Len(steps') = Len(steps) - 2
  BY <1>2, <1>4
<1>6. \A n \in 1..Len(steps') - 1 :
        n <= pos' - 2 => ~Cancels((steps')[n], (steps')[n + 1])
  <2> SUFFICES ASSUME NEW n \in 1..Len(steps') - 1, n <= pos' - 2
               PROVE  ~Cancels((steps')[n], (steps')[n + 1])
    OBVIOUS
  <2>1. n \in Nat /\ n >= 1 /\ pos > 4 /\ pos' = pos - 2
    BY <1>1, <1>2, <1>5 DEF Back
  <2>2. /\ n \in 1..Len(steps) - 1 /\ n <= pos - 2
        /\ n \in 1..pos - 1 - 1 /\ n + 1 \in 1..pos - 1 - 1
    BY <1>2, <1>5, <2>1
  <2>3. (steps')[n] = steps[n] /\ (steps')[n + 1] = steps[n + 1]
    BY <1>4, <2>2
  <2>4. ~Cancels(steps[n], steps[n + 1])
    BY <1>2, <2>2 DEF IInv, Scanned
  <2> QED BY <2>3, <2>4
<1>7. Scanned'
  BY <1>1, <1>2, <1>6 DEF Scanned, NothingLeftToCancel, Cancels, StepUndone, Is21, IsAxisSwap
<1>8. Cursor'
  BY <1>1, <1>2, BackIsSecond DEF Cursor
<1>9. IsList(steps)' /\ inverse' \in BOOLEAN
  BY <1>1, <1>4 DEF IInv, IsList
<1> QED BY <1>7, <1>8, <1>9 DEF IInv

LEMMA CancelNothingIInv ==
  ASSUME IInv, CancelNothing
  PROVE  IInv'
<1>1. /\ Cancelling /\ ~Cancels(steps[pos - 1], steps[pos]) /\ pos' = pos + 1
      /\ UNCHANGED <<inverse, steps, phase>>
  BY DEF CancelNothing, Prev, Cur
<1>2. /\ Len(steps) \in Nat /\ pos \in Nat /\ pos >= 2 /\ phase = "cancel"
  BY <1>1, ListLength DEF IInv, Cursor, Cancelling
<1>3. \A n \in 1..Len(steps) - 1 : n <= pos' - 2 => ~Cancels(steps[n], steps[n + 1])
  <2> SUFFICES ASSUME NEW n \in 1..Len(steps) - 1, n <= pos' - 2
               PROVE  ~Cancels(steps[n], steps[n + 1])
    OBVIOUS
  <2>1. CASE n <= pos - 2
    BY <1>2, <2>1 DEF IInv, Scanned
  <2>2. CASE ~(n <= pos - 2)
    <3>1. n = pos - 1 /\ n + 1 = pos
      BY <1>1, <1>2, <2>2
    <3> QED BY <1>1, <3>1
  <2> QED BY <2>1, <2>2
<1>4. Scanned'
  BY <1>1, <1>2, <1>3 DEF Scanned, NothingLeftToCancel
<1> QED BY <1>1, <1>2, <1>4 DEF IInv, IsList, Cursor

LEMMA CancelEndsIInv ==
  ASSUME IInv, CancelEnds
  PROVE  IInv'
<1>1. /\ phase = "cancel" /\ pos > Len(steps) /\ phase' = "done" /\ pos' = 1
      /\ UNCHANGED <<inverse, steps>>
  BY DEF CancelEnds, Goto
<1>2. Len(steps) \in Nat /\ pos \in Nat
  BY ListLength DEF IInv, Cursor
<1>3. \A n \in 1..Len(steps) - 1 : n <= pos - 2
  BY <1>1, <1>2
<1>4. \A n \in 1..Len(steps) - 1 : ~Cancels(steps[n], steps[n + 1])
  BY <1>1, <1>3 DEF IInv, Scanned
<1>5. Scanned'
  BY <1>1, <1>4 DEF Scanned, NothingLeftToCancel
<1> QED BY <1>1, <1>5 DEF IInv, IsList, Cursor

-----------------------------------------------------------------------------
(* The invariant, and the theorems.                                        *)

LEMMA NextIInv ==
  ASSUME IInv, ~ErasesTheBeginning, [Next]_vars
  PROVE  IInv'
<1>1. CASE RemoveStep \/ KeepStep \/ Uninvert
  BY <1>1, RemoveStepIInv, KeepStepIInv, UninvertIInv
<1>2. CASE \/ DropLonglat \/ MergeUndone \/ MergeUnits \/ SwapUnitsAndAxes
           \/ DropAxesAroundUnits \/ MergeAxes \/ DropSet \/ SumTranslations
           \/ TurnKrovak \/ MergeNothing \/ MergeEnds
  BY <1>2, MergeLoopIInv, RuleKeepsIInv, LoopEndsIInv
<1>3. CASE \/ SaveAroundShift \/ DropConversions \/ MoveVerticalAfterPush \/ GridNothing
  BY <1>3, GridLoopIInv, RuleKeepsIInv
<1>4. CASE GridsEnd \/ CancelUndone \/ CancelNothing \/ CancelEnds
  BY <1>4, LoopEndsIInv, CancelUndoneIInv, CancelNothingIInv, CancelEndsIInv
<1>5. CASE UNCHANGED vars
  BY <1>5 DEF vars, IInv, IsList, Cursor, Scanned, NothingLeftToCancel
<1> QED BY <1>1, <1>2, <1>3, <1>4, <1>5 DEF Next

LEMMA Inductive == Spec /\ []~ErasesTheBeginning => []IInv
<1>1. Init => IInv
  BY InitIInv
<1>2. IInv /\ ~ErasesTheBeginning /\ [Next]_vars => IInv'
  BY NextIInv
<1> QED BY <1>1, <1>2, PTL DEF Spec

\* The loops never look before the first step: for pipelines of any length, the
\* cursor is where the source asserts at the head of each loop, unless the rule
\* for a vertical grid erases the beginning of the list.
THEOREM CursorStays == Spec /\ []~ErasesTheBeginning => []TypeOK
<1>1. IInv => TypeOK
  BY DEF IInv, Cursor, TypeOK
<1> QED BY <1>1, Inductive, PTL

\* The last loop of toString goes back far enough after each change: when it
\* ends, no step is next to its inverse and no two exchanges of axes are
\* adjacent, whatever was in the list.
THEOREM NothingIsLeft == Spec /\ []~ErasesTheBeginning => []NothingLeftToCancel
<1>1. IInv => NothingLeftToCancel
  BY DEF IInv, Scanned
<1> QED BY <1>1, Inductive, PTL

LEMMA LeastOf ==
  ASSUME NEW T, T \subseteq Nat, T # {}
  PROVE \E x \in T : \A y \in T : x <= y
<1> DEFINE R == {ss \in Nat \X Nat : ss[1] < ss[2]}
<1>1. IsWellFoundedOn(R, Nat)
  BY NatLessThanWellFounded DEF OpToRel
<1> HIDE DEF R
<1>2. PICK x \in T : \A y \in T : ~(<<y, x>> \in R)
  BY <1>1, WFMin
<1>3. \A y \in T : ~(y < x)
  BY <1>2 DEF R
<1> QED BY <1>3

\* Induction for a property that is given as a set.
LEMMA Induct ==
  ASSUME NEW n \in Nat, NEW S, 0 \in S, \A i \in 1..n : i - 1 \in S => i \in S
  PROVE  \A i \in 0..n : i \in S
<1> DEFINE T == {i \in 0..n : i \notin S}
<1> SUFFICES ASSUME T # {} PROVE FALSE
  OBVIOUS
<1>1. PICK i \in T : \A j \in T : i <= j
  <2>1. T \subseteq Nat
    OBVIOUS
  <2> HIDE DEF T
  <2> QED BY <2>1, LeastOf
<1>2. i \in 0..n /\ i # 0 /\ i \notin S
  BY <1>1
<1>3. i \in 1..n /\ i - 1 \in 0..n /\ ~(i <= i - 1)
  BY <1>2
<1>4. i - 1 \in S
  <2>1. i - 1 \notin T
    <3> HIDE DEF T
    <3> QED BY <1>1, <1>3
  <2> QED BY <2>1, <1>3
<1> QED BY <1>2, <1>3, <1>4

-----------------------------------------------------------------------------
(* What a pipeline computes, as a run through its steps.                   *)

Fwd(s, c) == CASE s.omit = "fwd" -> c
               [] s.omit # "fwd" /\ s.inv -> Backward(s, c)
               [] OTHER -> Forward(s, c)
Rev(s, c) == CASE s.omit = "inv" -> c
               [] s.omit # "inv" /\ s.inv -> Forward(s, c)
               [] OTHER -> Backward(s, c)

IsRun(t, list, c) ==
  t[0] = c /\ \A n \in 1..Len(list) : t[n] = Fwd(list[n], t[n - 1])
IsReverseRun(t, list, c) ==
  t[Len(list) + 1] = c /\ \A n \in 1..Len(list) : t[n] = Rev(list[n], t[n + 1])

LEMMA RunExists ==
  ASSUME NEW list, Len(list) \in Nat, NEW c
  PROVE  \E t : IsRun(t, list, c)
<1> DEFINE Upto(t, n) == t[0] = c /\ \A k \in 1..n : t[k] = Fwd(list[k], t[k - 1])
           S == {n \in 0..Len(list) : \E t : Upto(t, n)}
<1>1. 0 \in S
  <2> DEFINE t == [k \in {0} |-> c]
  <2>1. Upto(t, 0)
    OBVIOUS
  <2> HIDE DEF Upto
  <2> QED BY <2>1
<1>2. ASSUME NEW i \in 1..Len(list), i - 1 \in S PROVE i \in S
  <2>1. PICK t : Upto(t, i - 1)
    <3> HIDE DEF Upto
    <3> QED BY <1>2
  <2> DEFINE u == [k \in 0..i |-> IF k = i THEN Fwd(list[i], t[i - 1]) ELSE t[k]]
  <2>2. u[0] = c
    BY <2>1
  <2>3. ASSUME NEW k \in 1..i PROVE u[k] = Fwd(list[k], u[k - 1])
    <3>1. k \in 0..i /\ k - 1 \in 0..i /\ k - 1 # i /\ i \in Nat
      BY <1>2, <2>3
    <3>2. u[k - 1] = t[k - 1]
      BY <3>1
    <3>3. CASE k = i
      <4>1. u[k] = Fwd(list[i], t[i - 1])
        BY <3>1, <3>3
      <4> QED BY <3>2, <3>3, <4>1
    <3>4. CASE k # i
      <4>1. u[k] = t[k]
        BY <3>1, <3>4
      <4>2. k \in 1..i - 1
        BY <3>1, <3>4
      <4>3. t[k] = Fwd(list[k], t[k - 1])
        BY <2>1, <4>2
      <4> HIDE DEF u
      <4> QED BY <3>2, <4>1, <4>3
    <3> QED BY <3>3, <3>4
  <2> HIDE DEF u
  <2>4. Upto(u, i)
    BY <2>2, <2>3
  <2> HIDE DEF Upto
  <2> QED BY <2>4
<1> HIDE DEF Upto
<1>3. \A i \in 0..Len(list) : i \in S
  <2> HIDE DEF S
  <2> QED BY <1>1, <1>2, Induct
<1>4. Len(list) \in S
  BY <1>3
<1> USE DEF Upto
<1> QED BY <1>4 DEF IsRun

LEMMA RunForwardIs ==
  ASSUME NEW list, Len(list) \in Nat, NEW c, NEW t, IsRun(t, list, c)
  PROVE  RunForward(list, c) = t[Len(list)]
<1> DEFINE Row(f, n) == IF n = 0 THEN c ELSE Fwd(list[n], f[n - 1])
           after == CHOOSE f : f = [n \in 0..Len(list) |-> Row(f, n)]
           u == [n \in 0..Len(list) |-> t[n]]
<1>1. RunForward(list, c) = after[Len(list)]
  BY DEF RunForward, Fwd
<1>2. \A n \in 0..Len(list) : u[n] = Row(u, n)
  <2> TAKE n \in 0..Len(list)
  <2>1. CASE n = 0
    BY <2>1 DEF IsRun
  <2>2. CASE n # 0
    <3>1. n \in 1..Len(list) /\ n - 1 \in 0..Len(list)
      BY <2>2
    <3>2. u[n - 1] = t[n - 1] /\ u[n] = t[n]
      BY <3>1
    <3> HIDE DEF u
    <3> QED BY <2>2, <3>1, <3>2 DEF IsRun
  <2> QED BY <2>1, <2>2
<1>3. u = [n \in 0..Len(list) |-> Row(u, n)]
  <2> HIDE DEF Row
  <2> QED BY <1>2
<1>4. after = [n \in 0..Len(list) |-> Row(after, n)]
  <2> HIDE DEF Row, u
  <2> QED BY <1>3, Zenon
<1> HIDE DEF after, u
<1>5. \A n \in 0..Len(list) : after[n] = Row(after, n)
  <2> HIDE DEF Row
  <2> QED BY <1>4, Zenon
<1> DEFINE S == {n \in 0..Len(list) : after[n] = t[n]}
<1>6. 0 \in S
  BY <1>5 DEF IsRun
<1>7. ASSUME NEW i \in 1..Len(list), i - 1 \in S PROVE i \in S
  <2>1. i \in 0..Len(list) /\ i # 0
    BY <1>7
  <2>2. after[i] = Fwd(list[i], after[i - 1])
    BY <2>1, <1>5
  <2>3. t[i] = Fwd(list[i], t[i - 1])
    BY DEF IsRun
  <2>4. after[i - 1] = t[i - 1]
    BY <1>7
  <2> QED BY <2>1, <2>2, <2>3, <2>4
<1>8. \A i \in 0..Len(list) : i \in S
  <2> HIDE DEF S
  <2> QED BY <1>6, <1>7, Induct
<1> QED BY <1>1, <1>8

Flip(s) == [name |-> s.name, inv |-> ~s.inv, par |-> s.par, omit |-> OtherOmit(s.omit)]

LEMMA FlipIs ==
  ASSUME NEW s, s.inv \in BOOLEAN, NEW c
  PROVE  Fwd(Flip(s), c) = Rev(s, c)
<1> DEFINE f == Flip(s)
<1>1. /\ f.name = s.name /\ f.par = s.par /\ f.inv = ~s.inv
      /\ f.omit = "fwd" <=> s.omit = "inv"
  BY DEF Flip, OtherOmit
<1> HIDE DEF f
<1>2. Forward(f, c) = Forward(s, c) /\ Backward(f, c) = Backward(s, c)
  <2>1. Forward(f, c) = Forward(s, c)
    BY <1>1, Zenon DEF Forward
  <2>2. Backward(f, c) = Backward(s, c)
    BY <1>1, Zenon DEF Backward
  <2> QED BY <2>1, <2>2
<1>3. CASE s.omit = "inv"
  BY <1>1, <1>3 DEF Fwd, Rev, f
<1>4. CASE s.omit # "inv" /\ s.inv
  <2>1. f.omit # "fwd" /\ ~f.inv
    BY <1>1, <1>4
  <2>2. Fwd(f, c) = Forward(f, c)
    BY <2>1 DEF Fwd
  <2>3. Rev(s, c) = Forward(s, c)
    BY <1>4 DEF Rev
  <2> QED BY <1>2, <2>2, <2>3 DEF f
<1>5. CASE s.omit # "inv" /\ ~s.inv
  <2>1. f.omit # "fwd" /\ f.inv
    BY <1>1, <1>5
  <2>2. Fwd(f, c) = Backward(f, c)
    BY <2>1 DEF Fwd
  <2>3. Rev(s, c) = Backward(s, c)
    BY <1>5 DEF Rev
  <2> QED BY <1>2, <2>2, <2>3 DEF f
<1> QED BY <1>3, <1>4, <1>5

Flipped(list) == [n \in 1..Len(list) |-> Flip(list[Len(list) + 1 - n])]

LEMMA ReverseRunExists ==
  ASSUME NEW list, Len(list) \in Nat, \A n \in 1..Len(list) : list[n].inv \in BOOLEAN, NEW c
  PROVE  \E u : /\ IsReverseRun(u, list, c)
                /\ u[1] = RunForward(Flipped(list), c)
<1> DEFINE N == Len(list)
           b == Flipped(list)
<1>1. Len(b) = N /\ \A n \in 1..N : b[n] = Flip(list[N + 1 - n])
  BY DEF Flipped
<1> HIDE DEF b
<1>2. PICK t : IsRun(t, b, c)
  BY <1>1, RunExists
<1>3. RunForward(b, c) = t[N]
  BY <1>1, <1>2, RunForwardIs
<1> DEFINE u == [n \in 1..N + 1 |-> t[N + 1 - n]]
<1>4. u[N + 1] = c /\ u[1] = t[N]
  BY <1>2 DEF IsRun
<1>5. ASSUME NEW n \in 1..N PROVE u[n] = Rev(list[n], u[n + 1])
  <2>1. /\ n \in 1..N + 1 /\ n + 1 \in 1..N + 1 /\ N + 1 - n \in 1..N
        /\ N + 1 - (n + 1) = N + 1 - n - 1 /\ N + 1 - (N + 1 - n) = n
    BY <1>5
  <2>2. u[n] = t[N + 1 - n] /\ u[n + 1] = t[N + 1 - n - 1]
    BY <2>1
  <2>3. t[N + 1 - n] = Fwd(b[N + 1 - n], t[N + 1 - n - 1])
    BY <1>1, <1>2, <2>1 DEF IsRun
  <2>4. b[N + 1 - n] = Flip(list[n])
    BY <1>1, <2>1
  <2> HIDE DEF u, N
  <2> QED BY <1>5, <2>2, <2>3, <2>4, FlipIs DEF N
<1> HIDE DEF u
<1> QED BY <1>1, <1>3, <1>4, <1>5 DEF IsReverseRun, b

LEMMA RunReverseIs ==
  ASSUME NEW list, Len(list) \in Nat, NEW c, NEW t, IsReverseRun(t, list, c)
  PROVE  RunReverse(list, c) = t[1]
<1> DEFINE N == Len(list)
           Row(f, n) == IF n = N + 1 THEN c ELSE Rev(list[n], f[n + 1])
           after == CHOOSE f : f = [n \in 1..N + 1 |-> Row(f, n)]
           u == [n \in 1..N + 1 |-> t[n]]
<1>1. RunReverse(list, c) = after[1]
  BY DEF RunReverse, Rev
<1>2. \A n \in 1..N + 1 : u[n] = Row(u, n)
  <2> TAKE n \in 1..N + 1
  <2>1. CASE n = N + 1
    BY <2>1 DEF IsReverseRun
  <2>2. CASE n # N + 1
    <3>1. n \in 1..N /\ n + 1 \in 1..N + 1
      BY <2>2
    <3>2. u[n + 1] = t[n + 1] /\ u[n] = t[n]
      BY <3>1
    <3> HIDE DEF u
    <3> QED BY <2>2, <3>1, <3>2 DEF IsReverseRun
  <2> QED BY <2>1, <2>2
<1>3. u = [n \in 1..N + 1 |-> Row(u, n)]
  <2> HIDE DEF Row
  <2> QED BY <1>2
<1>4. after = [n \in 1..N + 1 |-> Row(after, n)]
  <2> HIDE DEF Row, u
  <2> QED BY <1>3, Zenon
<1> HIDE DEF after, u
<1>5. \A n \in 1..N + 1 : after[n] = Row(after, n)
  <2> HIDE DEF Row
  <2> QED BY <1>4, Zenon
<1> DEFINE S == {n \in 0..N : after[N + 1 - n] = t[N + 1 - n]}
<1>6. 0 \in S
  <2>1. N + 1 \in 1..N + 1 /\ N + 1 - 0 = N + 1
    OBVIOUS
  <2> QED BY <1>5, <2>1 DEF IsReverseRun
<1>7. ASSUME NEW i \in 1..N, i - 1 \in S PROVE i \in S
  <2>1. N + 1 - i \in 1..N /\ N + 1 - (i - 1) = N + 1 - i + 1 /\ N + 1 - i # N + 1 /\ i \in 0..N
        /\ N + 1 - i \in 1..N + 1
    BY <1>7
  <2>2. after[N + 1 - i] = Rev(list[N + 1 - i], after[N + 1 - i + 1])
    BY <2>1, <1>5
  <2>3. t[N + 1 - i] = Rev(list[N + 1 - i], t[N + 1 - i + 1])
    BY <2>1 DEF IsReverseRun
  <2>4. after[N + 1 - (i - 1)] = t[N + 1 - (i - 1)]
    BY <1>7
  <2> QED BY <2>1, <2>2, <2>3, <2>4
<1>8. \A i \in 0..N : i \in S
  <2> HIDE DEF S
  <2> QED BY <1>6, <1>7, Induct
<1>9. N \in S /\ N + 1 - N = 1
  BY <1>8
<1> QED BY <1>1, <1>9

LEMMA ReverseIsForwardOfFlipped ==
  ASSUME NEW list, Len(list) \in Nat, \A n \in 1..Len(list) : list[n].inv \in BOOLEAN, NEW c
  PROVE  RunReverse(list, c) = RunForward(Flipped(list), c)
BY ReverseRunExists, RunReverseIs

-----------------------------------------------------------------------------
(* Pipelines one after the other.                                          *)

LEMMA ForwardConcat ==
  ASSUME NEW S, NEW a \in Seq(S), NEW b \in Seq(S), NEW c
  PROVE  RunForward(a \o b, c) = RunForward(b, RunForward(a, c))
<1>1. /\ Len(a) \in Nat /\ Len(b) \in Nat /\ Len(a \o b) = Len(a) + Len(b)
      /\ \A n \in 1..Len(a) : (a \o b)[n] = a[n]
      /\ \A n \in 1..Len(b) : (a \o b)[Len(a) + n] = b[n]
  OBVIOUS
<1>2. PICK t : IsRun(t, a, c)
  BY <1>1, RunExists
<1>3. PICK u : IsRun(u, b, t[Len(a)])
  BY <1>1, RunExists
<1> DEFINE ab == a \o b
           A == Len(a)
           B == Len(b)
           r == [n \in 0..A + B |-> IF n <= A THEN t[n] ELSE u[n - A]]
<1>4. r[0] = c /\ r[A + B] = u[B]
  <2>1. u[0] = t[A] /\ t[0] = c
    BY <1>2, <1>3 DEF IsRun
  <2>2. A + B <= A => B = 0 /\ A + B = A
    BY <1>1
  <2>3. A + B - A = B /\ 0 \in 0..A + B /\ A + B \in 0..A + B /\ 0 <= A
    BY <1>1
  <2> HIDE DEF A, B
  <2>4. r[0] = t[0]
    BY <2>3
  <2>5. r[A + B] = IF A + B <= A THEN t[A + B] ELSE u[B]
    <3>1. A \in Nat /\ B \in Nat
      BY <1>1 DEF A, B
    <3> QED BY <2>3, <3>1
  <2> HIDE DEF r
  <2>6. CASE A + B <= A
    <3>1. r[A + B] = t[A] /\ u[B] = u[0]
      BY <2>2, <2>5, <2>6
    <3> QED BY <2>1, <2>4, <3>1
  <2>7. CASE ~(A + B <= A)
    BY <2>1, <2>4, <2>5, <2>7
  <2> QED BY <2>6, <2>7
<1>5. ASSUME NEW n \in 1..A + B PROVE r[n] = Fwd(ab[n], r[n - 1])
  <2>0. n \in 0..A + B /\ n - 1 \in 0..A + B /\ n \in Nat /\ A \in Nat
    BY <1>1, <1>5
  <2>1. CASE n <= A
    <3>1. n \in 1..A /\ n - 1 <= A
      BY <1>1, <2>1
    <3>2. r[n] = t[n] /\ r[n - 1] = t[n - 1]
      BY <2>0, <2>1, <3>1
    <3>3. ab[n] = a[n]
      BY <1>1, <3>1
    <3>4. t[n] = Fwd(a[n], t[n - 1])
      BY <1>2, <3>1 DEF IsRun
    <3> HIDE DEF r, ab
    <3> QED BY <3>2, <3>3, <3>4
  <2>2. CASE n > A
    <3>1. n - A \in 1..B /\ A + (n - A) = n /\ n - 1 - A = n - A - 1 /\ ~(n <= A)
      BY <1>1, <1>5, <2>2, SMTT(60)
    <3>2. r[n] = u[n - A]
      BY <2>0, <3>1
    <3>3. r[n - 1] = u[n - A - 1]
      <4>1. CASE n = A + 1
        <5>1. n - 1 = A /\ n - A - 1 = 0 /\ A <= A
          BY <1>1, <4>1
        <5>2. r[n - 1] = t[A]
          BY <2>0, <5>1
        <5> QED BY <5>1, <5>2, <1>3 DEF IsRun
      <4>2. CASE n # A + 1
        <5>1. ~(n - 1 <= A)
          BY <1>1, <2>2, <2>0, <4>2
        <5> QED BY <2>0, <3>1, <5>1
      <4> QED BY <4>1, <4>2
    <3>4. ab[n] = b[n - A]
      BY <1>1, <3>1
    <3>5. u[n - A] = Fwd(b[n - A], u[n - A - 1])
      BY <1>3, <3>1 DEF IsRun
    <3> HIDE DEF r, ab
    <3> QED BY <3>2, <3>3, <3>4, <3>5
  <2> QED BY <2>0, <2>1, <2>2
<1> HIDE DEF r
<1>6. IsRun(r, ab, c)
  BY <1>1, <1>4, <1>5 DEF IsRun
<1>7. RunForward(ab, c) = r[A + B]
  <2>1. Len(ab) \in Nat /\ Len(ab) = A + B
    BY <1>1
  <2> HIDE DEF ab, A, B
  <2> QED BY <1>6, <2>1, RunForwardIs
<1>8. RunForward(a, c) = t[A] /\ RunForward(b, t[A]) = u[B]
  BY <1>1, <1>2, <1>3, RunForwardIs
<1> QED BY <1>4, <1>7, <1>8

LEMMA ReverseConcat ==
  ASSUME NEW S, NEW a \in Seq(S), NEW b \in Seq(S), NEW c,
         \A n \in 1..Len(a) : a[n].inv \in BOOLEAN,
         \A n \in 1..Len(b) : b[n].inv \in BOOLEAN
  PROVE  RunReverse(a \o b, c) = RunReverse(a, RunReverse(b, c))
<1>1. /\ Len(a) \in Nat /\ Len(b) \in Nat /\ Len(a \o b) = Len(a) + Len(b)
      /\ \A n \in 1..Len(a) : (a \o b)[n] = a[n]
      /\ \A n \in 1..Len(b) : (a \o b)[Len(a) + n] = b[n]
  OBVIOUS
<1>2. PICK u : IsReverseRun(u, b, c)
  BY <1>1, ReverseRunExists
<1>3. PICK t : IsReverseRun(t, a, u[1])
  BY <1>1, ReverseRunExists
<1> DEFINE ab == a \o b
           A == Len(a)
           B == Len(b)
           r == [n \in 1..A + B + 1 |-> IF n <= A THEN t[n] ELSE u[n - A]]
<1>4. r[A + B + 1] = c /\ r[1] = t[1]
  <2>1. u[B + 1] = c /\ t[A + 1] = u[1]
    BY <1>2, <1>3 DEF IsReverseRun
  <2>2. A + B + 1 - A = B + 1 /\ A + B + 1 \in 1..A + B + 1 /\ ~(A + B + 1 <= A)
        /\ 1 \in 1..A + B + 1 /\ (~(1 <= A) => 1 - A = 1 /\ A + 1 = 1)
    BY <1>1
  <2> HIDE DEF A, B
  <2>3. r[A + B + 1] = u[B + 1]
    <3>1. A \in Nat /\ B \in Nat
      BY <1>1 DEF A, B
    <3> QED BY <2>2, <3>1
  <2>4. r[1] = IF 1 <= A THEN t[1] ELSE u[1 - A]
    BY <2>2
  <2> HIDE DEF r
  <2>5. CASE 1 <= A
    BY <2>1, <2>3, <2>4, <2>5
  <2>6. CASE ~(1 <= A)
    <3>1. r[1] = u[1] /\ t[A + 1] = t[1]
      BY <2>2, <2>4, <2>6
    <3> QED BY <2>1, <2>3, <3>1
  <2> QED BY <2>5, <2>6
<1>5. ASSUME NEW n \in 1..A + B PROVE r[n] = Rev(ab[n], r[n + 1])
  <2>0. n \in 1..A + B + 1 /\ n + 1 \in 1..A + B + 1 /\ n \in Nat /\ A \in Nat
    BY <1>1, <1>5
  <2>1. CASE n <= A
    <3>1. n \in 1..A
      BY <1>1, <2>0, <2>1
    <3>2. r[n] = t[n]
      BY <2>0, <2>1
    <3>3. ab[n] = a[n]
      BY <1>1, <3>1
    <3>4. t[n] = Rev(a[n], t[n + 1])
      BY <1>3, <3>1 DEF IsReverseRun
    <3>5. r[n + 1] = t[n + 1]
      <4>1. CASE n = A
        <5>1. n + 1 = A + 1 /\ ~(n + 1 <= A) /\ n + 1 - A = 1
          BY <2>0, <4>1
        <5>2. r[n + 1] = u[1]
          BY <2>0, <5>1
        <5> QED BY <5>1, <5>2, <1>3 DEF IsReverseRun
      <4>2. CASE n # A
        <5>1. n + 1 <= A
          BY <2>0, <2>1, <4>2
        <5> QED BY <2>0, <5>1
      <4> QED BY <4>1, <4>2
    <3> HIDE DEF r, ab
    <3> QED BY <3>2, <3>3, <3>4, <3>5
  <2>2. CASE n > A
    <3>1. n - A \in 1..B /\ A + (n - A) = n /\ n + 1 - A = n - A + 1
          /\ ~(n <= A) /\ ~(n + 1 <= A)
      BY <1>1, <1>5, <2>0, <2>2
    <3>2. r[n] = u[n - A] /\ r[n + 1] = u[n - A + 1]
      BY <2>0, <3>1
    <3>4. ab[n] = b[n - A]
      BY <1>1, <3>1
    <3>5. u[n - A] = Rev(b[n - A], u[n - A + 1])
      BY <1>2, <3>1 DEF IsReverseRun
    <3> HIDE DEF r, ab
    <3> QED BY <3>2, <3>4, <3>5
  <2> QED BY <2>0, <2>1, <2>2
<1> HIDE DEF r
<1>6. IsReverseRun(r, ab, c)
  BY <1>1, <1>4, <1>5 DEF IsReverseRun
<1>7. RunReverse(ab, c) = r[1]
  <2>1. Len(ab) \in Nat
    BY <1>1
  <2> HIDE DEF ab
  <2> QED BY <1>6, <2>1, RunReverseIs
<1>8. RunReverse(b, c) = u[1] /\ RunReverse(a, u[1]) = t[1]
  BY <1>1, <1>2, <1>3, RunReverseIs
<1> QED BY <1>4, <1>7, <1>8

LEMMA ModIs ==
  ASSUME NEW a \in Int
  PROVE  /\ a % M \in 0..M - 1
         /\ \E q \in Int : a = 7 * q + (a % M)
BY DEF M

LEMMA ModUnique ==
  ASSUME NEW a \in Int, NEW q \in Int, NEW r \in 0..M - 1, a = 7 * q + r
  PROVE  a % M = r
BY DEF M

LEMMA ModAdd ==
  ASSUME NEW a \in Int, NEW b \in Int
  PROVE  ((a % M) + b) % M = (a + b) % M
BY DEF M

LEMMA ModTimes ==
  ASSUME NEW a \in Int, NEW b \in Int
  PROVE  ((a % M) * b) % M = (a * b) % M
<1>1. PICK q \in Int : a = 7 * q + (a % M)
  BY ModIs
<1>2. (a % M) \in Int
  BY ModIs
<1> DEFINE r == a % M
<1>3. a * b = 7 * (q * b) + r * b
  <2> HIDE DEF r
  <2>1. a = 7 * q + r /\ r \in Int
    BY <1>1, <1>2 DEF r
  <2> QED BY <2>1
<1>4. q * b \in Int /\ r * b \in Int
  BY <1>2
<1> HIDE DEF r
<1> DEFINE x == q * b
           y == r * b
<1>5. x \in Int /\ y \in Int /\ a * b = 7 * x + y
  BY <1>3, <1>4
<1> HIDE DEF x, y
<1>6. (7 * x + y) % M = y % M
  BY <1>5 DEF M
<1> QED BY <1>5, <1>6 DEF y, r

LEMMA ReciprocalIs ==
  /\ Reciprocal(1) = 1 /\ Reciprocal(2) = 4 /\ Reciprocal(3) = 5 /\ Reciprocal(5) = 3
<1>1. M = 7 /\ 1..M-1 = {1,2,3,4,5,6}
  BY DEF M
<1>2. Reciprocal(1) = 1
  <2>1. \A b \in {1,2,3,4,5,6} : (1 * b) % 7 = 1 <=> b = 1
    OBVIOUS
  <2> QED BY <1>1, <2>1 DEF Reciprocal
<1>3. Reciprocal(2) = 4
  <2>1. \A b \in {1,2,3,4,5,6} : (2 * b) % 7 = 1 <=> b = 4
    OBVIOUS
  <2> QED BY <1>1, <2>1 DEF Reciprocal
<1>4. Reciprocal(3) = 5
  <2>1. \A b \in {1,2,3,4,5,6} : (3 * b) % 7 = 1 <=> b = 5
    OBVIOUS
  <2> QED BY <1>1, <2>1 DEF Reciprocal
<1>5. Reciprocal(5) = 3
  <2>1. \A b \in {1,2,3,4,5,6} : (5 * b) % 7 = 1 <=> b = 3
    OBVIOUS
  <2> QED BY <1>1, <2>1 DEF Reciprocal
<1> QED BY <1>2, <1>3, <1>4, <1>5

LEMMA FactorIs ==
  ASSUME NEW u \in Unit
  PROVE  /\ Factor[u] \in {1, 2, 3, 5}
         /\ Reciprocal(Factor[u]) \in Nat
         /\ (Factor[u] * Reciprocal(Factor[u])) % M = 1
<1>1. Factor[u] \in {1, 2, 3, 5}
  BY DEF Unit, Factor
<1> QED BY <1>1, ReciprocalIs DEF M

LEMMA RatioIs ==
  ASSUME NEW u \in Unit, NEW w \in Unit
  PROVE  /\ Ratio(<<u, w>>) = Factor[u] * Reciprocal(Factor[w])
         /\ Ratio(<<u, w>>) \in Nat
<1>1. <<u, w>> # <<>>
  OBVIOUS
<1>2. Ratio(<<u, w>>) = Factor[u] * Reciprocal(Factor[w])
  BY <1>1 DEF Ratio
<1> QED BY <1>2, FactorIs

-----------------------------------------------------------------------------
(* The values and the stacks between two steps.                            *)

Between == [v : Coordinates, stack : [1..4 -> Seq(0..M - 1)]]

LEMMA SameBetween ==
  ASSUME NEW c \in Between, NEW d \in Between,
         c.stack = d.stack, \A i \in 1..4 : c.v[i] = d.v[i]
  PROVE  c = d
<1>1. c.v \in [1..4 -> 0..M - 1] /\ d.v \in [1..4 -> 0..M - 1]
  BY DEF Between, Coordinates
<1>2. c.v = d.v
  BY <1>1
<1>3. c = [v |-> c.v, stack |-> c.stack] /\ d = [v |-> d.v, stack |-> d.stack]
  BY DEF Between
<1> QED BY <1>2, <1>3

LEMMA ValuesIs ==
  ASSUME NEW c \in Between, NEW w, \A i \in 1..4 : w[i] \in Int
  PROVE  /\ Values(c, w) \in Between
         /\ Values(c, w).stack = c.stack
         /\ \A i \in 1..4 : Values(c, w).v[i] = w[i] % M
<1> DEFINE x == [i \in 1..4 |-> w[i] % M]
<1>1. x \in Coordinates /\ \A i \in 1..4 : x[i] = w[i] % M
  BY ModIs DEF Coordinates
<1>2. Values(c, w) = [c EXCEPT !.v = x]
  BY DEF Values
<1> HIDE DEF x
<1> QED BY <1>1, <1>2 DEF Between

LEMMA CoordinatesAre ==
  ASSUME NEW c \in Between
  PROVE  \A i \in 1..4 : c.v[i] \in 0..M - 1 /\ c.v[i] \in Int /\ c.v[i] % M = c.v[i]
BY DEF Between, Coordinates, M

\* What a step does to one coordinate is undone.
LEMMA Undo ==
  ASSUME NEW c \in Between, NEW w, NEW u,
         \A i \in 1..4 : w[i] \in Int /\ u[i] \in Int /\ u[i] % M = c.v[i]
  PROVE  Values(Values(c, w), u) = c
BY ValuesIs, SameBetween

-----------------------------------------------------------------------------
(* Conversions of units.                                                   *)

LEMMA RatioType ==
  ASSUME NEW p \in Pair
  PROVE  Ratio(p) \in Nat /\ Swapped(p) \in Pair /\ Swapped(Swapped(p)) = p
<1>1. CASE p = <<>>
  BY <1>1 DEF Ratio, Swapped, Pair
<1>2. CASE p # <<>>
  <2>1. PICK u \in Unit, w \in Unit : p = <<u, w>>
    BY <1>2 DEF Pair
  <2>2. Swapped(p) = <<w, u>> /\ <<w, u>> # <<>>
    BY <1>2, <2>1 DEF Swapped
  <2>3. Swapped(Swapped(p)) = p
    BY <2>1, <2>2 DEF Swapped
  <2> QED BY <2>1, <2>2, <2>3, RatioIs DEF Pair
<1> QED BY <1>1, <1>2

LEMMA RatioUndone ==
  ASSUME NEW p \in Pair
  PROVE  (Ratio(p) * Ratio(Swapped(p))) % M = 1
<1>1. CASE p = <<>>
  BY <1>1 DEF Ratio, Swapped, M
<1>2. CASE p # <<>>
  <2>1. PICK u \in Unit, w \in Unit : p = <<u, w>>
    BY <1>2 DEF Pair
  <2>2. Swapped(p) = <<w, u>>
    BY <1>2, <2>1 DEF Swapped
  <2>3. /\ Ratio(p) = Factor[u] * Reciprocal(Factor[w])
        /\ Ratio(Swapped(p)) = Factor[w] * Reciprocal(Factor[u])
    BY <2>1, <2>2, RatioIs
  <2>4. Factor[u] \in {1, 2, 3, 5} /\ Factor[w] \in {1, 2, 3, 5}
    BY FactorIs
  <2> QED BY <2>3, <2>4, ReciprocalIs DEF M
<1> QED BY <1>1, <1>2

LEMMA RatioChained ==
  ASSUME NEW p \in Pair, NEW q \in Pair, Chains(p, q)
  PROVE  Chained(p, q) \in Pair /\ Ratio(Chained(p, q)) % M = (Ratio(p) * Ratio(q)) % M
<1>1. CASE p = <<>>
  <2>1. Ratio(p) = 1 /\ Chained(p, q) = q
    BY <1>1 DEF Ratio, Chained
  <2> QED BY <2>1, RatioType
<1>2. CASE p # <<>> /\ q = <<>>
  <2>1. Ratio(q) = 1 /\ Chained(p, q) = p
    BY <1>2 DEF Ratio, Chained
  <2> QED BY <2>1, RatioType
<1>3. CASE p # <<>> /\ q # <<>>
  <2>1. PICK u \in Unit, w \in Unit : p = <<u, w>>
    BY <1>3 DEF Pair
  <2>2. PICK x \in Unit, y \in Unit : q = <<x, y>>
    BY <1>3 DEF Pair
  <2>3. w = x /\ Chained(p, q) = <<u, y>>
    BY <1>3, <2>1, <2>2 DEF Chains, Chained
  <2>4. /\ Ratio(p) = Factor[u] * Reciprocal(Factor[w])
        /\ Ratio(q) = Factor[w] * Reciprocal(Factor[y])
        /\ Ratio(<<u, y>>) = Factor[u] * Reciprocal(Factor[y])
    BY <2>1, <2>2, <2>3, RatioIs
  <2>5. Factor[u] \in {1, 2, 3, 5} /\ Factor[w] \in {1, 2, 3, 5} /\ Factor[y] \in {1, 2, 3, 5}
    BY FactorIs
  <2>6. Ratio(<<u, y>>) % M = (Ratio(p) * Ratio(q)) % M
    BY <2>4, <2>5, ReciprocalIs DEF M
  <2> QED BY <2>3, <2>6 DEF Pair
<1> QED BY <1>1, <1>2, <1>3

LEMMA ScaledBy ==
  ASSUME NEW v \in 0..M - 1, NEW k \in Nat, k % M = 1
  PROVE  (v * k) % M = v
<1>1. v \in Int /\ v % M = v
  BY DEF M
<1>2. (v * k) % M = ((k % M) * v) % M
  <2>1. ((k % M) * v) % M = (k * v) % M
    BY <1>1, ModTimes
  <2>2. v * k = k * v
    BY <1>1
  <2> QED BY <2>1, <2>2
<1> QED BY <1>1, <1>2

LEMMA ScaledTwice ==
  ASSUME NEW v \in Int, NEW k \in Nat, NEW l \in Nat
  PROVE  (((v * k) % M) * l) % M = (v * (k * l)) % M
<1>1. v * k \in Int
  OBVIOUS
<1>2. (((v * k) % M) * l) % M = (v * k * l) % M
  BY <1>1, ModTimes
<1>3. v * k * l = v * (k * l)
  OBVIOUS
<1> QED BY <1>2, <1>3

LEMMA ScaledSame ==
  ASSUME NEW v \in Int, NEW k \in Nat, NEW l \in Nat, k % M = l % M
  PROVE  (v * k) % M = (v * l) % M
<1>1. v * k = k * v /\ v * l = l * v
  OBVIOUS
<1>2. k \in Int /\ l \in Int
  OBVIOUS
<1>3. (k * v) % M = ((k % M) * v) % M
  BY <1>2, ModTimes
<1>4. (l * v) % M = ((l % M) * v) % M
  BY <1>2, ModTimes
<1> QED BY <1>1, <1>3, <1>4

-----------------------------------------------------------------------------
(* What each operation does.                                               *)

LEMMA ForwardIs ==
  ASSUME NEW s, NEW c
  PROVE  /\ s.name = "push" => Forward(s, c) = Push(s.par, c)
         /\ s.name = "pop"  => Forward(s, c) = Pop(s.par, c)
         /\ s.name = "unitconvert" => Forward(s, c) = Values(c, ConvertUnits(s.par, c.v))
         /\ s.name = "axisswap"    => Forward(s, c) = Values(c, SwapAxes(s.par, c.v))
         /\ s.name = "helmert"     => Forward(s, c) = Values(c, Shift(s.par, 1, c.v))
         /\ s.name = "hgridshift"  => Forward(s, c) = Values(c, ShiftByGrid(s.par, 1, c.v))
         /\ s.name = "vgridshift"  => Forward(s, c) = Values(c, ShiftHeight(1, c.v))
         /\ s.name = "cart"        => Forward(s, c) = Values(c, ToGeocentric(c.v))
         /\ s.name = "krovak"      => Forward(s, c) = Values(c, Project(s.par, c.v))
         /\ s.name = "set"         => Forward(s, c) = Values(c, Set(s.par, c.v))
         /\ s.name \in {"noop", "longlat"} => Forward(s, c) = c
BY DEF Forward

LEMMA BackwardIs ==
  ASSUME NEW s, NEW c
  PROVE  /\ s.name = "push" => Backward(s, c) = Pop(s.par, c)
         /\ s.name = "pop"  => Backward(s, c) = Push(s.par, c)
         /\ s.name = "unitconvert" => Backward(s, c) =
              Values(c, ConvertUnits([xy |-> Swapped(s.par.xy), z |-> Swapped(s.par.z)], c.v))
         /\ s.name = "axisswap"    => Backward(s, c) = Values(c, UnswapAxes(s.par, c.v))
         /\ s.name = "helmert"     => Backward(s, c) = Values(c, Shift(s.par, -1, c.v))
         /\ s.name = "hgridshift"  => Backward(s, c) = Values(c, ShiftByGrid(s.par, -1, c.v))
         /\ s.name = "vgridshift"  => Backward(s, c) = Values(c, ShiftHeight(-1, c.v))
         /\ s.name = "cart"        => Backward(s, c) = Values(c, FromGeocentric(c.v))
         /\ s.name = "krovak"      => Backward(s, c) = Values(c, Unproject(s.par, c.v))
         /\ s.name = "set"         => Backward(s, c) = Values(c, Set(s.par, c.v))
         /\ s.name \in {"noop", "longlat"} => Backward(s, c) = c
BY DEF Backward

LEMMA ParametersAre ==
  ASSUME NEW s, IsStep(s)
  PROVE  /\ s.name \in Names /\ s.inv \in BOOLEAN /\ s.omit \in Omits
         /\ s.name \in {"push", "pop"} => s.par \in SUBSET (1..4)
         /\ s.name = "unitconvert" => s.par \in [xy : Pair, z : Pair]
         /\ s.name = "axisswap" => s.par \in Orders
         /\ s.name = "helmert" => s.par \in HelmertPar
         /\ s.name \in {"hgridshift", "vgridshift"} => s.par \in [grid : Int]
         /\ s.name = "krovak" => s.par \in [swu : BOOLEAN]
         /\ s.name = "set" => s.par \in [v4 : Int]
<1>1. s.name \in Names /\ s.inv \in BOOLEAN /\ s.omit \in Omits /\ s.par \in Parameters(s.name)
  BY DEF IsStep
<1>2. s.name \in {"push", "pop"} => Parameters(s.name) = SUBSET (1..4)
  BY DEF Parameters
<1>3. s.name = "unitconvert" => Parameters(s.name) = [xy : Pair, z : Pair]
  BY DEF Parameters
<1>4. s.name = "axisswap" => Parameters(s.name) = Orders
  BY DEF Parameters
<1>5. s.name = "helmert" => Parameters(s.name) = HelmertPar
  BY DEF Parameters
<1>6. s.name \in {"hgridshift", "vgridshift"} => Parameters(s.name) = [grid : Int]
  BY DEF Parameters
<1>7. s.name = "krovak" => Parameters(s.name) = [swu : BOOLEAN]
  BY DEF Parameters
<1>8. s.name = "set" => Parameters(s.name) = [v4 : Int]
  BY DEF Parameters
<1> QED BY <1>1, <1>2, <1>3, <1>4, <1>5, <1>6, <1>7, <1>8

Scale(p, i) == IF i \in {1, 2} THEN Ratio(p.xy) ELSE IF i = 3 THEN Ratio(p.z) ELSE 1
Opposite(p) == [xy |-> Swapped(p.xy), z |-> Swapped(p.z)]

LEMMA UnitsAre ==
  ASSUME NEW c \in Between, NEW p \in [xy : Pair, z : Pair]
  PROVE  /\ Values(c, ConvertUnits(p, c.v)) \in Between
         /\ Values(c, ConvertUnits(p, c.v)).stack = c.stack
         /\ \A i \in 1..4 : /\ Scale(p, i) \in Nat
                            /\ Values(c, ConvertUnits(p, c.v)).v[i] = (c.v[i] * Scale(p, i)) % M
<1> DEFINE w == ConvertUnits(p, c.v)
<1>1. Ratio(p.xy) \in Nat /\ Ratio(p.z) \in Nat
  BY RatioType
<1>2. \A i \in 1..4 : Scale(p, i) \in Nat
  BY <1>1 DEF Scale
<1>3. \A i \in 1..4 : c.v[i] \in Int
  BY CoordinatesAre
<1>4. \A i \in 1..4 : w[i] = c.v[i] * Scale(p, i)
  <2>1. /\ w[1] = c.v[1] * Ratio(p.xy) /\ w[2] = c.v[2] * Ratio(p.xy)
        /\ w[3] = c.v[3] * Ratio(p.z) /\ w[4] = c.v[4]
    BY DEF ConvertUnits
  <2>2. c.v[4] * 1 = c.v[4]
    BY <1>3
  <2> HIDE DEF w
  <2>3. TAKE i \in 1..4
  <2>4. i = 1 \/ i = 2 \/ i = 3 \/ i = 4
    OBVIOUS
  <2> QED BY <2>1, <2>2, <2>4 DEF Scale
<1>5. \A i \in 1..4 : w[i] \in Int
  <2> HIDE DEF w
  <2> TAKE i \in 1..4
  <2>1. Scale(p, i) \in Nat /\ c.v[i] \in Int
    BY <1>2, <1>3
  <2>2. c.v[i] * Scale(p, i) \in Int
    BY <2>1
  <2> QED BY <1>4, <2>2
<1> HIDE DEF w
<1> QED BY <1>2, <1>4, <1>5, ValuesIs DEF w

LEMMA OppositeIs ==
  ASSUME NEW p \in [xy : Pair, z : Pair]
  PROVE  /\ Opposite(p) \in [xy : Pair, z : Pair] /\ Opposite(Opposite(p)) = p
         /\ \A i \in 1..4 : (Scale(p, i) * Scale(Opposite(p), i)) % M = 1
<1>1. p.xy \in Pair /\ p.z \in Pair
  OBVIOUS
<1>2. Opposite(p).xy = Swapped(p.xy) /\ Opposite(p).z = Swapped(p.z)
  BY DEF Opposite
<1>3. Opposite(p) \in [xy : Pair, z : Pair] /\ Opposite(Opposite(p)) = p
  <2>1. Opposite(p) \in [xy : Pair, z : Pair]
    BY <1>1, RatioType DEF Opposite
  <2>2. Opposite(Opposite(p)) = [xy |-> Swapped(Swapped(p.xy)), z |-> Swapped(Swapped(p.z))]
    BY <1>2 DEF Opposite
  <2>3. p = [xy |-> p.xy, z |-> p.z]
    OBVIOUS
  <2> QED BY <1>1, <2>1, <2>2, <2>3, RatioType
<1>4. \A i \in 1..4 : (Scale(p, i) * Scale(Opposite(p), i)) % M = 1
  BY <1>1, <1>2, RatioUndone DEF Scale, M
<1> QED BY <1>3, <1>4

\* Two conversions one after the other.
LEMMA UnitsTwice ==
  ASSUME NEW c \in Between, NEW p \in [xy : Pair, z : Pair], NEW q \in [xy : Pair, z : Pair]
  PROVE  LET d == Values(c, ConvertUnits(p, c.v))
             e == Values(d, ConvertUnits(q, d.v))
         IN  /\ e \in Between /\ e.stack = c.stack
             /\ \A i \in 1..4 : e.v[i] = (c.v[i] * (Scale(p, i) * Scale(q, i))) % M
<1> DEFINE d == Values(c, ConvertUnits(p, c.v))
           e == Values(d, ConvertUnits(q, d.v))
<1>1. /\ d \in Between /\ d.stack = c.stack
      /\ \A i \in 1..4 : Scale(p, i) \in Nat /\ d.v[i] = (c.v[i] * Scale(p, i)) % M
  BY UnitsAre
<1> HIDE DEF d
<1>2. /\ e \in Between /\ e.stack = d.stack
      /\ \A i \in 1..4 : Scale(q, i) \in Nat /\ e.v[i] = (d.v[i] * Scale(q, i)) % M
  BY <1>1, UnitsAre
<1> HIDE DEF e
<1>3. \A i \in 1..4 : e.v[i] = (c.v[i] * (Scale(p, i) * Scale(q, i))) % M
  <2> TAKE i \in 1..4
  <2>1. c.v[i] \in Int
    BY CoordinatesAre
  <2>2. e.v[i] = (((c.v[i] * Scale(p, i)) % M) * Scale(q, i)) % M
    BY <1>1, <1>2
  <2> QED BY <2>1, <2>2, <1>1, <1>2, ScaledTwice
<1> QED BY <1>1, <1>2, <1>3 DEF d, e

LEMMA UnitsUndo ==
  ASSUME NEW c \in Between, NEW p \in [xy : Pair, z : Pair], NEW q \in [xy : Pair, z : Pair],
         \A i \in 1..4 : (Scale(p, i) * Scale(q, i)) % M = 1
  PROVE  LET d == Values(c, ConvertUnits(p, c.v))
         IN  Values(d, ConvertUnits(q, d.v)) = c
<1> DEFINE d == Values(c, ConvertUnits(p, c.v))
           e == Values(d, ConvertUnits(q, d.v))
<1>1. /\ e \in Between /\ e.stack = c.stack
      /\ \A i \in 1..4 : e.v[i] = (c.v[i] * (Scale(p, i) * Scale(q, i))) % M
  BY UnitsTwice
<1> HIDE DEF d, e
<1>2. \A i \in 1..4 : e.v[i] = c.v[i]
  <2> TAKE i \in 1..4
  <2>1. c.v[i] \in 0..M - 1
    BY CoordinatesAre
  <2>2. Scale(p, i) \in Nat /\ Scale(q, i) \in Nat
    BY UnitsAre
  <2>3. Scale(p, i) * Scale(q, i) \in Nat
    BY <2>2
  <2> QED BY <1>1, <2>1, <2>3, ScaledBy
<1>3. e = c
  BY <1>1, <1>2, SameBetween
<1> QED BY <1>3 DEF d, e

-----------------------------------------------------------------------------
(* Turns of the axes.                                                      *)

LEMMA OrderIs ==
  ASSUME NEW o \in Orders
  PROVE  /\ \A i \in 1..3 : o[i] \in Int /\ Abs(o[i]) \in 1..3
         /\ \A i \in 1..3 : \E j \in 1..3 : Abs(o[j]) = i
         /\ \A j, k \in 1..3 : Abs(o[j]) = Abs(o[k]) => j = k
<1>1. \A i \in 1..3 : o[i] \in -3..3 /\ o[i] \in Int
  BY DEF Orders
<1>2. {Abs(o[i]) : i \in 1..3} = 1..3
  BY DEF Orders
<1>3. \A i \in 1..3 : Abs(o[i]) \in 1..3
  BY <1>2
<1>4. \A i \in 1..3 : \E j \in 1..3 : Abs(o[j]) = i
  BY <1>2
<1> DEFINE a == Abs(o[1])
           b == Abs(o[2])
           d == Abs(o[3])
<1>5. a \in 1..3 /\ b \in 1..3 /\ d \in 1..3
  BY <1>3
<1>6. \A i \in 1..3 : i = a \/ i = b \/ i = d
  <2> TAKE i \in 1..3
  <2>1. PICK j \in 1..3 : Abs(o[j]) = i
    BY <1>4
  <2>2. j = 1 \/ j = 2 \/ j = 3
    OBVIOUS
  <2> QED BY <2>1, <2>2
<1> HIDE DEF a, b, d
<1>7. a # b /\ b # d /\ a # d
  <2>1. /\ 1 = a \/ 1 = b \/ 1 = d
        /\ 2 = a \/ 2 = b \/ 2 = d
        /\ 3 = a \/ 3 = b \/ 3 = d
    BY <1>6
  <2> QED BY <2>1
<1>8. \A j, k \in 1..3 : Abs(o[j]) = Abs(o[k]) => j = k
  <2> TAKE j, k \in 1..3
  <2>1. (j = 1 \/ j = 2 \/ j = 3) /\ (k = 1 \/ k = 2 \/ k = 3)
    OBVIOUS
  <2> QED BY <2>1, <1>7 DEF a, b, d
<1> QED BY <1>1, <1>3, <1>4, <1>8

LEMMA SwapAxesAre ==
  ASSUME NEW c \in Between, NEW o \in Orders
  PROVE  LET d == Values(c, SwapAxes(o, c.v))
         IN  /\ d \in Between /\ d.stack = c.stack
             /\ d.v[4] = c.v[4]
             /\ \A i \in 1..3 : d.v[i] = (IF o[i] < 0 THEN -c.v[Abs(o[i])] ELSE c.v[Abs(o[i])]) % M
<1> DEFINE w == SwapAxes(o, c.v)
           R(i) == IF o[i] < 0 THEN -c.v[Abs(o[i])] ELSE c.v[Abs(o[i])]
<1>1. w[4] = c.v[4] /\ \A i \in 1..3 : w[i] = Read(c.v, o[i])
  BY DEF SwapAxes
<1>2. \A i \in 1..3 : Read(c.v, o[i]) = R(i) /\ R(i) \in Int
  <2> TAKE i \in 1..3
  <2>1. o[i] \in Int /\ Abs(o[i]) \in 1..3
    BY OrderIs
  <2>2. c.v[Abs(o[i])] \in Int
    BY <2>1, CoordinatesAre
  <2> QED BY <2>1, <2>2 DEF Read, Abs
<1> HIDE DEF w, R
<1>3. \A i \in 1..4 : w[i] \in Int
  BY <1>1, <1>2, CoordinatesAre
<1>4. /\ Values(c, w) \in Between /\ Values(c, w).stack = c.stack
      /\ \A i \in 1..4 : Values(c, w).v[i] = w[i] % M
  BY <1>3, ValuesIs
<1>5. Values(c, w).v[4] = c.v[4]
  BY <1>1, <1>4, CoordinatesAre
<1>6. \A i \in 1..3 : Values(c, w).v[i] = R(i) % M
  BY <1>1, <1>2, <1>4
<1> QED BY <1>4, <1>5, <1>6 DEF w, R

LEMMA UnswapAxesAre ==
  ASSUME NEW c \in Between, NEW o \in Orders
  PROVE  LET d == Values(c, UnswapAxes(o, c.v))
         IN  /\ d \in Between /\ d.stack = c.stack
             /\ d.v[4] = c.v[4]
             /\ \A j \in 1..3 : d.v[Abs(o[j])] = (IF o[j] < 0 THEN -c.v[j] ELSE c.v[j]) % M
<1> DEFINE w == UnswapAxes(o, c.v)
           At3(i) == CHOOSE j \in 1..3 : Abs(o[j]) = i
           R(j) == IF o[j] < 0 THEN -c.v[j] ELSE c.v[j]
<1>1. w[4] = c.v[4] /\ \A i \in 1..3 : w[i] = R(At3(i))
  BY DEF UnswapAxes
<1>2. \A j \in 1..3 : At3(Abs(o[j])) = j
  <2> TAKE j \in 1..3
  <2>1. At3(Abs(o[j])) \in 1..3 /\ Abs(o[At3(Abs(o[j]))]) = Abs(o[j])
    BY Zenon
  <2> HIDE DEF At3
  <2> QED BY <2>1, OrderIs
<1> HIDE DEF At3
<1>3. \A j \in 1..3 : Abs(o[j]) \in 1..3 /\ w[Abs(o[j])] = R(j) /\ R(j) \in Int
  BY <1>1, <1>2, OrderIs, CoordinatesAre
<1> HIDE DEF w, R
<1>4. \A i \in 1..4 : w[i] \in Int
  <2> TAKE i \in 1..4
  <2>1. CASE i = 4
    BY <2>1, <1>1, CoordinatesAre
  <2>2. CASE i # 4
    <3>1. i \in 1..3
      BY <2>2
    <3>2. PICK j \in 1..3 : Abs(o[j]) = i
      BY <3>1, OrderIs
    <3> QED BY <3>2, <1>3
  <2> QED BY <2>1, <2>2
<1>5. /\ Values(c, w) \in Between /\ Values(c, w).stack = c.stack
      /\ \A i \in 1..4 : Values(c, w).v[i] = w[i] % M
  BY <1>4, ValuesIs
<1>6. Values(c, w).v[4] = c.v[4]
  BY <1>1, <1>5, CoordinatesAre
<1>7. \A j \in 1..3 : Values(c, w).v[Abs(o[j])] = R(j) % M
  <2> TAKE j \in 1..3
  <2>1. Abs(o[j]) \in 1..4
    BY <1>3
  <2> QED BY <1>3, <1>5, <2>1
<1> QED BY <1>5, <1>6, <1>7 DEF w, R

LEMMA Negated ==
  ASSUME NEW a \in 0..M - 1
  PROVE  (-((-a) % M)) % M = a /\ a % M = a
BY DEF M

LEMMA AxesUndo ==
  ASSUME NEW c \in Between, NEW o \in Orders
  PROVE  /\ LET d == Values(c, SwapAxes(o, c.v)) IN Values(d, UnswapAxes(o, d.v)) = c
         /\ LET d == Values(c, UnswapAxes(o, c.v)) IN Values(d, SwapAxes(o, d.v)) = c
<1>1. \A i \in 1..4 : c.v[i] \in 0..M - 1
  BY CoordinatesAre
<1>2. LET d == Values(c, SwapAxes(o, c.v)) IN Values(d, UnswapAxes(o, d.v)) = c
  <2> DEFINE d == Values(c, SwapAxes(o, c.v))
             e == Values(d, UnswapAxes(o, d.v))
  <2>1. /\ d \in Between /\ d.stack = c.stack /\ d.v[4] = c.v[4]
        /\ \A i \in 1..3 : d.v[i] = (IF o[i] < 0 THEN -c.v[Abs(o[i])] ELSE c.v[Abs(o[i])]) % M
    BY SwapAxesAre
  <2> HIDE DEF d
  <2>2. /\ e \in Between /\ e.stack = d.stack /\ e.v[4] = d.v[4]
        /\ \A j \in 1..3 : e.v[Abs(o[j])] = (IF o[j] < 0 THEN -d.v[j] ELSE d.v[j]) % M
    BY <2>1, UnswapAxesAre
  <2> HIDE DEF e
  <2>3. \A j \in 1..3 : e.v[Abs(o[j])] = c.v[Abs(o[j])]
    <3> TAKE j \in 1..3
    <3>1. Abs(o[j]) \in 1..4 /\ o[j] \in Int
      BY OrderIs
    <3>2. c.v[Abs(o[j])] \in 0..M - 1
      BY <3>1, <1>1
    <3>3. c.v[Abs(o[j])] % M = c.v[Abs(o[j])] /\ (-((-c.v[Abs(o[j])]) % M)) % M = c.v[Abs(o[j])]
      BY <3>2, Negated
    <3> QED BY <2>1, <2>2, <3>1, <3>3
  <2>4. \A i \in 1..4 : e.v[i] = c.v[i]
    <3> TAKE i \in 1..4
    <3>1. CASE i = 4
      BY <3>1, <2>1, <2>2
    <3>2. CASE i # 4
      <4>1. i \in 1..3
        BY <3>2
      <4>2. PICK j \in 1..3 : Abs(o[j]) = i
        BY <4>1, OrderIs
      <4> QED BY <4>2, <2>3
    <3> QED BY <3>1, <3>2
  <2>5. e = c
    BY <2>1, <2>2, <2>4, SameBetween
  <2> QED BY <2>5 DEF d, e
<1>3. LET d == Values(c, UnswapAxes(o, c.v)) IN Values(d, SwapAxes(o, d.v)) = c
  <2> DEFINE d == Values(c, UnswapAxes(o, c.v))
             e == Values(d, SwapAxes(o, d.v))
  <2>1. /\ d \in Between /\ d.stack = c.stack /\ d.v[4] = c.v[4]
        /\ \A j \in 1..3 : d.v[Abs(o[j])] = (IF o[j] < 0 THEN -c.v[j] ELSE c.v[j]) % M
    BY UnswapAxesAre
  <2> HIDE DEF d
  <2>2. /\ e \in Between /\ e.stack = d.stack /\ e.v[4] = d.v[4]
        /\ \A i \in 1..3 : e.v[i] = (IF o[i] < 0 THEN -d.v[Abs(o[i])] ELSE d.v[Abs(o[i])]) % M
    BY <2>1, SwapAxesAre
  <2> HIDE DEF e
  <2>3. \A i \in 1..3 : e.v[i] = c.v[i]
    <3> TAKE i \in 1..3
    <3>1. c.v[i] % M = c.v[i] /\ (-((-c.v[i]) % M)) % M = c.v[i]
      BY <1>1, Negated
    <3> QED BY <2>1, <2>2, <3>1
  <2>4. \A i \in 1..4 : e.v[i] = c.v[i]
    <3> TAKE i \in 1..4
    <3>1. i = 4 \/ i \in 1..3
      OBVIOUS
    <3> QED BY <3>1, <2>1, <2>2, <2>3
  <2>5. e = c
    BY <2>1, <2>2, <2>4, SameBetween
  <2> QED BY <2>5 DEF d, e
<1> QED BY <1>2, <1>3

-----------------------------------------------------------------------------
(* Shifts, grids and projections.                                          *)

LEMMA FourInts ==
  ASSUME NEW w, w[1] \in Int, w[2] \in Int, w[3] \in Int, w[4] \in Int
  PROVE  \A i \in 1..4 : w[i] \in Int
<1> TAKE i \in 1..4
<1>1. i = 1 \/ i = 2 \/ i = 3 \/ i = 4
  OBVIOUS
<1> QED BY <1>1

LEMMA FourSame ==
  ASSUME NEW c \in Between, NEW d \in Between, c.stack = d.stack,
         c.v[1] = d.v[1], c.v[2] = d.v[2], c.v[3] = d.v[3], c.v[4] = d.v[4]
  PROVE  c = d
<1>1. \A i \in 1..4 : c.v[i] = d.v[i]
  <2> TAKE i \in 1..4
  <2>1. i = 1 \/ i = 2 \/ i = 3 \/ i = 4
    OBVIOUS
  <2> QED BY <2>1
<1> QED BY <1>1, SameBetween

LEMMA FourCoordinates ==
  ASSUME NEW c \in Between
  PROVE  /\ c.v[1] \in 0..6 /\ c.v[2] \in 0..6 /\ c.v[3] \in 0..6 /\ c.v[4] \in 0..6
         /\ c.v[1] \in Int /\ c.v[2] \in Int /\ c.v[3] \in Int /\ c.v[4] \in Int
BY CoordinatesAre DEF M

LEMMA FourValues ==
  ASSUME NEW c \in Between, NEW w, w[1] \in Int, w[2] \in Int, w[3] \in Int, w[4] \in Int
  PROVE  LET d == Values(c, w)
         IN  /\ d \in Between /\ d.stack = c.stack
             /\ d.v[1] = w[1] % 7 /\ d.v[2] = w[2] % 7 /\ d.v[3] = w[3] % 7 /\ d.v[4] = w[4] % 7
<1>1. \A i \in 1..4 : w[i] \in Int
  BY FourInts
<1> QED BY <1>1, ValuesIs DEF M

\* A tuple of numbers, from which another tuple leads back.
LEMMA FourUndo ==
  ASSUME NEW c \in Between,
         NEW a1 \in Int, NEW a2 \in Int, NEW a3 \in Int, NEW a4 \in Int,
         NEW b1 \in Int, NEW b2 \in Int, NEW b3 \in Int, NEW b4 \in Int,
         b1 % 7 = c.v[1], b2 % 7 = c.v[2], b3 % 7 = c.v[3], b4 % 7 = c.v[4]
  PROVE  Values(Values(c, <<a1, a2, a3, a4>>), <<b1, b2, b3, b4>>) = c
<1> DEFINE d == Values(c, <<a1, a2, a3, a4>>)
           e == Values(d, <<b1, b2, b3, b4>>)
<1>1. d \in Between /\ d.stack = c.stack
  BY FourValues
<1> HIDE DEF d
<1>2. /\ e \in Between /\ e.stack = d.stack
      /\ e.v[1] = b1 % 7 /\ e.v[2] = b2 % 7 /\ e.v[3] = b3 % 7 /\ e.v[4] = b4 % 7
  BY <1>1, FourValues
<1> HIDE DEF e
<1>3. e = c
  BY <1>1, <1>2, FourSame
<1> QED BY <1>3 DEF d, e

\* A Helmert step adds to each coordinate what its parameters select.
Added(p, i) == IF i \in {1, 3} THEN p.t ELSE IF i = 2 THEN p.t + Rotation(p) ELSE 0
Signs == {1, -1}

LEMMA ShiftIs ==
  ASSUME NEW c \in Between, NEW p \in HelmertPar, NEW sign \in Signs
  PROVE  LET d == Values(c, Shift(p, sign, c.v))
         IN  /\ d \in Between /\ d.stack = c.stack
             /\ \A i \in 1..4 : Added(p, i) \in Int /\ d.v[i] = (c.v[i] + sign * Added(p, i)) % 7
<1>1. p.t \in Int /\ p.r \in Int /\ Rotation(p) \in Int
  BY DEF HelmertPar, Rotation
<1> DEFINE w == Shift(p, sign, c.v)
<1>2. \A i \in 1..4 : Added(p, i) \in Int /\ sign * Added(p, i) \in Int /\ c.v[i] \in Int
  BY <1>1, CoordinatesAre DEF Added, Signs
<1>3. \A i \in 1..4 : w[i] = c.v[i] + sign * Added(p, i)
  <2>1. /\ w[1] = c.v[1] + sign * p.t
        /\ w[2] = c.v[2] + sign * (p.t + Rotation(p))
        /\ w[3] = c.v[3] + sign * p.t
        /\ w[4] = c.v[4]
    BY DEF Shift
  <2>2. c.v[4] + sign * 0 = c.v[4]
    BY <1>2 DEF Signs
  <2> HIDE DEF w
  <2> TAKE i \in 1..4
  <2>3. i = 1 \/ i = 2 \/ i = 3 \/ i = 4
    OBVIOUS
  <2> QED BY <2>1, <2>2, <2>3 DEF Added
<1> HIDE DEF w
<1>4. \A i \in 1..4 : w[i] \in Int
  BY <1>2, <1>3
<1> QED BY <1>2, <1>3, <1>4, ValuesIs DEF w, M

LEMMA ShiftedTwice ==
  ASSUME NEW v \in Int, NEW a \in Int, NEW b \in Int
  PROVE  ((((v + a) % 7) + b) % 7) = ((v + (a + b)) % 7)
OBVIOUS

\* Two Helmert steps add their sum.
Total(p, m, q, n, i) == m * Added(p, i) + n * Added(q, i)

LEMMA TwoShifts ==
  ASSUME NEW c \in Between, NEW p \in HelmertPar, NEW q \in HelmertPar,
         NEW m \in Signs, NEW n \in Signs
  PROVE  LET d == Values(c, Shift(p, m, c.v))
             e == Values(d, Shift(q, n, d.v))
         IN  /\ e \in Between /\ e.stack = c.stack
             /\ \A i \in 1..4 : e.v[i] = (c.v[i] + Total(p, m, q, n, i)) % 7
<1> DEFINE d == Values(c, Shift(p, m, c.v))
           e == Values(d, Shift(q, n, d.v))
<1>1. /\ d \in Between /\ d.stack = c.stack
      /\ \A i \in 1..4 : Added(p, i) \in Int /\ d.v[i] = (c.v[i] + m * Added(p, i)) % 7
  BY ShiftIs
<1> HIDE DEF d
<1>2. /\ e \in Between /\ e.stack = d.stack
      /\ \A i \in 1..4 : Added(q, i) \in Int /\ e.v[i] = (d.v[i] + n * Added(q, i)) % 7
  BY <1>1, ShiftIs
<1> HIDE DEF e
<1>3. \A i \in 1..4 : e.v[i] = (c.v[i] + Total(p, m, q, n, i)) % 7
  <2> TAKE i \in 1..4
  <2>1. c.v[i] \in Int
    BY CoordinatesAre
  <2>2. m * Added(p, i) \in Int /\ n * Added(q, i) \in Int
    BY <1>1, <1>2 DEF Signs
  <2>3. e.v[i] = ((((c.v[i] + m * Added(p, i)) % 7) + n * Added(q, i)) % 7)
    BY <1>1, <1>2
  <2> QED BY <2>1, <2>2, <2>3, ShiftedTwice DEF Total
<1> QED BY <1>1, <1>2, <1>3 DEF d, e

AddUpToZero(p, m, q, n) == \A i \in 1..4 : Total(p, m, q, n, i) = 0

LEMMA ShiftUndone ==
  ASSUME NEW c \in Between, NEW p \in HelmertPar, NEW q \in HelmertPar,
         NEW m \in Signs, NEW n \in Signs, AddUpToZero(p, m, q, n)
  PROVE  LET d == Values(c, Shift(p, m, c.v))
         IN  Values(d, Shift(q, n, d.v)) = c
<1> DEFINE d == Values(c, Shift(p, m, c.v))
           e == Values(d, Shift(q, n, d.v))
<1>1. /\ e \in Between /\ e.stack = c.stack
      /\ \A i \in 1..4 : e.v[i] = (c.v[i] + Total(p, m, q, n, i)) % 7
  BY TwoShifts
<1> HIDE DEF d, e
<1>3. \A i \in 1..4 : c.v[i] \in 0..6
  BY CoordinatesAre DEF M
<1>4. \A i \in 1..4 : e.v[i] = c.v[i]
  <2> TAKE i \in 1..4
  <2>1. e.v[i] = (c.v[i] + 0) % 7
    BY <1>1 DEF AddUpToZero
  <2> QED BY <1>3, <2>1
<1> QED BY <1>1, <1>4, SameBetween DEF e, d

LEMMA ByGridUndone ==
  ASSUME NEW c \in Between, NEW p \in [grid : Int], NEW m \in Signs
  PROVE  LET d == Values(c, ShiftByGrid(p, m, c.v))
         IN  /\ d \in Between /\ d.stack = c.stack /\ d.v[3] = c.v[3]
             /\ Values(d, ShiftByGrid(p, -m, d.v)) = c
<1> DEFINE v == c.v
           k == v[2] * v[2] + p.grid
           w == <<v[1] + m * k, v[2], v[3], v[4]>>
           d == Values(c, w)
<1>1. /\ v[1] \in 0..6 /\ v[2] \in 0..6 /\ v[3] \in 0..6 /\ v[4] \in 0..6
      /\ v[1] \in Int /\ v[2] \in Int /\ v[3] \in Int /\ v[4] \in Int
  BY FourCoordinates
<1>2. k \in Int /\ m * k \in Int /\ (-m) * k = -(m * k)
  <2>1. v[2] * v[2] \in Int /\ p.grid \in Int
    BY <1>1
  <2>2. k \in Int
    BY <2>1
  <2> HIDE DEF k
  <2> QED BY <2>2 DEF Signs
<1>3. ShiftByGrid(p, m, c.v) = w
  BY DEF ShiftByGrid
<1> HIDE DEF k
<1>4. /\ d \in Between /\ d.stack = c.stack
      /\ d.v[1] = (v[1] + m * k) % 7 /\ d.v[2] = v[2] /\ d.v[3] = v[3] /\ d.v[4] = v[4]
  <2>1. /\ d \in Between /\ d.stack = c.stack
        /\ d.v[1] = w[1] % 7 /\ d.v[2] = w[2] % 7 /\ d.v[3] = w[3] % 7 /\ d.v[4] = w[4] % 7
    <3>1. w[1] \in Int /\ w[2] \in Int /\ w[3] \in Int /\ w[4] \in Int
      BY <1>1, <1>2
    <3> HIDE DEF w
    <3> QED BY <3>1, FourValues
  <2>2. w[1] = v[1] + m * k /\ w[2] = v[2] /\ w[3] = v[3] /\ w[4] = v[4]
    OBVIOUS
  <2> HIDE DEF d, w
  <2> QED BY <1>1, <2>1, <2>2
<1> HIDE DEF d
<1>5. ShiftByGrid(p, -m, d.v) = <<d.v[1] + (-m) * (d.v[2] * d.v[2] + p.grid), d.v[2], d.v[3], d.v[4]>>
  BY DEF ShiftByGrid
<1>6. ShiftByGrid(p, -m, d.v) = <<((v[1] + m * k) % 7) - m * k, v[2], v[3], v[4]>>
  <2>1. d.v[2] * d.v[2] + p.grid = k
    BY <1>4 DEF k
  <2>2. d.v[1] + (-m) * k = ((v[1] + m * k) % 7) - m * k
    <3> DEFINE y == (v[1] + m * k) % 7
    <3>1. y \in Int /\ d.v[1] = y
      BY <1>1, <1>2, <1>4
    <3> DEFINE z == m * k
               u == (-m) * k
    <3>2. z \in Int /\ u = -z
      BY <1>2
    <3> HIDE DEF y, z, u
    <3>3. d.v[1] + u = y - z
      BY <3>1, <3>2
    <3> QED BY <3>3 DEF y, z, u
  <2> QED BY <1>4, <1>5, <2>1, <2>2
<1>7. ((((v[1] + m * k) % 7) - m * k) % 7) = v[1] /\ (v[2] % 7) = v[2] /\ (v[3] % 7) = v[3] /\ (v[4] % 7) = v[4]
  <2> DEFINE z == m * k
  <2>1. z \in Int
    BY <1>2
  <2> HIDE DEF z
  <2>2. ((((v[1] + z) % 7) - z) % 7) = v[1]
    BY <1>1, <2>1
  <2> QED BY <1>1, <2>2 DEF z
<1>8. Values(d, ShiftByGrid(p, -m, d.v)) = c
  <2> DEFINE e == Values(d, ShiftByGrid(p, -m, d.v))
             u == ShiftByGrid(p, -m, d.v)
  <2>1. u[1] = ((v[1] + m * k) % 7) - m * k /\ u[2] = v[2] /\ u[3] = v[3] /\ u[4] = v[4]
    BY <1>6
  <2>2. u[1] \in Int /\ u[2] \in Int /\ u[3] \in Int /\ u[4] \in Int
    BY <1>1, <1>2, <2>1
  <2> HIDE DEF u
  <2>3. /\ Values(d, u) \in Between /\ Values(d, u).stack = d.stack
        /\ Values(d, u).v[1] = u[1] % 7 /\ Values(d, u).v[2] = u[2] % 7
        /\ Values(d, u).v[3] = u[3] % 7 /\ Values(d, u).v[4] = u[4] % 7
    BY <1>4, <2>2, FourValues
  <2>4. Values(d, u) = c
    BY <1>4, <1>7, <2>1, <2>3, FourSame
  <2> QED BY <2>4 DEF u
<1> QED BY <1>3, <1>4, <1>8 DEF d

LEMMA HeightUndone ==
  ASSUME NEW c \in Between, NEW m \in Signs
  PROVE  LET d == Values(c, ShiftHeight(m, c.v))
         IN  /\ d \in Between /\ d.stack = c.stack
             /\ d.v[1] = c.v[1] /\ d.v[2] = c.v[2] /\ d.v[4] = c.v[4]
             /\ d.v[3] = (c.v[3] + m * (c.v[1] + 2 * c.v[2])) % 7
             /\ Values(d, ShiftHeight(-m, d.v)) = c
<1> DEFINE v == c.v
           w == ShiftHeight(m, v)
           d == Values(c, w)
           u == ShiftHeight(-m, d.v)
<1>1. /\ v[1] \in 0..6 /\ v[2] \in 0..6 /\ v[3] \in 0..6 /\ v[4] \in 0..6
      /\ v[1] \in Int /\ v[2] \in Int /\ v[3] \in Int /\ v[4] \in Int
  BY FourCoordinates
<1>m. v[1] % 7 = v[1] /\ v[2] % 7 = v[2] /\ v[3] % 7 = v[3] /\ v[4] % 7 = v[4]
  BY <1>1
<1>2. w[1] = v[1] /\ w[2] = v[2] /\ w[3] = v[3] + m * (v[1] + 2 * v[2]) /\ w[4] = v[4]
  BY DEF ShiftHeight
<1> HIDE DEF v, w
<1>3. w[1] \in Int /\ w[2] \in Int /\ w[3] \in Int /\ w[4] \in Int
  BY <1>1, <1>2 DEF Signs
<1>4. /\ d \in Between /\ d.stack = c.stack
      /\ d.v[1] = w[1] % 7 /\ d.v[2] = w[2] % 7 /\ d.v[3] = w[3] % 7 /\ d.v[4] = w[4] % 7
  BY <1>3, FourValues
<1> HIDE DEF d, u
<1>5. d.v[1] = v[1] /\ d.v[2] = v[2] /\ d.v[4] = v[4]
      /\ d.v[3] = (v[3] + m * (v[1] + 2 * v[2])) % 7
  BY <1>m, <1>2, <1>4
<1> USE DEF u
<1>6. u[1] = v[1] /\ u[2] = v[2] /\ u[3] = d.v[3] + (-m) * (v[1] + 2 * v[2]) /\ u[4] = v[4]
  BY <1>5 DEF ShiftHeight
<1> HIDE DEF u
<1>7. /\ u[1] \in Int /\ u[2] \in Int /\ u[3] \in Int /\ u[4] \in Int
      /\ u[1] % 7 = v[1] /\ u[2] % 7 = v[2] /\ u[3] % 7 = v[3] /\ u[4] % 7 = v[4]
  <2> DEFINE h == v[1] + 2 * v[2]
  <2>1. h \in Int /\ m * h \in Int /\ (-m) * h = -(m * h)
    <3>1. h \in Int
      BY <1>1
    <3> HIDE DEF h
    <3> QED BY <3>1 DEF Signs
  <2> DEFINE z == m * h
             y == (v[3] + z) % 7
  <2>2. z \in Int /\ d.v[3] = y /\ u[3] = y + (-z)
    BY <1>5, <1>6, <2>1
  <2> HIDE DEF z
  <2>3. y \in Int /\ (y + (-z)) % 7 = v[3]
    BY <1>1, <2>2
  <2> HIDE DEF h, y
  <2>4. u[3] \in Int /\ u[3] % 7 = v[3]
    BY <2>2, <2>3
  <2>5. u[1] = v[1] /\ u[2] = v[2] /\ u[4] = v[4]
    BY <1>6
  <2> QED BY <1>1, <1>m, <2>4, <2>5
<1>8. Values(d, u) = c
  <2>1. /\ Values(d, u) \in Between /\ Values(d, u).stack = d.stack
        /\ Values(d, u).v[1] = u[1] % 7 /\ Values(d, u).v[2] = u[2] % 7
        /\ Values(d, u).v[3] = u[3] % 7 /\ Values(d, u).v[4] = u[4] % 7
    BY <1>4, <1>7, FourValues
  <2> QED BY <1>4, <1>7, <2>1, FourSame DEF v
<1> QED BY <1>4, <1>5, <1>8 DEF d, u, v, w

LEMMA FourBack ==
  ASSUME NEW c \in Between, NEW d \in Between, NEW u, d.stack = c.stack,
         u[1] \in Int, u[2] \in Int, u[3] \in Int, u[4] \in Int,
         u[1] % 7 = c.v[1], u[2] % 7 = c.v[2], u[3] % 7 = c.v[3], u[4] % 7 = c.v[4]
  PROVE  Values(d, u) = c
<1> DEFINE e == Values(d, u)
<1>1. /\ e \in Between /\ e.stack = d.stack
      /\ e.v[1] = u[1] % 7 /\ e.v[2] = u[2] % 7 /\ e.v[3] = u[3] % 7 /\ e.v[4] = u[4] % 7
  BY FourValues
<1> HIDE DEF e
<1>2. e = c
  BY <1>1, FourSame
<1> QED BY <1>2 DEF e

LEMMA CartArithmetic ==
  ASSUME NEW x \in 0..6, NEW y \in 0..6, NEW z \in 0..6
  PROVE  /\ ((((x + z) % 7) - (((z + y) % 7) - y)) % 7) = x /\ ((((z + y) % 7) - y) % 7) = z
         /\ ((((x - (z - y)) % 7) + ((z - y) % 7)) % 7) = x /\ ((((z - y) % 7) + y) % 7) = z
OBVIOUS

LEMMA CartUndo ==
  ASSUME NEW c \in Between
  PROVE  /\ LET d == Values(c, ToGeocentric(c.v))
            IN  d \in Between /\ Values(d, FromGeocentric(d.v)) = c
         /\ LET d == Values(c, FromGeocentric(c.v))
            IN  d \in Between /\ Values(d, ToGeocentric(d.v)) = c
<1> DEFINE v == c.v
<1>1. /\ v[1] \in 0..6 /\ v[2] \in 0..6 /\ v[3] \in 0..6 /\ v[4] \in 0..6
      /\ v[1] \in Int /\ v[2] \in Int /\ v[3] \in Int /\ v[4] \in Int
  BY FourCoordinates
<1>2. ASSUME NEW w, NEW u, NEW d,
             \/ w = ToGeocentric(v) /\ u = FromGeocentric(d.v)
             \/ w = FromGeocentric(v) /\ u = ToGeocentric(d.v),
             d = Values(c, w)
      PROVE  d \in Between /\ Values(d, u) = c
  <2>1. \/ /\ w[1] = v[1] + v[3] /\ w[2] = v[2] /\ w[3] = v[3] + v[2] /\ w[4] = v[4]
           /\ u[1] = d.v[1] - (d.v[3] - d.v[2]) /\ u[2] = d.v[2] /\ u[3] = d.v[3] - d.v[2]
           /\ u[4] = d.v[4]
        \/ /\ u[1] = d.v[1] + d.v[3] /\ u[2] = d.v[2] /\ u[3] = d.v[3] + d.v[2] /\ u[4] = d.v[4]
           /\ w[1] = v[1] - (v[3] - v[2]) /\ w[2] = v[2] /\ w[3] = v[3] - v[2] /\ w[4] = v[4]
    BY <1>2 DEF ToGeocentric, FromGeocentric
  <2> HIDE DEF v
  <2>2. w[1] \in Int /\ w[2] \in Int /\ w[3] \in Int /\ w[4] \in Int
    BY <1>1, <2>1
  <2>3. /\ d \in Between /\ d.stack = c.stack
        /\ d.v[1] = w[1] % 7 /\ d.v[2] = w[2] % 7 /\ d.v[3] = w[3] % 7 /\ d.v[4] = w[4] % 7
    BY <1>2, <2>2, FourValues
  <2>4. d.v[1] \in Int /\ d.v[2] \in Int /\ d.v[3] \in Int /\ d.v[4] \in Int
    BY <2>3, FourCoordinates
  <2>5. v[2] % 7 = v[2] /\ v[4] % 7 = v[4]
    BY <1>1
  <2>6. d.v[2] = v[2] /\ d.v[4] = v[4]
    <3>1. w[2] = v[2] /\ w[4] = v[4]
      BY <2>1
    <3> QED BY <2>3, <2>5, <3>1
  <2>7. \/ /\ d.v[1] = (v[1] + v[3]) % 7 /\ d.v[3] = (v[3] + v[2]) % 7
           /\ u[1] = d.v[1] - (d.v[3] - v[2]) /\ u[3] = d.v[3] - v[2]
        \/ /\ d.v[1] = (v[1] - (v[3] - v[2])) % 7 /\ d.v[3] = (v[3] - v[2]) % 7
           /\ u[1] = d.v[1] + d.v[3] /\ u[3] = d.v[3] + v[2]
    BY <2>1, <2>3, <2>6
  <2>8. u[1] \in Int /\ u[3] \in Int /\ u[1] % 7 = v[1] /\ u[3] % 7 = v[3]
    BY <1>1, <2>4, <2>7, CartArithmetic
  <2>9. u[2] = v[2] /\ u[4] = v[4]
    BY <2>1, <2>6
  <2> QED BY <1>1, <2>3, <2>5, <2>8, <2>9, FourBack DEF v
<1> QED BY <1>2

LEMMA SouthWestIs ==
  ASSUME NEW p \in [swu : BOOLEAN], NEW v, NEW k, k = SouthWest(p, v)
  PROVE  /\ p.swu => k[1] = -v[2] /\ k[2] = -v[1] /\ k[3] = v[3] /\ k[4] = v[4]
         /\ ~p.swu => k = v
BY DEF SouthWest

\* The projections of Krovak, whatever their axes, one undoing another: the axes
\* are turned when they are not those of the first.
LEMMA ProjectIs ==
  ASSUME NEW c \in Between, NEW p \in [swu : BOOLEAN]
  PROVE  LET d == Values(c, Project(p, c.v))
         IN  /\ d \in Between /\ d.stack = c.stack /\ d.v[3] = c.v[3] /\ d.v[4] = c.v[4]
             /\ p.swu => d.v[1] = (-(c.v[1] + c.v[2])) % 7 /\ d.v[2] = (-(c.v[2] + 1)) % 7
             /\ ~p.swu => d.v[1] = (c.v[2] + 1) % 7 /\ d.v[2] = (c.v[1] + c.v[2]) % 7
<1> DEFINE v == c.v
           w == Project(p, v)
           d == Values(c, w)
<1>1. /\ v[1] \in 0..6 /\ v[2] \in 0..6 /\ v[3] \in 0..6 /\ v[4] \in 0..6
      /\ v[1] \in Int /\ v[2] \in Int /\ v[3] \in Int /\ v[4] \in Int
  BY FourCoordinates
<1>2. /\ p.swu => w[1] = -(v[1] + v[2]) /\ w[2] = -(v[2] + 1)
      /\ ~p.swu => w[1] = v[2] + 1 /\ w[2] = v[1] + v[2]
      /\ w[3] = v[3] /\ w[4] = v[4]
  BY SouthWestIs DEF Project
<1> HIDE DEF v, w
<1>3. w[1] \in Int /\ w[2] \in Int /\ w[3] \in Int /\ w[4] \in Int
  BY <1>1, <1>2
<1>4. /\ d \in Between /\ d.stack = c.stack
      /\ d.v[1] = w[1] % 7 /\ d.v[2] = w[2] % 7 /\ d.v[3] = w[3] % 7 /\ d.v[4] = w[4] % 7
  BY <1>3, FourValues
<1> HIDE DEF d
<1>5. d.v[3] = v[3] /\ d.v[4] = v[4]
  <2>1. v[3] % 7 = v[3] /\ v[4] % 7 = v[4]
    BY <1>1
  <2> QED BY <1>2, <1>4, <2>1
<1> QED BY <1>2, <1>4, <1>5 DEF d, w, v

LEMMA UnprojectIs ==
  ASSUME NEW c \in Between, NEW p \in [swu : BOOLEAN]
  PROVE  LET d == Values(c, Unproject(p, c.v))
         IN  /\ d \in Between /\ d.stack = c.stack /\ d.v[3] = c.v[3] /\ d.v[4] = c.v[4]
             /\ p.swu => d.v[1] = (-c.v[1] + c.v[2] + 1) % 7 /\ d.v[2] = (-c.v[2] - 1) % 7
             /\ ~p.swu => d.v[1] = (c.v[2] - c.v[1] + 1) % 7 /\ d.v[2] = (c.v[1] - 1) % 7
<1> DEFINE v == c.v
           w == Unproject(p, v)
           d == Values(c, w)
<1>1. /\ v[1] \in 0..6 /\ v[2] \in 0..6 /\ v[3] \in 0..6 /\ v[4] \in 0..6
      /\ v[1] \in Int /\ v[2] \in Int /\ v[3] \in Int /\ v[4] \in Int
  BY FourCoordinates
<1>2. /\ p.swu => w[1] = -v[1] - (-v[2] - 1) /\ w[2] = -v[2] - 1
      /\ ~p.swu => w[1] = v[2] - (v[1] - 1) /\ w[2] = v[1] - 1
      /\ w[3] = v[3] /\ w[4] = v[4]
  BY SouthWestIs DEF Unproject
<1> HIDE DEF v, w
<1>3. w[1] \in Int /\ w[2] \in Int /\ w[3] \in Int /\ w[4] \in Int
  BY <1>1, <1>2
<1>4. /\ d \in Between /\ d.stack = c.stack
      /\ d.v[1] = w[1] % 7 /\ d.v[2] = w[2] % 7 /\ d.v[3] = w[3] % 7 /\ d.v[4] = w[4] % 7
  BY <1>3, FourValues
<1> HIDE DEF d
<1>5. d.v[3] = v[3] /\ d.v[4] = v[4]
  <2>1. v[3] % 7 = v[3] /\ v[4] % 7 = v[4]
    BY <1>1
  <2> QED BY <1>2, <1>4, <2>1
<1>6. /\ p.swu => w[1] = -v[1] + v[2] + 1
      /\ ~p.swu => w[1] = v[2] - v[1] + 1
  BY <1>1, <1>2
<1> QED BY <1>2, <1>4, <1>5, <1>6 DEF d, w, v

LEMMA KrovakUndo ==
  ASSUME NEW c \in Between, NEW p \in [swu : BOOLEAN]
  PROVE  /\ LET d == Values(c, Project(p, c.v)) IN Values(d, Unproject(p, d.v)) = c
         /\ LET d == Values(c, Unproject(p, c.v)) IN Values(d, Project(p, d.v)) = c
<1>1. /\ c.v[1] \in 0..6 /\ c.v[2] \in 0..6 /\ c.v[3] \in 0..6 /\ c.v[4] \in 0..6
  BY FourCoordinates
<1>2. LET d == Values(c, Project(p, c.v)) IN Values(d, Unproject(p, d.v)) = c
  <2> DEFINE d == Values(c, Project(p, c.v))
             e == Values(d, Unproject(p, d.v))
  <2>1. /\ d \in Between /\ d.stack = c.stack /\ d.v[3] = c.v[3] /\ d.v[4] = c.v[4]
        /\ p.swu => d.v[1] = (-(c.v[1] + c.v[2])) % 7 /\ d.v[2] = (-(c.v[2] + 1)) % 7
        /\ ~p.swu => d.v[1] = (c.v[2] + 1) % 7 /\ d.v[2] = (c.v[1] + c.v[2]) % 7
    BY ProjectIs
  <2> HIDE DEF d
  <2>2. /\ e \in Between /\ e.stack = d.stack /\ e.v[3] = d.v[3] /\ e.v[4] = d.v[4]
        /\ p.swu => e.v[1] = (-d.v[1] + d.v[2] + 1) % 7 /\ e.v[2] = (-d.v[2] - 1) % 7
        /\ ~p.swu => e.v[1] = (d.v[2] - d.v[1] + 1) % 7 /\ e.v[2] = (d.v[1] - 1) % 7
    BY <2>1, UnprojectIs
  <2> HIDE DEF e
  <2>3. e.v[1] = c.v[1] /\ e.v[2] = c.v[2]
    BY <1>1, <2>1, <2>2
  <2> QED BY <2>1, <2>2, <2>3, FourSame DEF d, e
<1>3. LET d == Values(c, Unproject(p, c.v)) IN Values(d, Project(p, d.v)) = c
  <2> DEFINE d == Values(c, Unproject(p, c.v))
             e == Values(d, Project(p, d.v))
  <2>1. /\ d \in Between /\ d.stack = c.stack /\ d.v[3] = c.v[3] /\ d.v[4] = c.v[4]
        /\ p.swu => d.v[1] = (-c.v[1] + c.v[2] + 1) % 7 /\ d.v[2] = (-c.v[2] - 1) % 7
        /\ ~p.swu => d.v[1] = (c.v[2] - c.v[1] + 1) % 7 /\ d.v[2] = (c.v[1] - 1) % 7
    BY UnprojectIs
  <2> HIDE DEF d
  <2>2. /\ e \in Between /\ e.stack = d.stack /\ e.v[3] = d.v[3] /\ e.v[4] = d.v[4]
        /\ p.swu => e.v[1] = (-(d.v[1] + d.v[2])) % 7 /\ e.v[2] = (-(d.v[2] + 1)) % 7
        /\ ~p.swu => e.v[1] = (d.v[2] + 1) % 7 /\ e.v[2] = (d.v[1] + d.v[2]) % 7
    BY <2>1, ProjectIs
  <2> HIDE DEF e
  <2>3. e.v[1] = c.v[1] /\ e.v[2] = c.v[2]
    BY <1>1, <2>1, <2>2
  <2> QED BY <2>1, <2>2, <2>3, FourSame DEF d, e
<1> QED BY <1>2, <1>3

-----------------------------------------------------------------------------
(* Push and pop.                                                           *)

LEMMA SameFunctions ==
  ASSUME NEW S, NEW T, NEW a \in [S -> T], NEW b \in [S -> T], \A i \in S : a[i] = b[i]
  PROVE  a = b
OBVIOUS

LEMMA StackReplaced ==
  ASSUME NEW A, NEW B, NEW c \in [v : A, stack : B], NEW new
  PROVE  [c EXCEPT !.stack = new] = [v |-> c.v, stack |-> new]
OBVIOUS

LEMMA PushIs ==
  ASSUME NEW c \in Between, NEW which
  PROVE  /\ Push(which, c) \in Between /\ Push(which, c).v = c.v
         /\ \A i \in 1..4 : Push(which, c).stack[i] =
              IF i \in which THEN <<c.v[i]>> \o c.stack[i] ELSE c.stack[i]
<1> DEFINE New == [i \in 1..4 |-> IF i \in which THEN <<c.v[i]>> \o c.stack[i] ELSE c.stack[i]]
<1>1. /\ c.v \in Coordinates /\ c.stack \in [1..4 -> Seq(0..M - 1)]
      /\ c = [v |-> c.v, stack |-> c.stack]
  BY DEF Between
<1>2. Push(which, c) = [v |-> c.v, stack |-> New]
  <2> DEFINE new == New
  <2>1. Push(which, c) = [c EXCEPT !.stack = new]
    BY DEF Push
  <2> HIDE DEF new
  <2>2. [c EXCEPT !.stack = new] = [v |-> c.v, stack |-> new]
    BY StackReplaced, SMTT(60) DEF Between
  <2> QED BY <2>1, <2>2 DEF new
<1>3. \A i \in 1..4 : New[i] \in Seq(0..M - 1)
  <2> TAKE i \in 1..4
  <2>1. c.v[i] \in 0..M - 1 /\ c.stack[i] \in Seq(0..M - 1)
    BY <1>1 DEF Coordinates
  <2>2. <<c.v[i]>> \o c.stack[i] \in Seq(0..M - 1)
    BY <2>1
  <2> QED BY <2>1, <2>2
<1>4. New \in [1..4 -> Seq(0..M - 1)]
  BY <1>3
<1> HIDE DEF New
<1>5. [v |-> c.v, stack |-> New] \in Between
  BY <1>1, <1>4 DEF Between
<1> QED BY <1>2, <1>5 DEF New

LEMMA HeadAndTail ==
  ASSUME NEW S, NEW l \in Seq(S), l # <<>>
  PROVE  Head(l) \in S /\ Tail(l) \in Seq(S)
OBVIOUS

LEMMA PopIs ==
  ASSUME NEW c \in Between, NEW which
  PROVE  /\ Pop(which, c) \in Between
         /\ \A i \in 1..4 :
              /\ i \in which /\ c.stack[i] # <<>> =>
                   Pop(which, c).v[i] = Head(c.stack[i]) /\ Pop(which, c).stack[i] = Tail(c.stack[i])
              /\ ~(i \in which /\ c.stack[i] # <<>>) =>
                   Pop(which, c).v[i] = c.v[i] /\ Pop(which, c).stack[i] = c.stack[i]
<1> DEFINE Popped(i) == i \in which /\ c.stack[i] # <<>>
           V == [i \in 1..4 |-> IF i \in {j \in which : c.stack[j] # <<>>} THEN Head(c.stack[i]) ELSE c.v[i]]
           T == [i \in 1..4 |-> IF i \in {j \in which : c.stack[j] # <<>>} THEN Tail(c.stack[i]) ELSE c.stack[i]]
<1>1. Pop(which, c) = [v |-> V, stack |-> T]
  BY DEF Pop
<1>2. \A i \in 1..4 : /\ Popped(i) => V[i] = Head(c.stack[i]) /\ T[i] = Tail(c.stack[i])
                      /\ ~Popped(i) => V[i] = c.v[i] /\ T[i] = c.stack[i]
  OBVIOUS
<1>3. \A i \in 1..4 : c.v[i] \in 0..M - 1 /\ c.stack[i] \in Seq(0..M - 1)
  BY DEF Between, Coordinates
<1>4. \A i \in 1..4 : V[i] \in 0..M - 1 /\ T[i] \in Seq(0..M - 1)
  <2> HIDE DEF V, T
  <2> TAKE i \in 1..4
  <2>1. CASE Popped(i)
    <3>1. c.stack[i] \in Seq(0..M - 1) /\ c.stack[i] # <<>>
      BY <1>3, <2>1
    <3>2. Head(c.stack[i]) \in 0..M - 1 /\ Tail(c.stack[i]) \in Seq(0..M - 1)
      BY <3>1, HeadAndTail
    <3> QED BY <1>2, <2>1, <3>2
  <2>2. CASE ~Popped(i)
    BY <1>2, <1>3, <2>2
  <2> QED BY <2>1, <2>2
<1>5. V \in Coordinates /\ T \in [1..4 -> Seq(0..M - 1)]
  BY <1>4 DEF Coordinates
<1> HIDE DEF V, T
<1>6. [v |-> V, stack |-> T] \in Between
  BY <1>5 DEF Between
<1> QED BY <1>1, <1>2, <1>6

LEMMA SameStates ==
  ASSUME NEW c \in Between, NEW d \in Between,
         \A i \in 1..4 : c.v[i] = d.v[i] /\ c.stack[i] = d.stack[i]
  PROVE  c = d
<1>1. c.stack \in [1..4 -> Seq(0..M - 1)] /\ d.stack \in [1..4 -> Seq(0..M - 1)]
  BY DEF Between
<1>2. c.stack = d.stack
  <2> DEFINE a == c.stack
             b == d.stack
  <2>1. a \in [1..4 -> Seq(0..M - 1)] /\ b \in [1..4 -> Seq(0..M - 1)] /\ \A i \in 1..4 : a[i] = b[i]
    BY <1>1
  <2> HIDE DEF a, b
  <2>2. a = b
    BY <2>1, SameFunctions, SMTT(60)
  <2> QED BY <2>2 DEF a, b
<1> QED BY <1>2, SameBetween

LEMMA Prepended ==
  ASSUME NEW S, NEW x \in S, NEW list \in Seq(S)
  PROVE  /\ <<x>> \o list # <<>> /\ Head(<<x>> \o list) = x /\ Tail(<<x>> \o list) = list
<1> DEFINE l == <<x>> \o list
<1>1. l \in Seq(S) /\ Len(l) = Len(list) + 1 /\ l[1] = x /\ Len(list) \in Nat
  OBVIOUS
<1>2. \A i \in 1..Len(list) : l[i + 1] = list[i]
  OBVIOUS
<1> HIDE DEF l
<1>3. l # <<>> /\ Head(l) = x
  BY <1>1
<1>4. Tail(l) \in Seq(S) /\ Len(Tail(l)) = Len(list) /\ \A i \in 1..Len(list) : Tail(l)[i] = l[i + 1]
  BY <1>1, <1>3
<1>5. Tail(l) = list
  BY <1>2, <1>4
<1> QED BY <1>3, <1>5 DEF l

LEMMA PushedThenPopped ==
  ASSUME NEW c \in Between, NEW which
  PROVE  Pop(which, Push(which, c)) = c
<1> DEFINE d == Push(which, c)
           e == Pop(which, d)
<1>1. /\ d \in Between /\ d.v = c.v
      /\ \A i \in 1..4 : d.stack[i] =
              IF i \in which THEN <<c.v[i]>> \o c.stack[i] ELSE c.stack[i]
  BY PushIs
<1> HIDE DEF d
<1>2. /\ e \in Between
         /\ \A i \in 1..4 :
              /\ i \in which /\ d.stack[i] # <<>> =>
                   e.v[i] = Head(d.stack[i]) /\ e.stack[i] = Tail(d.stack[i])
              /\ ~(i \in which /\ d.stack[i] # <<>>) =>
                   e.v[i] = d.v[i] /\ e.stack[i] = d.stack[i]
  BY <1>1, PopIs
<1> HIDE DEF e
<1>3. \A i \in 1..4 : e.v[i] = c.v[i] /\ e.stack[i] = c.stack[i]
  <2> TAKE i \in 1..4
  <2>1. CASE i \in which
    <3>1. c.v[i] \in 0..M - 1 /\ c.stack[i] \in Seq(0..M - 1)
      BY DEF Between, Coordinates
    <3>2. d.stack[i] = <<c.v[i]>> \o c.stack[i]
      BY <1>1, <2>1
    <3>3. d.stack[i] # <<>> /\ Head(d.stack[i]) = c.v[i] /\ Tail(d.stack[i]) = c.stack[i]
      BY <3>1, <3>2, Prepended
    <3> QED BY <1>2, <2>1, <3>3
  <2>2. CASE i \notin which
    BY <1>1, <1>2, <2>2
  <2> QED BY <2>1, <2>2
<1>4. e = c
  BY <1>2, <1>3, SameStates
<1> QED BY <1>4 DEF e, d

LEMMA SetIs ==
  ASSUME NEW c \in Between, NEW p \in [v4 : Int]
  PROVE  LET d == Values(c, Set(p, c.v))
         IN  /\ d \in Between /\ d.stack = c.stack
             /\ d.v[1] = c.v[1] /\ d.v[2] = c.v[2] /\ d.v[3] = c.v[3] /\ d.v[4] = p.v4 % 7
<1> DEFINE w == Set(p, c.v)
           d == Values(c, w)
<1>1. /\ c.v[1] \in 0..6 /\ c.v[2] \in 0..6 /\ c.v[3] \in 0..6 /\ c.v \in Coordinates
      /\ c.v[1] % 7 = c.v[1] /\ c.v[2] % 7 = c.v[2] /\ c.v[3] % 7 = c.v[3]
  <2>1. c.v[1] \in 0..6 /\ c.v[2] \in 0..6 /\ c.v[3] \in 0..6
    BY FourCoordinates
  <2>2. c.v[1] % 7 = c.v[1] /\ c.v[2] % 7 = c.v[2] /\ c.v[3] % 7 = c.v[3]
    BY <2>1
  <2>3. c.v \in Coordinates
    BY DEF Between
  <2> QED BY <2>1, <2>2, <2>3
<1>2. w[1] = c.v[1] /\ w[2] = c.v[2] /\ w[3] = c.v[3] /\ w[4] = p.v4
  BY <1>1 DEF Set, Coordinates
<1> HIDE DEF w
<1>3. w[1] \in Int /\ w[2] \in Int /\ w[3] \in Int /\ w[4] \in Int
  BY <1>1, <1>2
<1> QED BY <1>1, <1>2, <1>3, FourValues DEF w

-----------------------------------------------------------------------------
(* Every step: what it does, and that its inverse undoes it.               *)

Do(s, back, c) == IF back THEN Backward(s, c) ELSE Forward(s, c)

LEMMA StepIs ==
  ASSUME NEW s, IsStep(s), NEW c
  PROVE  /\ Fwd(s, c) = IF s.omit = "fwd" THEN c ELSE Do(s, s.inv, c)
         /\ Rev(s, c) = IF s.omit = "inv" THEN c ELSE Do(s, ~s.inv, c)
<1>1. s.inv \in BOOLEAN
  BY ParametersAre
<1>2. CASE s.inv
  BY <1>2 DEF Fwd, Rev, Do
<1>3. CASE ~s.inv
  BY <1>3 DEF Fwd, Rev, Do
<1> QED BY <1>1, <1>2, <1>3

\* Undoing a step that is not a push, a pop or a set.
Undoes(s, c) ==
  /\ Forward(s, c) \in Between /\ Backward(s, c) \in Between
  /\ Backward(s, Forward(s, c)) = c /\ Forward(s, Backward(s, c)) = c

LEMMA UnitsStep ==
  ASSUME NEW s, IsStep(s), s.name = "unitconvert", NEW c \in Between
  PROVE  Undoes(s, c)
<1> DEFINE p == s.par
           q == Opposite(p)
<1>1. p \in [xy : Pair, z : Pair]
  BY ParametersAre
<1>2. \A x : Forward(s, x) = Values(x, ConvertUnits(p, x.v))
  BY ForwardIs
<1>3. \A x : Backward(s, x) = Values(x, ConvertUnits(q, x.v))
  BY BackwardIs DEF Opposite
<1> HIDE DEF q
<1>4. /\ q \in [xy : Pair, z : Pair]
      /\ \A i \in 1..4 : (Scale(p, i) * Scale(q, i)) % M = 1
      /\ Opposite(q) = p
  BY <1>1, OppositeIs DEF q
<1>5. \A i \in 1..4 : (Scale(q, i) * Scale(p, i)) % M = 1
  BY <1>4, OppositeIs
<1> HIDE DEF p
<1>6. /\ Values(c, ConvertUnits(p, c.v)) \in Between
      /\ Values(c, ConvertUnits(q, c.v)) \in Between
  BY <1>1, <1>4, UnitsAre
<1>7. LET d == Values(c, ConvertUnits(p, c.v)) IN Values(d, ConvertUnits(q, d.v)) = c
  BY <1>1, <1>4, UnitsUndo
<1>8. LET d == Values(c, ConvertUnits(q, c.v)) IN Values(d, ConvertUnits(p, d.v)) = c
  BY <1>1, <1>4, <1>5, UnitsUndo
<1> QED BY <1>2, <1>3, <1>6, <1>7, <1>8 DEF Undoes

LEMMA AxesStep ==
  ASSUME NEW s, IsStep(s), s.name = "axisswap", NEW c \in Between
  PROVE  Undoes(s, c)
<1> DEFINE o == s.par
<1>1. o \in Orders
  BY ParametersAre
<1>2. \A x : Forward(s, x) = Values(x, SwapAxes(o, x.v))
  BY ForwardIs
<1>3. \A x : Backward(s, x) = Values(x, UnswapAxes(o, x.v))
  BY BackwardIs
<1> HIDE DEF o
<1>4. Values(c, SwapAxes(o, c.v)) \in Between
  BY <1>1, SwapAxesAre
<1>5. Values(c, UnswapAxes(o, c.v)) \in Between
  BY <1>1, UnswapAxesAre
<1>6. LET d == Values(c, SwapAxes(o, c.v)) IN Values(d, UnswapAxes(o, d.v)) = c
  BY <1>1, AxesUndo
<1>7. LET d == Values(c, UnswapAxes(o, c.v)) IN Values(d, SwapAxes(o, d.v)) = c
  BY <1>1, AxesUndo
<1> QED BY <1>2, <1>3, <1>4, <1>5, <1>6, <1>7 DEF Undoes

LEMMA HelmertStep ==
  ASSUME NEW s, IsStep(s), s.name = "helmert", NEW c \in Between
  PROVE  Undoes(s, c)
<1> DEFINE p == s.par
           one == 1
           minus == -1
<1>1. p \in HelmertPar
  BY ParametersAre
<1>2. \A x : Forward(s, x) = Values(x, Shift(p, one, x.v))
  BY ForwardIs
<1>3. \A x : Backward(s, x) = Values(x, Shift(p, minus, x.v))
  BY BackwardIs
<1>4. one \in Signs /\ minus \in Signs
  BY DEF Signs
<1>5. AddUpToZero(p, one, p, minus) /\ AddUpToZero(p, minus, p, one)
  <2>1. \A i \in 1..4 : Added(p, i) \in Int
    BY <1>1, <1>4, ShiftIs
  <2> QED BY <2>1 DEF AddUpToZero, Total
<1> HIDE DEF p, one, minus
<1>6. Values(c, Shift(p, one, c.v)) \in Between /\ Values(c, Shift(p, minus, c.v)) \in Between
  BY <1>1, <1>4, ShiftIs
<1>7. LET d == Values(c, Shift(p, one, c.v)) IN Values(d, Shift(p, minus, d.v)) = c
  BY <1>1, <1>4, <1>5, ShiftUndone
<1>8. LET d == Values(c, Shift(p, minus, c.v)) IN Values(d, Shift(p, one, d.v)) = c
  BY <1>1, <1>4, <1>5, ShiftUndone
<1> QED BY <1>2, <1>3, <1>6, <1>7, <1>8 DEF Undoes

LEMMA ByGridStep ==
  ASSUME NEW s, IsStep(s), s.name = "hgridshift", NEW c \in Between
  PROVE  Undoes(s, c)
<1> DEFINE p == s.par
           one == 1
           minus == -1
<1>1. p \in [grid : Int]
  BY ParametersAre
<1>2. \A x : Forward(s, x) = Values(x, ShiftByGrid(p, one, x.v))
  BY ForwardIs
<1>3. \A x : Backward(s, x) = Values(x, ShiftByGrid(p, minus, x.v))
  BY BackwardIs
<1>4. one \in Signs /\ minus \in Signs /\ -one = minus /\ -minus = one
  <2>1. one \in Signs /\ minus \in Signs
    BY DEF Signs
  <2>2. one + minus = 0 /\ one \in Int /\ minus \in Int
    OBVIOUS
  <2> HIDE DEF one, minus
  <2>3. -one = minus /\ -minus = one
    BY <2>2
  <2> QED BY <2>1, <2>3
<1> HIDE DEF p, one, minus
<1>6. LET d == Values(c, ShiftByGrid(p, one, c.v))
      IN d \in Between /\ Values(d, ShiftByGrid(p, -one, d.v)) = c
  BY <1>1, <1>4, ByGridUndone
<1>7. LET d == Values(c, ShiftByGrid(p, minus, c.v))
      IN d \in Between /\ Values(d, ShiftByGrid(p, -minus, d.v)) = c
  BY <1>1, <1>4, ByGridUndone
<1> QED BY <1>2, <1>3, <1>4, <1>6, <1>7 DEF Undoes

LEMMA HeightStep ==
  ASSUME NEW s, IsStep(s), s.name = "vgridshift", NEW c \in Between
  PROVE  Undoes(s, c)
<1> DEFINE one == 1
           minus == -1
<1>2. \A x : Forward(s, x) = Values(x, ShiftHeight(one, x.v))
  BY ForwardIs
<1>3. \A x : Backward(s, x) = Values(x, ShiftHeight(minus, x.v))
  BY BackwardIs
<1>4. one \in Signs /\ minus \in Signs /\ -one = minus /\ -minus = one
  <2>1. one \in Signs /\ minus \in Signs
    BY DEF Signs
  <2>2. one + minus = 0 /\ one \in Int /\ minus \in Int
    OBVIOUS
  <2> HIDE DEF one, minus
  <2>3. -one = minus /\ -minus = one
    BY <2>2
  <2> QED BY <2>1, <2>3
<1> HIDE DEF one, minus
<1>6. LET d == Values(c, ShiftHeight(one, c.v))
      IN d \in Between /\ Values(d, ShiftHeight(-one, d.v)) = c
  BY <1>4, HeightUndone
<1>7. LET d == Values(c, ShiftHeight(minus, c.v))
      IN d \in Between /\ Values(d, ShiftHeight(-minus, d.v)) = c
  BY <1>4, HeightUndone
<1> QED BY <1>2, <1>3, <1>4, <1>6, <1>7 DEF Undoes

LEMMA CartStep ==
  ASSUME NEW s, s.name = "cart", NEW c \in Between
  PROVE  Undoes(s, c)
<1>2. \A x : Forward(s, x) = Values(x, ToGeocentric(x.v))
  BY ForwardIs
<1>3. \A x : Backward(s, x) = Values(x, FromGeocentric(x.v))
  BY BackwardIs
<1>6. LET d == Values(c, ToGeocentric(c.v))
      IN d \in Between /\ Values(d, FromGeocentric(d.v)) = c
  BY CartUndo
<1>7. LET d == Values(c, FromGeocentric(c.v))
      IN d \in Between /\ Values(d, ToGeocentric(d.v)) = c
  BY CartUndo
<1> QED BY <1>2, <1>3, <1>6, <1>7 DEF Undoes

LEMMA KrovakStep ==
  ASSUME NEW s, IsStep(s), s.name = "krovak", NEW c \in Between
  PROVE  Undoes(s, c)
<1> DEFINE p == s.par
<1>1. p \in [swu : BOOLEAN]
  BY ParametersAre
<1>2. \A x : Forward(s, x) = Values(x, Project(p, x.v))
  BY ForwardIs
<1>3. \A x : Backward(s, x) = Values(x, Unproject(p, x.v))
  BY BackwardIs
<1> HIDE DEF p
<1>4. Values(c, Project(p, c.v)) \in Between
  BY <1>1, ProjectIs
<1>5. Values(c, Unproject(p, c.v)) \in Between
  BY <1>1, UnprojectIs
<1>6. LET d == Values(c, Project(p, c.v)) IN Values(d, Unproject(p, d.v)) = c
  BY <1>1, KrovakUndo
<1>7. LET d == Values(c, Unproject(p, c.v)) IN Values(d, Project(p, d.v)) = c
  BY <1>1, KrovakUndo
<1> QED BY <1>2, <1>3, <1>4, <1>5, <1>6, <1>7 DEF Undoes

LEMMA StepUndoes ==
  ASSUME NEW s, IsStep(s), s.name \notin {"push", "pop", "set"}, NEW c \in Between
  PROVE  Undoes(s, c)
<1>1. CASE s.name \in {"noop", "longlat"}
  <2>1. \A x : Forward(s, x) = x /\ Backward(s, x) = x
    BY <1>1, ForwardIs, BackwardIs
  <2> QED BY <2>1 DEF Undoes
<1>2. CASE s.name = "unitconvert"
  BY <1>2, UnitsStep
<1>3. CASE s.name = "axisswap"
  BY <1>3, AxesStep
<1>4. CASE s.name = "helmert"
  BY <1>4, HelmertStep
<1>5. CASE s.name = "hgridshift"
  BY <1>5, ByGridStep
<1>6. CASE s.name = "vgridshift"
  BY <1>6, HeightStep
<1>7. CASE s.name = "cart"
  BY <1>7, CartStep
<1>8. CASE s.name = "krovak"
  BY <1>8, KrovakStep
<1>9. s.name \in Names
  BY ParametersAre
<1> QED BY <1>1, <1>2, <1>3, <1>4, <1>5, <1>6, <1>7, <1>8, <1>9 DEF Names

LEMMA SetStep ==
  ASSUME NEW s, IsStep(s), s.name = "set", NEW c \in Between
  PROVE  /\ Forward(s, c) = Backward(s, c) /\ Forward(s, c) \in Between
         /\ Forward(s, c) = Values(c, Set(s.par, c.v))
<1>1. s.par \in [v4 : Int]
  BY ParametersAre
<1>2. Forward(s, c) = Values(c, Set(s.par, c.v))
  BY ForwardIs
<1>3. Backward(s, c) = Values(c, Set(s.par, c.v))
  BY BackwardIs
<1>4. Values(c, Set(s.par, c.v)) \in Between
  BY <1>1, SetIs
<1> QED BY <1>2, <1>3, <1>4

LEMMA StackStep ==
  ASSUME NEW s, s.name \in {"push", "pop"}, NEW c \in Between
  PROVE  Forward(s, c) \in Between /\ Backward(s, c) \in Between
<1>1. s.name = "push" => Forward(s, c) = Push(s.par, c) /\ Backward(s, c) = Pop(s.par, c)
  BY ForwardIs, BackwardIs
<1>2. s.name = "pop" => Forward(s, c) = Pop(s.par, c) /\ Backward(s, c) = Push(s.par, c)
  BY ForwardIs, BackwardIs
<1>3. Push(s.par, c) \in Between /\ Pop(s.par, c) \in Between
  BY PushIs, PopIs
<1> QED BY <1>1, <1>2, <1>3

LEMMA DoType ==
  ASSUME NEW s, IsStep(s), NEW back \in BOOLEAN, NEW c \in Between
  PROVE  Do(s, back, c) \in Between
<1>1. Forward(s, c) \in Between /\ Backward(s, c) \in Between
  <2>1. CASE s.name \in {"push", "pop"}
    BY <2>1, StackStep
  <2>2. CASE s.name = "set"
    BY <2>2, SetStep
  <2>3. CASE s.name \notin {"push", "pop", "set"}
    BY <2>3, StepUndoes DEF Undoes
  <2> QED BY <2>1, <2>2, <2>3
<1> QED BY <1>1 DEF Do

LEMMA DoUndone ==
  ASSUME NEW s, IsStep(s), s.name \notin {"push", "pop", "set"}, NEW back \in BOOLEAN,
         NEW c \in Between
  PROVE  Do(s, ~back, Do(s, back, c)) = c
BY StepUndoes DEF Undoes, Do

LEMMA FwdRevType ==
  ASSUME NEW s, IsStep(s), NEW c \in Between
  PROVE  Fwd(s, c) \in Between /\ Rev(s, c) \in Between
<1>1. s.inv \in BOOLEAN /\ (~s.inv) \in BOOLEAN
  BY ParametersAre
<1>2. Do(s, s.inv, c) \in Between /\ Do(s, ~s.inv, c) \in Between
  BY <1>1, DoType
<1> QED BY <1>2, StepIs

-----------------------------------------------------------------------------
(* Lists of steps that do the same.                                        *)

Steps == UNION {[name : {n}, inv : BOOLEAN, par : Parameters(n), omit : Omits] : n \in Names}

LEMMA StepsAre ==
  ASSUME NEW s
  PROVE  s \in Steps <=> IsStep(s)
<1>1. ASSUME s \in Steps PROVE IsStep(s)
  <2>1. PICK n \in Names : s \in [name : {n}, inv : BOOLEAN, par : Parameters(n), omit : Omits]
    BY <1>1 DEF Steps
  <2>2. s.name = n
    BY <2>1
  <2> QED BY <2>1, <2>2 DEF IsStep
<1>2. ASSUME IsStep(s) PROVE s \in Steps
  <2>1. s \in [name : Names, inv : BOOLEAN, par : Parameters(s.name), omit : Omits]
    BY <1>2 DEF IsStep
  <2>2. s \in [name : {s.name}, inv : BOOLEAN, par : Parameters(s.name), omit : Omits] /\ s.name \in Names
    BY <2>1
  <2> QED BY <2>2 DEF Steps
<1> QED BY <1>1, <1>2

SameForward(a, b) == \A c \in Between : RunForward(a, c) = RunForward(b, c)
SameReverse(a, b) == \A c \in Between : RunReverse(a, c) = RunReverse(b, c)
Same(a, b) == SameForward(a, b) /\ SameReverse(a, b)

LEMMA StepsOf ==
  ASSUME NEW list \in Seq(Steps)
  PROVE  /\ Len(list) \in Nat
         /\ \A i \in 1..Len(list) : list[i] \in Steps /\ IsStep(list[i]) /\ list[i].inv \in BOOLEAN
<1>1. Len(list) \in Nat /\ \A i \in 1..Len(list) : list[i] \in Steps
  OBVIOUS
<1>2. \A i \in 1..Len(list) : IsStep(list[i])
  BY <1>1, StepsAre
<1> QED BY <1>1, <1>2, ParametersAre

LEMMA ForwardType ==
  ASSUME NEW list \in Seq(Steps), NEW c \in Between
  PROVE  RunForward(list, c) \in Between
<1>1. Len(list) \in Nat /\ \A i \in 1..Len(list) : IsStep(list[i])
  BY StepsOf
<1>2. PICK t : IsRun(t, list, c)
  BY <1>1, RunExists
<1> DEFINE S == {n \in 0..Len(list) : t[n] \in Between}
<1>3. 0 \in S
  BY <1>1, <1>2 DEF IsRun
<1>4. ASSUME NEW n \in 1..Len(list), n - 1 \in S PROVE n \in S
  <2>1. t[n] = Fwd(list[n], t[n - 1])
    BY <1>2 DEF IsRun
  <2>2. t[n] \in Between
    BY <1>1, <1>4, <2>1, FwdRevType
  <2> QED BY <1>1, <2>2
<1> HIDE DEF S
<1>5. \A n \in 0..Len(list) : n \in S
  BY <1>1, <1>3, <1>4, Induct
<1>6. t[Len(list)] \in Between
  BY <1>1, <1>5 DEF S
<1> QED BY <1>1, <1>2, <1>6, RunForwardIs

LEMMA FlippedSteps ==
  ASSUME NEW list \in Seq(Steps)
  PROVE  Flipped(list) \in Seq(Steps)
<1>1. Len(list) \in Nat /\ \A i \in 1..Len(list) : IsStep(list[i])
  BY StepsOf
<1>2. ASSUME NEW s, IsStep(s) PROVE IsStep(Flip(s))
  <2>1. s.name \in Names /\ s.inv \in BOOLEAN /\ s.omit \in Omits /\ s.par \in Parameters(s.name)
    BY <1>2 DEF IsStep
  <2>2. OtherOmit(s.omit) \in Omits
    BY <2>1 DEF OtherOmit, Omits
  <2>3. Flip(s).name = s.name
    BY DEF Flip
  <2> QED BY <2>1, <2>2, <2>3 DEF Flip, IsStep
<1>3. \A i \in 1..Len(list) : Flip(list[Len(list) + 1 - i]) \in Steps
  BY <1>1, <1>2, StepsAre
<1> QED BY <1>1, <1>3 DEF Flipped

LEMMA ReverseType ==
  ASSUME NEW list \in Seq(Steps), NEW c \in Between
  PROVE  RunReverse(list, c) \in Between
<1>1. Len(list) \in Nat /\ \A i \in 1..Len(list) : list[i].inv \in BOOLEAN
  BY StepsOf
<1>2. RunReverse(list, c) = RunForward(Flipped(list), c)
  BY <1>1, ReverseIsForwardOfFlipped
<1> QED BY <1>2, FlippedSteps, ForwardType

LEMMA NoStep ==
  ASSUME NEW c
  PROVE  RunForward(<<>>, c) = c /\ RunReverse(<<>>, c) = c
<1>1. Len(<<>>) = 0
  OBVIOUS
<1>2. PICK t : IsRun(t, <<>>, c)
  BY <1>1, RunExists
<1>3. RunForward(<<>>, c) = t[0]
  BY <1>1, <1>2, RunForwardIs
<1>4. PICK u : IsReverseRun(u, <<>>, c)
  BY <1>1, ReverseRunExists
<1>5. RunReverse(<<>>, c) = u[1]
  BY <1>1, <1>4, RunReverseIs
<1>6. t[0] = c /\ u[1] = c
  BY <1>1, <1>2, <1>4 DEF IsRun, IsReverseRun
<1> QED BY <1>3, <1>5, <1>6

LEMMA OneStep ==
  ASSUME NEW list, Len(list) = 1, list[1].inv \in BOOLEAN, NEW c
  PROVE  RunForward(list, c) = Fwd(list[1], c) /\ RunReverse(list, c) = Rev(list[1], c)
<1>1. Len(list) \in Nat /\ \A n \in 1..Len(list) : list[n].inv \in BOOLEAN
  OBVIOUS
<1>2. PICK t : IsRun(t, list, c)
  BY <1>1, RunExists
<1>3. RunForward(list, c) = t[1]
  BY <1>1, <1>2, RunForwardIs
<1>4. PICK u : IsReverseRun(u, list, c)
  BY <1>1, ReverseRunExists
<1>5. RunReverse(list, c) = u[1]
  BY <1>1, <1>4, RunReverseIs
<1>6. t[0] = c /\ t[1] = Fwd(list[1], t[0])
  BY <1>2 DEF IsRun
<1>7. u[2] = c /\ u[1] = Rev(list[1], u[2])
  BY <1>4 DEF IsReverseRun
<1> QED BY <1>3, <1>5, <1>6, <1>7

LEMMA TwoSteps ==
  ASSUME NEW list, Len(list) = 2, list[1].inv \in BOOLEAN, list[2].inv \in BOOLEAN, NEW c
  PROVE  /\ RunForward(list, c) = Fwd(list[2], Fwd(list[1], c))
         /\ RunReverse(list, c) = Rev(list[1], Rev(list[2], c))
<1>1. Len(list) \in Nat
  OBVIOUS
<1>2. PICK t : IsRun(t, list, c)
  BY <1>1, RunExists
<1>3. RunForward(list, c) = t[2]
  BY <1>1, <1>2, RunForwardIs
<1>4. PICK u : IsReverseRun(u, list, c)
  <2>1. \A n \in 1..Len(list) : list[n].inv \in BOOLEAN
    <3> TAKE n \in 1..Len(list)
    <3>1. n = 1 \/ n = 2
      OBVIOUS
    <3> QED BY <3>1
  <2> QED BY <1>1, <2>1, ReverseRunExists
<1>5. RunReverse(list, c) = u[1]
  BY <1>1, <1>4, RunReverseIs
<1>6. t[0] = c /\ t[1] = Fwd(list[1], t[0]) /\ t[2] = Fwd(list[2], t[1])
  <2>1. 1 \in 1..Len(list) /\ 2 \in 1..Len(list)
    OBVIOUS
  <2> QED BY <1>2, <2>1 DEF IsRun
<1>7. u[3] = c /\ u[2] = Rev(list[2], u[3]) /\ u[1] = Rev(list[1], u[2])
  <2>1. 1 \in 1..Len(list) /\ 2 \in 1..Len(list)
    OBVIOUS
  <2> QED BY <1>4, <2>1 DEF IsReverseRun
<1> QED BY <1>3, <1>5, <1>6, <1>7

LEMMA ReverseOfBoth ==
  ASSUME NEW a \in Seq(Steps), NEW b \in Seq(Steps), NEW c
  PROVE  RunReverse(a \o b, c) = RunReverse(a, RunReverse(b, c))
<1>1. \A n \in 1..Len(a) : a[n].inv \in BOOLEAN
  BY StepsOf
<1>2. \A n \in 1..Len(b) : b[n].inv \in BOOLEAN
  BY StepsOf
<1> QED BY <1>1, <1>2, ReverseConcat

\* The part of a list that is replaced by one of the same meaning.
LEMMA SameWithin ==
  ASSUME NEW a \in Seq(Steps), NEW w \in Seq(Steps), NEW m \in Seq(Steps), NEW b \in Seq(Steps)
  PROVE  /\ SameForward(w, m) => SameForward(a \o w \o b, a \o m \o b)
         /\ SameReverse(w, m) => SameReverse(a \o w \o b, a \o m \o b)
<1>1. a \o w \in Seq(Steps) /\ a \o m \in Seq(Steps)
  OBVIOUS
<1>2. ASSUME SameForward(w, m), NEW c \in Between
      PROVE  RunForward(a \o w \o b, c) = RunForward(a \o m \o b, c)
  <2>1. RunForward(a, c) \in Between
    BY ForwardType
  <2>2. RunForward(a \o w, c) = RunForward(a \o m, c)
    BY <1>2, <2>1, ForwardConcat DEF SameForward
  <2> DEFINE x == a \o w
             y == a \o m
  <2>3. x \in Seq(Steps) /\ y \in Seq(Steps) /\ RunForward(x, c) = RunForward(y, c)
    BY <1>1, <2>2
  <2> HIDE DEF x, y
  <2>4. RunForward(x \o b, c) = RunForward(y \o b, c)
    BY <2>3, ForwardConcat
  <2> QED BY <2>4 DEF x, y
<1>3. ASSUME SameReverse(w, m), NEW c \in Between
      PROVE  RunReverse(a \o w \o b, c) = RunReverse(a \o m \o b, c)
  <2>1. RunReverse(b, c) \in Between
    BY ReverseType
  <2> DEFINE x == a \o w
             y == a \o m
             d == RunReverse(b, c)
  <2>2. x \in Seq(Steps) /\ y \in Seq(Steps)
    BY <1>1
  <2> HIDE DEF x, y
  <2>3. RunReverse(x \o b, c) = RunReverse(x, d) /\ RunReverse(y \o b, c) = RunReverse(y, d)
    BY <2>2, ReverseOfBoth
  <2>4. RunReverse(x, d) = RunReverse(a, RunReverse(w, d))
    BY ReverseOfBoth DEF x
  <2>5. RunReverse(y, d) = RunReverse(a, RunReverse(m, d))
    BY ReverseOfBoth DEF y
  <2>6. RunReverse(w, d) = RunReverse(m, d)
    BY <1>3, <2>1 DEF SameReverse
  <2>7. RunReverse(x, d) = RunReverse(y, d)
    BY <2>4, <2>5, <2>6
  <2> QED BY <2>3, <2>7 DEF x, y
<1> QED BY <1>2, <1>3 DEF SameForward, SameReverse

LEMMA SameLists ==
  ASSUME NEW S, NEW a \in Seq(S), NEW b \in Seq(S), Len(b) = Len(a),
         \A i \in 1..Len(a) : a[i] = b[i]
  PROVE  a = b
OBVIOUS

LEMMA Split ==
  ASSUME NEW S, NEW list \in Seq(S), NEW from \in 1..Len(list) + 1, NEW to \in from - 1..Len(list)
  PROVE  /\ list = SubSeq(list, 1, from - 1) \o SubSeq(list, from, to) \o SubSeq(list, to + 1, Len(list))
         /\ SubSeq(list, 1, from - 1) \in Seq(S)
         /\ SubSeq(list, from, to) \in Seq(S) /\ Len(SubSeq(list, from, to)) = to - from + 1
         /\ SubSeq(list, to + 1, Len(list)) \in Seq(S)
         /\ \A i \in 1..to - from + 1 : SubSeq(list, from, to)[i] = list[from + i - 1]
<1> DEFINE a == SubSeq(list, 1, from - 1)
           w == SubSeq(list, from, to)
           b == SubSeq(list, to + 1, Len(list))
<1>0. Len(list) \in Nat /\ from \in Nat /\ to \in Nat
  OBVIOUS
<1>1. a \in Seq(S) /\ Len(a) = from - 1 /\ \A i \in 1..from - 1 : a[i] = list[i]
  OBVIOUS
<1>2. w \in Seq(S) /\ Len(w) = to - from + 1 /\ \A i \in 1..to - from + 1 : w[i] = list[from + i - 1]
  OBVIOUS
<1>3. b \in Seq(S) /\ Len(b) = Len(list) - to /\ \A i \in 1..Len(list) - to : b[i] = list[to + i]
  OBVIOUS
<1> HIDE DEF a, w, b
<1>4. /\ a \o w \in Seq(S) /\ Len(a \o w) = to
      /\ \A i \in 1..to : (a \o w)[i] = list[i]
  <2>1. a \o w \in Seq(S) /\ Len(a \o w) = to
    BY <1>0, <1>1, <1>2
  <2>2. ASSUME NEW i \in 1..to PROVE (a \o w)[i] = list[i]
    <3>1. CASE i <= from - 1
      BY <1>0, <1>1, <1>2, <3>1
    <3>2. CASE ~(i <= from - 1)
      <4>1. (a \o w)[i] = w[i - (from - 1)]
        BY <1>0, <1>1, <1>2, <3>2
      <4>2. i - (from - 1) \in 1..to - from + 1 /\ from + (i - (from - 1)) - 1 = i
        BY <1>0, <3>2
      <4> QED BY <1>2, <4>1, <4>2
    <3> QED BY <3>1, <3>2
  <2> QED BY <2>1, <2>2
<1>5. /\ a \o w \o b \in Seq(S) /\ Len(a \o w \o b) = Len(list)
      /\ \A i \in 1..Len(list) : (a \o w \o b)[i] = list[i]
  <2> DEFINE x == a \o w
  <2>1. x \in Seq(S) /\ Len(x) = to /\ \A i \in 1..to : x[i] = list[i]
    BY <1>4
  <2> HIDE DEF x
  <2>2. x \o b \in Seq(S) /\ Len(x \o b) = Len(list)
    BY <1>0, <1>3, <2>1
  <2>3. ASSUME NEW i \in 1..Len(list) PROVE (x \o b)[i] = list[i]
    <3>1. CASE i <= to
      BY <1>0, <1>3, <2>1, <3>1
    <3>2. CASE ~(i <= to)
      <4>1. (x \o b)[i] = b[i - to]
        BY <1>0, <1>3, <2>1, <3>2
      <4>2. i - to \in 1..Len(list) - to /\ to + (i - to) = i
        BY <1>0, <3>2
      <4> QED BY <1>3, <4>1, <4>2
    <3> QED BY <3>1, <3>2
  <2> QED BY <2>2, <2>3 DEF x
<1>6. list = a \o w \o b
  <2> DEFINE x == a \o w \o b
  <2> HIDE DEF x
  <2>1. x \in Seq(S) /\ Len(x) = Len(list) /\ \A i \in 1..Len(list) : list[i] = x[i]
    BY <1>5 DEF x
  <2>2. list = x
    BY <2>1, SameLists
  <2> QED BY <2>2 DEF x
<1> QED BY <1>1, <1>2, <1>3, <1>6 DEF a, w, b

\* Splice, for a part of the steps that is replaced by one of the same meaning.
LEMMA SplicedMeans ==
  ASSUME steps \in Seq(Steps), NEW from \in 1..Len(steps) + 1, NEW to \in from - 1..Len(steps),
         NEW mid \in Seq(Steps)
  PROVE  /\ Splice(from, to, mid) \in Seq(Steps)
         /\ SameForward(SubSeq(steps, from, to), mid) => SameForward(steps, Splice(from, to, mid))
         /\ SameReverse(SubSeq(steps, from, to), mid) => SameReverse(steps, Splice(from, to, mid))
<1> DEFINE a == SubSeq(steps, 1, from - 1)
           w == SubSeq(steps, from, to)
           b == SubSeq(steps, to + 1, Len(steps))
<1>1. steps = a \o w \o b /\ a \in Seq(Steps) /\ w \in Seq(Steps) /\ b \in Seq(Steps)
  BY Split, ZenonT(60)
<1>2. Splice(from, to, mid) = a \o mid \o b
  BY DEF Splice
<1> HIDE DEF a, w, b
<1>3. a \o mid \o b \in Seq(Steps)
  BY <1>1
<1>4. /\ SameForward(w, mid) => SameForward(a \o w \o b, a \o mid \o b)
      /\ SameReverse(w, mid) => SameReverse(a \o w \o b, a \o mid \o b)
  BY <1>1, SameWithin
<1> QED BY <1>1, <1>2, <1>3, <1>4 DEF w

\* Steps that are replaced one by one.
LEMMA SameOneByOne ==
  ASSUME NEW a \in Seq(Steps), NEW b \in Seq(Steps), Len(a) = Len(b),
         \A n \in 1..Len(a) : \A c \in Between : Fwd(a[n], c) = Fwd(b[n], c) /\ Rev(a[n], c) = Rev(b[n], c)
  PROVE  Same(a, b)
<1>1. /\ Len(a) \in Nat /\ \A n \in 1..Len(a) : IsStep(a[n]) /\ a[n].inv \in BOOLEAN
      /\ Len(b) \in Nat /\ \A n \in 1..Len(b) : IsStep(b[n]) /\ b[n].inv \in BOOLEAN
  BY StepsOf
<1>2. ASSUME NEW c \in Between PROVE RunForward(a, c) = RunForward(b, c)
  <2>1. PICK t : IsRun(t, a, c)
    BY <1>1, RunExists
  <2>2. PICK u : IsRun(u, b, c)
    BY <1>1, RunExists
  <2> DEFINE S == {n \in 0..Len(a) : t[n] = u[n] /\ t[n] \in Between}
  <2>3. 0 \in S
    BY <1>1, <2>1, <2>2 DEF IsRun
  <2>4. ASSUME NEW n \in 1..Len(a), n - 1 \in S PROVE n \in S
    <3>1. t[n] = Fwd(a[n], t[n - 1]) /\ u[n] = Fwd(b[n], u[n - 1])
      BY <2>1, <2>2 DEF IsRun
    <3>2. t[n - 1] = u[n - 1] /\ t[n - 1] \in Between
      BY <2>4
    <3>3. t[n] = u[n]
      BY <3>1, <3>2
    <3>4. t[n] \in Between
      BY <1>1, <3>1, <3>2, FwdRevType
    <3> QED BY <1>1, <3>3, <3>4
  <2> HIDE DEF S
  <2>5. \A n \in 0..Len(a) : n \in S
    BY <1>1, <2>3, <2>4, Induct
  <2>6. t[Len(a)] = u[Len(a)]
    BY <1>1, <2>5 DEF S
  <2> QED BY <1>1, <2>1, <2>2, <2>6, RunForwardIs
<1>3. ASSUME NEW c \in Between PROVE RunReverse(a, c) = RunReverse(b, c)
  <2>1. PICK t : IsReverseRun(t, a, c)
    BY <1>1, ReverseRunExists
  <2>2. PICK u : IsReverseRun(u, b, c)
    BY <1>1, ReverseRunExists
  <2> DEFINE N == Len(a)
             S == {n \in 0..N : t[N + 1 - n] = u[N + 1 - n] /\ t[N + 1 - n] \in Between}
  <2>3. 0 \in S
    <3>1. t[N + 1] = c /\ u[N + 1] = c /\ N + 1 - 0 = N + 1
      BY <1>1, <2>1, <2>2 DEF IsReverseRun
    <3> QED BY <1>1, <3>1
  <2>4. ASSUME NEW n \in 1..N, n - 1 \in S PROVE n \in S
    <3> DEFINE k == N + 1 - n
    <3>0. k \in 1..N /\ N + 1 - (n - 1) = k + 1
      BY <1>1
    <3> HIDE DEF k
    <3>1. t[k] = Rev(a[k], t[k + 1]) /\ u[k] = Rev(b[k], u[k + 1])
      BY <2>1, <2>2, <3>0 DEF IsReverseRun
    <3>2. t[k + 1] = u[k + 1] /\ t[k + 1] \in Between
      BY <2>4, <3>0
    <3>3. t[k] = u[k]
      BY <3>0, <3>1, <3>2
    <3>4. t[k] \in Between
      BY <1>1, <3>0, <3>1, <3>2, FwdRevType
    <3> QED BY <1>1, <3>3, <3>4 DEF k
  <2> HIDE DEF S
  <2>5. \A n \in 0..N : n \in S
    BY <1>1, <2>3, <2>4, Induct
  <2>6. t[1] = u[1]
    <3>1. N \in S /\ N + 1 - N = 1
      BY <1>1, <2>5
    <3> QED BY <3>1 DEF S
  <2> QED BY <1>1, <2>1, <2>2, <2>6, RunReverseIs
<1> QED BY <1>2, <1>3 DEF Same, SameForward, SameReverse

LEMMA SameDo ==
  ASSUME NEW s, NEW t, s.name = t.name, s.par = t.par, NEW back, NEW c
  PROVE  Do(s, back, c) = Do(t, back, c)
<1>1. Forward(s, c) = Forward(t, c)
  BY DEF Forward
<1>2. Backward(s, c) = Backward(t, c)
  BY DEF Backward
<1> QED BY <1>1, <1>2 DEF Do

-----------------------------------------------------------------------------
(* Lists that can be undone: forward is enough.                            *)

\* Steps that do the same in the other direction, backwards.
Reversible(s) == s.name \notin {"push", "pop", "set"} /\ s.omit = "none"

LEMMA ReversibleUndone ==
  ASSUME NEW s, IsStep(s), Reversible(s), NEW c \in Between
  PROVE  Rev(s, Fwd(s, c)) = c /\ Fwd(s, Rev(s, c)) = c
<1>1. s.inv \in BOOLEAN /\ (~s.inv) \in BOOLEAN /\ (~~s.inv) = s.inv
  BY ParametersAre
<1>2. \A x : Fwd(s, x) = Do(s, s.inv, x) /\ Rev(s, x) = Do(s, ~s.inv, x)
  BY StepIs DEF Reversible
<1>3. Do(s, ~s.inv, Do(s, s.inv, c)) = c
  BY <1>1, DoUndone DEF Reversible
<1> DEFINE b == ~s.inv
<1>4. Do(s, ~b, Do(s, b, c)) = c
  BY <1>1, DoUndone DEF Reversible
<1>5. Do(s, s.inv, Do(s, ~s.inv, c)) = c
  BY <1>1, <1>4
<1> QED BY <1>2, <1>3, <1>5

AllReversible(list) == \A n \in 1..Len(list) : Reversible(list[n])

LEMMA ListUndone ==
  ASSUME NEW list \in Seq(Steps), AllReversible(list), NEW c \in Between
  PROVE  /\ RunReverse(list, RunForward(list, c)) = c
         /\ RunForward(list, RunReverse(list, c)) = c
<1> DEFINE N == Len(list)
<1>1. /\ N \in Nat /\ \A n \in 1..N : IsStep(list[n]) /\ list[n].inv \in BOOLEAN /\ Reversible(list[n])
  BY StepsOf DEF AllReversible
<1>2. RunReverse(list, RunForward(list, c)) = c
  <2>1. PICK t : IsRun(t, list, c)
    BY <1>1, RunExists
  <2>2. RunForward(list, c) = t[N]
    BY <1>1, <2>1, RunForwardIs
  <2>3. \A n \in 0..N : t[n] \in Between
    <3> DEFINE S == {n \in 0..N : t[n] \in Between}
    <3>1. 0 \in S
      BY <1>1, <2>1 DEF IsRun
    <3>2. ASSUME NEW n \in 1..N, n - 1 \in S PROVE n \in S
      <4>1. t[n] = Fwd(list[n], t[n - 1])
        BY <2>1 DEF IsRun
      <4>2. t[n] \in Between
        BY <1>1, <3>2, <4>1, FwdRevType
      <4> QED BY <1>1, <4>2
    <3> HIDE DEF S
    <3>3. \A n \in 0..N : n \in S
      BY <1>1, <3>1, <3>2, Induct
    <3> QED BY <3>3 DEF S
  <2> DEFINE u == [n \in 1..N + 1 |-> t[n - 1]]
  <2>4. u[N + 1] = t[N] /\ u[1] = t[0]
    BY <1>1
  <2>5. ASSUME NEW n \in 1..N PROVE u[n] = Rev(list[n], u[n + 1])
    <3>1. u[n] = t[n - 1] /\ u[n + 1] = t[n]
      BY <1>1
    <3>2. t[n] = Fwd(list[n], t[n - 1]) /\ n - 1 \in 0..N
      BY <1>1, <2>1 DEF IsRun
    <3>3. Rev(list[n], Fwd(list[n], t[n - 1])) = t[n - 1]
      BY <1>1, <2>3, <3>2, ReversibleUndone
    <3> QED BY <3>1, <3>2, <3>3
  <2> HIDE DEF u
  <2>6. IsReverseRun(u, list, t[N])
    BY <2>4, <2>5 DEF IsReverseRun
  <2>7. RunReverse(list, t[N]) = u[1]
    BY <1>1, <2>6, RunReverseIs
  <2> QED BY <2>1, <2>2, <2>4, <2>7 DEF IsRun
<1>3. RunForward(list, RunReverse(list, c)) = c
  <2>1. PICK u : IsReverseRun(u, list, c)
    BY <1>1, ReverseRunExists
  <2>2. RunReverse(list, c) = u[1]
    BY <1>1, <2>1, RunReverseIs
  <2>3. \A n \in 0..N : u[N + 1 - n] \in Between
    <3> DEFINE S == {n \in 0..N : u[N + 1 - n] \in Between}
    <3>1. 0 \in S
      <4>1. u[N + 1] = c /\ N + 1 - 0 = N + 1
        BY <1>1, <2>1 DEF IsReverseRun
      <4> QED BY <1>1, <4>1
    <3>2. ASSUME NEW n \in 1..N, n - 1 \in S PROVE n \in S
      <4> DEFINE k == N + 1 - n
      <4>0. k \in 1..N /\ N + 1 - (n - 1) = k + 1
        BY <1>1
      <4> HIDE DEF k
      <4>1. u[k] = Rev(list[k], u[k + 1]) /\ u[k + 1] \in Between
        BY <2>1, <3>2, <4>0 DEF IsReverseRun
      <4>2. u[k] \in Between
        BY <1>1, <4>0, <4>1, FwdRevType
      <4> QED BY <1>1, <4>2 DEF k
    <3> HIDE DEF S
    <3>3. \A n \in 0..N : n \in S
      BY <1>1, <3>1, <3>2, Induct
    <3> QED BY <3>3 DEF S
  <2>3a. \A n \in 1..N : u[n + 1] \in Between
    <3> TAKE n \in 1..N
    <3>1. N - n \in 0..N /\ N + 1 - (N - n) = n + 1
      BY <1>1
    <3> QED BY <2>3, <3>1
  <2> DEFINE t == [n \in 0..N |-> u[n + 1]]
  <2>4. t[0] = u[1] /\ t[N] = u[N + 1]
    BY <1>1
  <2>5. ASSUME NEW n \in 1..N PROVE t[n] = Fwd(list[n], t[n - 1])
    <3>1. t[n] = u[n + 1] /\ t[n - 1] = u[n]
      BY <1>1
    <3>2. u[n] = Rev(list[n], u[n + 1])
      BY <1>1, <2>1 DEF IsReverseRun
    <3>3. Fwd(list[n], Rev(list[n], u[n + 1])) = u[n + 1]
      BY <1>1, <2>3a, ReversibleUndone
    <3> QED BY <3>1, <3>2, <3>3
  <2> HIDE DEF t
  <2>6. IsRun(t, list, u[1])
    BY <2>4, <2>5 DEF IsRun
  <2>7. RunForward(list, u[1]) = t[N]
    BY <1>1, <2>6, RunForwardIs
  <2> QED BY <2>1, <2>2, <2>4, <2>7 DEF IsReverseRun
<1> QED BY <1>2, <1>3

LEMMA ForwardIsEnough ==
  ASSUME NEW a \in Seq(Steps), NEW b \in Seq(Steps), AllReversible(a), AllReversible(b),
         SameForward(a, b)
  PROVE  Same(a, b)
<1>1. ASSUME NEW c \in Between PROVE RunReverse(a, c) = RunReverse(b, c)
  <2> DEFINE d == RunReverse(a, c)
  <2>1. d \in Between
    BY ReverseType
  <2>2. RunForward(a, d) = c
    BY ListUndone
  <2>3. RunForward(b, d) = c
    BY <2>1, <2>2 DEF SameForward
  <2>4. RunReverse(b, RunForward(b, d)) = d
    BY <2>1, ListUndone
  <2> QED BY <2>3, <2>4
<1> QED BY <1>1 DEF Same, SameReverse

LEMMA ListOfOne ==
  ASSUME NEW s, IsStep(s)
  PROVE  /\ <<s>> \in Seq(Steps) /\ Len(<<s>>) = 1 /\ <<s>>[1] = s
         /\ Reversible(s) => AllReversible(<<s>>)
         /\ \A c : RunForward(<<s>>, c) = Fwd(s, c) /\ RunReverse(<<s>>, c) = Rev(s, c)
<1>1. s \in Steps /\ s.inv \in BOOLEAN
  BY StepsAre, ParametersAre
<1>2. <<s>> \in Seq(Steps) /\ Len(<<s>>) = 1 /\ <<s>>[1] = s
  BY <1>1
<1> DEFINE l == <<s>>
<1> HIDE DEF l
<1>3. \A c : RunForward(l, c) = Fwd(l[1], c) /\ RunReverse(l, c) = Rev(l[1], c)
  BY <1>1, <1>2, OneStep DEF l
<1>4. Reversible(s) => AllReversible(<<s>>)
  BY <1>2 DEF AllReversible
<1> QED BY <1>2, <1>3, <1>4 DEF l

LEMMA NoneOfThem == <<>> \in Seq(Steps) /\ AllReversible(<<>>)
BY DEF AllReversible

LEMMA PairRuns ==
  ASSUME NEW w \in Seq(Steps), Len(w) = 2
  PROVE  /\ IsStep(w[1]) /\ IsStep(w[2])
         /\ \A c : /\ RunForward(w, c) = Fwd(w[2], Fwd(w[1], c))
                   /\ RunReverse(w, c) = Rev(w[1], Rev(w[2], c))
<1>1. IsStep(w[1]) /\ IsStep(w[2]) /\ w[1].inv \in BOOLEAN /\ w[2].inv \in BOOLEAN
  BY StepsOf
<1> QED BY <1>1, TwoSteps

LEMMA PairReversible ==
  ASSUME NEW w, Len(w) = 2, Reversible(w[1]), Reversible(w[2])
  PROVE  AllReversible(w)
BY DEF AllReversible

LEMMA PairVanishes ==
  ASSUME NEW w \in Seq(Steps), Len(w) = 2, Reversible(w[1]), Reversible(w[2]),
         \A c \in Between : Fwd(w[2], Fwd(w[1], c)) = c
  PROVE  Same(w, <<>>)
<1>1. SameForward(w, <<>>)
  BY PairRuns, NoStep DEF SameForward
<1> QED BY <1>1, NoneOfThem, PairReversible, ForwardIsEnough

LEMMA PairMerges ==
  ASSUME NEW w \in Seq(Steps), Len(w) = 2, Reversible(w[1]), Reversible(w[2]),
         NEW s, IsStep(s), Reversible(s),
         \A c \in Between : Fwd(w[2], Fwd(w[1], c)) = Fwd(s, c)
  PROVE  Same(w, <<s>>)
<1>1. SameForward(w, <<s>>)
  BY PairRuns, ListOfOne DEF SameForward
<1> QED BY <1>1, ListOfOne, PairReversible, ForwardIsEnough

-----------------------------------------------------------------------------
(* Two conversions of units.                                               *)

\* Conversions of units, forward.
LEMMA UnitsForward ==
  ASSUME NEW s, IsStep(s), IsUnits(s), NEW c
  PROVE  Fwd(s, c) = Values(c, ConvertUnits(s.par, c.v)) /\ s.par \in [xy : Pair, z : Pair] /\ Reversible(s)
<1>1. s.name = "unitconvert" /\ s.omit = "none" /\ ~s.inv
  BY DEF IsUnits
<1>2. Fwd(s, c) = Forward(s, c)
  BY <1>1 DEF Fwd
<1> QED BY <1>1, <1>2, ForwardIs, ParametersAre DEF Reversible

LEMMA SameRatio ==
  ASSUME NEW p \in Pair, IsSame(p)
  PROVE  Ratio(p) \in Nat /\ Ratio(p) % M = 1
<1>1. PICK u \in Unit, w \in Unit : p = <<u, w>>
  BY DEF Pair, IsSame
<1>2. u = w
  BY <1>1 DEF IsSame
<1> QED BY <1>1, <1>2, RatioIs, FactorIs

LEMMA UnitsCancel ==
  ASSUME NEW p, NEW c, IsStep(p), IsStep(c), UnitsUndone(p, c) \/ UnitsVanish(p, c)
  PROVE  /\ Reversible(p) /\ Reversible(c)
         /\ \A x \in Between : Fwd(c, Fwd(p, x)) = x
<1> DEFINE a == p.par
           b == c.par
<1>1. IsUnits(p) /\ IsUnits(c)
  BY DEF UnitsUndone, UnitsVanish, IsXY, IsZ, IsXYZ
<1>2. a \in [xy : Pair, z : Pair] /\ b \in [xy : Pair, z : Pair] /\ Reversible(p) /\ Reversible(c)
  BY <1>1, UnitsForward
<1>3. (Ratio(a.xy) * Ratio(b.xy)) % M = 1
  <2>1. b.xy = Swapped(a.xy) /\ a.xy \in Pair
    BY <1>2 DEF UnitsUndone, UnitsVanish
  <2> QED BY <2>1, RatioUndone
<1>4. (Ratio(a.z) * Ratio(b.z)) % M = 1
  <2>0. a.z \in Pair /\ b.z \in Pair
    BY <1>2
  <2>1. CASE UnitsUndone(p, c)
    BY <2>0, <2>1, RatioUndone DEF UnitsUndone
  <2>2. CASE UnitsVanish(p, c)
    <3>1. \/ a.z = <<>> /\ b.z # <<>>
          \/ a.z # <<>> /\ b.z = <<>>
      BY <2>2 DEF UnitsVanish, IsXYZ, IsXY
    <3>2. (a.z \o b.z)[1] = (a.z \o b.z)[2]
      BY <2>2 DEF UnitsVanish
    <3>3. CASE a.z = <<>> /\ b.z # <<>>
      <4>1. PICK u \in Unit, w \in Unit : b.z = <<u, w>>
        BY <2>0, <3>3 DEF Pair
      <4>2. a.z \o b.z = <<u, w>>
        BY <3>3, <4>1
      <4>3. IsSame(b.z)
        <5>1. u = w
          BY <3>2, <4>2
        <5> QED BY <4>1, <5>1 DEF IsSame
      <4>4. Ratio(a.z) = 1 /\ Ratio(b.z) \in Nat /\ Ratio(b.z) % M = 1
        BY <2>0, <3>3, <4>3, SameRatio DEF Ratio
      <4> QED BY <4>4
    <3>4. CASE a.z # <<>> /\ b.z = <<>>
      <4>1. PICK u \in Unit, w \in Unit : a.z = <<u, w>>
        BY <2>0, <3>4 DEF Pair
      <4>2. a.z \o b.z = <<u, w>>
        BY <3>4, <4>1
      <4>3. IsSame(a.z)
        BY <3>2, <4>1, <4>2 DEF IsSame
      <4>4. Ratio(b.z) = 1 /\ Ratio(a.z) \in Nat /\ Ratio(a.z) % M = 1
        BY <2>0, <3>4, <4>3, SameRatio DEF Ratio
      <4> QED BY <4>4
    <3> QED BY <3>1, <3>3, <3>4
  <2> QED BY <2>1, <2>2
<1>5. \A i \in 1..4 : (Scale(a, i) * Scale(b, i)) % M = 1
  <2>1. (1 * 1) % M = 1
    BY DEF M
  <2> QED BY <1>3, <1>4, <2>1 DEF Scale
<1>6. ASSUME NEW x \in Between PROVE Fwd(c, Fwd(p, x)) = x
  <2> DEFINE d == Values(x, ConvertUnits(a, x.v))
  <2>1. Fwd(p, x) = d
    BY <1>1, UnitsForward
  <2>2. Values(d, ConvertUnits(b, d.v)) = x
    BY <1>2, <1>5, UnitsUndo
  <2>3. Fwd(c, d) = Values(d, ConvertUnits(b, d.v))
    BY <1>1, UnitsForward
  <2> QED BY <2>1, <2>2, <2>3
<1> QED BY <1>2, <1>6

LEMMA MergedRatios ==
  ASSUME NEW p, NEW c, IsStep(p), IsStep(c), UnitsMerge(p, c)
  PROVE  LET m == MergedUnits(p, c).par
         IN  /\ m \in [xy : Pair, z : Pair]
             /\ Ratio(m.xy) % M = (Ratio(p.par.xy) * Ratio(c.par.xy)) % M
             /\ Ratio(m.z) % M = (Ratio(p.par.z) * Ratio(c.par.z)) % M
<1> DEFINE a == p.par
           b == c.par
           mxy == IF IsXYZ(p) /\ IsXYZ(c) THEN Chained(a.xy, b.xy) ELSE DropSame(a.xy, b.xy)
           mz == MergedVertical(p, c)
<1>1. IsUnits(p) /\ IsUnits(c)
  BY DEF UnitsMerge, IsXY, IsZ, IsXYZ
<1>2. a \in [xy : Pair, z : Pair] /\ b \in [xy : Pair, z : Pair]
  BY <1>1, UnitsForward
<1>3. a.xy \in Pair /\ a.z \in Pair /\ b.xy \in Pair /\ b.z \in Pair
  BY <1>2
<1>4. MergedUnits(p, c).par = [xy |-> mxy, z |-> mz]
  BY DEF MergedUnits, Units, Step
<1>5. mxy \in Pair /\ Ratio(mxy) % M = (Ratio(a.xy) * Ratio(b.xy)) % M
  <2>1. CASE IsXYZ(p) /\ IsXYZ(c)
    <3>1. Chains(a.xy, b.xy)
      BY <2>1 DEF UnitsMerge, IsXYZ, IsXY, IsZ
    <3> QED BY <1>3, <2>1, <3>1, RatioChained
  <2>2. CASE ~(IsXYZ(p) /\ IsXYZ(c)) /\ a.xy = Swapped(b.xy)
    <3>1. mxy = <<>>
      BY <2>2 DEF DropSame
    <3>2. b.xy = Swapped(a.xy)
      BY <1>3, <2>2, RatioType
    <3>3. (Ratio(a.xy) * Ratio(b.xy)) % M = 1
      BY <1>3, <3>2, RatioUndone
    <3>4. mxy \in Pair /\ Ratio(mxy) = 1
      BY <3>1 DEF Pair, Ratio
    <3> QED BY <3>3, <3>4 DEF M
  <2>3. CASE ~(IsXYZ(p) /\ IsXYZ(c)) /\ a.xy # Swapped(b.xy)
    <3>1. mxy = Chained(a.xy, b.xy)
      BY <2>3 DEF DropSame
    <3>2. Chains(a.xy, b.xy)
      <4>1. CASE IsXY(p) /\ IsZ(c)
        BY <4>1 DEF IsZ, Chains
      <4>2. CASE IsZ(p)
        BY <4>2 DEF IsZ, Chains
      <4>3. CASE IsXY(p) /\ IsXYZ(c) /\ b.xy = Swapped(a.xy)
        BY <1>3, <2>3, <4>3, RatioType
      <4>4. CASE IsXYZ(p) /\ Chains(a.xy, b.xy)
        BY <4>4
      <4> QED BY <4>1, <4>2, <4>3, <4>4 DEF UnitsMerge
    <3> QED BY <1>3, <3>1, <3>2, RatioChained
  <2> QED BY <2>1, <2>2, <2>3
<1>6. mz \in Pair /\ Ratio(mz) % M = (Ratio(a.z) * Ratio(b.z)) % M
  <2>1. CASE IsXYZ(p) /\ IsXYZ(c) /\ IsSame(b.z)
    <3>1. mz = a.z
      BY <2>1 DEF MergedVertical
    <3>2. Ratio(b.z) \in Nat /\ Ratio(b.z) % M = 1 /\ Ratio(a.z) \in Nat
      BY <1>3, <2>1, SameRatio, RatioType
    <3>3. (Ratio(a.z) * Ratio(b.z)) % M = (Ratio(a.z) * 1) % M
      <4>1. 1 % M = 1
        BY DEF M
      <4> QED BY <3>2, <4>1, ScaledSame
    <3> QED BY <1>3, <3>1, <3>2, <3>3
  <2>2. CASE IsXYZ(p) /\ IsXYZ(c) /\ ~IsSame(b.z)
    <3>1. mz = b.z
      BY <2>2 DEF MergedVertical
    <3>2. IsSame(a.z)
      BY <2>2 DEF UnitsMerge, IsXY, IsZ, IsXYZ
    <3>3. Ratio(a.z) \in Nat /\ Ratio(a.z) % M = 1 /\ Ratio(b.z) \in Nat
      BY <1>3, <3>2, SameRatio, RatioType
    <3>4. (Ratio(a.z) * Ratio(b.z)) % M = Ratio(b.z) % M
      <4>1. (Ratio(b.z) * Ratio(a.z)) % M = (Ratio(b.z) * 1) % M
        <5>1. 1 % M = 1
          BY DEF M
        <5> QED BY <3>3, <5>1, ScaledSame
      <4>2. Ratio(a.z) * Ratio(b.z) = Ratio(b.z) * Ratio(a.z)
        BY <3>3
      <4> QED BY <3>3, <4>1, <4>2
    <3> QED BY <1>3, <3>1, <3>4
  <2>3. CASE ~(IsXYZ(p) /\ IsXYZ(c))
    <3>1. mz = Chained(a.z, b.z)
      BY <2>3 DEF MergedVertical
    <3>2. Chains(a.z, b.z)
      <4>1. CASE IsXY(p)
        BY <4>1 DEF IsXY, Chains
      <4>2. CASE IsZ(p) /\ IsXY(c)
        BY <4>2 DEF IsXY, Chains
      <4>3. CASE Chains(a.z, b.z)
        BY <4>3
      <4> QED BY <2>3, <4>1, <4>2, <4>3 DEF UnitsMerge
    <3> QED BY <1>3, <3>1, <3>2, RatioChained
  <2> QED BY <2>1, <2>2, <2>3
<1> HIDE DEF mxy, mz
<1> QED BY <1>4, <1>5, <1>6

LEMMA UnitsMerged ==
  ASSUME NEW p, NEW c, IsStep(p), IsStep(c), UnitsMerge(p, c)
  PROVE  LET m == MergedUnits(p, c)
         IN  /\ IsStep(m) /\ Reversible(m) /\ Reversible(p) /\ Reversible(c)
             /\ \A x \in Between : Fwd(c, Fwd(p, x)) = Fwd(m, x)
<1> DEFINE m == MergedUnits(p, c)
           a == p.par
           b == c.par
           k == m.par
<1>1. IsUnits(p) /\ IsUnits(c)
  BY DEF UnitsMerge, IsXY, IsZ, IsXYZ
<1>2. a \in [xy : Pair, z : Pair] /\ b \in [xy : Pair, z : Pair] /\ Reversible(p) /\ Reversible(c)
  BY <1>1, UnitsForward
<1>3. /\ k \in [xy : Pair, z : Pair]
      /\ Ratio(k.xy) % M = (Ratio(a.xy) * Ratio(b.xy)) % M
      /\ Ratio(k.z) % M = (Ratio(a.z) * Ratio(b.z)) % M
  BY MergedRatios
<1>4. m = [name |-> "unitconvert", inv |-> FALSE, par |-> k, omit |-> "none"]
  BY DEF MergedUnits, Units, Step
<1> HIDE DEF k, m
<1>5. IsStep(m) /\ IsUnits(m)
  <2>1. m.name = "unitconvert" /\ Parameters(m.name) = [xy : Pair, z : Pair]
    BY <1>4 DEF Parameters
  <2> QED BY <1>3, <1>4, <2>1 DEF IsStep, IsUnits, Names, Omits
<1>6. m.par = k
  BY <1>4
<1>7. Reversible(m) /\ \A x : Fwd(m, x) = Values(x, ConvertUnits(k, x.v))
  BY <1>5, <1>6, UnitsForward
<1>8. \A i \in 1..4 : Scale(k, i) % M = (Scale(a, i) * Scale(b, i)) % M
  BY <1>3 DEF Scale
<1>9. ASSUME NEW x \in Between PROVE Fwd(c, Fwd(p, x)) = Fwd(m, x)
  <2> DEFINE d == Values(x, ConvertUnits(a, x.v))
             e == Values(d, ConvertUnits(b, d.v))
             f == Values(x, ConvertUnits(k, x.v))
  <2>1. Fwd(p, x) = d
    BY <1>1, UnitsForward
  <2>2. Fwd(c, d) = e
    BY <1>1, UnitsForward
  <2>3. /\ e \in Between /\ e.stack = x.stack
        /\ \A i \in 1..4 : e.v[i] = (x.v[i] * (Scale(a, i) * Scale(b, i))) % M
    BY <1>2, UnitsTwice
  <2>4. /\ f \in Between /\ f.stack = x.stack
        /\ \A i \in 1..4 : Scale(k, i) \in Nat /\ f.v[i] = (x.v[i] * Scale(k, i)) % M
    BY <1>3, UnitsAre
  <2>5. \A i \in 1..4 : Scale(a, i) \in Nat /\ Scale(b, i) \in Nat
    BY <1>2, UnitsAre
  <2> HIDE DEF d, e, f
  <2>6. \A i \in 1..4 : e.v[i] = f.v[i]
    <3> TAKE i \in 1..4
    <3>1. x.v[i] \in Int
      BY CoordinatesAre
    <3> DEFINE s == Scale(a, i) * Scale(b, i)
               t == Scale(k, i)
    <3>2. s \in Nat /\ t \in Nat /\ t % M = s % M
      BY <1>8, <2>4, <2>5
    <3>3. e.v[i] = (x.v[i] * s) % M /\ f.v[i] = (x.v[i] * t) % M
      BY <2>3, <2>4
    <3> HIDE DEF s, t
    <3>4. (x.v[i] * s) % M = (x.v[i] * t) % M
      BY <3>1, <3>2, ScaledSame
    <3> QED BY <3>3, <3>4
  <2>7. e = f
    BY <2>3, <2>4, <2>6, SameBetween
  <2>8. Fwd(m, x) = f
    BY <1>7 DEF f
  <2> QED BY <2>1, <2>2, <2>7, <2>8
<1> QED BY <1>2, <1>5, <1>7, <1>9 DEF m

-----------------------------------------------------------------------------
(* Two changes of the axes.                                                *)

\* What an exchange of axes does to the first three coordinates.
Axes(o, back, c, d) ==
  /\ d \in Between /\ d.stack = c.stack /\ d.v[4] = c.v[4]
  /\ ~back => \A i \in 1..3 : d.v[i] = (IF o[i] < 0 THEN -c.v[Abs(o[i])] ELSE c.v[Abs(o[i])]) % M
  /\ back => \A j \in 1..3 : d.v[Abs(o[j])] = (IF o[j] < 0 THEN -c.v[j] ELSE c.v[j]) % M

LEMMA AxesDo ==
  ASSUME NEW s, IsStep(s), s.name = "axisswap", NEW back \in BOOLEAN, NEW c \in Between
  PROVE  Axes(s.par, back, c, Do(s, back, c))
<1> DEFINE o == s.par
           f == Values(c, SwapAxes(o, c.v))
           b == Values(c, UnswapAxes(o, c.v))
<1>1. o \in Orders
  BY ParametersAre
<1>2. /\ f \in Between /\ f.stack = c.stack /\ f.v[4] = c.v[4]
      /\ \A i \in 1..3 : f.v[i] = (IF o[i] < 0 THEN -c.v[Abs(o[i])] ELSE c.v[Abs(o[i])]) % M
  BY <1>1, SwapAxesAre
<1>3. /\ b \in Between /\ b.stack = c.stack /\ b.v[4] = c.v[4]
      /\ \A j \in 1..3 : b.v[Abs(o[j])] = (IF o[j] < 0 THEN -c.v[j] ELSE c.v[j]) % M
  BY <1>1, UnswapAxesAre
<1>4. Do(s, back, c) = IF back THEN b ELSE f
  BY ForwardIs, BackwardIs DEF Do
<1> HIDE DEF f, b, o
<1> QED BY <1>2, <1>3, <1>4 DEF Axes, o

Absolutes == /\ Abs(1) = 1 /\ Abs(2) = 2 /\ Abs(3) = 3
             /\ Abs(-1) = 1 /\ Abs(-2) = 2 /\ Abs(-3) = 3

LEMMA AbsolutesAre == Absolutes
<1>1. ASSUME NEW n \in 1..3 PROVE Abs(n) = n /\ Abs(-n) = n
  BY DEF Abs
<1> QED BY <1>1 DEF Absolutes

\* The values of each order the rules know, in either direction.
Order(a, b, e, d, c) ==
  d.v[1] = a /\ d.v[2] = b /\ d.v[3] = e /\ d.v[4] = c.v[4] /\ d \in Between /\ d.stack = c.stack

LEMMA Axes21 ==
  ASSUME NEW back \in BOOLEAN, NEW c \in Between, NEW d, Axes(Order21, back, c, d)
  PROVE  Order(c.v[2] % 7, c.v[1] % 7, c.v[3] % 7, d, c)
<1>1. Order21[1] = 2 /\ Order21[2] = 1 /\ Order21[3] = 3
  BY DEF Order21
<1>2. CASE back
  <2>1. d.v[2] = c.v[1] % M /\ d.v[1] = c.v[2] % M /\ d.v[3] = c.v[3] % M
    BY <1>1, <1>2, AbsolutesAre DEF Axes, Absolutes
  <2> QED BY <2>1 DEF Order, Axes, M
<1>3. CASE ~back
  <2>1. d.v[1] = c.v[2] % M /\ d.v[2] = c.v[1] % M /\ d.v[3] = c.v[3] % M
    BY <1>1, <1>3, AbsolutesAre DEF Axes, Absolutes
  <2> QED BY <2>1 DEF Order, Axes, M
<1> QED BY <1>2, <1>3

LEMMA AxesSecondNegated ==
  ASSUME NEW back \in BOOLEAN, NEW c \in Between, NEW d, Axes(<<1, -2, 3>>, back, c, d)
  PROVE  Order(c.v[1] % 7, (-c.v[2]) % 7, c.v[3] % 7, d, c)
<1> DEFINE o == <<1, -2, 3>>
<1>1. o[1] = 1 /\ o[2] = -2 /\ o[3] = 3
  OBVIOUS
<1>0. Axes(o, back, c, d)
  OBVIOUS
<1> HIDE DEF o
<1>2. CASE back
  <2>1. d.v[1] = c.v[1] % M /\ d.v[2] = (-c.v[2]) % M /\ d.v[3] = c.v[3] % M
    BY <1>0, <1>1, <1>2, AbsolutesAre DEF Axes, Absolutes
  <2> QED BY <1>0, <2>1 DEF Order, Axes, M
<1>3. CASE ~back
  <2>1. d.v[1] = c.v[1] % M /\ d.v[2] = (-c.v[2]) % M /\ d.v[3] = c.v[3] % M
    BY <1>0, <1>1, <1>3, AbsolutesAre DEF Axes, Absolutes
  <2> QED BY <1>0, <2>1 DEF Order, Axes, M
<1> QED BY <1>2, <1>3

LEMMA AxesThirdNegated ==
  ASSUME NEW back \in BOOLEAN, NEW c \in Between, NEW d, Axes(<<1, 2, -3>>, back, c, d)
  PROVE  Order(c.v[1] % 7, c.v[2] % 7, (-c.v[3]) % 7, d, c)
<1> DEFINE o == <<1, 2, -3>>
<1>1. o[1] = 1 /\ o[2] = 2 /\ o[3] = -3
  OBVIOUS
<1>0. Axes(o, back, c, d)
  OBVIOUS
<1> HIDE DEF o
<1>2. CASE back
  <2>1. d.v[1] = c.v[1] % M /\ d.v[2] = c.v[2] % M /\ d.v[3] = (-c.v[3]) % M
    BY <1>0, <1>1, <1>2, AbsolutesAre DEF Axes, Absolutes
  <2> QED BY <1>0, <2>1 DEF Order, Axes, M
<1>3. CASE ~back
  <2>1. d.v[1] = c.v[1] % M /\ d.v[2] = c.v[2] % M /\ d.v[3] = (-c.v[3]) % M
    BY <1>0, <1>1, <1>3, AbsolutesAre DEF Axes, Absolutes
  <2> QED BY <1>0, <2>1 DEF Order, Axes, M
<1> QED BY <1>2, <1>3

\* <<2, -1, 3>> and <<-2, 1, 3>> are the inverse of each other.
LEMMA AxesQuarter ==
  ASSUME NEW back \in BOOLEAN, NEW c \in Between, NEW d,
         \/ Axes(<<2, -1, 3>>, back, c, d)
         \/ Axes(<<-2, 1, 3>>, ~back, c, d)
  PROVE  IF back THEN Order((-c.v[2]) % 7, c.v[1] % 7, c.v[3] % 7, d, c)
                 ELSE Order(c.v[2] % 7, (-c.v[1]) % 7, c.v[3] % 7, d, c)
<1> DEFINE o == <<2, -1, 3>>
           r == <<-2, 1, 3>>
<1>1. /\ o[1] = 2 /\ o[2] = -1 /\ o[3] = 3
      /\ r[1] = -2 /\ r[2] = 1 /\ r[3] = 3
  OBVIOUS
<1>0. Axes(o, back, c, d) \/ Axes(r, ~back, c, d)
  OBVIOUS
<1> HIDE DEF o, r
<1>2. CASE back
  <2>1. d.v[1] = (-c.v[2]) % M /\ d.v[2] = c.v[1] % M /\ d.v[3] = c.v[3] % M
    <3>1. CASE Axes(o, back, c, d)
      BY <1>1, <1>2, <3>1, AbsolutesAre DEF Axes, Absolutes
    <3>2. CASE Axes(r, ~back, c, d)
      BY <1>1, <1>2, <3>2, AbsolutesAre DEF Axes, Absolutes
    <3> QED BY <1>0, <3>1, <3>2
  <2> QED BY <1>0, <1>2, <2>1 DEF Order, Axes, M
<1>3. CASE ~back
  <2>1. d.v[1] = c.v[2] % M /\ d.v[2] = (-c.v[1]) % M /\ d.v[3] = c.v[3] % M
    <3>1. CASE Axes(o, back, c, d)
      BY <1>1, <1>3, <3>1, AbsolutesAre DEF Axes, Absolutes
    <3>2. CASE Axes(r, ~back, c, d)
      BY <1>1, <1>3, <3>2, AbsolutesAre DEF Axes, Absolutes
    <3> QED BY <1>0, <3>1, <3>2
  <2> QED BY <1>0, <1>3, <2>1 DEF Order, Axes, M
<1> QED BY <1>2, <1>3

LEMMA AxesTurned ==
  ASSUME NEW back \in BOOLEAN, NEW c \in Between, NEW d, Axes(<<-2, -1, 3>>, back, c, d)
  PROVE  Order((-c.v[2]) % 7, (-c.v[1]) % 7, c.v[3] % 7, d, c)
<1> DEFINE o == <<-2, -1, 3>>
<1>1. o[1] = -2 /\ o[2] = -1 /\ o[3] = 3
  OBVIOUS
<1>0. Axes(o, back, c, d)
  OBVIOUS
<1> HIDE DEF o
<1>2. CASE back
  <2>1. d.v[1] = (-c.v[2]) % M /\ d.v[2] = (-c.v[1]) % M /\ d.v[3] = c.v[3] % M
    BY <1>0, <1>1, <1>2, AbsolutesAre DEF Axes, Absolutes
  <2> QED BY <1>0, <2>1 DEF Order, Axes, M
<1>3. CASE ~back
  <2>1. d.v[1] = (-c.v[2]) % M /\ d.v[2] = (-c.v[1]) % M /\ d.v[3] = c.v[3] % M
    BY <1>0, <1>1, <1>3, AbsolutesAre DEF Axes, Absolutes
  <2> QED BY <1>0, <2>1 DEF Order, Axes, M
<1> QED BY <1>2, <1>3

LEMMA Quarter ==
  ASSUME NEW back \in BOOLEAN, ~back, NEW c \in Between, NEW d, Axes(<<2, -1, 3>>, back, c, d)
  PROVE  Order(c.v[2] % 7, (-c.v[1]) % 7, c.v[3] % 7, d, c)
BY AxesQuarter

LEMMA QuarterBack ==
  ASSUME NEW back \in BOOLEAN, ~back, NEW c \in Between, NEW d, Axes(<<-2, 1, 3>>, back, c, d)
  PROVE  Order((-c.v[2]) % 7, c.v[1] % 7, c.v[3] % 7, d, c)
<1> DEFINE up == TRUE
<1>1. ~up = back /\ up \in BOOLEAN
  OBVIOUS
<1>2. up
  OBVIOUS
<1>3. Axes(<<-2, 1, 3>>, ~up, c, d)
  BY <1>1
<1> HIDE DEF up
<1> QED BY <1>1, <1>2, <1>3, AxesQuarter

LEMMA AxesForward ==
  ASSUME NEW s, IsStep(s), s.name = "axisswap", s.omit = "none"
  PROVE  /\ Reversible(s) /\ s.inv \in BOOLEAN
         /\ \A x \in Between : Axes(s.par, s.inv, x, Fwd(s, x))
<1>1. s.inv \in BOOLEAN
  BY ParametersAre
<1>2. \A x : Fwd(s, x) = Do(s, s.inv, x)
  BY StepIs
<1>3. \A x \in Between : Axes(s.par, s.inv, x, Do(s, s.inv, x))
  BY <1>1, AxesDo
<1> QED BY <1>1, <1>2, <1>3 DEF Reversible

LEMMA Sevenths ==
  ASSUME NEW a \in 0..6, NEW b \in 0..6, NEW e \in 0..6
  PROVE  /\ (a % 7) % 7 = a /\ (e % 7) % 7 = e /\ a % 7 = a
         /\ (-((-a) % 7)) % 7 = a
         /\ (-(a % 7)) % 7 = (-a) % 7 /\ ((-a) % 7) % 7 = (-a) % 7
OBVIOUS

LEMMA AxesCancel ==
  ASSUME NEW p, NEW c, IsStep(p), IsStep(c), AxesUndone(p, c)
  PROVE  /\ Reversible(p) /\ Reversible(c)
         /\ \A x \in Between : Fwd(c, Fwd(p, x)) = x
<1>1. p.name = "axisswap" /\ p.omit = "none" /\ c.name = "axisswap" /\ c.omit = "none"
  BY DEF AxesUndone, Is21, IsAxisSwap
<1>2. /\ Reversible(p) /\ Reversible(c) /\ p.inv \in BOOLEAN /\ c.inv \in BOOLEAN
      /\ \A x \in Between : Axes(p.par, p.inv, x, Fwd(p, x)) /\ Axes(c.par, c.inv, x, Fwd(c, x))
  BY <1>1, AxesForward
<1>3. ASSUME NEW x \in Between PROVE Fwd(c, Fwd(p, x)) = x
  <2> DEFINE d == Fwd(p, x)
             e == Fwd(c, d)
  <2>1. Axes(p.par, p.inv, x, d)
    BY <1>2
  <2>2. d \in Between
    BY FwdRevType
  <2>3. Axes(c.par, c.inv, d, e)
    BY <1>2, <2>2
  <2> HIDE DEF d, e
  <2>4. x.v[1] \in 0..6 /\ x.v[2] \in 0..6 /\ x.v[3] \in 0..6
    BY FourCoordinates
  <2>5. ASSUME Is21(p) /\ Is21(c) PROVE e = x
    <3>1. p.par = Order21 /\ c.par = Order21
      BY <2>5 DEF Is21, IsAxisSwap
    <3>2. Order(x.v[2] % 7, x.v[1] % 7, x.v[3] % 7, d, x)
      BY <1>2, <2>1, <3>1, Axes21
    <3>3. Order(d.v[2] % 7, d.v[1] % 7, d.v[3] % 7, e, d)
      BY <1>2, <2>2, <2>3, <3>1, Axes21
    <3>4. d.v[2] % 7 = x.v[1] /\ d.v[1] % 7 = x.v[2] /\ d.v[3] % 7 = x.v[3]
      <4>1. d.v[2] = x.v[1] % 7 /\ d.v[1] = x.v[2] % 7 /\ d.v[3] = x.v[3] % 7
        BY <3>2 DEF Order
      <4> QED BY <2>4, <4>1, Sevenths
    <3> QED BY <3>2, <3>3, <3>4, FourSame DEF Order
  <2>6. ASSUME ~(Is21(p) /\ Is21(c)) PROVE e = x
    <3>1. p.par = <<2, -1, 3>> /\ c.par = <<-2, 1, 3>> /\ ~p.inv /\ ~c.inv
      BY <2>6 DEF AxesUndone, IsAxisSwap
    <3>2. Order(x.v[2] % 7, (-x.v[1]) % 7, x.v[3] % 7, d, x)
      <4>1. Axes(<<2, -1, 3>>, p.inv, x, d)
        BY <2>1, <3>1
      <4> QED BY <1>2, <3>1, <4>1, Quarter
    <3>3. Order((-d.v[2]) % 7, d.v[1] % 7, d.v[3] % 7, e, d)
      <4>1. Axes(<<-2, 1, 3>>, c.inv, d, e)
        BY <2>3, <3>1
      <4> QED BY <1>2, <2>2, <3>1, <4>1, QuarterBack
    <3>4. (-d.v[2]) % 7 = x.v[1] /\ d.v[1] % 7 = x.v[2] /\ d.v[3] % 7 = x.v[3]
      <4>1. d.v[2] = (-x.v[1]) % 7 /\ d.v[1] = x.v[2] % 7 /\ d.v[3] = x.v[3] % 7
        BY <3>2 DEF Order
      <4> QED BY <2>4, <4>1, Sevenths
    <3> QED BY <3>2, <3>3, <3>4, FourSame DEF Order
  <2> QED BY <2>5, <2>6 DEF d, e
<1> QED BY <1>2, <1>3

LEMMA SwapStep ==
  ASSUME NEW o \in Orders
  PROVE  LET m == Step("axisswap", o)
         IN IsStep(m) /\ Reversible(m) /\ m.name = "axisswap" /\ m.omit = "none" /\ ~m.inv /\ m.par = o
<1> DEFINE m == Step("axisswap", o)
<1>1. m = [name |-> "axisswap", inv |-> FALSE, par |-> o, omit |-> "none"]
  BY DEF Step
<1>2. m.name = "axisswap" /\ Parameters(m.name) = Orders
  BY <1>1 DEF Parameters
<1> HIDE DEF m
<1>3. m.name = "axisswap" /\ m.omit = "none" /\ ~m.inv /\ m.par = o
  BY <1>1
<1>4. m \in [name : Names, inv : BOOLEAN, par : Parameters(m.name), omit : Omits]
  BY <1>1, <1>2 DEF Names, Omits
<1> QED BY <1>3, <1>4 DEF IsStep, Reversible, m

LEMMA KnownOrders ==
  /\ Order21 \in Orders /\ <<1, -2, 3>> \in Orders /\ <<1, 2, -3>> \in Orders
  /\ <<2, -1, 3>> \in Orders /\ <<-2, 1, 3>> \in Orders /\ <<-2, -1, 3>> \in Orders
<1>1. ASSUME NEW a \in -3..3, NEW b \in -3..3, NEW e \in -3..3,
             {Abs(a), Abs(b), Abs(e)} = 1..3
      PROVE  <<a, b, e>> \in Orders
  <2> DEFINE o == <<a, b, e>>
  <2>1. o \in [1..3 -> -3..3] /\ o[1] = a /\ o[2] = b /\ o[3] = e
    OBVIOUS
  <2> HIDE DEF o
  <2>2. {Abs(o[i]) : i \in 1..3} = {Abs(o[1]), Abs(o[2]), Abs(o[3])}
    <3>1. 1..3 = {1, 2, 3}
      OBVIOUS
    <3> QED BY <3>1
  <2>3. o \in Orders
    BY <1>1, <2>1, <2>2 DEF Orders
  <2> QED BY <2>3 DEF o
<1>2. 1..3 = {1, 2, 3}
  OBVIOUS
<1>3. /\ 1 \in -3..3 /\ 2 \in -3..3 /\ 3 \in -3..3
      /\ -1 \in -3..3 /\ -2 \in -3..3 /\ -3 \in -3..3
  OBVIOUS
<1>4. Absolutes
  BY AbsolutesAre
<1>5. Order21 \in Orders
  BY <1>1, <1>2, <1>3, <1>4 DEF Absolutes, Order21
<1>6. <<1, -2, 3>> \in Orders
  BY <1>1, <1>2, <1>3, <1>4 DEF Absolutes
<1>7. <<1, 2, -3>> \in Orders
  BY <1>1, <1>2, <1>3, <1>4 DEF Absolutes
<1>8. <<2, -1, 3>> \in Orders
  BY <1>1, <1>2, <1>3, <1>4 DEF Absolutes
<1>9. <<-2, 1, 3>> \in Orders
  BY <1>1, <1>2, <1>3, <1>4 DEF Absolutes
<1>10. <<-2, -1, 3>> \in Orders
  BY <1>1, <1>2, <1>3, <1>4 DEF Absolutes
<1> QED BY <1>5, <1>6, <1>7, <1>8, <1>9, <1>10

LEMMA AxesMerged ==
  ASSUME NEW p, NEW c, IsStep(p), IsStep(c), AxesMerge(p, c)
  PROVE  LET m == MergedAxes(p, c)
         IN  /\ IsStep(m) /\ Reversible(m) /\ Reversible(p) /\ Reversible(c)
             /\ \A x \in Between : Fwd(c, Fwd(p, x)) = Fwd(m, x)
<1> DEFINE m == MergedAxes(p, c)
           o == IF IsAxisSwap(c, <<1, -2, 3>>) THEN Order21 ELSE <<1, -2, 3>>
<1>1. p.name = "axisswap" /\ p.omit = "none" /\ c.name = "axisswap" /\ c.omit = "none"
  BY DEF AxesMerge, Is21, IsAxisSwap
<1>2. /\ Reversible(p) /\ Reversible(c) /\ p.inv \in BOOLEAN /\ c.inv \in BOOLEAN
      /\ \A x \in Between : Axes(p.par, p.inv, x, Fwd(p, x)) /\ Axes(c.par, c.inv, x, Fwd(c, x))
  BY <1>1, AxesForward
<1>3. o \in Orders
  BY KnownOrders
<1>4. m = Step("axisswap", o)
  BY DEF MergedAxes
<1> HIDE DEF m
<1>5. IsStep(m) /\ Reversible(m) /\ m.name = "axisswap" /\ m.omit = "none" /\ ~m.inv /\ m.par = o
  BY <1>3, <1>4, SwapStep
<1>6. \A x \in Between : Axes(o, FALSE, x, Fwd(m, x))
  BY <1>5, AxesForward
<1>7. ASSUME NEW x \in Between PROVE Fwd(c, Fwd(p, x)) = Fwd(m, x)
  <2> DEFINE d == Fwd(p, x)
             e == Fwd(c, d)
             f == Fwd(m, x)
  <2>1. Axes(p.par, p.inv, x, d)
    BY <1>2
  <2>2. d \in Between
    BY FwdRevType
  <2>3. Axes(c.par, c.inv, d, e)
    BY <1>2, <2>2
  <2>4. Axes(o, FALSE, x, f)
    BY <1>6
  <2> HIDE DEF d, e, f
  <2>5. x.v[1] \in 0..6 /\ x.v[2] \in 0..6 /\ x.v[3] \in 0..6
    BY FourCoordinates
  <2>6. ASSUME IsAxisSwap(p, <<2, -1, 3>>) /\ IsAxisSwap(c, <<1, -2, 3>>) /\ ~p.inv PROVE e = f
    <3>1. p.par = <<2, -1, 3>> /\ c.par = <<1, -2, 3>> /\ o = Order21
      BY <2>6 DEF IsAxisSwap
    <3>2. Order(x.v[2] % 7, (-x.v[1]) % 7, x.v[3] % 7, d, x)
      <4>1. Axes(<<2, -1, 3>>, p.inv, x, d)
        BY <2>1, <3>1
      <4> QED BY <1>2, <2>6, <4>1, Quarter
    <3>3. Order(d.v[1] % 7, (-d.v[2]) % 7, d.v[3] % 7, e, d)
      BY <1>2, <2>2, <2>3, <3>1, AxesSecondNegated
    <3>4. Order(x.v[2] % 7, x.v[1] % 7, x.v[3] % 7, f, x)
      BY <2>4, <3>1, Axes21
    <3>5. d.v[1] = x.v[2] % 7 /\ d.v[2] = (-x.v[1]) % 7 /\ d.v[3] = x.v[3] % 7
      BY <3>2 DEF Order
    <3>6. d.v[1] % 7 = x.v[2] % 7 /\ (-d.v[2]) % 7 = x.v[1] % 7 /\ d.v[3] % 7 = x.v[3] % 7
      BY <2>5, <3>5, Sevenths
    <3> QED BY <3>2, <3>3, <3>4, <3>6, FourSame DEF Order
  <2>7. ASSUME Is21(p) /\ IsAxisSwap(c, <<2, -1, 3>>) /\ ~c.inv PROVE e = f
    <3>1. p.par = Order21 /\ c.par = <<2, -1, 3>>
      BY <2>7 DEF IsAxisSwap, Is21
    <3>1a. o = <<1, -2, 3>>
      <4>1. <<2, -1, 3>>[1] # <<1, -2, 3>>[1]
        OBVIOUS
      <4>2. <<2, -1, 3>> # <<1, -2, 3>>
        BY <4>1
      <4> QED BY <3>1, <4>2 DEF IsAxisSwap
    <3>2. Order(x.v[2] % 7, x.v[1] % 7, x.v[3] % 7, d, x)
      BY <1>2, <2>1, <3>1, Axes21
    <3>3. Order(d.v[2] % 7, (-d.v[1]) % 7, d.v[3] % 7, e, d)
      <4>1. Axes(<<2, -1, 3>>, c.inv, d, e)
        BY <2>3, <3>1
      <4> QED BY <1>2, <2>2, <2>7, <4>1, Quarter
    <3>4. Order(x.v[1] % 7, (-x.v[2]) % 7, x.v[3] % 7, f, x)
      BY <2>4, <3>1a, AxesSecondNegated
    <3>5. d.v[1] = x.v[2] % 7 /\ d.v[2] = x.v[1] % 7 /\ d.v[3] = x.v[3] % 7
      BY <3>2 DEF Order
    <3>6. d.v[2] % 7 = x.v[1] % 7 /\ (-d.v[1]) % 7 = (-x.v[2]) % 7 /\ d.v[3] % 7 = x.v[3] % 7
      BY <2>5, <3>5, Sevenths
    <3> QED BY <3>2, <3>3, <3>4, <3>6, FourSame DEF Order
  <2>8. ASSUME IsAxisSwap(p, <<-2, 1, 3>>) /\ ~p.inv /\ Is21(c) PROVE e = f
    <3>1. p.par = <<-2, 1, 3>> /\ c.par = Order21
      BY <2>8 DEF IsAxisSwap, Is21
    <3>1a. o = <<1, -2, 3>>
      <4>1. Order21[1] # <<1, -2, 3>>[1]
        BY DEF Order21
      <4>2. Order21 # <<1, -2, 3>>
        BY <4>1
      <4> QED BY <3>1, <4>2 DEF IsAxisSwap
    <3>2. Order((-x.v[2]) % 7, x.v[1] % 7, x.v[3] % 7, d, x)
      <4>1. Axes(<<-2, 1, 3>>, p.inv, x, d)
        BY <2>1, <3>1
      <4> QED BY <1>2, <2>8, <4>1, QuarterBack
    <3>3. Order(d.v[2] % 7, d.v[1] % 7, d.v[3] % 7, e, d)
      BY <1>2, <2>2, <2>3, <3>1, Axes21
    <3>4. Order(x.v[1] % 7, (-x.v[2]) % 7, x.v[3] % 7, f, x)
      BY <2>4, <3>1a, AxesSecondNegated
    <3>5. d.v[1] = (-x.v[2]) % 7 /\ d.v[2] = x.v[1] % 7 /\ d.v[3] = x.v[3] % 7
      BY <3>2 DEF Order
    <3>6. d.v[2] % 7 = x.v[1] % 7 /\ d.v[1] % 7 = (-x.v[2]) % 7 /\ d.v[3] % 7 = x.v[3] % 7
      BY <2>5, <3>5, Sevenths
    <3> QED BY <3>2, <3>3, <3>4, <3>6, FourSame DEF Order
  <2> QED BY <2>6, <2>7, <2>8 DEF d, e, f, AxesMerge
<1> QED BY <1>2, <1>5, <1>7 DEF m

-----------------------------------------------------------------------------
(* A step and its inverse.                                                 *)

\* Axis orders that are their own inverse.
LEMMA OwnInverse ==
  ASSUME NEW s, IsStep(s), s.name = "axisswap", s.par \in {Order21, <<1, -2, 3>>, <<1, 2, -3>>},
         NEW c \in Between
  PROVE  Do(s, TRUE, c) = Do(s, FALSE, c)
<1> DEFINE d == Do(s, TRUE, c)
           f == Do(s, FALSE, c)
<1>1. Axes(s.par, TRUE, c, d) /\ Axes(s.par, FALSE, c, f)
  BY AxesDo
<1> HIDE DEF d, f
<1>2. ASSUME s.par = Order21 PROVE d = f
  <2>1. Order(c.v[2] % 7, c.v[1] % 7, c.v[3] % 7, d, c)
    BY <1>1, <1>2, Axes21
  <2>2. Order(c.v[2] % 7, c.v[1] % 7, c.v[3] % 7, f, c)
    BY <1>1, <1>2, Axes21
  <2> QED BY <2>1, <2>2, FourSame DEF Order
<1>3. ASSUME s.par = <<1, -2, 3>> PROVE d = f
  <2>1. Order(c.v[1] % 7, (-c.v[2]) % 7, c.v[3] % 7, d, c)
    BY <1>1, <1>3, AxesSecondNegated
  <2>2. Order(c.v[1] % 7, (-c.v[2]) % 7, c.v[3] % 7, f, c)
    BY <1>1, <1>3, AxesSecondNegated
  <2> QED BY <2>1, <2>2, FourSame DEF Order
<1>4. ASSUME s.par = <<1, 2, -3>> PROVE d = f
  <2>1. Order(c.v[1] % 7, c.v[2] % 7, (-c.v[3]) % 7, d, c)
    BY <1>1, <1>4, AxesThirdNegated
  <2>2. Order(c.v[1] % 7, c.v[2] % 7, (-c.v[3]) % 7, f, c)
    BY <1>1, <1>4, AxesThirdNegated
  <2> QED BY <2>1, <2>2, FourSame DEF Order
<1> QED BY <1>2, <1>3, <1>4 DEF d, f

\* A step and the same step inverted, whatever is omitted.
LEMMA InverseCancels ==
  ASSUME NEW p, NEW c, IsStep(p), IsStep(c), p.name \notin {"push", "pop", "set"},
         p.name = c.name, p.inv # c.inv, p.omit = c.omit,
         \A x \in Between, back \in BOOLEAN : Do(p, back, x) = Do(c, back, x)
  PROVE  \A x \in Between : Fwd(c, Fwd(p, x)) = x /\ Rev(p, Rev(c, x)) = x
<1>1. p.inv \in BOOLEAN /\ c.inv \in BOOLEAN /\ c.inv = ~p.inv /\ p.inv = ~c.inv
  BY ParametersAre
<1>2. ASSUME NEW x \in Between, NEW b \in BOOLEAN PROVE Do(c, ~b, Do(p, b, x)) = x
  <2>1. Do(p, b, x) \in Between /\ (~b) \in BOOLEAN
    BY DoType
  <2>2. Do(p, ~b, Do(p, b, x)) = x
    BY DoUndone
  <2> QED BY <2>1, <2>2
<1>3. ASSUME NEW x \in Between, NEW b \in BOOLEAN PROVE Do(p, ~b, Do(c, b, x)) = x
  <2>1. Do(c, b, x) = Do(p, b, x)
    OBVIOUS
  <2>2. Do(p, ~b, Do(p, b, x)) = x
    BY DoUndone
  <2> QED BY <2>1, <2>2
<1> TAKE x \in Between
<1>4. Fwd(c, Fwd(p, x)) = x
  <2>1. Do(c, c.inv, Do(p, p.inv, x)) = x
    BY <1>1, <1>2
  <2> QED BY <2>1, StepIs
<1>5. Rev(p, Rev(c, x)) = x
  <2> DEFINE b == ~c.inv
  <2>1. b \in BOOLEAN /\ ~b = ~p.inv
    BY <1>1
  <2>2. Do(p, ~b, Do(c, b, x)) = x
    BY <1>3, <2>1
  <2>3. Do(p, ~p.inv, Do(c, ~c.inv, x)) = x
    BY <1>1, <2>2
  <2> QED BY <2>3, StepIs
<1> QED BY <1>4, <1>5

LEMMA StepCancels ==
  ASSUME NEW p, NEW c, IsStep(p), IsStep(c), p.name \notin {"push", "pop", "set"}, StepUndone(p, c)
  PROVE  \A x \in Between : Fwd(c, Fwd(p, x)) = x /\ Rev(p, Rev(c, x)) = x
<1>1. p.name = c.name /\ p.par = c.par /\ p.inv # c.inv /\ p.omit = c.omit
  BY DEF StepUndone
<1>2. \A x \in Between, back \in BOOLEAN : Do(p, back, x) = Do(c, back, x)
  BY <1>1, SameDo
<1> QED BY <1>1, <1>2, InverseCancels

LEMMA CartCancels ==
  ASSUME NEW p, NEW c, IsStep(p), IsStep(c), CartUndone(p, c)
  PROVE  \A x \in Between : Fwd(c, Fwd(p, x)) = x /\ Rev(p, Rev(c, x)) = x
<1>1. p.name = "cart" /\ c.name = "cart" /\ p.inv # c.inv /\ p.omit = c.omit
  BY DEF CartUndone
<1>2. ASSUME NEW x \in Between, NEW back \in BOOLEAN PROVE Do(p, back, x) = Do(c, back, x)
  <2>1. Forward(p, x) = Values(x, ToGeocentric(x.v)) /\ Forward(c, x) = Values(x, ToGeocentric(x.v))
    BY <1>1, ForwardIs
  <2>2. Backward(p, x) = Values(x, FromGeocentric(x.v)) /\ Backward(c, x) = Values(x, FromGeocentric(x.v))
    BY <1>1, BackwardIs
  <2> QED BY <2>1, <2>2 DEF Do
<1> QED BY <1>1, <1>2, InverseCancels

LEMMA PushCancels ==
  ASSUME NEW p, NEW c, IsStep(p), IsStep(c), PushThenPop(p, c), p.name = "push"
  PROVE  \A x \in Between : Fwd(c, Fwd(p, x)) = x /\ Rev(p, Rev(c, x)) = x
<1>1. /\ c.name = "pop" /\ ~p.inv /\ ~c.inv /\ p.omit = "none" /\ c.omit = "none"
      /\ p.par = c.par
  <2>1. {p.name, c.name} = {"push", "pop"}
    BY DEF PushThenPop
  <2>2. c.name = "pop"
    BY <2>1
  <2> QED BY <2>2 DEF PushThenPop
<1>2. \A x : Fwd(p, x) = Forward(p, x) /\ Fwd(c, x) = Forward(c, x)
  BY <1>1 DEF Fwd
<1>3. \A x : Rev(p, x) = Backward(p, x) /\ Rev(c, x) = Backward(c, x)
  BY <1>1 DEF Rev
<1>4. \A x : Forward(p, x) = Push(p.par, x) /\ Backward(p, x) = Pop(p.par, x)
  BY ForwardIs, BackwardIs
<1>5. \A x : Forward(c, x) = Pop(p.par, x) /\ Backward(c, x) = Push(p.par, x)
  <2>1. \A x : Forward(c, x) = Pop(c.par, x)
    BY <1>1, ForwardIs
  <2>2. \A x : Backward(c, x) = Push(c.par, x)
    BY <1>1, BackwardIs
  <2> QED BY <1>1, <2>1, <2>2
<1>6. \A x \in Between : Pop(p.par, Push(p.par, x)) = x
  BY PushedThenPopped
<1> QED BY <1>2, <1>3, <1>4, <1>5, <1>6

-----------------------------------------------------------------------------
(* Helmert steps.                                                          *)

Direction(s) == IF s.inv THEN -1 ELSE 1

LEMMA HelmertForward ==
  ASSUME NEW s, IsStep(s), IsHelmert(s)
  PROVE  /\ Reversible(s) /\ s.par \in HelmertPar /\ Direction(s) \in Signs
         /\ \A x : Fwd(s, x) = Values(x, Shift(s.par, Direction(s), x.v))
<1>1. s.name = "helmert" /\ s.omit = "none" /\ s.inv \in BOOLEAN
  BY ParametersAre DEF IsHelmert
<1>2. \A x : Fwd(s, x) = Do(s, s.inv, x)
  BY <1>1, StepIs
<1>3. \A x : Do(s, s.inv, x) = Values(x, Shift(s.par, Direction(s), x.v))
  BY <1>1, ForwardIs, BackwardIs DEF Do, Direction
<1> QED BY <1>1, <1>2, <1>3, ParametersAre DEF Reversible, Direction, Signs

LEMMA MinusZero ==
  ASSUME NEW x \in Int, NEW y \in Int, x + y = 0
  PROVE  -x = y
OBVIOUS

LEMMA FieldsAre ==
  ASSUME NEW s, NEW n, NEW i, NEW k, NEW o, s = [name |-> n, inv |-> i, par |-> k, omit |-> o]
  PROVE  s.name = n /\ s.inv = i /\ s.par = k /\ s.omit = o
OBVIOUS

LEMMA HelmertNothing ==
  ASSUME NEW s, IsStep(s), IsHelmert(s), s.par.t = 0, s.par.r = 0, NEW x \in Between
  PROVE  Fwd(s, x) = x
<1> DEFINE p == s.par
           n == Direction(s)
           d == Values(x, Shift(p, n, x.v))
<1>1. p \in HelmertPar /\ n \in Signs /\ Fwd(s, x) = d
  BY HelmertForward
<1>2. /\ d \in Between /\ d.stack = x.stack
      /\ \A i \in 1..4 : Added(p, i) \in Int /\ d.v[i] = (x.v[i] + n * Added(p, i)) % 7
  BY <1>1, ShiftIs
<1> HIDE DEF d
<1>3. \A i \in 1..4 : Added(p, i) = 0
  <2>1. p.t = 0 /\ p.r = 0
    OBVIOUS
  <2>2. -p.r = 0
    <3> DEFINE r == p.r
    <3>1. r \in Int /\ 0 \in Int /\ r + 0 = 0
      BY <2>1
    <3> HIDE DEF r
    <3>2. -r = 0
      BY <3>1, MinusZero
    <3> QED BY <3>2 DEF r
  <2>3. Rotation(p) = 0
    BY <2>1, <2>2 DEF Rotation
  <2> QED BY <2>1, <2>3 DEF Added
<1>4. n \in Int
  BY <1>1 DEF Signs
<1>5. \A i \in 1..4 : x.v[i] \in 0..6
  BY CoordinatesAre DEF M
<1> HIDE DEF n, p
<1>6. \A i \in 1..4 : d.v[i] = x.v[i]
  <2> TAKE i \in 1..4
  <2>1. d.v[i] = (x.v[i] + n * 0) % 7
    BY <1>2, <1>3
  <2>2. n * 0 = 0
    BY <1>4
  <2> QED BY <1>5, <2>1, <2>2
<1> QED BY <1>1, <1>2, <1>6, SameBetween

LEMMA HelmertSum ==
  ASSUME NEW p, NEW c, IsStep(p), IsStep(c), IsHelmert(p), IsHelmert(c),
         AddUpToZero(p.par, Direction(p), c.par, Direction(c))
  PROVE  /\ Reversible(p) /\ Reversible(c)
         /\ \A x \in Between : Fwd(c, Fwd(p, x)) = x
<1> DEFINE a == p.par
           b == c.par
           m == Direction(p)
           n == Direction(c)
<1>1. /\ Reversible(p) /\ a \in HelmertPar /\ m \in Signs
      /\ \A x : Fwd(p, x) = Values(x, Shift(a, m, x.v))
  BY HelmertForward
<1>2. /\ Reversible(c) /\ b \in HelmertPar /\ n \in Signs
      /\ \A x : Fwd(c, x) = Values(x, Shift(b, n, x.v))
  BY HelmertForward
<1>3. AddUpToZero(a, m, b, n)
  OBVIOUS
<1> HIDE DEF a, b, m, n
<1>4. ASSUME NEW x \in Between PROVE Fwd(c, Fwd(p, x)) = x
  <2>1. LET d == Values(x, Shift(a, m, x.v)) IN Values(d, Shift(b, n, d.v)) = x
    BY <1>1, <1>2, <1>3, ShiftUndone
  <2> QED BY <1>1, <1>2, <2>1
<1> QED BY <1>1, <1>2, <1>4

LEMMA TranslationIs ==
  ASSUME NEW s, IsStep(s), IsTranslation(s)
  PROVE  /\ IsHelmert(s) /\ s.par.t \in Int /\ s.par.r = 0 /\ s.par.convention = "none"
         /\ \A i \in 1..4 : Added(s.par, i) = IF i = 4 THEN 0 ELSE s.par.t
<1>1. IsHelmert(s) /\ s.par \in HelmertPar /\ s.par.convention = "none"
  BY HelmertForward DEF IsTranslation
<1>2. s.par.t \in Int /\ s.par.r = 0
  BY <1>1 DEF HelmertPar
<1>3. Rotation(s.par) = 0
  BY <1>1, <1>2 DEF Rotation
<1> QED BY <1>1, <1>2, <1>3 DEF Added

LEMMA SumIs ==
  ASSUME NEW p, NEW c, IsStep(p), IsStep(c), BothTranslations(p, c)
  PROVE  /\ Sum(p, c) \in Int
         /\ \A i \in 1..4 : Total(p.par, Direction(p), c.par, Direction(c), i)
                              = IF i = 4 THEN 0 ELSE Sum(p, c)
<1>1. IsTranslation(p) /\ IsTranslation(c) /\ p.inv \in BOOLEAN /\ c.inv \in BOOLEAN
  BY ParametersAre DEF BothTranslations
<1>2. p.par.t \in Int /\ \A i \in 1..4 : Added(p.par, i) = IF i = 4 THEN 0 ELSE p.par.t
  BY <1>1, TranslationIs
<1>3. c.par.t \in Int /\ \A i \in 1..4 : Added(c.par, i) = IF i = 4 THEN 0 ELSE c.par.t
  BY <1>1, TranslationIs
<1>4. Sum(p, c) \in Int
  BY <1>2, <1>3 DEF Sum
<1>5. Direction(p) * p.par.t + Direction(c) * c.par.t = Sum(p, c)
  BY <1>1, <1>2, <1>3 DEF Sum, Direction
<1>6. Direction(p) * 0 + Direction(c) * 0 = 0
  BY DEF Direction
<1> QED BY <1>2, <1>3, <1>4, <1>5, <1>6 DEF Total

LEMMA HelmertCancels ==
  ASSUME NEW p, NEW c, IsStep(p), IsStep(c), TranslationsUndone(p, c) \/ HelmertUndone(p, c)
  PROVE  /\ Reversible(p) /\ Reversible(c)
         /\ \A x \in Between : Fwd(c, Fwd(p, x)) = x
<1>1. IsHelmert(p) /\ IsHelmert(c) /\ p.inv \in BOOLEAN /\ c.inv \in BOOLEAN
  BY ParametersAre DEF TranslationsUndone, BothTranslations, IsTranslation, HelmertUndone, BothRotations
<1>2. AddUpToZero(p.par, Direction(p), c.par, Direction(c))
  <2>1. CASE TranslationsUndone(p, c)
    BY <2>1, SumIs DEF TranslationsUndone, AddUpToZero
  <2>2. CASE HelmertUndone(p, c)
    <3> DEFINE a == p.par
               b == c.par
    <3>1. a \in HelmertPar /\ b \in HelmertPar
      BY <1>1, HelmertForward
    <3>2. /\ a.t \in Int /\ a.r \in Int /\ b.t \in Int /\ b.r \in Int
          /\ a.convention \in Conventions /\ b.convention \in Conventions
      BY <3>1 DEF HelmertPar
    <3>3. a.convention # "none" /\ b.convention # "none"
      BY <2>2 DEF HelmertUndone, BothRotations, IsTranslation
    <3>4. CASE p.inv = c.inv
      <4>1. a.t = -b.t /\ a.r = -b.r /\ a.convention = b.convention
        BY <2>2, <3>4 DEF HelmertUndone
      <4>2. Rotation(a) = -Rotation(b) /\ Rotation(b) \in Int
        BY <3>2, <4>1 DEF Rotation
      <4>3. \A i \in 1..4 : Added(a, i) = -Added(b, i) /\ Added(b, i) \in Int
        BY <3>2, <4>1, <4>2 DEF Added
      <4> DEFINE n == Direction(c)
      <4>4. Direction(p) = n /\ n \in {1, -1}
        BY <3>4 DEF Direction
      <4> HIDE DEF n, a, b
      <4>5. \A i \in 1..4 : n * Added(a, i) + n * Added(b, i) = 0
        BY <4>3, <4>4
      <4> QED BY <4>4, <4>5 DEF AddUpToZero, Total, a, b, n
    <3>5. CASE p.inv # c.inv
      <4>1. a.t = b.t /\ a.r = -b.r /\ a.convention # b.convention
        BY <2>2, <3>5 DEF HelmertUndone
      <4>2. Rotation(a) = Rotation(b) /\ Rotation(b) \in Int
        BY <3>2, <3>3, <4>1 DEF Rotation, Conventions
      <4>3. \A i \in 1..4 : Added(a, i) = Added(b, i) /\ Added(b, i) \in Int
        BY <3>2, <4>1, <4>2 DEF Added
      <4>4. \/ Direction(p) = 1 /\ Direction(c) = -1
            \/ Direction(p) = -1 /\ Direction(c) = 1
        BY <1>1, <3>5 DEF Direction
      <4> HIDE DEF a, b
      <4>5. \A i \in 1..4 : Direction(p) * Added(a, i) + Direction(c) * Added(b, i) = 0
        BY <4>3, <4>4
      <4> QED BY <4>5 DEF AddUpToZero, Total, a, b
    <3> QED BY <3>4, <3>5
  <2> QED BY <2>1, <2>2
<1> QED BY <1>1, <1>2, HelmertSum

LEMMA TwoFieldsReplaced ==
  ASSUME NEW A, NEW B, NEW C, NEW D, NEW p \in [name : A, inv : B, par : C, omit : D],
         NEW j \in B, NEW k \in C
  PROVE  LET q == [p EXCEPT !.inv = j, !.par = k]
         IN  q \in [name : A, inv : B, par : C, omit : D]
             /\ q.name = p.name /\ q.inv = j /\ q.par = k /\ q.omit = p.omit
OBVIOUS

LEMMA RecordOf ==
  ASSUME NEW A, NEW B, NEW C, NEW D, NEW q \in [name : A, inv : B, par : C, omit : D]
  PROVE  q = [name |-> q.name, inv |-> q.inv, par |-> q.par, omit |-> q.omit]
OBVIOUS

LEMMA SummedIs ==
  ASSUME NEW p, NEW c, IsStep(p), IsStep(c), BothTranslations(p, c)
  PROVE  [p EXCEPT !.inv = FALSE, !.par.t = Sum(p, c)]
           = [name |-> "helmert", inv |-> FALSE,
              par |-> [t |-> Sum(p, c), r |-> 0, convention |-> "none"], omit |-> "none"]
<1> DEFINE a == p.par
           t == Sum(p, c)
           k == [t |-> t, r |-> 0, convention |-> "none"]
<1>0. IsTranslation(p) /\ IsTranslation(c)
  BY DEF BothTranslations
<1>1. IsHelmert(p) /\ a.r = 0 /\ a.convention = "none"
  BY <1>0, TranslationIs
<1>2. a \in HelmertPar
  BY <1>1, HelmertForward
<1>3. p \in [name : Names, inv : BOOLEAN, par : Parameters(p.name), omit : Omits]
  BY DEF IsStep
<1>4. p = [name |-> "helmert", inv |-> p.inv, par |-> a, omit |-> "none"]
  BY <1>1, <1>3 DEF IsHelmert
<1>5. [a EXCEPT !.t = t] = k
  BY <1>1, <1>2 DEF HelmertPar
<1>6. [p EXCEPT !.inv = FALSE, !.par.t = t] = [p EXCEPT !.inv = FALSE, !.par = k]
  BY <1>5
<1> HIDE DEF a, k, t
<1> DEFINE q == [p EXCEPT !.inv = FALSE, !.par = k]
<1>7. k \in HelmertPar /\ Parameters(p.name) = HelmertPar
  <2>1. t \in Int
    BY SumIs DEF t
  <2>2. p.name = "helmert"
    BY <1>1 DEF IsHelmert
  <2> QED BY <2>1, <2>2 DEF HelmertPar, Conventions, Parameters, k
<1>8. /\ q \in [name : Names, inv : BOOLEAN, par : Parameters(p.name), omit : Omits]
      /\ q.name = p.name /\ q.inv = FALSE /\ q.par = k /\ q.omit = p.omit
  BY <1>3, <1>7, TwoFieldsReplaced
<1> HIDE DEF q
<1>9. q = [name |-> q.name, inv |-> q.inv, par |-> q.par, omit |-> q.omit]
  BY <1>8, RecordOf
<1>10. q.name = "helmert" /\ q.omit = "none"
  BY <1>1, <1>8 DEF IsHelmert
<1>11. q = [name |-> "helmert", inv |-> FALSE, par |-> k, omit |-> "none"]
  BY <1>8, <1>9, <1>10
<1> QED BY <1>6, <1>11 DEF k, t, q

LEMMA TranslationsSummed ==
  ASSUME NEW p, NEW c, IsStep(p), IsStep(c), BothTranslations(p, c),
         NEW s, s = [name |-> "helmert", inv |-> FALSE,
                     par |-> [t |-> Sum(p, c), r |-> 0, convention |-> "none"], omit |-> "none"]
  PROVE  /\ IsStep(s) /\ Reversible(s) /\ Reversible(p) /\ Reversible(c)
         /\ \A x \in Between : Fwd(c, Fwd(p, x)) = Fwd(s, x)
<1> DEFINE a == p.par
           b == c.par
           m == Direction(p)
           n == Direction(c)
           t == Sum(p, c)
           k == [t |-> t, r |-> 0, convention |-> "none"]
<1>0. IsTranslation(p) /\ IsTranslation(c)
  BY DEF BothTranslations
<1>1. IsHelmert(p) /\ IsHelmert(c) /\ a.r = 0 /\ a.convention = "none"
  BY <1>0, TranslationIs
<1>2. /\ Reversible(p) /\ a \in HelmertPar /\ m \in Signs
      /\ \A x : Fwd(p, x) = Values(x, Shift(a, m, x.v))
  BY <1>1, HelmertForward
<1>3. /\ Reversible(c) /\ b \in HelmertPar /\ n \in Signs
      /\ \A x : Fwd(c, x) = Values(x, Shift(b, n, x.v))
  BY <1>1, HelmertForward
<1>4. t \in Int /\ \A i \in 1..4 : Total(a, m, b, n, i) = IF i = 4 THEN 0 ELSE t
  BY SumIs
<1>5. s = [name |-> "helmert", inv |-> FALSE, par |-> k, omit |-> "none"]
  OBVIOUS
<1>6. k \in HelmertPar
  BY <1>4 DEF HelmertPar, Conventions
<1>7. IsStep(s) /\ IsHelmert(s) /\ Direction(s) = 1 /\ s.par = k
  <2>1. Parameters("helmert") = HelmertPar
    BY DEF Parameters
  <2> HIDE DEF k
  <2>2. s.name = "helmert" /\ s.omit = "none" /\ s.inv = FALSE /\ s.par = k
    <3>1. s = [name |-> "helmert", inv |-> FALSE, par |-> k, omit |-> "none"]
      BY <1>5
    <3> QED BY <3>1
  <2>3. s \in [name : Names, inv : BOOLEAN, par : Parameters(s.name), omit : Omits]
    BY <1>5, <1>6, <2>1, <2>2 DEF Names, Omits
  <2> QED BY <2>2, <2>3 DEF IsStep, IsHelmert, Direction
<1>8. Reversible(s) /\ \A x : Fwd(s, x) = Values(x, Shift(k, 1, x.v))
  BY <1>7, HelmertForward
<1>9. \A i \in 1..4 : Added(k, i) = IF i = 4 THEN 0 ELSE t
  <2>1. Rotation(k) = 0 /\ k.t = t
    BY DEF Rotation
  <2> QED BY <1>4, <2>1 DEF Added
<1>10. ASSUME NEW x \in Between PROVE Fwd(c, Fwd(p, x)) = Fwd(s, x)
  <2> DEFINE d == Values(x, Shift(a, m, x.v))
             e == Values(d, Shift(b, n, d.v))
             f == Values(x, Shift(k, 1, x.v))
  <2> HIDE DEF a, b, m, n, t, k
  <2>1. /\ e \in Between /\ e.stack = x.stack
        /\ \A i \in 1..4 : e.v[i] = (x.v[i] + Total(a, m, b, n, i)) % 7
    BY <1>2, <1>3, TwoShifts
  <2>2. /\ f \in Between /\ f.stack = x.stack
        /\ \A i \in 1..4 : f.v[i] = (x.v[i] + 1 * Added(k, i)) % 7
    BY <1>6, ShiftIs DEF Signs
  <2>3. Fwd(c, Fwd(p, x)) = e /\ Fwd(s, x) = f
    BY <1>2, <1>3, <1>8
  <2> HIDE DEF d, e, f
  <2>4. \A i \in 1..4 : e.v[i] = f.v[i]
    <3> TAKE i \in 1..4
    <3>1. 1 * Added(k, i) = Total(a, m, b, n, i)
      BY <1>4, <1>9
    <3> QED BY <2>1, <2>2, <3>1
  <2> QED BY <2>1, <2>2, <2>3, <2>4, SameBetween
<1> QED BY <1>2, <1>3, <1>7, <1>8, <1>10

-----------------------------------------------------------------------------
(* Krovak, set, and steps that do nothing.                                 *)

LEMMA KrovakArithmetic ==
  ASSUME NEW x \in 0..6, NEW y \in 0..6
  PROVE  /\ ((((-y - 1) % 7) + 1) % 7) = ((-y) % 7)
         /\ ((((-x + y + 1) % 7) + ((-y - 1) % 7)) % 7) = ((-x) % 7)
         /\ ((-(((y - x + 1) % 7) + ((x - 1) % 7))) % 7) = ((-y) % 7)
         /\ ((-(((x - 1) % 7) + 1)) % 7) = ((-x) % 7)
         /\ ((-y) % 7) % 7 = (-y) % 7
OBVIOUS

LEMMA KrovakMerged ==
  ASSUME NEW p, NEW c, IsStep(p), IsStep(c), KrovakTurned(p, c), p.inv
  PROVE  LET m == Step("axisswap", <<-2, -1, 3>>)
         IN  /\ IsStep(m) /\ Reversible(m) /\ Reversible(p) /\ Reversible(c)
             /\ \A x \in Between : Fwd(c, Fwd(p, x)) = Fwd(m, x)
<1> DEFINE m == Step("axisswap", <<-2, -1, 3>>)
           a == p.par
           b == c.par
<1>1. p.name = "krovak" /\ c.name = "krovak" /\ p.omit = "none" /\ c.omit = "none" /\ ~c.inv
  BY ParametersAre DEF KrovakTurned
<1>2. a \in [swu : BOOLEAN] /\ b \in [swu : BOOLEAN] /\ a.swu # b.swu
  BY <1>1, ParametersAre DEF KrovakTurned
<1>3. Reversible(p) /\ Reversible(c)
  BY <1>1 DEF Reversible
<1>4. \A x : Fwd(p, x) = Values(x, Unproject(a, x.v))
  <2>1. \A x : Fwd(p, x) = Backward(p, x)
    BY <1>1 DEF Fwd
  <2> QED BY <1>1, <2>1, BackwardIs, ZenonT(60)
<1>5. \A x : Fwd(c, x) = Values(x, Project(b, x.v))
  <2>1. \A x : Fwd(c, x) = Forward(c, x)
    BY <1>1 DEF Fwd
  <2> QED BY <1>1, <2>1, ForwardIs
<1>6. IsStep(m) /\ Reversible(m) /\ m.name = "axisswap" /\ m.omit = "none" /\ ~m.inv /\ m.par = <<-2, -1, 3>>
  BY KnownOrders, SwapStep
<1> HIDE DEF m, a, b
<1>7. m.inv \in BOOLEAN /\ \A x \in Between : Axes(<<-2, -1, 3>>, m.inv, x, Fwd(m, x))
  BY <1>6, AxesForward
<1>8. ASSUME NEW x \in Between PROVE Fwd(c, Fwd(p, x)) = Fwd(m, x)
  <2> DEFINE d == Values(x, Unproject(a, x.v))
             e == Values(d, Project(b, d.v))
             f == Fwd(m, x)
  <2>1. /\ d \in Between /\ d.stack = x.stack /\ d.v[3] = x.v[3] /\ d.v[4] = x.v[4]
        /\ a.swu => d.v[1] = (-x.v[1] + x.v[2] + 1) % 7 /\ d.v[2] = (-x.v[2] - 1) % 7
        /\ ~a.swu => d.v[1] = (x.v[2] - x.v[1] + 1) % 7 /\ d.v[2] = (x.v[1] - 1) % 7
    BY <1>2, UnprojectIs
  <2>2. Fwd(c, Fwd(p, x)) = e
    BY <1>4, <1>5
  <2> HIDE DEF d
  <2>3. /\ e \in Between /\ e.stack = d.stack /\ e.v[3] = d.v[3] /\ e.v[4] = d.v[4]
        /\ b.swu => e.v[1] = (-(d.v[1] + d.v[2])) % 7 /\ e.v[2] = (-(d.v[2] + 1)) % 7
        /\ ~b.swu => e.v[1] = (d.v[2] + 1) % 7 /\ e.v[2] = (d.v[1] + d.v[2]) % 7
    BY <1>2, <2>1, ProjectIs
  <2>4. Order((-x.v[2]) % 7, (-x.v[1]) % 7, x.v[3] % 7, f, x)
    BY <1>7, AxesTurned
  <2> HIDE DEF e, f
  <2>5. x.v[1] \in 0..6 /\ x.v[2] \in 0..6 /\ x.v[3] \in 0..6 /\ x.v[3] % 7 = x.v[3]
    <3>1. x.v[1] \in 0..6 /\ x.v[2] \in 0..6 /\ x.v[3] \in 0..6
      BY FourCoordinates
    <3> QED BY <3>1
  <2>6. e.v[1] = (-x.v[2]) % 7 /\ e.v[2] = (-x.v[1]) % 7
    <3>1. CASE a.swu
      BY <1>2, <2>1, <2>3, <2>5, <3>1, KrovakArithmetic
    <3>2. CASE ~a.swu
      BY <1>2, <2>1, <2>3, <2>5, <3>2, KrovakArithmetic
    <3> QED BY <3>1, <3>2
  <2>7. e = f
    BY <2>1, <2>3, <2>4, <2>5, <2>6, FourSame DEF Order
  <2> QED BY <2>2, <2>7 DEF f
<1> QED BY <1>3, <1>6, <1>8 DEF m

LEMMA SetIsSteady ==
  ASSUME NEW s, IsStep(s), s.name = "set", NEW c \in Between, NEW b1 \in BOOLEAN, NEW b2 \in BOOLEAN
  PROVE  Do(s, b1, Do(s, b2, c)) = Do(s, TRUE, c) /\ Do(s, b1, c) = Do(s, TRUE, c)
<1> DEFINE p == s.par
           d == Values(c, Set(p, c.v))
           e == Values(d, Set(p, d.v))
<1>1. p \in [v4 : Int]
  BY ParametersAre
<1>2. /\ d \in Between /\ d.stack = c.stack
      /\ d.v[1] = c.v[1] /\ d.v[2] = c.v[2] /\ d.v[3] = c.v[3] /\ d.v[4] = p.v4 % 7
  BY <1>1, SetIs
<1>3. Do(s, b1, c) = d /\ Do(s, b2, c) = d /\ Do(s, TRUE, c) = d
  BY SetStep DEF Do
<1>4. Do(s, b1, d) = e
  BY <1>2, SetStep DEF Do
<1> HIDE DEF d
<1>5. /\ e \in Between /\ e.stack = d.stack
      /\ e.v[1] = d.v[1] /\ e.v[2] = d.v[2] /\ e.v[3] = d.v[3] /\ e.v[4] = p.v4 % 7
  BY <1>1, <1>2, SetIs
<1> HIDE DEF e, p
<1>6. e = d
  BY <1>2, <1>5, FourSame
<1> QED BY <1>3, <1>4, <1>6

\* Two settings of the same values.
LEMMA SetsMerged ==
  ASSUME NEW p, NEW c, IsStep(p), IsStep(c), NEW x \in Between
  PROVE  /\ SetMakesOmitFwdUseless(p, c) =>
              Fwd(c, Fwd(p, x)) = Fwd(p, x) /\ Rev(p, Rev(c, x)) = Rev(p, x)
         /\ SetMakesOmitInvUseless(p, c) =>
              Fwd(c, Fwd(p, x)) = Fwd(c, x) /\ Rev(p, Rev(c, x)) = Rev(c, x)
<1>1. /\ p.inv \in BOOLEAN /\ c.inv \in BOOLEAN /\ (~p.inv) \in BOOLEAN /\ (~c.inv) \in BOOLEAN
  BY ParametersAre
<1>2. ASSUME p.name = "set", c.name = "set", p.par = c.par, NEW b1 \in BOOLEAN, NEW b2 \in BOOLEAN
      PROVE  /\ Do(p, b1, Do(c, b2, x)) = Do(p, TRUE, x) /\ Do(c, b1, Do(p, b2, x)) = Do(p, TRUE, x)
             /\ Do(p, b1, x) = Do(p, TRUE, x) /\ Do(c, b1, x) = Do(p, TRUE, x)
  <2>1. \A b, y : Do(c, b, y) = Do(p, b, y)
    BY <1>2, SameDo
  <2>2. Do(p, b1, Do(p, b2, x)) = Do(p, TRUE, x) /\ Do(p, b1, x) = Do(p, TRUE, x)
    BY <1>2, SetIsSteady
  <2>3. Do(c, b2, x) = Do(p, b2, x) /\ Do(c, b1, x) = Do(p, b1, x)
    BY <2>1
  <2>4. Do(c, b1, Do(p, b2, x)) = Do(p, b1, Do(p, b2, x))
    BY <2>1
  <2> QED BY <2>2, <2>3, <2>4
<1>3. ASSUME SetMakesOmitFwdUseless(p, c)
      PROVE  Fwd(c, Fwd(p, x)) = Fwd(p, x) /\ Rev(p, Rev(c, x)) = Rev(p, x)
  <2>1. p.name = "set" /\ c.name = "set" /\ p.par = c.par /\ p.omit = "none" /\ c.omit = "fwd"
    BY <1>3 DEF SetMakesOmitFwdUseless
  <2>2. Fwd(c, Fwd(p, x)) = Fwd(p, x)
    BY <2>1, StepIs
  <2>3. Rev(p, Rev(c, x)) = Do(p, ~p.inv, Do(c, ~c.inv, x)) /\ Rev(p, x) = Do(p, ~p.inv, x)
    BY <2>1, StepIs
  <2> QED BY <1>1, <1>2, <2>1, <2>2, <2>3
<1>4. ASSUME SetMakesOmitInvUseless(p, c)
      PROVE  Fwd(c, Fwd(p, x)) = Fwd(c, x) /\ Rev(p, Rev(c, x)) = Rev(c, x)
  <2>1. p.name = "set" /\ c.name = "set" /\ p.par = c.par /\ p.omit = "inv" /\ c.omit = "none"
    BY <1>4 DEF SetMakesOmitInvUseless
  <2>2. Rev(p, Rev(c, x)) = Rev(c, x)
    BY <2>1, StepIs
  <2>3. Fwd(c, Fwd(p, x)) = Do(c, c.inv, Do(p, p.inv, x)) /\ Fwd(c, x) = Do(c, c.inv, x)
    BY <2>1, StepIs
  <2> QED BY <1>1, <1>2, <2>1, <2>2, <2>3
<1> QED BY <1>3, <1>4

\* A reversible step that does nothing in one direction does nothing in the other.
LEMMA NothingEitherWay ==
  ASSUME NEW s, IsStep(s), Reversible(s), \A x \in Between : Do(s, FALSE, x) = x, NEW x \in Between
  PROVE  Fwd(s, x) = x /\ Rev(s, x) = x
<1>1. s.inv \in BOOLEAN /\ s.omit = "none"
  BY ParametersAre DEF Reversible
<1>2. Do(s, TRUE, x) = x
  <2>1. Do(s, ~FALSE, Do(s, FALSE, x)) = x
    BY DoUndone DEF Reversible
  <2> QED BY <2>1
<1>3. Fwd(s, x) = Do(s, s.inv, x) /\ Rev(s, x) = Do(s, ~s.inv, x)
  BY <1>1, StepIs
<1> QED BY <1>1, <1>2, <1>3

LEMMA DoingNothing ==
  ASSUME NEW s, IsStep(s), DoesNothing(s) \/ s.name = "longlat", NEW x \in Between
  PROVE  Fwd(s, x) = x /\ Rev(s, x) = x
<1>1. CASE s.name \in {"noop", "longlat"}
  <2>1. \A b : Do(s, b, x) = x
    BY <1>1, ForwardIs, BackwardIs DEF Do
  <2> QED BY <2>1, StepIs
<1>2. CASE IsHelmert(s) /\ s.par.t = 0 /\ s.par.r = 0
  <2>1. Reversible(s)
    BY <1>2, HelmertForward
  <2>2. \A y \in Between : Fwd(s, y) = y
    BY <1>2, HelmertNothing
  <2>3. Rev(s, x) = x
    BY <2>1, <2>2, ReversibleUndone
  <2> QED BY <2>2, <2>3
<1>3. CASE /\ s.name = "unitconvert" /\ s.omit = "none" /\ s.par.z = <<>>
           /\ s.par.xy # <<>> /\ s.par.xy[1] = s.par.xy[2]
  <2> DEFINE p == s.par
  <2>1. Reversible(s) /\ p \in [xy : Pair, z : Pair]
    BY <1>3, ParametersAre DEF Reversible
  <2>2. Ratio(p.xy) \in Nat /\ Ratio(p.xy) % M = 1
    BY <1>3, <2>1, SameRatio DEF IsSame
  <2>3. Ratio(p.z) = 1
    BY <1>3 DEF Ratio
  <2>4. \A i \in 1..4 : Scale(p, i) \in Nat /\ Scale(p, i) % M = 1
    <3>1. 1 % M = 1
      BY DEF M
    <3> QED BY <2>2, <2>3, <3>1 DEF Scale
  <2>5. ASSUME NEW y \in Between PROVE Do(s, FALSE, y) = y
    <3> DEFINE d == Values(y, ConvertUnits(p, y.v))
    <3>1. Do(s, FALSE, y) = d
      BY <1>3, ForwardIs DEF Do
    <3>2. /\ d \in Between /\ d.stack = y.stack
          /\ \A i \in 1..4 : d.v[i] = (y.v[i] * Scale(p, i)) % M
      BY <2>1, UnitsAre
    <3> HIDE DEF d, p
    <3>3. \A i \in 1..4 : d.v[i] = y.v[i]
      BY <2>4, <3>2, CoordinatesAre, ScaledBy
    <3> QED BY <3>1, <3>2, <3>3, SameBetween
  <2> QED BY <2>1, <2>5, NothingEitherWay
<1> QED BY <1>1, <1>2, <1>3 DEF DoesNothing, IsIdentity

SameStep(s, u) == \A x \in Between : Fwd(s, x) = Fwd(u, x) /\ Rev(s, x) = Rev(u, x)

LEMMA OneForOne ==
  ASSUME NEW s, NEW u, IsStep(s), IsStep(u), Reversible(s), Reversible(u),
         \A x \in Between : Fwd(s, x) = Fwd(u, x)
  PROVE  SameStep(s, u)
<1>1. ASSUME NEW x \in Between PROVE Rev(s, x) = Rev(u, x)
  <2> DEFINE y == Rev(s, x)
  <2>1. y \in Between
    BY FwdRevType
  <2>2. Fwd(s, y) = x
    BY ReversibleUndone
  <2>3. Rev(u, Fwd(u, y)) = y
    BY <2>1, ReversibleUndone
  <2> QED BY <2>1, <2>2, <2>3
<1> QED BY <1>1 DEF SameStep

\* Push and pop are never inverted, nor what loop 2 could write without +inv.
NotInverted(s) == s.name \in {"push", "pop", "set"} \/ (s.name = "unitconvert" /\ s.omit = "none")
Settled(s) == s.inv => ~NotInverted(s)

LEMMA InvCleared ==
  ASSUME NEW s, IsStep(s), NEW u, u = [s EXCEPT !.inv = FALSE]
  PROVE  IsStep(u) /\ u.name = s.name /\ u.inv = FALSE /\ u.par = s.par /\ u.omit = s.omit
<1>1. s \in [name : Names, inv : BOOLEAN, par : Parameters(s.name), omit : Omits]
  BY DEF IsStep
<1>2. u \in [name : Names, inv : BOOLEAN, par : Parameters(s.name), omit : Omits]
  BY <1>1
<1>3. u.name = s.name /\ u.inv = FALSE /\ u.par = s.par /\ u.omit = s.omit
  BY <1>1
<1> QED BY <1>2, <1>3 DEF IsStep

LEMMA RenamedMeans ==
  ASSUME NEW s, IsStep(s)
  PROVE  /\ IsStep(Renamed(s)) /\ SameStep(s, Renamed(s))
         /\ Renamed(s).name \in {"push", "pop"} => ~Renamed(s).inv
<1> DEFINE u == Renamed(s)
<1>1. CASE ~(s.name \in {"push", "pop"} /\ s.inv)
  BY <1>1 DEF Renamed, SameStep
<1>2. CASE s.name \in {"push", "pop"} /\ s.inv
  <2> DEFINE n == IF s.name = "push" THEN "pop" ELSE "push"
  <2>1. u = [s EXCEPT !.name = n, !.inv = FALSE]
    BY <1>2 DEF Renamed
  <2>2. s \in [name : Names, inv : BOOLEAN, par : Parameters(s.name), omit : Omits]
    BY DEF IsStep
  <2>3. n \in Names
    BY DEF Names
  <2> HIDE DEF n, u
  <2>4. u \in [name : Names, inv : BOOLEAN, par : Parameters(s.name), omit : Omits]
    BY <2>1, <2>2, <2>3
  <2>5. u.name = n /\ u.inv = FALSE /\ u.par = s.par /\ u.omit = s.omit
    BY <2>1, <2>2
  <2>6. Parameters(n) = Parameters(s.name)
    BY <1>2 DEF Parameters, n
  <2>7. IsStep(u)
    BY <2>4, <2>5, <2>6 DEF IsStep
  <2>8. \A x : Do(u, FALSE, x) = Do(s, TRUE, x) /\ Do(u, TRUE, x) = Do(s, FALSE, x)
    <3>1. CASE s.name = "push"
      <4>1. u.name = "pop"
        BY <2>5, <3>1 DEF n
      <4>2. \A x : Forward(u, x) = Pop(u.par, x) /\ Backward(u, x) = Push(u.par, x)
        BY <4>1, ForwardIs, BackwardIs
      <4>3. \A x : Forward(s, x) = Push(s.par, x) /\ Backward(s, x) = Pop(s.par, x)
        BY <3>1, ForwardIs, BackwardIs
      <4> QED BY <2>5, <4>2, <4>3 DEF Do
    <3>2. CASE s.name = "pop"
      <4>1. u.name = "push"
        BY <2>5, <3>2 DEF n
      <4>2. \A x : Forward(u, x) = Push(u.par, x) /\ Backward(u, x) = Pop(u.par, x)
        BY <4>1, ForwardIs, BackwardIs
      <4>3. \A x : Forward(s, x) = Pop(s.par, x) /\ Backward(s, x) = Push(s.par, x)
        BY <3>2, ForwardIs, BackwardIs
      <4> QED BY <2>5, <4>2, <4>3 DEF Do
    <3> QED BY <1>2, <3>1, <3>2
  <2>9. SameStep(s, u)
    BY <1>2, <2>5, <2>7, <2>8, StepIs DEF SameStep
  <2> QED BY <2>5, <2>7, <2>9 DEF u
<1> QED BY <1>1, <1>2

LEMMA UninvertedMeans ==
  ASSUME NEW s, IsStep(s), s.inv, s.name \notin {"push", "pop"}
  PROVE  IsStep(Uninverted(s)) /\ SameStep(s, Uninverted(s)) /\ Settled(Uninverted(s))
<1> DEFINE u == Uninverted(s)
           Own == s.name = "axisswap" /\ s.omit = "none"
                    /\ s.par \in {Order21, <<1, -2, 3>>, <<1, 2, -3>>}
           Quarters == IsAxisSwap(s, <<2, -1, 3>>)
           Unit4 == s.name = "unitconvert" /\ s.omit = "none"
           Setting == s.name = "set"
<1>1. CASE Own
  <2>1. u = [s EXCEPT !.inv = FALSE]
    <3>1. <<2, -1, 3>>[1] = 2 /\ <<1, -2, 3>>[1] = 1 /\ <<1, 2, -3>>[1] = 1
      OBVIOUS
    <3>2. <<2, -1, 3>>[2] # Order21[2]
      BY DEF Order21
    <3>3. ~IsAxisSwap(s, <<2, -1, 3>>)
      BY <1>1, <3>1, <3>2 DEF IsAxisSwap
    <3>4. s.name # "unitconvert" /\ s.name # "set"
      BY <1>1
    <3> QED BY <1>1, <3>3, <3>4 DEF Uninverted
  <2>2. IsStep(u) /\ u.name = s.name /\ u.inv = FALSE /\ u.par = s.par /\ u.omit = s.omit
    BY <2>1, InvCleared
  <2> HIDE DEF u
  <2>3. \A x \in Between, b \in BOOLEAN : Do(u, b, x) = Do(s, b, x)
    BY <2>2, SameDo
  <2>4. \A x \in Between : Do(s, TRUE, x) = Do(s, FALSE, x)
    BY <1>1, OwnInverse
  <2>5. SameStep(s, u)
    BY <1>1, <2>2, <2>3, <2>4, StepIs, ZenonT(60) DEF SameStep
  <2> QED BY <2>2, <2>5 DEF Settled, u
<1>2. CASE Quarters
  <2>0. s.name = "axisswap" /\ s.omit = "none" /\ s.par = <<2, -1, 3>>
    BY <1>2 DEF IsAxisSwap
  <2>1. u = Step("axisswap", <<-2, 1, 3>>)
    <3>1. <<2, -1, 3>>[1] = 2 /\ <<1, -2, 3>>[1] = 1 /\ <<1, 2, -3>>[1] = 1
      OBVIOUS
    <3>2. <<2, -1, 3>>[2] # Order21[2]
      BY DEF Order21
    <3>3. ~Own
      BY <2>0, <3>1, <3>2
    <3> QED BY <1>2, <2>0, <3>3 DEF Uninverted
  <2>2. /\ IsStep(u) /\ Reversible(u) /\ u.name = "axisswap" /\ u.omit = "none" /\ ~u.inv
        /\ u.par = <<-2, 1, 3>>
    BY <2>1, KnownOrders, SwapStep
  <2> HIDE DEF u
  <2>3. Reversible(s) /\ \A x \in Between : Axes(<<2, -1, 3>>, s.inv, x, Fwd(s, x))
    BY <2>0, AxesForward
  <2>4. u.inv \in BOOLEAN /\ \A x \in Between : Axes(<<-2, 1, 3>>, u.inv, x, Fwd(u, x))
    BY <2>2, AxesForward
  <2>5. ASSUME NEW x \in Between PROVE Fwd(s, x) = Fwd(u, x)
    <3> DEFINE d == Fwd(s, x)
               f == Fwd(u, x)
    <3>1. Axes(<<2, -1, 3>>, s.inv, x, d) /\ Axes(<<-2, 1, 3>>, u.inv, x, f)
      BY <2>3, <2>4
    <3> HIDE DEF d, f
    <3>2. Order((-x.v[2]) % 7, x.v[1] % 7, x.v[3] % 7, f, x)
      BY <2>2, <2>4, <3>1, QuarterBack
    <3>3. Order((-x.v[2]) % 7, x.v[1] % 7, x.v[3] % 7, d, x)
      <4>1. s.inv \in BOOLEAN
        BY ParametersAre
      <4> QED BY <3>1, <4>1, AxesQuarter
    <3>4. d = f
      BY <3>2, <3>3, FourSame DEF Order
    <3> QED BY <3>4 DEF d, f
  <2>6. SameStep(s, u)
    BY <2>2, <2>3, <2>5, OneForOne
  <2> QED BY <2>2, <2>6 DEF Settled, u
<1>3. CASE Unit4
  <2> DEFINE q == Opposite(s.par)
  <2>1. u = Units(Swapped(s.par.xy), Swapped(s.par.z))
    BY <1>3 DEF Uninverted, IsAxisSwap
  <2>2. u = [name |-> "unitconvert", inv |-> FALSE, par |-> q, omit |-> "none"]
    BY <2>1 DEF Units, Step, Opposite
  <2>3. q \in [xy : Pair, z : Pair]
    BY <1>3, ParametersAre, OppositeIs
  <2>4. \A x : Backward(s, x) = Values(x, ConvertUnits(q, x.v))
    BY <1>3, BackwardIs DEF Opposite
  <2> HIDE DEF q, u
  <2>5. u.name = "unitconvert" /\ u.inv = FALSE /\ u.par = q /\ u.omit = "none"
    BY <2>2, FieldsAre
  <2>6. IsStep(u)
    <3>1. Parameters(u.name) = [xy : Pair, z : Pair]
      BY <2>5 DEF Parameters
    <3> QED BY <2>2, <2>3, <2>5, <3>1 DEF IsStep, Names, Omits
  <2>7. \A x : Fwd(u, x) = Values(x, ConvertUnits(q, x.v))
    <3>1. \A x : Fwd(u, x) = Forward(u, x)
      BY <2>5 DEF Fwd
    <3> QED BY <2>5, <3>1, ForwardIs
  <2>8. \A x : Fwd(s, x) = Backward(s, x)
    BY <1>3 DEF Fwd
  <2>9. Reversible(s) /\ Reversible(u)
    BY <1>3, <2>5 DEF Reversible
  <2>10. SameStep(s, u)
    BY <2>4, <2>6, <2>7, <2>8, <2>9, OneForOne
  <2> QED BY <2>5, <2>6, <2>10 DEF Settled, u
<1>4. CASE Setting
  <2>1. u = [s EXCEPT !.inv = FALSE]
    BY <1>4 DEF Uninverted, IsAxisSwap
  <2>2. IsStep(u) /\ u.name = s.name /\ u.inv = FALSE /\ u.par = s.par /\ u.omit = s.omit
    BY <2>1, InvCleared
  <2> HIDE DEF u
  <2>3. \A x \in Between, b \in BOOLEAN : Do(u, b, x) = Do(s, b, x)
    BY <2>2, SameDo
  <2>4. \A x \in Between, b \in BOOLEAN : Do(s, b, x) = Do(s, TRUE, x)
    BY <1>4, SetIsSteady
  <2>5. SameStep(s, u)
    BY <1>4, <2>2, <2>3, <2>4, StepIs DEF SameStep
  <2> QED BY <2>2, <2>5 DEF Settled, u
<1>5. CASE ~Own /\ ~Quarters /\ ~Unit4 /\ ~Setting
  <2>1. u = s
    BY <1>5 DEF Uninverted
  <2> QED BY <1>5, <2>1 DEF Settled, NotInverted, SameStep
<1> QED BY <1>1, <1>2, <1>3, <1>4, <1>5

-----------------------------------------------------------------------------
(* Conversions of units and exchanges of the first two axes commute.       *)

LEMMA UnitsScale ==
  ASSUME NEW s, IsStep(s), s.name = "unitconvert", NEW back \in BOOLEAN
  PROVE  \E k \in Nat, l \in Nat : \A x \in Between :
           /\ Do(s, back, x) \in Between /\ Do(s, back, x).stack = x.stack
           /\ Do(s, back, x).v[1] = (x.v[1] * k) % M /\ Do(s, back, x).v[2] = (x.v[2] * k) % M
           /\ Do(s, back, x).v[3] = (x.v[3] * l) % M /\ Do(s, back, x).v[4] = x.v[4]
<1> DEFINE q == IF back THEN Opposite(s.par) ELSE s.par
<1>1. q \in [xy : Pair, z : Pair]
  BY ParametersAre, OppositeIs
<1>2. \A x : Do(s, back, x) = Values(x, ConvertUnits(q, x.v))
  BY ForwardIs, BackwardIs DEF Do, Opposite
<1> HIDE DEF q
<1>3. q.xy \in Pair /\ q.z \in Pair
  BY <1>1
<1>4. Ratio(q.xy) \in Nat /\ Ratio(q.z) \in Nat
  BY <1>3, RatioType
<1>5. ASSUME NEW x \in Between
      PROVE  /\ Do(s, back, x) \in Between /\ Do(s, back, x).stack = x.stack
             /\ Do(s, back, x).v[1] = (x.v[1] * Ratio(q.xy)) % M
             /\ Do(s, back, x).v[2] = (x.v[2] * Ratio(q.xy)) % M
             /\ Do(s, back, x).v[3] = (x.v[3] * Ratio(q.z)) % M /\ Do(s, back, x).v[4] = x.v[4]
  <2> DEFINE d == Values(x, ConvertUnits(q, x.v))
  <2>1. /\ d \in Between /\ d.stack = x.stack
        /\ \A i \in 1..4 : d.v[i] = (x.v[i] * Scale(q, i)) % M
    BY <1>1, UnitsAre
  <2> HIDE DEF d
  <2>2. /\ d.v[1] = (x.v[1] * Ratio(q.xy)) % M /\ d.v[2] = (x.v[2] * Ratio(q.xy)) % M
        /\ d.v[3] = (x.v[3] * Ratio(q.z)) % M /\ d.v[4] = (x.v[4] * 1) % M
    BY <2>1 DEF Scale
  <2>3. (x.v[4] * 1) % M = x.v[4]
    <3>1. x.v[4] \in Int /\ x.v[4] % M = x.v[4]
      BY CoordinatesAre
    <3> QED BY <3>1
  <2>4. Do(s, back, x) = d
    BY <1>2 DEF d
  <2> QED BY <2>1, <2>2, <2>3, <2>4
<1> QED BY <1>4, <1>5

LEMMA Exchanged ==
  ASSUME NEW s, IsStep(s), Is21(s), NEW back \in BOOLEAN, NEW x \in Between
  PROVE  LET d == Do(s, back, x)
         IN  /\ d \in Between /\ d.stack = x.stack
             /\ d.v[1] = x.v[2] /\ d.v[2] = x.v[1] /\ d.v[3] = x.v[3] /\ d.v[4] = x.v[4]
<1> DEFINE d == Do(s, back, x)
<1>1. Axes(Order21, back, x, d)
  BY AxesDo DEF Is21, IsAxisSwap
<1> HIDE DEF d
<1>2. Order(x.v[2] % 7, x.v[1] % 7, x.v[3] % 7, d, x)
  BY <1>1, Axes21
<1>3. x.v[2] % 7 = x.v[2] /\ x.v[1] % 7 = x.v[1] /\ x.v[3] % 7 = x.v[3]
  BY CoordinatesAre DEF M
<1> QED BY <1>2, <1>3 DEF Order, d

LEMMA UnitsAndAxesCommute ==
  ASSUME NEW u, IsStep(u), u.name = "unitconvert", NEW s, IsStep(s), Is21(s),
         NEW a \in BOOLEAN, NEW b \in BOOLEAN, NEW x \in Between
  PROVE  Do(s, b, Do(u, a, x)) = Do(u, a, Do(s, b, x))
<1> DEFINE d == Do(u, a, x)
           e == Do(s, b, d)
           f == Do(s, b, x)
           g == Do(u, a, f)
<1>1. PICK k \in Nat, l \in Nat : \A y \in Between :
           /\ Do(u, a, y) \in Between /\ Do(u, a, y).stack = y.stack
           /\ Do(u, a, y).v[1] = (y.v[1] * k) % M /\ Do(u, a, y).v[2] = (y.v[2] * k) % M
           /\ Do(u, a, y).v[3] = (y.v[3] * l) % M /\ Do(u, a, y).v[4] = y.v[4]
  BY UnitsScale
<1>2. /\ d \in Between /\ d.stack = x.stack
      /\ d.v[1] = (x.v[1] * k) % M /\ d.v[2] = (x.v[2] * k) % M
      /\ d.v[3] = (x.v[3] * l) % M /\ d.v[4] = x.v[4]
  BY <1>1
<1>3. /\ f \in Between /\ f.stack = x.stack
      /\ f.v[1] = x.v[2] /\ f.v[2] = x.v[1] /\ f.v[3] = x.v[3] /\ f.v[4] = x.v[4]
  BY Exchanged
<1> HIDE DEF d, f
<1>4. /\ g \in Between /\ g.stack = f.stack
      /\ g.v[1] = (f.v[1] * k) % M /\ g.v[2] = (f.v[2] * k) % M
      /\ g.v[3] = (f.v[3] * l) % M /\ g.v[4] = f.v[4]
  BY <1>1, <1>3
<1>5. /\ e \in Between /\ e.stack = d.stack
      /\ e.v[1] = d.v[2] /\ e.v[2] = d.v[1] /\ e.v[3] = d.v[3] /\ e.v[4] = d.v[4]
  BY <1>2, Exchanged
<1> HIDE DEF e, g
<1>6. e = g
  BY <1>2, <1>3, <1>4, <1>5, FourSame
<1> QED BY <1>6 DEF d, e, f, g

-----------------------------------------------------------------------------
(* What the rules on more than two steps look at.                          *)

IsTrace(t, list, c) ==
  /\ t[0] = c /\ RunForward(list, c) = t[Len(list)]
  /\ \A n \in 1..Len(list) :
       t[n] = Fwd(list[n], t[n - 1]) /\ t[n - 1] \in Between /\ t[n] \in Between
IsReverseTrace(t, list, c) ==
  /\ t[Len(list) + 1] = c /\ RunReverse(list, c) = t[1]
  /\ \A n \in 1..Len(list) :
       t[n] = Rev(list[n], t[n + 1]) /\ t[n + 1] \in Between /\ t[n] \in Between

LEMMA TraceExists ==
  ASSUME NEW list \in Seq(Steps), NEW c \in Between
  PROVE  \E t : IsTrace(t, list, c)
<1>1. Len(list) \in Nat /\ \A i \in 1..Len(list) : IsStep(list[i])
  BY StepsOf
<1>2. PICK t : IsRun(t, list, c)
  BY <1>1, RunExists
<1> DEFINE S == {n \in 0..Len(list) : t[n] \in Between}
<1>3. 0 \in S
  BY <1>1, <1>2 DEF IsRun
<1>4. ASSUME NEW n \in 1..Len(list), n - 1 \in S PROVE n \in S
  <2>1. t[n] = Fwd(list[n], t[n - 1])
    BY <1>2 DEF IsRun
  <2>2. t[n] \in Between
    BY <1>1, <1>4, <2>1, FwdRevType
  <2> QED BY <1>1, <2>2
<1> HIDE DEF S
<1>5. \A n \in 0..Len(list) : n \in S
  BY <1>1, <1>3, <1>4, Induct
<1>6. ASSUME NEW n \in 1..Len(list)
      PROVE  t[n] = Fwd(list[n], t[n - 1]) /\ t[n - 1] \in Between /\ t[n] \in Between
  <2>1. n \in 0..Len(list) /\ n - 1 \in 0..Len(list)
    BY <1>1
  <2>2. n \in S /\ n - 1 \in S
    BY <1>5, <2>1
  <2> QED BY <1>2, <2>2 DEF IsRun, S
<1>7. RunForward(list, c) = t[Len(list)]
  BY <1>1, <1>2, RunForwardIs
<1> QED BY <1>2, <1>6, <1>7 DEF IsTrace, IsRun

LEMMA ReverseTraceExists ==
  ASSUME NEW list \in Seq(Steps), NEW c \in Between
  PROVE  \E t : IsReverseTrace(t, list, c)
<1>1. /\ Len(list) \in Nat
      /\ \A i \in 1..Len(list) : IsStep(list[i]) /\ list[i].inv \in BOOLEAN
  BY StepsOf
<1>2. PICK t : IsReverseRun(t, list, c)
  BY <1>1, ReverseRunExists
<1> DEFINE N == Len(list)
           S == {n \in 0..N : t[N + 1 - n] \in Between}
<1>3. 0 \in S
  <2>1. N + 1 - 0 = N + 1
    BY <1>1
  <2> QED BY <1>1, <1>2, <2>1 DEF IsReverseRun
<1>4. ASSUME NEW i \in 1..N, i - 1 \in S PROVE i \in S
  <2>1. N + 1 - i \in 1..N /\ N + 1 - (i - 1) = N + 1 - i + 1 /\ i \in 0..N
    BY <1>1, <1>4
  <2>2. t[N + 1 - i] = Rev(list[N + 1 - i], t[N + 1 - i + 1])
    BY <1>2, <2>1 DEF IsReverseRun
  <2>3. t[N + 1 - i] \in Between
    BY <1>1, <1>4, <2>1, <2>2, FwdRevType
  <2> QED BY <2>1, <2>3
<1> HIDE DEF S
<1>5. \A i \in 0..N : i \in S
  BY <1>1, <1>3, <1>4, Induct
<1>6. ASSUME NEW n \in 1..N
      PROVE  t[n] = Rev(list[n], t[n + 1]) /\ t[n + 1] \in Between /\ t[n] \in Between
  <2>1. N + 1 - n \in 0..N /\ N - n \in 0..N /\ N + 1 - (N + 1 - n) = n /\ N + 1 - (N - n) = n + 1
    BY <1>1
  <2>2. N + 1 - n \in S /\ N - n \in S
    BY <1>5, <2>1
  <2>3. t[N + 1 - (N + 1 - n)] \in Between /\ t[N + 1 - (N - n)] \in Between
    BY <2>2 DEF S
  <2> QED BY <1>2, <2>1, <2>3 DEF IsReverseRun
<1>7. RunReverse(list, c) = t[1]
  BY <1>1, <1>2, RunReverseIs
<1> QED BY <1>2, <1>6, <1>7 DEF IsReverseTrace, IsReverseRun

\* An exchange of the first two coordinates.
Exchange(x, d) ==
  /\ d \in Between /\ d.stack = x.stack
  /\ d.v[1] = x.v[2] /\ d.v[2] = x.v[1] /\ d.v[3] = x.v[3] /\ d.v[4] = x.v[4]

LEMMA ExchangeStep ==
  ASSUME NEW s, IsStep(s), Is21(s), NEW x \in Between
  PROVE  Exchange(x, Fwd(s, x)) /\ Exchange(x, Rev(s, x))
<1>1. s.omit = "none" /\ s.inv \in BOOLEAN
  BY ParametersAre DEF Is21, IsAxisSwap
<1>2. Fwd(s, x) = Do(s, s.inv, x) /\ Rev(s, x) = Do(s, ~s.inv, x)
  BY <1>1, StepIs
<1> DEFINE i == s.inv
           j == ~s.inv
<1>4. i \in BOOLEAN /\ j \in BOOLEAN
  BY <1>1
<1> HIDE DEF i, j
<1>5. Exchange(x, Do(s, i, x)) /\ Exchange(x, Do(s, j, x))
  BY <1>4, Exchanged DEF Exchange
<1> QED BY <1>2, <1>5 DEF i, j

\* A change of the horizontal units.
Scaled(k, x, d) ==
  /\ d \in Between /\ d.stack = x.stack
  /\ d.v[1] = (x.v[1] * k) % 7 /\ d.v[2] = (x.v[2] * k) % 7
  /\ d.v[3] = x.v[3] /\ d.v[4] = x.v[4]

LEMMA ScaledIs ==
  ASSUME NEW a \in Unit, NEW b \in Unit, NEW k \in Nat, Ratio(<<a, b>>) = k,
         NEW p, p = [xy |-> <<a, b>>, z |-> <<>>], NEW x \in Between
  PROVE  Scaled(k, x, Values(x, ConvertUnits(p, x.v)))
<1> DEFINE d == Values(x, ConvertUnits(p, x.v))
<1>1. p \in [xy : Pair, z : Pair] /\ p.xy = <<a, b>> /\ p.z = <<>>
  BY DEF Pair
<1>2. /\ d \in Between /\ d.stack = x.stack
      /\ \A i \in 1..4 : d.v[i] = (x.v[i] * Scale(p, i)) % M
  BY <1>1, UnitsAre
<1>3. Scale(p, 1) = k /\ Scale(p, 2) = k /\ Scale(p, 3) = 1 /\ Scale(p, 4) = 1
  BY <1>1 DEF Scale, Ratio
<1> HIDE DEF d
<1>4. /\ d.v[1] = (x.v[1] * k) % 7 /\ d.v[2] = (x.v[2] * k) % 7
      /\ d.v[3] = (x.v[3] * 1) % 7 /\ d.v[4] = (x.v[4] * 1) % 7
  BY <1>2, <1>3 DEF M
<1>5. (x.v[3] * 1) % 7 = x.v[3] /\ (x.v[4] * 1) % 7 = x.v[4]
  <2>1. x.v[3] \in 0..6 /\ x.v[4] \in 0..6
    BY FourCoordinates
  <2>2. \A y \in 0..6 : (y * 1) % 7 = y
    OBVIOUS
  <2> QED BY <2>1, <2>2
<1> QED BY <1>2, <1>4, <1>5 DEF Scaled, d

LEMMA DegreesAndRadians ==
  /\ "rad" \in Unit /\ "deg" \in Unit
  /\ Ratio(<<"rad", "deg">>) = 4 /\ Ratio(<<"deg", "rad">>) = 2
<1>1. "rad" \in Unit /\ "deg" \in Unit
  BY DEF Unit
<1>2. Factor["rad"] = 1 /\ Factor["deg"] = 2
  BY DEF Factor
<1> QED BY <1>1, <1>2, RatioIs, ReciprocalIs

LEMMA ScaledStep ==
  ASSUME NEW a \in Unit, NEW b \in Unit, NEW k \in Nat, NEW l \in Nat,
         Ratio(<<a, b>>) = k, Ratio(<<b, a>>) = l,
         NEW s, s.name = "unitconvert", ~s.inv, s.omit = "none",
         s.par = [xy |-> <<a, b>>, z |-> <<>>], NEW x \in Between
  PROVE  Scaled(k, x, Fwd(s, x)) /\ Scaled(l, x, Rev(s, x))
<1> DEFINE p == s.par
           q == [xy |-> <<b, a>>, z |-> <<>>]
<1>1. Fwd(s, x) = Forward(s, x) /\ Rev(s, x) = Backward(s, x)
  BY DEF Fwd, Rev
<1>2. Forward(s, x) = Values(x, ConvertUnits(p, x.v))
  BY ForwardIs
<1>3. Backward(s, x) = Values(x, ConvertUnits(Opposite(p), x.v))
  BY BackwardIs DEF Opposite
<1>4. Opposite(p) = q
  <2>1. p.xy = <<a, b>> /\ p.z = <<>> /\ <<a, b>> # <<>>
    OBVIOUS
  <2>2. Swapped(<<a, b>>) = <<b, a>> /\ Swapped(<<>>) = <<>>
    BY <2>1 DEF Swapped
  <2> QED BY <2>1, <2>2 DEF Opposite
<1> HIDE DEF p, q
<1>5. Scaled(k, x, Values(x, ConvertUnits(p, x.v)))
  BY ScaledIs DEF p
<1>6. Scaled(l, x, Values(x, ConvertUnits(q, x.v)))
  BY ScaledIs DEF q
<1> QED BY <1>1, <1>2, <1>3, <1>4, <1>5, <1>6

LEMMA RadToDegStep ==
  ASSUME NEW s, RadToDeg(s), ~s.inv, NEW x \in Between
  PROVE  Scaled(4, x, Fwd(s, x)) /\ Scaled(2, x, Rev(s, x))
BY DegreesAndRadians, ScaledStep DEF RadToDeg, Is

LEMMA DegToRadStep ==
  ASSUME NEW s, DegToRad(s), ~s.inv, NEW x \in Between
  PROVE  Scaled(2, x, Fwd(s, x)) /\ Scaled(4, x, Rev(s, x))
BY DegreesAndRadians, ScaledStep DEF DegToRad, Is

\* A vertical shift, by a multiple of what the horizontal coordinates select.
Raised(m, x, d) ==
  /\ d \in Between /\ d.stack = x.stack
  /\ d.v[1] = x.v[1] /\ d.v[2] = x.v[2] /\ d.v[4] = x.v[4]
  /\ d.v[3] = (x.v[3] + m * (x.v[1] + 2 * x.v[2])) % 7

LEMMA RaisedByNothing ==
  ASSUME NEW x \in Between
  PROVE  Raised(0, x, x)
<1>1. x.v[3] \in 0..6 /\ x.v[1] \in Int /\ x.v[2] \in Int
  BY FourCoordinates
<1>2. 0 * (x.v[1] + 2 * x.v[2]) = 0
  BY <1>1
<1>3. (x.v[3] + 0) % 7 = x.v[3]
  BY <1>1
<1> QED BY <1>2, <1>3 DEF Raised

LEMMA RaisedDo ==
  ASSUME NEW s, IsVertical(s), NEW back \in BOOLEAN
  PROVE  \E m \in Int : \A x \in Between : Raised(m, x, Do(s, back, x))
<1> DEFINE one == 1
           minus == -1
<1>1. one \in Signs /\ minus \in Signs /\ one \in Int /\ minus \in Int
  BY DEF Signs
<1>2. \A x : Forward(s, x) = Values(x, ShiftHeight(one, x.v))
  BY ForwardIs DEF IsVertical
<1>3. \A x : Backward(s, x) = Values(x, ShiftHeight(minus, x.v))
  BY BackwardIs DEF IsVertical
<1> HIDE DEF one, minus
<1>4. \A x \in Between : Raised(one, x, Values(x, ShiftHeight(one, x.v)))
  BY <1>1, HeightUndone DEF Raised
<1>5. \A x \in Between : Raised(minus, x, Values(x, ShiftHeight(minus, x.v)))
  BY <1>1, HeightUndone DEF Raised
<1>6. CASE back
  <2>1. \A x \in Between : Raised(minus, x, Do(s, back, x))
    BY <1>3, <1>5, <1>6 DEF Do
  <2> QED BY <1>1, <2>1
<1>7. CASE ~back
  <2>1. \A x \in Between : Raised(one, x, Do(s, back, x))
    BY <1>2, <1>4, <1>7 DEF Do
  <2> QED BY <1>1, <2>1
<1> QED BY <1>6, <1>7

LEMMA RaisedStep ==
  ASSUME NEW s, IsStep(s), IsVertical(s)
  PROVE  /\ \E m \in Int : \A x \in Between : Raised(m, x, Fwd(s, x))
         /\ \E m \in Int : \A x \in Between : Raised(m, x, Rev(s, x))
<1>1. s.inv \in BOOLEAN
  BY ParametersAre
<1>2. \E m \in Int : \A x \in Between : Raised(m, x, Fwd(s, x))
  <2>1. CASE s.omit = "fwd"
    <3>1. \A x \in Between : Raised(0, x, Fwd(s, x))
      BY <2>1, StepIs, RaisedByNothing
    <3> QED BY <3>1
  <2>2. CASE s.omit # "fwd"
    <3>1. PICK m \in Int : \A x \in Between : Raised(m, x, Do(s, s.inv, x))
      BY <1>1, RaisedDo
    <3>2. \A x \in Between : Raised(m, x, Fwd(s, x))
      BY <2>2, <3>1, StepIs
    <3> QED BY <3>2
  <2> QED BY <2>1, <2>2
<1>3. \E m \in Int : \A x \in Between : Raised(m, x, Rev(s, x))
  <2>1. CASE s.omit = "inv"
    <3>1. \A x \in Between : Raised(0, x, Rev(s, x))
      BY <2>1, StepIs, RaisedByNothing
    <3> QED BY <3>1
  <2>2. CASE s.omit # "inv"
    <3> DEFINE j == ~s.inv
    <3>0. j \in BOOLEAN
      BY <1>1
    <3> HIDE DEF j
    <3>1. PICK m \in Int : \A x \in Between : Raised(m, x, Do(s, j, x))
      BY <3>0, RaisedDo
    <3>2. \A x \in Between : Raised(m, x, Rev(s, x))
      BY <2>2, <3>1, StepIs DEF j
    <3> QED BY <3>2
  <2> QED BY <2>1, <2>2
<1> QED BY <1>2, <1>3

\* A shift of the first coordinate.
Displaced(k, x, d) ==
  /\ d \in Between /\ d.stack = x.stack
  /\ d.v[1] = (x.v[1] + k) % 7
  /\ d.v[2] = x.v[2] /\ d.v[3] = x.v[3] /\ d.v[4] = x.v[4]

LEMMA DisplacedIs ==
  ASSUME NEW p \in [grid : Int], NEW m \in Signs, NEW x \in Between,
         NEW k \in Int, m * (x.v[2] * x.v[2] + p.grid) = k
  PROVE  Displaced(k, x, Values(x, ShiftByGrid(p, m, x.v)))
<1> DEFINE v == x.v
           w == ShiftByGrid(p, m, v)
           d == Values(x, w)
<1>1. /\ v[1] \in 0..6 /\ v[2] \in 0..6 /\ v[3] \in 0..6 /\ v[4] \in 0..6
      /\ v[1] \in Int /\ v[2] \in Int /\ v[3] \in Int /\ v[4] \in Int
  BY FourCoordinates
<1>2. w[1] = v[1] + k /\ w[2] = v[2] /\ w[3] = v[3] /\ w[4] = v[4]
  <2>1. w = <<v[1] + m * (v[2] * v[2] + p.grid), v[2], v[3], v[4]>>
    BY DEF ShiftByGrid
  <2> DEFINE z == m * (v[2] * v[2] + p.grid)
  <2>2. z = k
    OBVIOUS
  <2>3. w = <<v[1] + z, v[2], v[3], v[4]>>
    BY <2>1
  <2> HIDE DEF z, w, v
  <2> QED BY <2>2, <2>3
<1> HIDE DEF v, w
<1>3. w[1] \in Int /\ w[2] \in Int /\ w[3] \in Int /\ w[4] \in Int
  BY <1>1, <1>2
<1>4. /\ d \in Between /\ d.stack = x.stack
      /\ d.v[1] = w[1] % 7 /\ d.v[2] = w[2] % 7 /\ d.v[3] = w[3] % 7 /\ d.v[4] = w[4] % 7
  BY <1>3, FourValues
<1> HIDE DEF d
<1>5. d.v[1] = (v[1] + k) % 7 /\ d.v[2] = v[2] /\ d.v[3] = v[3] /\ d.v[4] = v[4]
  <2>1. v[2] % 7 = v[2] /\ v[3] % 7 = v[3] /\ v[4] % 7 = v[4]
    BY <1>1
  <2> QED BY <1>2, <1>4, <2>1
<1> QED BY <1>4, <1>5 DEF Displaced, d, v, w

LEMMA DisplacedDo ==
  ASSUME NEW s, IsStep(s), s.name = "hgridshift", NEW back \in BOOLEAN, NEW n \in 0..6
  PROVE  \E k \in Int : \A x \in Between : x.v[2] = n =>
           /\ Displaced(k, x, Do(s, back, x))
           /\ Displaced(-k, x, Do(s, ~back, x))
<1> DEFINE one == 1
           minus == -1
           h == n * n + s.par.grid
<1>1. one \in Signs /\ minus \in Signs
  BY DEF Signs
<1>2. s.par \in [grid : Int]
  BY ParametersAre
<1>3. \A x : Forward(s, x) = Values(x, ShiftByGrid(s.par, one, x.v))
  BY ForwardIs
<1>4. \A x : Backward(s, x) = Values(x, ShiftByGrid(s.par, minus, x.v))
  BY BackwardIs
<1>5. h \in Int
  <2>1. s.par.grid \in Int /\ n \in Int
    BY <1>2
  <2>2. n * n \in Int
    BY <2>1
  <2> QED BY <2>1, <2>2
<1>6. \A x : x.v[2] = n => x.v[2] * x.v[2] + s.par.grid = h
  OBVIOUS
<1> HIDE DEF h
<1>7. one * h = h /\ minus * h = -h /\ -h \in Int /\ -(-h) = h
  BY <1>5
<1> DEFINE j == -h
<1>8. one * h = h /\ minus * h = j /\ j \in Int /\ -j = h /\ -h = j
  BY <1>7
<1> HIDE DEF one, minus, j
<1>9. \A x \in Between : x.v[2] = n => Displaced(h, x, Forward(s, x))
  <2> SUFFICES ASSUME NEW x \in Between, x.v[2] = n
               PROVE  Displaced(h, x, Values(x, ShiftByGrid(s.par, one, x.v)))
    BY <1>3
  <2>1. one * (x.v[2] * x.v[2] + s.par.grid) = h
    BY <1>6, <1>8
  <2> QED BY <1>1, <1>2, <1>5, <2>1, DisplacedIs
<1>10. \A x \in Between : x.v[2] = n => Displaced(j, x, Backward(s, x))
  <2> SUFFICES ASSUME NEW x \in Between, x.v[2] = n
               PROVE  Displaced(j, x, Values(x, ShiftByGrid(s.par, minus, x.v)))
    BY <1>4
  <2>1. minus * (x.v[2] * x.v[2] + s.par.grid) = j
    BY <1>6, <1>8
  <2> QED BY <1>1, <1>2, <1>8, <2>1, DisplacedIs
<1>11. CASE back
  <2>1. \A x \in Between : x.v[2] = n =>
          Displaced(j, x, Do(s, back, x)) /\ Displaced(-j, x, Do(s, ~back, x))
    BY <1>8, <1>9, <1>10, <1>11 DEF Do
  <2> QED BY <1>8, <2>1
<1>12. CASE ~back
  <2>1. \A x \in Between : x.v[2] = n =>
          Displaced(h, x, Do(s, back, x)) /\ Displaced(-h, x, Do(s, ~back, x))
    BY <1>8, <1>9, <1>10, <1>12 DEF Do
  <2> QED BY <1>5, <2>1
<1> QED BY <1>11, <1>12

\* The horizontal coordinates are saved.
Pushed(x, d) ==
  /\ d \in Between /\ d.v = x.v
  /\ d.stack[1] = <<x.v[1]>> \o x.stack[1] /\ d.stack[2] = <<x.v[2]>> \o x.stack[2]
  /\ d.stack[3] = x.stack[3] /\ d.stack[4] = x.stack[4]

LEMMA PushedIs ==
  ASSUME NEW x \in Between
  PROVE  Pushed(x, Push(Horizontal, x))
<1>1. 1 \in Horizontal /\ 2 \in Horizontal /\ 3 \notin Horizontal /\ 4 \notin Horizontal
  BY DEF Horizontal
<1> DEFINE d == Push(Horizontal, x)
<1>2. /\ d \in Between /\ d.v = x.v
      /\ \A i \in 1..4 : d.stack[i] =
           IF i \in Horizontal THEN <<x.v[i]>> \o x.stack[i] ELSE x.stack[i]
  BY PushIs
<1> HIDE DEF d
<1>3. /\ d.stack[1] = <<x.v[1]>> \o x.stack[1] /\ d.stack[2] = <<x.v[2]>> \o x.stack[2]
      /\ d.stack[3] = x.stack[3] /\ d.stack[4] = x.stack[4]
  BY <1>1, <1>2
<1>4. Pushed(x, d)
  BY <1>2, <1>3 DEF Pushed
<1> QED BY <1>4 DEF d

LEMMA StacksAre ==
  ASSUME NEW a \in Between, NEW b \in Between,
         a.stack[1] = b.stack[1], a.stack[2] = b.stack[2],
         a.stack[3] = b.stack[3], a.stack[4] = b.stack[4]
  PROVE  a.stack = b.stack
<1> DEFINE A == a.stack
           B == b.stack
<1>1. A \in [1..4 -> Seq(0..M - 1)] /\ B \in [1..4 -> Seq(0..M - 1)]
  BY DEF Between
<1>2. \A i \in 1..4 : A[i] = B[i]
  OBVIOUS
<1> HIDE DEF A, B
<1>3. A = B
  BY <1>1, <1>2, SameFunctions, SMTT(60)
<1> QED BY <1>3 DEF A, B

LEMMA TopOfStack ==
  ASSUME NEW x \in Between, NEW i \in 1..4, NEW s, s = <<x.v[i]>> \o x.stack[i]
  PROVE  s # <<>> /\ Head(s) = x.v[i] /\ Tail(s) = x.stack[i]
<1> DEFINE n == x.v[i]
           l == x.stack[i]
<1>1. n \in 0..M - 1 /\ l \in Seq(0..M - 1)
  BY DEF Between, Coordinates
<1> HIDE DEF n, l
<1>2. <<n>> \o l # <<>> /\ Head(<<n>> \o l) = n /\ Tail(<<n>> \o l) = l
  BY <1>1, Prepended
<1> QED BY <1>2 DEF n, l

\* What is saved is restored, and nothing else is.
LEMMA Restores ==
  ASSUME NEW x \in Between, NEW a, NEW p \in Between, Pushed(x, a), p.stack = a.stack
  PROVE  LET d == Pop(Horizontal, p)
         IN  /\ d \in Between /\ d.stack = x.stack
             /\ d.v[1] = x.v[1] /\ d.v[2] = x.v[2] /\ d.v[3] = p.v[3] /\ d.v[4] = p.v[4]
<1> DEFINE d == Pop(Horizontal, p)
<1>1. 1 \in Horizontal /\ 2 \in Horizontal /\ 3 \notin Horizontal /\ 4 \notin Horizontal
  BY DEF Horizontal
<1>2. /\ d \in Between
      /\ \A i \in 1..4 :
           /\ i \in Horizontal /\ p.stack[i] # <<>> =>
                d.v[i] = Head(p.stack[i]) /\ d.stack[i] = Tail(p.stack[i])
           /\ ~(i \in Horizontal /\ p.stack[i] # <<>>) =>
                d.v[i] = p.v[i] /\ d.stack[i] = p.stack[i]
  BY PopIs
<1> HIDE DEF d
<1>3. /\ p.stack[1] = <<x.v[1]>> \o x.stack[1] /\ p.stack[2] = <<x.v[2]>> \o x.stack[2]
      /\ p.stack[3] = x.stack[3] /\ p.stack[4] = x.stack[4]
  BY DEF Pushed
<1>5. d.v[1] = x.v[1] /\ d.stack[1] = x.stack[1]
  <2> DEFINE s == p.stack[1]
             j == 1
  <2>0. s = <<x.v[j]>> \o x.stack[j] /\ j \in 1..4
    BY <1>3
  <2> HIDE DEF s, j
  <2>1. s # <<>> /\ Head(s) = x.v[j] /\ Tail(s) = x.stack[j]
    BY <2>0, TopOfStack
  <2> QED BY <1>1, <1>2, <2>1 DEF s, j
<1>6. d.v[2] = x.v[2] /\ d.stack[2] = x.stack[2]
  <2> DEFINE s == p.stack[2]
             j == 2
  <2>0. s = <<x.v[j]>> \o x.stack[j] /\ j \in 1..4
    BY <1>3
  <2> HIDE DEF s, j
  <2>1. s # <<>> /\ Head(s) = x.v[j] /\ Tail(s) = x.stack[j]
    BY <2>0, TopOfStack
  <2> QED BY <1>1, <1>2, <2>1 DEF s, j
<1>7. /\ d.v[3] = p.v[3] /\ d.stack[3] = x.stack[3]
      /\ d.v[4] = p.v[4] /\ d.stack[4] = x.stack[4]
  BY <1>1, <1>2, <1>3
<1>8. d.stack = x.stack
  BY <1>2, <1>5, <1>6, <1>7, StacksAre
<1> QED BY <1>2, <1>5, <1>6, <1>7, <1>8 DEF d

LEMMA PushStep ==
  ASSUME NEW s, IsStep(s), PushXY(s), ~s.inv
  PROVE  \A x : Fwd(s, x) = Push(Horizontal, x) /\ Rev(s, x) = Pop(Horizontal, x)
BY ForwardIs, BackwardIs DEF PushXY, Is, Fwd, Rev

LEMMA PopStep ==
  ASSUME NEW s, IsStep(s), PopXY(s), ~s.inv
  PROVE  \A x : Fwd(s, x) = Pop(Horizontal, x) /\ Rev(s, x) = Push(Horizontal, x)
BY ForwardIs, BackwardIs DEF PopXY, Is, Fwd, Rev

-----------------------------------------------------------------------------
(* What these steps compute one after the other.                           *)

LEMMA ThereAndBack ==
  ASSUME NEW n \in 0..6, NEW k \in Int
  PROVE  (((n + k) % 7) + (-k)) % 7 = n
OBVIOUS

LEMMA DegreesAndBack ==
  ASSUME NEW n \in 0..6, NEW a, NEW b
  PROVE  /\ a = (n * 4) % 7 /\ b = (a * 2) % 7 => b = n
         /\ a = (n * 2) % 7 /\ b = (a * 4) % 7 => b = n
<1>1. ASSUME a = (n * 4) % 7, b = (a * 2) % 7 PROVE b = n
  <2> DEFINE i == n * 4
             j == a * 2
  <2>1. i \in Int /\ i = 4 * n
    OBVIOUS
  <2>2. PICK q \in Int : i = 7 * q + (i % M)
    BY <2>1, ModIs
  <2>3. i % M = a /\ a \in 0..6
    BY <1>1, <2>1, ModIs DEF M
  <2>4. j \in Int /\ j = 2 * a
    BY <2>3
  <2>5. PICK r \in Int : j = 7 * r + (j % M)
    BY <2>4, ModIs
  <2>6. j % M = b /\ b \in 0..6
    BY <1>1, <2>4, ModIs DEF M
  <2> HIDE DEF i, j
  <2>7. 4 * n = 7 * q + a /\ 2 * a = 7 * r + b
    BY <2>1, <2>2, <2>3, <2>4, <2>5, <2>6
  <2> QED BY <2>3, <2>6, <2>7
<1>2. ASSUME a = (n * 2) % 7, b = (a * 4) % 7 PROVE b = n
  <2> DEFINE i == n * 2
             j == a * 4
  <2>1. i \in Int /\ i = 2 * n
    OBVIOUS
  <2>2. PICK q \in Int : i = 7 * q + (i % M)
    BY <2>1, ModIs
  <2>3. i % M = a /\ a \in 0..6
    BY <1>2, <2>1, ModIs DEF M
  <2>4. j \in Int /\ j = 4 * a
    BY <2>3
  <2>5. PICK r \in Int : j = 7 * r + (j % M)
    BY <2>4, ModIs
  <2>6. j % M = b /\ b \in 0..6
    BY <1>2, <2>4, ModIs DEF M
  <2> HIDE DEF i, j
  <2>7. 2 * n = 7 * q + a /\ 4 * a = 7 * r + b
    BY <2>1, <2>2, <2>3, <2>4, <2>5, <2>6
  <2> QED BY <2>3, <2>6, <2>7
<1> QED BY <1>1, <1>2

\* A vertical shift between a horizontal one and its inverse, and the same
\* between a push and a pop.
LEMMA SavedAround ==
  ASSUME NEW x \in Between, NEW k \in Int, NEW m \in Int,
         NEW t1, NEW t2, NEW t3, NEW u1, NEW u2, NEW u3,
         Displaced(k, x, t1), Raised(m, t1, t2), Displaced(-k, t2, t3),
         Pushed(x, u1), Displaced(k, u1, u2), Raised(m, u2, u3)
  PROVE  t3 = Pop(Horizontal, u3)
<1> DEFINE d == Pop(Horizontal, u3)
<1>1. u3 \in Between /\ u3.stack = u1.stack
  BY DEF Displaced, Raised
<1>2. /\ d \in Between /\ d.stack = x.stack
      /\ d.v[1] = x.v[1] /\ d.v[2] = x.v[2] /\ d.v[3] = u3.v[3] /\ d.v[4] = u3.v[4]
  BY <1>1, Restores
<1> HIDE DEF d
<1>3. u1.v = x.v
  BY DEF Pushed
<1>4. u2.v[1] = (x.v[1] + k) % 7 /\ u2.v[2] = x.v[2] /\ u2.v[3] = x.v[3] /\ u2.v[4] = x.v[4]
  BY <1>3 DEF Displaced
<1>5. t1.v[1] = (x.v[1] + k) % 7 /\ t1.v[2] = x.v[2] /\ t1.v[3] = x.v[3] /\ t1.v[4] = x.v[4]
  BY DEF Displaced
<1>6. /\ t2.v[1] = t1.v[1] /\ t2.v[2] = t1.v[2] /\ t2.v[4] = t1.v[4]
      /\ t2.v[3] = (t1.v[3] + m * (t1.v[1] + 2 * t1.v[2])) % 7
  BY DEF Raised
<1>7. /\ u3.v[4] = u2.v[4]
      /\ u3.v[3] = (u2.v[3] + m * (u2.v[1] + 2 * u2.v[2])) % 7
  BY DEF Raised
<1>8. t2.v[3] = u3.v[3]
  BY <1>4, <1>5, <1>6, <1>7
<1>9. t3.v[1] = (t2.v[1] + (-k)) % 7 /\ t3.v[2] = t2.v[2] /\ t3.v[3] = t2.v[3] /\ t3.v[4] = t2.v[4]
  BY DEF Displaced
<1>10. t3.v[1] = x.v[1]
  <2>1. x.v[1] \in 0..6
    BY FourCoordinates
  <2> QED BY <1>5, <1>6, <1>9, <2>1, ThereAndBack
<1>11. t3 \in Between /\ t3.stack = x.stack
  BY DEF Displaced, Raised
<1>12. t3.v[2] = d.v[2] /\ t3.v[3] = d.v[3] /\ t3.v[4] = d.v[4] /\ t3.v[1] = d.v[1]
  BY <1>2, <1>4, <1>5, <1>6, <1>7, <1>8, <1>9, <1>10
<1> QED BY <1>2, <1>11, <1>12, FourSame DEF d

\* The conversions around a vertical shift that are undone before it.
LEMMA ConversionsForward ==
  ASSUME NEW x \in Between, NEW m \in Int,
         NEW t1, NEW t2, NEW t3, NEW t4, NEW t5, NEW t6, NEW t7, NEW t8,
         NEW u1, NEW u2, NEW u3,
         Scaled(4, x, t1), Exchange(t1, t2), Pushed(t2, t3), Exchange(t3, t4),
         Scaled(2, t4, t5), Raised(m, t5, t6), Scaled(4, t6, t7), Exchange(t7, t8),
         Raised(m, x, u1), Scaled(4, u1, u2), Exchange(u2, u3)
  PROVE  Pop(Horizontal, t8) = u3
<1> DEFINE d == Pop(Horizontal, t8)
<1>1. t8 \in Between /\ t8.stack = t3.stack /\ t2 \in Between /\ t2.stack = x.stack
  BY DEF Scaled, Exchange, Raised
<1>2. /\ d \in Between /\ d.stack = t2.stack
      /\ d.v[1] = t2.v[1] /\ d.v[2] = t2.v[2] /\ d.v[3] = t8.v[3] /\ d.v[4] = t8.v[4]
  BY <1>1, Restores
<1> HIDE DEF d
<1>3. /\ t2.v[1] = (x.v[2] * 4) % 7 /\ t2.v[2] = (x.v[1] * 4) % 7
      /\ t2.v[3] = x.v[3] /\ t2.v[4] = x.v[4] /\ t3.v = t2.v
  BY DEF Scaled, Exchange, Pushed
<1>4. /\ t4.v[1] = (x.v[1] * 4) % 7 /\ t4.v[2] = (x.v[2] * 4) % 7
      /\ t4.v[3] = x.v[3] /\ t4.v[4] = x.v[4]
  BY <1>3 DEF Exchange
<1>5. /\ t5.v[1] = (t4.v[1] * 2) % 7 /\ t5.v[2] = (t4.v[2] * 2) % 7
      /\ t5.v[3] = x.v[3] /\ t5.v[4] = x.v[4]
  BY <1>4 DEF Scaled
<1>6. t5.v[1] = x.v[1] /\ t5.v[2] = x.v[2]
  <2>1. x.v[1] \in 0..6 /\ x.v[2] \in 0..6
    BY FourCoordinates
  <2> QED BY <1>4, <1>5, <2>1, DegreesAndBack
<1>7. t6.v[3] = (t5.v[3] + m * (t5.v[1] + 2 * t5.v[2])) % 7 /\ t6.v[4] = t5.v[4]
  BY DEF Raised
<1>8. t8.v[3] = t6.v[3] /\ t8.v[4] = t6.v[4]
  BY DEF Scaled, Exchange
<1>9. /\ u1.v[3] = (x.v[3] + m * (x.v[1] + 2 * x.v[2])) % 7
      /\ u1.v[1] = x.v[1] /\ u1.v[2] = x.v[2] /\ u1.v[4] = x.v[4]
  BY DEF Raised
<1>10. /\ u3.v[1] = (u1.v[2] * 4) % 7 /\ u3.v[2] = (u1.v[1] * 4) % 7
       /\ u3.v[3] = u1.v[3] /\ u3.v[4] = u1.v[4]
  BY DEF Scaled, Exchange
<1>11. u3 \in Between /\ u3.stack = x.stack
  BY DEF Scaled, Exchange, Raised
<1>12. d.v[3] = u3.v[3]
  BY <1>2, <1>5, <1>6, <1>7, <1>8, <1>9, <1>10
<1>13. d.v[1] = u3.v[1] /\ d.v[2] = u3.v[2] /\ d.v[4] = u3.v[4]
  BY <1>2, <1>3, <1>5, <1>7, <1>8, <1>9, <1>10
<1>14. d = u3
  BY <1>1, <1>2, <1>11, <1>12, <1>13, FourSame
<1> QED BY <1>14 DEF d

LEMMA ConversionsReverse ==
  ASSUME NEW x \in Between, NEW m \in Int,
         NEW t9, NEW t8, NEW t7, NEW t6, NEW t5, NEW t4, NEW t3, NEW t2, NEW t1,
         NEW u3, NEW u2, NEW u1,
         Pushed(x, t9), Exchange(t9, t8), Scaled(2, t8, t7), Raised(m, t7, t6),
         Scaled(4, t6, t5), Exchange(t5, t4), t3 = Pop(Horizontal, t4),
         Exchange(t3, t2), Scaled(2, t2, t1),
         Exchange(x, u3), Scaled(2, u3, u2), Raised(m, u2, u1)
  PROVE  t1 = u1
<1>1. t4 \in Between /\ t4.stack = t9.stack
  BY DEF Scaled, Exchange, Raised
<1>2. /\ t3 \in Between /\ t3.stack = x.stack
      /\ t3.v[1] = x.v[1] /\ t3.v[2] = x.v[2] /\ t3.v[3] = t4.v[3] /\ t3.v[4] = t4.v[4]
  BY <1>1, Restores
<1>3. t9.v = x.v
  BY DEF Pushed
<1>4. /\ t7.v[1] = (x.v[2] * 2) % 7 /\ t7.v[2] = (x.v[1] * 2) % 7
      /\ t7.v[3] = x.v[3] /\ t7.v[4] = x.v[4]
  BY <1>3 DEF Scaled, Exchange
<1>5. t6.v[3] = (t7.v[3] + m * (t7.v[1] + 2 * t7.v[2])) % 7 /\ t6.v[4] = t7.v[4]
  BY DEF Raised
<1>6. t4.v[3] = t6.v[3] /\ t4.v[4] = t6.v[4]
  BY DEF Scaled, Exchange
<1>7. /\ t1.v[1] = (x.v[2] * 2) % 7 /\ t1.v[2] = (x.v[1] * 2) % 7
      /\ t1.v[3] = t3.v[3] /\ t1.v[4] = t3.v[4]
  BY <1>2 DEF Scaled, Exchange
<1>8. t1 \in Between /\ t1.stack = x.stack
  BY <1>2 DEF Scaled, Exchange
<1>9. /\ u2.v[1] = (x.v[2] * 2) % 7 /\ u2.v[2] = (x.v[1] * 2) % 7
      /\ u2.v[3] = x.v[3] /\ u2.v[4] = x.v[4]
  BY DEF Scaled, Exchange
<1>10. /\ u1.v[3] = (u2.v[3] + m * (u2.v[1] + 2 * u2.v[2])) % 7
       /\ u1.v[1] = u2.v[1] /\ u1.v[2] = u2.v[2] /\ u1.v[4] = u2.v[4]
  BY DEF Raised
<1>11. u1 \in Between /\ u1.stack = x.stack
  BY DEF Scaled, Exchange, Raised
<1>12. t1.v[3] = u1.v[3]
  BY <1>2, <1>4, <1>5, <1>6, <1>7, <1>9, <1>10
<1>13. t1.v[1] = u1.v[1] /\ t1.v[2] = u1.v[2] /\ t1.v[4] = u1.v[4]
  BY <1>2, <1>4, <1>5, <1>6, <1>7, <1>9, <1>10
<1> QED BY <1>8, <1>11, <1>12, <1>13, FourSame

\* A vertical shift in converted coordinates, moved after a push and the same
\* conversion.
LEMMA MovedForward ==
  ASSUME NEW x \in Between, NEW m \in Int,
         NEW t1, NEW t2, NEW t3, NEW t4, NEW t5, NEW t6, NEW t7, NEW t8,
         NEW u1, NEW u2, NEW u3, NEW u4,
         Exchange(x, t1), Scaled(2, t1, t2), Raised(m, t2, t3), Scaled(4, t3, t4),
         Exchange(t4, t5), Pushed(t5, t6), Exchange(t6, t7), Scaled(2, t7, t8),
         Pushed(x, u1), Exchange(u1, u2), Scaled(2, u2, u3), Raised(m, u3, u4)
  PROVE  t8 = u4
<1>1. /\ t2.v[1] = (x.v[2] * 2) % 7 /\ t2.v[2] = (x.v[1] * 2) % 7
      /\ t2.v[3] = x.v[3] /\ t2.v[4] = x.v[4] /\ t2.stack = x.stack
  BY DEF Scaled, Exchange
<1>2. /\ t3.v[1] = t2.v[1] /\ t3.v[2] = t2.v[2] /\ t3.v[4] = t2.v[4] /\ t3.stack = t2.stack
      /\ t3.v[3] = (t2.v[3] + m * (t2.v[1] + 2 * t2.v[2])) % 7
  BY DEF Raised
<1>3. /\ t5.v[1] = (t3.v[2] * 4) % 7 /\ t5.v[2] = (t3.v[1] * 4) % 7
      /\ t5.v[3] = t3.v[3] /\ t5.v[4] = t3.v[4] /\ t5.stack = t3.stack
  BY DEF Scaled, Exchange
<1>4. t5.v[1] = x.v[1] /\ t5.v[2] = x.v[2]
  <2>1. x.v[1] \in 0..6 /\ x.v[2] \in 0..6
    BY FourCoordinates
  <2>2. t3.v[2] = (x.v[1] * 2) % 7 /\ t3.v[1] = (x.v[2] * 2) % 7
    BY <1>1, <1>2
  <2> QED BY <1>3, <2>1, <2>2, DegreesAndBack
<1>5. t6.v = t5.v
  BY DEF Pushed
<1>6. /\ t8.v[1] = (t5.v[2] * 2) % 7 /\ t8.v[2] = (t5.v[1] * 2) % 7
      /\ t8.v[3] = t5.v[3] /\ t8.v[4] = t5.v[4] /\ t8.stack = t6.stack /\ t8 \in Between
  BY <1>5 DEF Scaled, Exchange
<1>7. u1.v = x.v
  BY DEF Pushed
<1>8. /\ u3.v[1] = (x.v[2] * 2) % 7 /\ u3.v[2] = (x.v[1] * 2) % 7
      /\ u3.v[3] = x.v[3] /\ u3.v[4] = x.v[4] /\ u3.stack = u1.stack
  BY <1>7 DEF Scaled, Exchange
<1>9. /\ u4.v[3] = (u3.v[3] + m * (u3.v[1] + 2 * u3.v[2])) % 7
      /\ u4.v[1] = u3.v[1] /\ u4.v[2] = u3.v[2] /\ u4.v[4] = u3.v[4]
      /\ u4.stack = u3.stack /\ u4 \in Between
  BY DEF Raised
<1>10. t6.stack = u1.stack
  <2>1. t5.stack = x.stack
    BY <1>1, <1>2, <1>3
  <2>2. /\ t6 \in Between /\ u1 \in Between
        /\ t6.stack[1] = u1.stack[1] /\ t6.stack[2] = u1.stack[2]
        /\ t6.stack[3] = u1.stack[3] /\ t6.stack[4] = u1.stack[4]
    BY <1>4, <2>1 DEF Pushed
  <2> QED BY <2>2, StacksAre
<1>11. t8.v[3] = u4.v[3]
  BY <1>1, <1>2, <1>3, <1>6, <1>8, <1>9
<1>12. t8.v[1] = u4.v[1] /\ t8.v[2] = u4.v[2] /\ t8.v[4] = u4.v[4]
  BY <1>1, <1>2, <1>3, <1>4, <1>6, <1>8, <1>9
<1>13. t8.stack = u4.stack
  BY <1>6, <1>8, <1>9, <1>10
<1> QED BY <1>6, <1>9, <1>11, <1>12, <1>13, FourSame

-----------------------------------------------------------------------------
(* The rules on more than two steps, and on units and axes.                *)

LEMMA ListsOfSteps ==
  ASSUME NEW a \in Steps, NEW b \in Steps, NEW c \in Steps, NEW d \in Steps, NEW e \in Steps
  PROVE  /\ <<a, b>> \in Seq(Steps) /\ Len(<<a, b>>) = 2 /\ <<a, b>>[1] = a /\ <<a, b>>[2] = b
         /\ LET l == <<a, b, c>>
            IN l \in Seq(Steps) /\ Len(l) = 3 /\ l[1] = a /\ l[2] = b /\ l[3] = c
         /\ LET l == <<a, b, c, d>>
            IN l \in Seq(Steps) /\ Len(l) = 4 /\ l[1] = a /\ l[2] = b /\ l[3] = c /\ l[4] = d
         /\ LET l == <<a, b, c, d>> \o <<e>>
            IN l \in Seq(Steps) /\ Len(l) = 5
                 /\ l[1] = a /\ l[2] = b /\ l[3] = c /\ l[4] = d /\ l[5] = e
<1>1. /\ <<a, b>> \in Seq(Steps) /\ <<a, b, c>> \in Seq(Steps)
      /\ <<a, b, c, d>> \in Seq(Steps) /\ <<e>> \in Seq(Steps)
  OBVIOUS
<1>2. Len(<<a, b>>) = 2 /\ Len(<<a, b, c>>) = 3 /\ Len(<<a, b, c, d>>) = 4 /\ Len(<<e>>) = 1
  OBVIOUS
<1>3. <<a, b>>[1] = a /\ <<a, b>>[2] = b
  OBVIOUS
<1>4. <<a, b, c>>[1] = a /\ <<a, b, c>>[2] = b /\ <<a, b, c>>[3] = c
  OBVIOUS
<1> DEFINE f == <<a, b, c, d>>
           g == <<e>>
<1>5. f[1] = a /\ f[2] = b /\ f[3] = c /\ f[4] = d /\ g[1] = e
  OBVIOUS
<1>6. f \in Seq(Steps) /\ g \in Seq(Steps) /\ Len(f) = 4 /\ Len(g) = 1
  BY <1>1, <1>2
<1> HIDE DEF f, g
<1> DEFINE l == f \o g
<1>7. /\ l \in Seq(Steps) /\ Len(l) = 5
      /\ \A i \in 1..5 : l[i] = IF i <= 4 THEN f[i] ELSE g[i - 4]
  <2>1. /\ l \in Seq(Steps) /\ Len(l) = Len(f) + Len(g)
        /\ \A i \in 1..Len(f) + Len(g) : l[i] = IF i <= Len(f) THEN f[i] ELSE g[i - Len(f)]
    BY <1>6, ConcatProperties
  <2> HIDE DEF l
  <2> QED BY <1>6, <2>1
<1> HIDE DEF l
<1>8. l[1] = a /\ l[2] = b /\ l[3] = c /\ l[4] = d /\ l[5] = e
  <2>1. l[1] = f[1] /\ l[2] = f[2] /\ l[3] = f[3] /\ l[4] = f[4] /\ l[5] = g[5 - 4]
    BY <1>7
  <2> QED BY <1>5, <2>1
<1> QED BY <1>1, <1>2, <1>3, <1>4, <1>5, <1>6, <1>7, <1>8 DEF f, g, l

LEMMA UnitsAndAxesSwapped ==
  ASSUME NEW w \in Seq(Steps), Len(w) = 2, w[1].name = "unitconvert", Is21(w[2])
  PROVE  <<w[2], w[1]>> \in Seq(Steps) /\ Same(w, <<w[2], w[1]>>)
<1> DEFINE u == w[1]
           s == w[2]
           m == <<w[2], w[1]>>
<1>1. u \in Steps /\ s \in Steps /\ IsStep(u) /\ IsStep(s) /\ u.inv \in BOOLEAN /\ s.inv \in BOOLEAN
  BY StepsOf
<1>2. m \in Seq(Steps) /\ Len(m) = 2 /\ m[1] = s /\ m[2] = u
  BY <1>1, ListsOfSteps
<1>3. u.name = "unitconvert" /\ Is21(s)
  OBVIOUS
<1> HIDE DEF u, s, m
<1>4. \A c : /\ RunForward(w, c) = Fwd(s, Fwd(u, c)) /\ RunReverse(w, c) = Rev(u, Rev(s, c))
  BY PairRuns DEF u, s
<1>5. \A c : /\ RunForward(m, c) = Fwd(u, Fwd(s, c)) /\ RunReverse(m, c) = Rev(s, Rev(u, c))
  BY <1>2, PairRuns
<1>6. s.omit = "none"
  BY <1>3 DEF Is21, IsAxisSwap
<1> DEFINE a == u.inv
           b == s.inv
           aa == ~u.inv
           bb == ~s.inv
<1>7. a \in BOOLEAN /\ b \in BOOLEAN /\ aa \in BOOLEAN /\ bb \in BOOLEAN
  BY <1>1
<1>8. \A c : /\ Fwd(s, c) = Do(s, b, c) /\ Rev(s, c) = Do(s, bb, c)
             /\ Fwd(u, c) = IF u.omit = "fwd" THEN c ELSE Do(u, a, c)
             /\ Rev(u, c) = IF u.omit = "inv" THEN c ELSE Do(u, aa, c)
  BY <1>1, <1>6, StepIs
<1> HIDE DEF a, b, aa, bb
<1>9. ASSUME NEW c \in Between PROVE Fwd(s, Fwd(u, c)) = Fwd(u, Fwd(s, c))
  <2>1. Do(s, b, Do(u, a, c)) = Do(u, a, Do(s, b, c))
    BY <1>1, <1>3, <1>7, UnitsAndAxesCommute
  <2> QED BY <1>8, <2>1
<1>10. ASSUME NEW c \in Between PROVE Rev(u, Rev(s, c)) = Rev(s, Rev(u, c))
  <2>1. Do(s, bb, Do(u, aa, c)) = Do(u, aa, Do(s, bb, c))
    BY <1>1, <1>3, <1>7, UnitsAndAxesCommute
  <2> QED BY <1>8, <2>1
<1>11. Same(w, m)
  BY <1>4, <1>5, <1>9, <1>10 DEF Same, SameForward, SameReverse
<1> QED BY <1>2, <1>11 DEF m

LEMMA AxesAroundUnitsDropped ==
  ASSUME NEW w \in Seq(Steps), Len(w) = 3,
         Is21(w[1]), w[2].name = "unitconvert", Is21(w[3])
  PROVE  <<w[2]>> \in Seq(Steps) /\ Same(w, <<w[2]>>)
<1> DEFINE p == w[1]
           u == w[2]
           s == w[3]
           g == <<p, u>>
           h == <<u, p>>
           k == <<p, s>>
<1>1. p \in Steps /\ u \in Steps /\ s \in Steps /\ IsStep(p) /\ IsStep(u) /\ IsStep(s)
  <2>1. \A i \in 1..3 : w[i] \in Steps /\ IsStep(w[i])
    BY StepsOf
  <2> QED BY <2>1
<1>2. <<p>> \in Seq(Steps) /\ <<u>> \in Seq(Steps) /\ <<s>> \in Seq(Steps)
  BY <1>1, ListOfOne
<1>3. /\ g \in Seq(Steps) /\ Len(g) = 2 /\ g[1] = p /\ g[2] = u
      /\ h \in Seq(Steps) /\ Len(h) = 2 /\ h[1] = u /\ h[2] = p
      /\ k \in Seq(Steps) /\ Len(k) = 2 /\ k[1] = p /\ k[2] = s
  BY <1>1, ListsOfSteps
<1>4. Is21(p) /\ u.name = "unitconvert" /\ Is21(s)
  OBVIOUS
<1>5. /\ Len(<<u>>) = 1 /\ <<u>>[1] = u /\ Len(w) = 3
  OBVIOUS
<1>6. \A c \in Between :
        /\ RunForward(<<u>>, c) = Fwd(u, c) /\ RunReverse(<<u>>, c) = Rev(u, c)
  BY <1>1, ListOfOne
<1> HIDE DEF g, h, k
<1>7. \A c \in Between :
        /\ RunForward(w, c) = Fwd(s, Fwd(u, Fwd(p, c)))
        /\ RunReverse(w, c) = Rev(p, Rev(u, Rev(s, c)))
  <2> TAKE c \in Between
  <2>1. PICK t : IsTrace(t, w, c)
    BY TraceExists
  <2>2. PICK r : IsReverseTrace(r, w, c)
    BY ReverseTraceExists
  <2>3. t[0] = c /\ t[1] = Fwd(w[1], t[0]) /\ t[2] = Fwd(w[2], t[1]) /\ t[3] = Fwd(w[3], t[2])
        /\ RunForward(w, c) = t[3]
    <3>1. \A n \in 1..3 : t[n] = Fwd(w[n], t[n - 1])
      BY <2>1 DEF IsTrace
    <3>2. t[1] = Fwd(w[1], t[1 - 1]) /\ t[2] = Fwd(w[2], t[2 - 1]) /\ t[3] = Fwd(w[3], t[3 - 1])
      BY <3>1
    <3> QED BY <2>1, <3>2 DEF IsTrace
  <2>4. r[4] = c /\ r[3] = Rev(w[3], r[4]) /\ r[2] = Rev(w[2], r[3]) /\ r[1] = Rev(w[1], r[2])
        /\ RunReverse(w, c) = r[1]
    <3>1. \A n \in 1..3 : r[n] = Rev(w[n], r[n + 1])
      BY <2>2 DEF IsReverseTrace
    <3>2. r[1] = Rev(w[1], r[1 + 1]) /\ r[2] = Rev(w[2], r[2 + 1]) /\ r[3] = Rev(w[3], r[3 + 1])
      BY <3>1
    <3> QED BY <2>2, <3>2 DEF IsReverseTrace
  <2> QED BY <2>3, <2>4 DEF p, u, s
<1> HIDE DEF p, u, s
<1>8. h = <<h[1], h[2]>> /\ g = <<h[2], h[1]>>
  BY <1>3 DEF h, g
<1>9. Same(h, g)
  BY <1>3, <1>4, <1>8, UnitsAndAxesSwapped
<1>10. \A c \in Between : Fwd(p, Fwd(u, c)) = Fwd(u, Fwd(p, c)) /\ Rev(u, Rev(p, c)) = Rev(p, Rev(u, c))
  <2>1. \A c : /\ RunForward(g, c) = Fwd(u, Fwd(p, c)) /\ RunReverse(g, c) = Rev(p, Rev(u, c))
    BY <1>3, PairRuns
  <2>2. \A c : /\ RunForward(h, c) = Fwd(p, Fwd(u, c)) /\ RunReverse(h, c) = Rev(u, Rev(p, c))
    BY <1>3, PairRuns
  <2> QED BY <1>9, <2>1, <2>2 DEF Same, SameForward, SameReverse
<1>11. AxesUndone(p, s)
  BY <1>4 DEF AxesUndone
<1>12. /\ Reversible(p) /\ Reversible(s)
       /\ \A c \in Between : Fwd(s, Fwd(p, c)) = c
  BY <1>1, <1>11, AxesCancel
<1>13. Same(k, <<>>)
  BY <1>3, <1>12, PairVanishes
<1>14. \A c \in Between : Rev(p, Rev(s, c)) = c
  <2>1. \A c : RunReverse(k, c) = Rev(p, Rev(s, c))
    BY <1>3, PairRuns
  <2>2. \A c : RunReverse(<<>>, c) = c
    BY NoStep
  <2> QED BY <1>13, <2>1, <2>2 DEF Same, SameReverse
<1>15. ASSUME NEW c \in Between PROVE Fwd(s, Fwd(u, Fwd(p, c))) = Fwd(u, c)
  <2>1. Fwd(u, c) \in Between
    BY <1>1, FwdRevType
  <2>2. Fwd(s, Fwd(p, Fwd(u, c))) = Fwd(u, c)
    BY <1>12, <2>1
  <2> QED BY <1>10, <2>2
<1>16. ASSUME NEW c \in Between PROVE Rev(p, Rev(u, Rev(s, c))) = Rev(u, c)
  <2>1. Rev(s, c) \in Between
    BY <1>1, FwdRevType
  <2>2. Rev(p, Rev(u, Rev(s, c))) = Rev(u, Rev(p, Rev(s, c)))
    BY <1>10, <2>1
  <2> QED BY <1>14, <2>2
<1>17. Same(w, <<u>>)
  BY <1>6, <1>7, <1>15, <1>16 DEF Same, SameForward, SameReverse
<1> QED BY <1>2, <1>17 DEF u

LEMMA GridOf ==
  ASSUME NEW s, IsStep(s), s.name = "hgridshift", s.omit = "none", NEW o \in Omits,
         NEW u, u = [s EXCEPT !.omit = o]
  PROVE  IsStep(u) /\ u.name = "hgridshift" /\ u.inv = s.inv /\ u.par = s.par /\ u.omit = o
<1>1. s \in [name : Names, inv : BOOLEAN, par : Parameters(s.name), omit : Omits]
  BY DEF IsStep
<1>2. u \in [name : Names, inv : BOOLEAN, par : Parameters(s.name), omit : Omits]
  BY <1>1
<1>3. u.name = s.name /\ u.inv = s.inv /\ u.par = s.par /\ u.omit = o
  BY <1>1
<1> QED BY <1>2, <1>3 DEF IsStep

LEMMA StackSteps ==
  /\ LET s == Step("push", Horizontal)
     IN IsStep(s) /\ PushXY(s) /\ ~s.inv /\ s.name = "push" /\ s.omit = "none"
  /\ LET s == Step("pop", Horizontal)
     IN IsStep(s) /\ PopXY(s) /\ ~s.inv /\ s.name = "pop" /\ s.omit = "none"
<1>1. Horizontal \in SUBSET (1..4)
  BY DEF Horizontal
<1>2. Parameters("push") = SUBSET (1..4) /\ Parameters("pop") = SUBSET (1..4)
  BY DEF Parameters
<1> DEFINE a == Step("push", Horizontal)
           b == Step("pop", Horizontal)
<1>3. a.name = "push" /\ ~a.inv /\ a.par = Horizontal /\ a.omit = "none"
  BY DEF Step
<1>4. b.name = "pop" /\ ~b.inv /\ b.par = Horizontal /\ b.omit = "none"
  BY DEF Step
<1>5. IsStep(a) /\ IsStep(b)
  BY <1>1, <1>2, <1>3, <1>4 DEF IsStep, Step, Names, Omits
<1> HIDE DEF a, b
<1>6. PushXY(a) /\ PopXY(b)
  BY <1>3, <1>4 DEF PushXY, PopXY, Is
<1> QED BY <1>3, <1>4, <1>5, <1>6 DEF a, b

\* The horizontal shift of the rule that saves coordinates instead.
LEMMA ShiftAndBack ==
  ASSUME NEW p, NEW f, IsStep(p), IsStep(f),
         p.name = "hgridshift", p.omit = "none", f.name = "hgridshift", f.omit = "none",
         f.inv # p.inv, f.par = p.par, NEW x \in Between
  PROVE  \E k \in Int : \A y \in Between : y.v[2] = x.v[2] =>
           /\ Displaced(k, y, Fwd(p, y)) /\ Displaced(-k, y, Fwd(f, y))
           /\ Displaced(k, y, Rev(f, y)) /\ Displaced(-k, y, Rev(p, y))
           /\ Displaced(k, y, Fwd(OmittedInInverse(p), y)) /\ Rev(OmittedInInverse(p), y) = y
           /\ Displaced(k, y, Rev(OmittedForward(f), y)) /\ Fwd(OmittedForward(f), y) = y
<1>1. p.inv \in BOOLEAN /\ f.inv \in BOOLEAN
  BY ParametersAre
<1>2. f.inv = ~p.inv /\ (~f.inv) = p.inv
  BY <1>1
<1> DEFINE i == p.inv
           j == ~p.inv
           pp == OmittedInInverse(p)
           ff == OmittedForward(f)
<1>3. i \in BOOLEAN /\ j \in BOOLEAN /\ j = ~i /\ f.inv = j /\ (~f.inv) = i
  BY <1>1, <1>2
<1>4. /\ IsStep(pp) /\ pp.name = "hgridshift" /\ pp.inv = i /\ pp.par = p.par /\ pp.omit = "inv"
      /\ IsStep(ff) /\ ff.name = "hgridshift" /\ ff.inv = j /\ ff.par = p.par /\ ff.omit = "fwd"
  <2>1. /\ IsStep(pp) /\ pp.name = "hgridshift" /\ pp.inv = p.inv /\ pp.par = p.par
        /\ pp.omit = "inv"
    BY GridOf DEF OmittedInInverse, Omits
  <2>2. /\ IsStep(ff) /\ ff.name = "hgridshift" /\ ff.inv = f.inv /\ ff.par = f.par
        /\ ff.omit = "fwd"
    BY GridOf DEF OmittedForward, Omits
  <2> QED BY <1>2, <2>1, <2>2
<1> HIDE DEF j, pp, ff
<1>5. x.v[2] \in 0..6
  BY FourCoordinates
<1>6. PICK k \in Int : \A y \in Between : y.v[2] = x.v[2] =>
           /\ Displaced(k, y, Do(p, i, y)) /\ Displaced(-k, y, Do(p, ~i, y))
  BY <1>3, <1>5, DisplacedDo
<1>7. ASSUME NEW y \in Between
      PROVE  /\ Fwd(p, y) = Do(p, i, y) /\ Rev(p, y) = Do(p, j, y)
             /\ Fwd(f, y) = Do(p, j, y) /\ Rev(f, y) = Do(p, i, y)
             /\ Fwd(pp, y) = Do(p, i, y) /\ Rev(pp, y) = y
             /\ Rev(ff, y) = Do(p, i, y) /\ Fwd(ff, y) = y
  <2>1. Fwd(p, y) = Do(p, i, y) /\ Rev(p, y) = Do(p, j, y)
    BY StepIs DEF j
  <2>2. \A b \in BOOLEAN : Do(f, b, y) = Do(p, b, y) /\ Do(pp, b, y) = Do(p, b, y)
                             /\ Do(ff, b, y) = Do(p, b, y)
    BY <1>4, SameDo
  <2>3. Fwd(f, y) = Do(f, j, y) /\ Rev(f, y) = Do(f, i, y)
    BY <1>3, StepIs
  <2>4. Fwd(pp, y) = Do(pp, i, y) /\ Rev(pp, y) = y
    BY <1>4, StepIs
  <2>5. Rev(ff, y) = Do(ff, i, y) /\ Fwd(ff, y) = y
    <3>1. (~ff.inv) = i
      BY <1>3, <1>4
    <3> QED BY <1>4, <3>1, StepIs
  <2> QED BY <1>3, <2>1, <2>2, <2>3, <2>4, <2>5
<1>8. \A y \in Between : y.v[2] = x.v[2] =>
           /\ Displaced(k, y, Fwd(p, y)) /\ Displaced(-k, y, Fwd(f, y))
           /\ Displaced(k, y, Rev(f, y)) /\ Displaced(-k, y, Rev(p, y))
           /\ Displaced(k, y, Fwd(pp, y)) /\ Rev(pp, y) = y
           /\ Displaced(k, y, Rev(ff, y)) /\ Fwd(ff, y) = y
  BY <1>3, <1>6, <1>7
<1> QED BY <1>8 DEF pp, ff

LEMMA ShiftSaved ==
  ASSUME NEW w \in Seq(Steps), Len(w) = 3,
         w[1].name = "hgridshift", w[1].omit = "none", IsVertical(w[2]),
         w[3].name = "hgridshift", w[3].inv # w[1].inv, w[3].omit = "none", w[3].par = w[1].par,
         NEW m, m = <<Step("push", Horizontal), OmittedInInverse(w[1]), w[2],
                      OmittedForward(w[3])>> \o <<Step("pop", Horizontal)>>
  PROVE  m \in Seq(Steps) /\ Same(w, m)
<1> DEFINE p == w[1]
           v == w[2]
           f == w[3]
           a == Step("push", Horizontal)
           b == Step("pop", Horizontal)
           pp == OmittedInInverse(p)
           ff == OmittedForward(f)
<1>1. IsStep(p) /\ IsStep(v) /\ IsStep(f) /\ p.inv \in BOOLEAN /\ f.inv \in BOOLEAN
  <2>1. \A i \in 1..3 : IsStep(w[i]) /\ w[i].inv \in BOOLEAN
    BY StepsOf
  <2> QED BY <2>1
<1>2. /\ p.name = "hgridshift" /\ p.omit = "none" /\ IsVertical(v)
      /\ f.name = "hgridshift" /\ f.inv # p.inv /\ f.omit = "none" /\ f.par = p.par
  OBVIOUS
<1>3. IsStep(a) /\ IsStep(b) /\ PushXY(a) /\ PopXY(b) /\ ~a.inv /\ ~b.inv
  BY StackSteps
<1>4. IsStep(pp) /\ IsStep(ff)
  BY <1>1, <1>2, GridOf DEF OmittedInInverse, OmittedForward, Omits
<1>5. m = <<a, pp, v, ff>> \o <<b>>
  OBVIOUS
<1>w. w[1] = p /\ w[2] = v /\ w[3] = f
  OBVIOUS
<1> HIDE DEF p, v, f, a, b, pp, ff
<1>6. /\ m \in Seq(Steps) /\ Len(m) = 5
      /\ m[1] = a /\ m[2] = pp /\ m[3] = v /\ m[4] = ff /\ m[5] = b
  BY <1>1, <1>3, <1>4, <1>5, StepsAre, ListsOfSteps
<1>7. \A x : /\ Fwd(a, x) = Push(Horizontal, x) /\ Rev(a, x) = Pop(Horizontal, x)
             /\ Fwd(b, x) = Pop(Horizontal, x) /\ Rev(b, x) = Push(Horizontal, x)
  BY <1>3, PushStep, PopStep
<1>s. ASSUME NEW x \in Between
      PROVE  \E k \in Int : \A y \in Between : y.v[2] = x.v[2] =>
           /\ Displaced(k, y, Fwd(p, y)) /\ Displaced(-k, y, Fwd(f, y))
           /\ Displaced(k, y, Rev(f, y)) /\ Displaced(-k, y, Rev(p, y))
           /\ Displaced(k, y, Fwd(pp, y)) /\ Rev(pp, y) = y
           /\ Displaced(k, y, Rev(ff, y)) /\ Fwd(ff, y) = y
  BY <1>1, <1>2, ShiftAndBack, ZenonT(60) DEF pp, ff
<1>8. ASSUME NEW x \in Between PROVE RunForward(w, x) = RunForward(m, x)
  <2>1. PICK k \in Int : \A y \in Between : y.v[2] = x.v[2] =>
           /\ Displaced(k, y, Fwd(p, y)) /\ Displaced(-k, y, Fwd(f, y))
           /\ Displaced(k, y, Rev(f, y)) /\ Displaced(-k, y, Rev(p, y))
           /\ Displaced(k, y, Fwd(pp, y)) /\ Rev(pp, y) = y
           /\ Displaced(k, y, Rev(ff, y)) /\ Fwd(ff, y) = y
    BY <1>s
  <2>2. PICK n \in Int : \A y \in Between : Raised(n, y, Fwd(v, y))
    BY <1>1, <1>2, RaisedStep
  <2>3. PICK t : IsTrace(t, w, x)
    BY TraceExists
  <2>4. PICK u : IsTrace(u, m, x)
    BY <1>6, TraceExists
  <2>5. /\ t[0] = x /\ t[1] = Fwd(p, t[0]) /\ t[2] = Fwd(v, t[1]) /\ t[3] = Fwd(f, t[2])
        /\ t[1] \in Between /\ t[2] \in Between /\ RunForward(w, x) = t[3]
    <3>1. \A i \in 1..3 : t[i] = Fwd(w[i], t[i - 1]) /\ t[i] \in Between
      BY <2>3 DEF IsTrace
    <3>2. t[1] = Fwd(w[1], t[1 - 1]) /\ t[2] = Fwd(w[2], t[2 - 1]) /\ t[3] = Fwd(w[3], t[3 - 1])
      BY <3>1
    <3> QED BY <1>w, <2>3, <3>1, <3>2 DEF IsTrace
  <2>6. /\ u[0] = x /\ u[1] = Fwd(a, u[0]) /\ u[2] = Fwd(pp, u[1]) /\ u[3] = Fwd(v, u[2])
        /\ u[4] = Fwd(ff, u[3]) /\ u[5] = Fwd(b, u[4])
        /\ u[1] \in Between /\ u[2] \in Between /\ u[3] \in Between /\ RunForward(m, x) = u[5]
    <3>1. \A i \in 1..5 : u[i] = Fwd(m[i], u[i - 1]) /\ u[i] \in Between
      BY <1>6, <2>4 DEF IsTrace
    <3>2. /\ u[1] = Fwd(m[1], u[1 - 1]) /\ u[2] = Fwd(m[2], u[2 - 1]) /\ u[3] = Fwd(m[3], u[3 - 1])
          /\ u[4] = Fwd(m[4], u[4 - 1]) /\ u[5] = Fwd(m[5], u[5 - 1])
      BY <3>1
    <3> QED BY <1>6, <2>4, <3>1, <3>2 DEF IsTrace
  <2>7. Displaced(k, x, t[1])
    BY <2>1, <2>5
  <2>8. Raised(n, t[1], t[2])
    BY <2>2, <2>5
  <2>9. Displaced(-k, t[2], t[3])
    <3>1. t[2].v[2] = x.v[2]
      BY <2>7, <2>8 DEF Displaced, Raised
    <3> QED BY <2>1, <2>5, <3>1
  <2>10. Pushed(x, u[1])
    BY <1>7, <2>6, PushedIs
  <2>11. Displaced(k, u[1], u[2])
    <3>1. u[1].v[2] = x.v[2]
      BY <2>10 DEF Pushed
    <3> QED BY <2>1, <2>6, <3>1
  <2>12. Raised(n, u[2], u[3])
    BY <2>2, <2>6
  <2>13. u[4] = u[3]
    <3>1. u[3].v[2] = x.v[2]
      BY <2>10, <2>11, <2>12 DEF Pushed, Displaced, Raised
    <3> QED BY <2>1, <2>6, <3>1
  <2>14. t[3] = Pop(Horizontal, u[3])
    BY <2>7, <2>8, <2>9, <2>10, <2>11, <2>12, SavedAround
  <2> QED BY <1>7, <2>5, <2>6, <2>13, <2>14
<1>9. ASSUME NEW x \in Between PROVE RunReverse(w, x) = RunReverse(m, x)
  <2>1. PICK k \in Int : \A y \in Between : y.v[2] = x.v[2] =>
           /\ Displaced(k, y, Fwd(p, y)) /\ Displaced(-k, y, Fwd(f, y))
           /\ Displaced(k, y, Rev(f, y)) /\ Displaced(-k, y, Rev(p, y))
           /\ Displaced(k, y, Fwd(pp, y)) /\ Rev(pp, y) = y
           /\ Displaced(k, y, Rev(ff, y)) /\ Fwd(ff, y) = y
    BY <1>s
  <2>2. PICK n \in Int : \A y \in Between : Raised(n, y, Rev(v, y))
    BY <1>1, <1>2, RaisedStep
  <2>3. PICK t : IsReverseTrace(t, w, x)
    BY ReverseTraceExists
  <2>4. PICK u : IsReverseTrace(u, m, x)
    BY <1>6, ReverseTraceExists
  <2>5. /\ t[4] = x /\ t[3] = Rev(f, t[4]) /\ t[2] = Rev(v, t[3]) /\ t[1] = Rev(p, t[2])
        /\ t[3] \in Between /\ t[2] \in Between /\ RunReverse(w, x) = t[1]
    <3>1. \A i \in 1..3 : t[i] = Rev(w[i], t[i + 1]) /\ t[i] \in Between
      BY <2>3 DEF IsReverseTrace
    <3>2. t[1] = Rev(w[1], t[1 + 1]) /\ t[2] = Rev(w[2], t[2 + 1]) /\ t[3] = Rev(w[3], t[3 + 1])
      BY <3>1
    <3> QED BY <1>w, <2>3, <3>1, <3>2 DEF IsReverseTrace
  <2>6. /\ u[6] = x /\ u[5] = Rev(b, u[6]) /\ u[4] = Rev(ff, u[5]) /\ u[3] = Rev(v, u[4])
        /\ u[2] = Rev(pp, u[3]) /\ u[1] = Rev(a, u[2])
        /\ u[5] \in Between /\ u[4] \in Between /\ u[3] \in Between /\ RunReverse(m, x) = u[1]
    <3>1. \A i \in 1..5 : u[i] = Rev(m[i], u[i + 1]) /\ u[i] \in Between
      BY <1>6, <2>4 DEF IsReverseTrace
    <3>2. /\ u[1] = Rev(m[1], u[1 + 1]) /\ u[2] = Rev(m[2], u[2 + 1]) /\ u[3] = Rev(m[3], u[3 + 1])
          /\ u[4] = Rev(m[4], u[4 + 1]) /\ u[5] = Rev(m[5], u[5 + 1])
      BY <3>1
    <3> QED BY <1>6, <2>4, <3>1, <3>2 DEF IsReverseTrace
  <2>7. Displaced(k, x, t[3])
    BY <2>1, <2>5
  <2>8. Raised(n, t[3], t[2])
    BY <2>2, <2>5
  <2>9. Displaced(-k, t[2], t[1])
    <3>1. t[2].v[2] = x.v[2]
      BY <2>7, <2>8 DEF Displaced, Raised
    <3> QED BY <2>1, <2>5, <3>1
  <2>10. Pushed(x, u[5])
    BY <1>7, <2>6, PushedIs
  <2>11. Displaced(k, u[5], u[4])
    <3>1. u[5].v[2] = x.v[2]
      BY <2>10 DEF Pushed
    <3> QED BY <2>1, <2>6, <3>1
  <2>12. Raised(n, u[4], u[3])
    BY <2>2, <2>6
  <2>13. u[2] = u[3]
    <3>1. u[3].v[2] = x.v[2]
      BY <2>10, <2>11, <2>12 DEF Pushed, Displaced, Raised
    <3> QED BY <2>1, <2>6, <3>1
  <2>14. t[1] = Pop(Horizontal, u[3])
    BY <2>7, <2>8, <2>9, <2>10, <2>11, <2>12, SavedAround
  <2> QED BY <1>7, <2>5, <2>6, <2>13, <2>14
<1> QED BY <1>6, <1>8, <1>9 DEF Same, SameForward, SameReverse

\* What the steps of the rules on vertical grids compute.
LEMMA ConversionSteps ==
  ASSUME NEW s, IsStep(s), NEW x \in Between
  PROVE  /\ RadToDeg(s) /\ ~s.inv => Scaled(4, x, Fwd(s, x)) /\ Scaled(2, x, Rev(s, x))
         /\ DegToRad(s) /\ ~s.inv => Scaled(2, x, Fwd(s, x)) /\ Scaled(4, x, Rev(s, x))
         /\ Is21(s) => Exchange(x, Fwd(s, x)) /\ Exchange(x, Rev(s, x))
         /\ PushXY(s) /\ ~s.inv => Pushed(x, Fwd(s, x)) /\ Rev(s, x) = Pop(Horizontal, x)
         /\ PopXY(s) /\ ~s.inv => Pushed(x, Rev(s, x)) /\ Fwd(s, x) = Pop(Horizontal, x)
<1>1. RadToDeg(s) /\ ~s.inv => Scaled(4, x, Fwd(s, x)) /\ Scaled(2, x, Rev(s, x))
  BY RadToDegStep
<1>2. DegToRad(s) /\ ~s.inv => Scaled(2, x, Fwd(s, x)) /\ Scaled(4, x, Rev(s, x))
  BY DegToRadStep
<1>3. Is21(s) => Exchange(x, Fwd(s, x)) /\ Exchange(x, Rev(s, x))
  BY ExchangeStep
<1>4. PushXY(s) /\ ~s.inv => Pushed(x, Fwd(s, x)) /\ Rev(s, x) = Pop(Horizontal, x)
  BY PushStep, PushedIs
<1>5. PopXY(s) /\ ~s.inv => Pushed(x, Rev(s, x)) /\ Fwd(s, x) = Pop(Horizontal, x)
  BY PopStep, PushedIs
<1> QED BY <1>1, <1>2, <1>3, <1>4, <1>5

SavedList(w) ==
  /\ RadToDeg(w[1]) /\ Is21(w[2]) /\ PushXY(w[3])
  /\ Is21(w[4]) /\ DegToRad(w[5]) /\ IsVertical(w[6])
  /\ RadToDeg(w[7]) /\ Is21(w[8]) /\ PopXY(w[9])
  /\ ~w[1].inv /\ ~w[3].inv /\ ~w[5].inv /\ ~w[7].inv /\ ~w[9].inv

MovedList(w) ==
  /\ Is21(w[1]) /\ DegToRad(w[2]) /\ IsVertical(w[3])
  /\ RadToDeg(w[4]) /\ Is21(w[5]) /\ PushXY(w[6])
  /\ Is21(w[7]) /\ DegToRad(w[8])
  /\ ~w[2].inv /\ ~w[4].inv /\ ~w[6].inv /\ ~w[8].inv

LEMMA ConversionsDropped ==
  ASSUME NEW w \in Seq(Steps), Len(w) = 9, SavedList(w), NEW m, m = <<w[6], w[7], w[8]>>
  PROVE  m \in Seq(Steps) /\ Same(w, m)
<1>1. \A i \in 1..9 : w[i] \in Steps /\ IsStep(w[i])
  BY StepsOf
<1>2. /\ IsStep(w[1]) /\ IsStep(w[2]) /\ IsStep(w[3]) /\ IsStep(w[4]) /\ IsStep(w[5])
      /\ IsStep(w[6]) /\ IsStep(w[7]) /\ IsStep(w[8]) /\ IsStep(w[9])
      /\ w[6] \in Steps /\ w[7] \in Steps /\ w[8] \in Steps
  BY <1>1
<1>3. m \in Seq(Steps) /\ Len(m) = 3 /\ m[1] = w[6] /\ m[2] = w[7] /\ m[3] = w[8]
  BY <1>2, ListsOfSteps
<1>4. ASSUME NEW x \in Between PROVE RunForward(w, x) = RunForward(m, x)
  <2>1. PICK n \in Int : \A y \in Between : Raised(n, y, Fwd(w[6], y))
    BY <1>2, RaisedStep DEF SavedList
  <2>2. PICK t : IsTrace(t, w, x)
    BY TraceExists
  <2>3. PICK u : IsTrace(u, m, x)
    BY <1>3, TraceExists
  <2>4. /\ t[0] = x /\ RunForward(w, x) = t[9]
        /\ \A i \in 1..9 : t[i] = Fwd(w[i], t[i - 1]) /\ t[i] \in Between
    BY <2>2 DEF IsTrace
  <2>5. /\ t[1] = Fwd(w[1], t[0]) /\ t[2] = Fwd(w[2], t[1]) /\ t[3] = Fwd(w[3], t[2])
        /\ t[4] = Fwd(w[4], t[3]) /\ t[5] = Fwd(w[5], t[4]) /\ t[6] = Fwd(w[6], t[5])
        /\ t[7] = Fwd(w[7], t[6]) /\ t[8] = Fwd(w[8], t[7]) /\ t[9] = Fwd(w[9], t[8])
    <3>1. /\ t[1] = Fwd(w[1], t[1 - 1]) /\ t[2] = Fwd(w[2], t[2 - 1]) /\ t[3] = Fwd(w[3], t[3 - 1])
          /\ t[4] = Fwd(w[4], t[4 - 1]) /\ t[5] = Fwd(w[5], t[5 - 1]) /\ t[6] = Fwd(w[6], t[6 - 1])
          /\ t[7] = Fwd(w[7], t[7 - 1]) /\ t[8] = Fwd(w[8], t[8 - 1]) /\ t[9] = Fwd(w[9], t[9 - 1])
      BY <2>4
    <3> QED BY <3>1
  <2>6. /\ t[1] \in Between /\ t[2] \in Between /\ t[3] \in Between /\ t[4] \in Between
        /\ t[5] \in Between /\ t[6] \in Between /\ t[7] \in Between /\ t[8] \in Between
    BY <2>4
  <2>7. /\ u[0] = x /\ u[1] = Fwd(w[6], u[0]) /\ u[2] = Fwd(w[7], u[1]) /\ u[3] = Fwd(w[8], u[2])
        /\ u[1] \in Between /\ u[2] \in Between /\ RunForward(m, x) = u[3]
    <3>1. \A i \in 1..3 : u[i] = Fwd(m[i], u[i - 1]) /\ u[i] \in Between
      BY <1>3, <2>3 DEF IsTrace
    <3>2. u[1] = Fwd(m[1], u[1 - 1]) /\ u[2] = Fwd(m[2], u[2 - 1]) /\ u[3] = Fwd(m[3], u[3 - 1])
      BY <3>1
    <3> QED BY <1>3, <2>3, <3>1, <3>2 DEF IsTrace
  <2>8. Scaled(4, x, t[1])
    BY <1>2, <2>4, <2>5, ConversionSteps DEF SavedList
  <2>9. Exchange(t[1], t[2])
    BY <1>2, <2>5, <2>6, ConversionSteps DEF SavedList
  <2>10. Pushed(t[2], t[3])
    BY <1>2, <2>5, <2>6, ConversionSteps DEF SavedList
  <2>11. Exchange(t[3], t[4])
    BY <1>2, <2>5, <2>6, ConversionSteps DEF SavedList
  <2>12. Scaled(2, t[4], t[5])
    BY <1>2, <2>5, <2>6, ConversionSteps DEF SavedList
  <2>13. Raised(n, t[5], t[6])
    BY <2>1, <2>5, <2>6
  <2>14. Scaled(4, t[6], t[7])
    BY <1>2, <2>5, <2>6, ConversionSteps DEF SavedList
  <2>15. Exchange(t[7], t[8])
    BY <1>2, <2>5, <2>6, ConversionSteps DEF SavedList
  <2>16. t[9] = Pop(Horizontal, t[8])
    BY <1>2, <2>5, <2>6, ConversionSteps DEF SavedList
  <2>17. Raised(n, x, u[1])
    BY <2>1, <2>7
  <2>18. Scaled(4, u[1], u[2])
    BY <1>2, <2>7, ConversionSteps DEF SavedList
  <2>19. Exchange(u[2], u[3])
    BY <1>2, <2>7, ConversionSteps DEF SavedList
  <2>20. Pop(Horizontal, t[8]) = u[3]
    BY <2>8, <2>9, <2>10, <2>11, <2>12, <2>13, <2>14, <2>15, <2>17, <2>18, <2>19,
       ConversionsForward
  <2> QED BY <2>4, <2>7, <2>16, <2>20
<1>5. ASSUME NEW x \in Between PROVE RunReverse(w, x) = RunReverse(m, x)
  <2>1. PICK n \in Int : \A y \in Between : Raised(n, y, Rev(w[6], y))
    BY <1>2, RaisedStep DEF SavedList
  <2>2. PICK t : IsReverseTrace(t, w, x)
    BY ReverseTraceExists
  <2>3. PICK u : IsReverseTrace(u, m, x)
    BY <1>3, ReverseTraceExists
  <2>4. /\ t[10] = x /\ RunReverse(w, x) = t[1]
        /\ \A i \in 1..9 : t[i] = Rev(w[i], t[i + 1]) /\ t[i] \in Between
    BY <2>2 DEF IsReverseTrace
  <2>5. /\ t[1] = Rev(w[1], t[2]) /\ t[2] = Rev(w[2], t[3]) /\ t[3] = Rev(w[3], t[4])
        /\ t[4] = Rev(w[4], t[5]) /\ t[5] = Rev(w[5], t[6]) /\ t[6] = Rev(w[6], t[7])
        /\ t[7] = Rev(w[7], t[8]) /\ t[8] = Rev(w[8], t[9]) /\ t[9] = Rev(w[9], t[10])
    <3>1. /\ t[1] = Rev(w[1], t[1 + 1]) /\ t[2] = Rev(w[2], t[2 + 1]) /\ t[3] = Rev(w[3], t[3 + 1])
          /\ t[4] = Rev(w[4], t[4 + 1]) /\ t[5] = Rev(w[5], t[5 + 1]) /\ t[6] = Rev(w[6], t[6 + 1])
          /\ t[7] = Rev(w[7], t[7 + 1]) /\ t[8] = Rev(w[8], t[8 + 1]) /\ t[9] = Rev(w[9], t[9 + 1])
      BY <2>4
    <3> QED BY <3>1
  <2>6. /\ t[2] \in Between /\ t[3] \in Between /\ t[4] \in Between /\ t[5] \in Between
        /\ t[6] \in Between /\ t[7] \in Between /\ t[8] \in Between /\ t[9] \in Between
    BY <2>4
  <2>7. /\ u[4] = x /\ u[3] = Rev(w[8], u[4]) /\ u[2] = Rev(w[7], u[3]) /\ u[1] = Rev(w[6], u[2])
        /\ u[3] \in Between /\ u[2] \in Between /\ RunReverse(m, x) = u[1]
    <3>1. \A i \in 1..3 : u[i] = Rev(m[i], u[i + 1]) /\ u[i] \in Between
      BY <1>3, <2>3 DEF IsReverseTrace
    <3>2. u[1] = Rev(m[1], u[1 + 1]) /\ u[2] = Rev(m[2], u[2 + 1]) /\ u[3] = Rev(m[3], u[3 + 1])
      BY <3>1
    <3> QED BY <1>3, <2>3, <3>1, <3>2 DEF IsReverseTrace
  <2>8. Pushed(x, t[9])
    BY <1>2, <2>4, <2>5, ConversionSteps DEF SavedList
  <2>9. Exchange(t[9], t[8])
    BY <1>2, <2>5, <2>6, ConversionSteps DEF SavedList
  <2>10. Scaled(2, t[8], t[7])
    BY <1>2, <2>5, <2>6, ConversionSteps DEF SavedList
  <2>11. Raised(n, t[7], t[6])
    BY <2>1, <2>5, <2>6
  <2>12. Scaled(4, t[6], t[5])
    BY <1>2, <2>5, <2>6, ConversionSteps DEF SavedList
  <2>13. Exchange(t[5], t[4])
    BY <1>2, <2>5, <2>6, ConversionSteps DEF SavedList
  <2>14. t[3] = Pop(Horizontal, t[4])
    BY <1>2, <2>5, <2>6, ConversionSteps DEF SavedList
  <2>15. Exchange(t[3], t[2])
    BY <1>2, <2>5, <2>6, ConversionSteps DEF SavedList
  <2>16. Scaled(2, t[2], t[1])
    BY <1>2, <2>5, <2>6, ConversionSteps DEF SavedList
  <2>17. Exchange(x, u[3])
    BY <1>2, <2>7, ConversionSteps DEF SavedList
  <2>18. Scaled(2, u[3], u[2])
    BY <1>2, <2>7, ConversionSteps DEF SavedList
  <2>19. Raised(n, u[2], u[1])
    BY <2>1, <2>7
  <2>20. t[1] = u[1]
    BY <2>8, <2>9, <2>10, <2>11, <2>12, <2>13, <2>14, <2>15, <2>16, <2>17, <2>18, <2>19,
       ConversionsReverse
  <2> QED BY <2>4, <2>7, <2>20
<1> QED BY <1>3, <1>4, <1>5 DEF Same, SameForward, SameReverse

LEMMA VerticalMoved ==
  ASSUME NEW w \in Seq(Steps), Len(w) = 8, MovedList(w),
         NEW m, m = <<w[6], w[7], w[8], w[3]>>
  PROVE  m \in Seq(Steps) /\ SameForward(w, m)
<1>1. \A i \in 1..8 : w[i] \in Steps /\ IsStep(w[i])
  BY StepsOf
<1>2. /\ IsStep(w[1]) /\ IsStep(w[2]) /\ IsStep(w[3]) /\ IsStep(w[4]) /\ IsStep(w[5])
      /\ IsStep(w[6]) /\ IsStep(w[7]) /\ IsStep(w[8])
      /\ w[6] \in Steps /\ w[7] \in Steps /\ w[8] \in Steps /\ w[3] \in Steps
  BY <1>1
<1>3. /\ m \in Seq(Steps) /\ Len(m) = 4
      /\ m[1] = w[6] /\ m[2] = w[7] /\ m[3] = w[8] /\ m[4] = w[3]
  BY <1>2, ListsOfSteps
<1>4. ASSUME NEW x \in Between PROVE RunForward(w, x) = RunForward(m, x)
  <2>1. PICK n \in Int : \A y \in Between : Raised(n, y, Fwd(w[3], y))
    BY <1>2, RaisedStep DEF MovedList
  <2>2. PICK t : IsTrace(t, w, x)
    BY TraceExists
  <2>3. PICK u : IsTrace(u, m, x)
    BY <1>3, TraceExists
  <2>4. /\ t[0] = x /\ RunForward(w, x) = t[8]
        /\ \A i \in 1..8 : t[i] = Fwd(w[i], t[i - 1]) /\ t[i] \in Between
    BY <2>2 DEF IsTrace
  <2>5. /\ t[1] = Fwd(w[1], t[0]) /\ t[2] = Fwd(w[2], t[1]) /\ t[3] = Fwd(w[3], t[2])
        /\ t[4] = Fwd(w[4], t[3]) /\ t[5] = Fwd(w[5], t[4]) /\ t[6] = Fwd(w[6], t[5])
        /\ t[7] = Fwd(w[7], t[6]) /\ t[8] = Fwd(w[8], t[7])
    <3>1. /\ t[1] = Fwd(w[1], t[1 - 1]) /\ t[2] = Fwd(w[2], t[2 - 1]) /\ t[3] = Fwd(w[3], t[3 - 1])
          /\ t[4] = Fwd(w[4], t[4 - 1]) /\ t[5] = Fwd(w[5], t[5 - 1]) /\ t[6] = Fwd(w[6], t[6 - 1])
          /\ t[7] = Fwd(w[7], t[7 - 1]) /\ t[8] = Fwd(w[8], t[8 - 1])
      BY <2>4
    <3> QED BY <3>1
  <2>6. /\ t[1] \in Between /\ t[2] \in Between /\ t[3] \in Between /\ t[4] \in Between
        /\ t[5] \in Between /\ t[6] \in Between /\ t[7] \in Between
    BY <2>4
  <2>7. /\ u[0] = x /\ u[1] = Fwd(w[6], u[0]) /\ u[2] = Fwd(w[7], u[1]) /\ u[3] = Fwd(w[8], u[2])
        /\ u[4] = Fwd(w[3], u[3])
        /\ u[1] \in Between /\ u[2] \in Between /\ u[3] \in Between /\ RunForward(m, x) = u[4]
    <3>1. \A i \in 1..4 : u[i] = Fwd(m[i], u[i - 1]) /\ u[i] \in Between
      BY <1>3, <2>3 DEF IsTrace
    <3>2. /\ u[1] = Fwd(m[1], u[1 - 1]) /\ u[2] = Fwd(m[2], u[2 - 1]) /\ u[3] = Fwd(m[3], u[3 - 1])
          /\ u[4] = Fwd(m[4], u[4 - 1])
      BY <3>1
    <3> QED BY <1>3, <2>3, <3>1, <3>2 DEF IsTrace
  <2>8. Exchange(x, t[1])
    BY <1>2, <2>4, <2>5, ConversionSteps DEF MovedList
  <2>9. Scaled(2, t[1], t[2])
    BY <1>2, <2>5, <2>6, ConversionSteps DEF MovedList
  <2>10. Raised(n, t[2], t[3])
    BY <2>1, <2>5, <2>6
  <2>11. Scaled(4, t[3], t[4])
    BY <1>2, <2>5, <2>6, ConversionSteps DEF MovedList
  <2>12. Exchange(t[4], t[5])
    BY <1>2, <2>5, <2>6, ConversionSteps DEF MovedList
  <2>13. Pushed(t[5], t[6])
    BY <1>2, <2>5, <2>6, ConversionSteps DEF MovedList
  <2>14. Exchange(t[6], t[7])
    BY <1>2, <2>5, <2>6, ConversionSteps DEF MovedList
  <2>15. Scaled(2, t[7], t[8])
    BY <1>2, <2>5, <2>6, ConversionSteps DEF MovedList
  <2>16. Pushed(x, u[1])
    BY <1>2, <2>7, ConversionSteps DEF MovedList
  <2>17. Exchange(u[1], u[2])
    BY <1>2, <2>7, ConversionSteps DEF MovedList
  <2>18. Scaled(2, u[2], u[3])
    BY <1>2, <2>7, ConversionSteps DEF MovedList
  <2>19. Raised(n, u[3], u[4])
    BY <2>1, <2>7
  <2>20. t[8] = u[4]
    BY <2>8, <2>9, <2>10, <2>11, <2>12, <2>13, <2>14, <2>15, <2>16, <2>17, <2>18, <2>19,
       MovedForward
  <2> QED BY <2>4, <2>7, <2>20
<1> QED BY <1>3, <1>4 DEF SameForward

-----------------------------------------------------------------------------
(* Parts of the list that are replaced.                                    *)

SettledSteps == {s \in Steps : Settled(s)}

LEMMA SettledAre ==
  /\ \A s : s \in SettledSteps <=> IsStep(s) /\ Settled(s)
  /\ Seq(SettledSteps) \subseteq Seq(Steps)
<1>1. SettledSteps \subseteq Steps
  BY DEF SettledSteps
<1>2. \A list \in Seq(SettledSteps) : list \in Seq(Steps)
  BY <1>1, SeqMonotonic
<1> QED BY <1>2, StepsAre DEF SettledSteps

LEMMA SettledListOf ==
  ASSUME NEW list \in Seq(Steps), \A i \in 1..Len(list) : Settled(list[i])
  PROVE  list \in Seq(SettledSteps)
<1>1. Len(list) \in Nat /\ \A i \in 1..Len(list) : list[i] \in Steps
  BY StepsOf
<1>2. \A i \in 1..Len(list) : list[i] \in SettledSteps
  BY <1>1 DEF SettledSteps
<1>3. list = [i \in 1..Len(list) |-> list[i]]
  OBVIOUS
<1> QED BY <1>1, <1>2, <1>3, SeqOfRange

LEMMA SplicedWithin ==
  ASSUME NEW S, steps \in Seq(S), NEW from \in 1..Len(steps) + 1,
         NEW to \in from - 1..Len(steps), NEW mid \in Seq(S)
  PROVE  Splice(from, to, mid) \in Seq(S)
<1> DEFINE a == SubSeq(steps, 1, from - 1)
           b == SubSeq(steps, to + 1, Len(steps))
<1>1. a \in Seq(S) /\ b \in Seq(S)
  BY Split
<1>2. Splice(from, to, mid) = a \o mid \o b
  BY DEF Splice
<1> HIDE DEF a, b
<1>3. a \o mid \o b \in Seq(S)
  BY <1>1
<1> QED BY <1>2, <1>3

\* new is the list with k steps, from one place to another, replaced by mid.
Replaces(S, from, to, mid, k, new) ==
  /\ steps \in Seq(S) /\ mid \in Seq(S)
  /\ from \in 1..Len(steps) + 1 /\ to \in from - 1..Len(steps)
  /\ k = to - from + 1 /\ new = Splice(from, to, mid)

LEMMA SplicedElements ==
  ASSUME NEW S, NEW from, NEW to, NEW mid, NEW k, NEW new,
         Replaces(S, from, to, mid, k, new)
  PROVE  /\ Len(new) = Len(steps) - k + Len(mid)
         /\ \A i \in 1..Len(new) :
              new[i] = IF i < from THEN steps[i]
                       ELSE IF i < from + Len(mid) THEN mid[i - from + 1]
                       ELSE steps[i - Len(mid) + k]
<1> DEFINE n == Len(steps)
           a == SubSeq(steps, 1, from - 1)
           b == SubSeq(steps, to + 1, n)
<1>0. /\ steps \in Seq(S) /\ mid \in Seq(S)
      /\ from \in 1..Len(steps) + 1 /\ to \in from - 1..Len(steps)
      /\ k = to - from + 1 /\ new = Splice(from, to, mid)
  BY DEF Replaces
<1>1. n \in Nat /\ Len(mid) \in Nat /\ from \in Int /\ to \in Int /\ k = to - from + 1
  BY <1>0
<1>2. a \in Seq(S) /\ b \in Seq(S) /\ mid \in Seq(S)
  BY <1>0, Split
<1>3. Len(a) = from - 1 /\ \A i \in 1..from - 1 : a[i] = steps[i]
  <2>1. 1 \in 1..n + 1 /\ from - 1 \in 1 - 1..n
    BY <1>0, <1>1
  <2>2. /\ Len(SubSeq(steps, 1, from - 1)) = from - 1 - 1 + 1
        /\ \A i \in 1..from - 1 - 1 + 1 : SubSeq(steps, 1, from - 1)[i] = steps[1 + i - 1]
    BY <1>0, <2>1, Split
  <2>3. \A i \in 1..from - 1 : i \in 1..from - 1 - 1 + 1 /\ 1 + i - 1 = i
    BY <1>1
  <2>4. from - 1 - 1 + 1 = from - 1
    BY <1>1
  <2> QED BY <2>2, <2>3, <2>4
<1>4. Len(b) = n - to /\ \A i \in 1..n - to : b[i] = steps[to + i]
  <2>1. to + 1 \in 1..n + 1 /\ n \in to + 1 - 1..n
    BY <1>0, <1>1
  <2>2. /\ Len(SubSeq(steps, to + 1, n)) = n - (to + 1) + 1
        /\ \A i \in 1..n - (to + 1) + 1 : SubSeq(steps, to + 1, n)[i] = steps[to + 1 + i - 1]
    BY <1>0, <2>1, Split
  <2>3. \A i \in 1..n - to : i \in 1..n - (to + 1) + 1 /\ to + 1 + i - 1 = to + i
    BY <1>1
  <2>4. n - (to + 1) + 1 = n - to
    BY <1>1
  <2> QED BY <2>2, <2>3, <2>4
<1>5. new = a \o mid \o b
  BY <1>0 DEF Splice
<1> HIDE DEF a, b
<1> DEFINE c == a \o mid
<1>6. /\ c \in Seq(S) /\ Len(c) = Len(a) + Len(mid)
      /\ \A i \in 1..Len(a) + Len(mid) : c[i] = IF i <= Len(a) THEN a[i] ELSE mid[i - Len(a)]
  BY <1>2, ConcatProperties
<1>7. /\ Len(new) = Len(c) + Len(b)
      /\ \A i \in 1..Len(c) + Len(b) : new[i] = IF i <= Len(c) THEN c[i] ELSE b[i - Len(c)]
  <2>1. new = c \o b /\ c \in Seq(S) /\ b \in Seq(S)
    BY <1>2, <1>5, <1>6
  <2> HIDE DEF c
  <2>2. /\ Len(c \o b) = Len(c) + Len(b)
        /\ \A i \in 1..Len(c) + Len(b) :
             (c \o b)[i] = IF i <= Len(c) THEN c[i] ELSE b[i - Len(c)]
    BY <2>1, ConcatProperties
  <2> QED BY <2>1, <2>2
<1> HIDE DEF c
<1>8. Len(new) = n - k + Len(mid)
  BY <1>1, <1>3, <1>4, <1>6, <1>7
<1>9. ASSUME NEW i \in 1..Len(new)
      PROVE  new[i] = IF i < from THEN steps[i]
                      ELSE IF i < from + Len(mid) THEN mid[i - from + 1]
                      ELSE steps[i - Len(mid) + k]
  <2>1. i \in Int /\ i >= 1 /\ i \in 1..Len(c) + Len(b)
    BY <1>1, <1>7, <1>8
  <2>2. CASE i < from
    <3>1. i <= Len(c) /\ i <= Len(a) /\ i \in 1..from - 1 /\ i \in 1..Len(a) + Len(mid)
      BY <1>1, <1>3, <1>6, <2>1, <2>2
    <3> QED BY <1>3, <1>6, <1>7, <2>1, <2>2, <3>1
  <2>3. CASE ~(i < from) /\ i < from + Len(mid)
    <3>1. i <= Len(c) /\ ~(i <= Len(a)) /\ i \in 1..Len(a) + Len(mid) /\ i - Len(a) = i - from + 1
      BY <1>1, <1>3, <1>6, <2>1, <2>3
    <3>2. new[i] = mid[i - Len(a)]
      BY <1>6, <1>7, <2>1, <3>1
    <3> QED BY <2>3, <3>1, <3>2
  <2>4. CASE ~(i < from) /\ ~(i < from + Len(mid))
    <3>1. ~(i <= Len(c)) /\ i - Len(c) \in 1..n - to /\ to + (i - Len(c)) = i - Len(mid) + k
      BY <1>1, <1>3, <1>4, <1>6, <1>7, <2>1, <2>4
    <3>2. new[i] = b[i - Len(c)]
      BY <1>7, <2>1, <3>1
    <3>3. b[i - Len(c)] = steps[to + (i - Len(c))]
      BY <1>4, <3>1
    <3> QED BY <2>4, <3>1, <3>2, <3>3
  <2> QED BY <2>2, <2>3, <2>4
<1> QED BY <1>8, <1>9

LEMMA ErasedElements ==
  ASSUME NEW S, NEW e, NEW z, NEW k, NEW p,
         Replaces(S, p, p, z, k, e), Len(z) = 0
  PROVE  /\ Len(e) = Len(steps) - 1
         /\ \A i \in 1..Len(steps) - 1 : e[i] = IF i < p THEN steps[i] ELSE steps[i + 1]
<1>1. Len(steps) \in Nat /\ p \in Int /\ k = 1
  BY DEF Replaces
<1>4. /\ Len(e) = Len(steps) - k + Len(z)
      /\ \A i \in 1..Len(e) :
           e[i] = IF i < p THEN steps[i]
                  ELSE IF i < p + Len(z) THEN z[i - p + 1]
                  ELSE steps[i - Len(z) + k]
  BY SplicedElements
<1>5. Len(e) = Len(steps) - 1
  BY <1>1, <1>4
<1>6. ASSUME NEW i \in 1..Len(steps) - 1 PROVE e[i] = IF i < p THEN steps[i] ELSE steps[i + 1]
  <2>1. i - Len(z) + k = i + 1 /\ (i < p + Len(z) <=> i < p)
    BY <1>1
  <2>2. i \in 1..Len(e)
    BY <1>5
  <2> QED BY <1>4, <2>1, <2>2
<1> QED BY <1>5, <1>6

LEMMA ReplacedElements ==
  ASSUME NEW S, NEW r, NEW l, NEW k, NEW p, NEW q,
         Replaces(S, p, q, l, k, r), q - p = 1, Len(l) <= 1, Len(l) >= 1
  PROVE  /\ Len(r) = Len(steps) - 1
         /\ \A i \in 1..Len(steps) - 1 : r[i] = IF i < p THEN steps[i]
                                        ELSE IF i = p THEN l[1] ELSE steps[i + 1]
<1>1. Len(steps) \in Nat /\ p \in Int /\ q \in Int /\ k = 2 /\ Len(l) \in Nat
  BY DEF Replaces
<1>4. /\ Len(r) = Len(steps) - k + Len(l)
      /\ \A i \in 1..Len(r) :
           r[i] = IF i < p THEN steps[i]
                  ELSE IF i < p + Len(l) THEN l[i - p + 1]
                  ELSE steps[i - Len(l) + k]
  BY SplicedElements
<1>5. Len(r) = Len(steps) - 1
  BY <1>1, <1>4
<1>6. ASSUME NEW i \in 1..Len(steps) - 1
      PROVE  r[i] = IF i < p THEN steps[i] ELSE IF i = p THEN l[1] ELSE steps[i + 1]
  <2>1. /\ i - Len(l) + k = i + 1 /\ (i < p + Len(l) <=> i <= p)
        /\ (i = p => i - p + 1 = 1) /\ i \in Int
    BY <1>1
  <2>2. i \in 1..Len(r)
    BY <1>5
  <2>3. r[i] = IF i < p THEN steps[i]
               ELSE IF i < p + Len(l) THEN l[i - p + 1]
               ELSE steps[i - Len(l) + k]
    BY <1>4, <2>2
  <2>4. CASE i < p
    BY <2>3, <2>4
  <2>5. CASE i = p
    BY <1>1, <2>1, <2>3, <2>5
  <2>6. CASE i > p
    <3>1. ~(i < p) /\ ~(i < p + Len(l)) /\ i # p
      BY <1>1, <2>1, <2>6
    <3> QED BY <2>1, <2>3, <3>1
  <2> QED BY <1>1, <2>4, <2>5, <2>6
<1> QED BY <1>5, <1>6

\* The step before the cursor is changed, the one at the cursor erased.
LEMMA ErasedAndChanged ==
  ASSUME NEW S, steps \in Seq(S), pos \in 2..Len(steps), NEW s \in S,
         NEW new \in Seq(S), Len(new) = Len(steps) - 1,
         \A i \in 1..Len(new) : new[i] = IF i = pos - 1 THEN s ELSE EraseCur[i]
  PROVE  new = Splice(pos - 1, pos, <<s>>)
<1> DEFINE n == Len(steps)
           p == pos - 1
           e == Splice(pos, pos, <<>>)
           r == Splice(pos - 1, pos, <<s>>)
           l == <<s>>
           z == <<>>
           k == 1
           j == 2
<1>1. n \in Nat /\ pos \in Int /\ 2 <= pos /\ pos <= n /\ pos = p + 1 /\ p \in 1..n - 1
      /\ pos \in 1..n /\ n = Len(steps) /\ p \in Int
  OBVIOUS
<1>2. l \in Seq(S) /\ Len(l) = 1 /\ l[1] = s /\ z \in Seq(S) /\ Len(z) = 0
  OBVIOUS
<1>4. e = Splice(pos, pos, z) /\ r = Splice(p, pos, l) /\ EraseCur = e
  BY DEF EraseCur
<1>w. p \in 1..n + 1 /\ pos \in p - 1..n
  BY <1>1
<1>n. Len(new) = n - 1 /\ \A i \in 1..Len(new) : new[i] = IF i = p THEN s ELSE e[i]
  BY <1>4
<1>k. k = 1 /\ k = pos - pos + 1 /\ j = 2 /\ j = pos - p + 1 /\ pos - p = 1
  BY <1>1
<1> HIDE DEF e, r, l, z, p, n, k, j
<1>5. /\ Len(e) = n - 1
      /\ \A i \in 1..n - 1 : e[i] = IF i < pos THEN steps[i] ELSE steps[i + 1]
  <2>1. Replaces(S, pos, pos, z, k, e)
    BY <1>1, <1>2, <1>4, <1>k DEF Replaces
  <2> QED BY <1>1, <1>2, <2>1, ErasedElements
<1>6. /\ Len(r) = n - 1
      /\ \A i \in 1..n - 1 : r[i] = IF i < p THEN steps[i]
                                     ELSE IF i = p THEN l[1] ELSE steps[i + 1]
  <2>1. Replaces(S, p, pos, l, j, r)
    BY <1>1, <1>2, <1>4, <1>w, <1>k DEF Replaces
  <2>2. Len(l) <= 1 /\ Len(l) >= 1
    BY <1>2
  <2> QED BY <1>1, <1>k, <2>1, <2>2, ReplacedElements
<1>7. r \in Seq(S)
  BY <1>1, <1>2, <1>4, <1>w, SplicedWithin
<1>9. ASSUME NEW i \in 1..Len(new) PROVE new[i] = r[i]
  <2>1. i \in Int /\ i \in 1..n - 1 /\ (i < pos <=> i <= p)
    BY <1>1, <1>n
  <2> QED BY <1>1, <1>2, <1>5, <1>6, <1>n, <2>1
<1>10. Len(new) = Len(r)
  BY <1>6, <1>n
<1>11. new = r
  BY <1>7, <1>9, <1>10, SameLists
<1> QED BY <1>11 DEF r

LEMMA RemovedIs ==
  ASSUME NEW S, steps \in Seq(S), pos \in 1..Len(steps)
  PROVE  RemoveAt(steps, pos) = Splice(pos, pos, <<>>)
<1> DEFINE a == SubSeq(steps, 1, pos - 1)
           b == SubSeq(steps, pos + 1, Len(steps))
<1>1. RemoveAt(steps, pos) = a \o b
  BY DEF RemoveAt
<1>2. Splice(pos, pos, <<>>) = a \o <<>> \o b
  BY DEF Splice
<1>3. pos \in 1..Len(steps) + 1 /\ pos \in pos - 1..Len(steps)
  OBVIOUS
<1>4. a \in Seq(S)
  BY <1>3, Split
<1> HIDE DEF a, b
<1>5. a \o <<>> = a
  BY <1>4, ConcatEmptySeq
<1> QED BY <1>1, <1>2, <1>5

-----------------------------------------------------------------------------
(* What a rule puts in the place of a part of the list.                    *)

\* the new list is settled, and does what the one before did
Kept(old, new) == new \in Seq(SettledSteps) /\ Same(old, new)

LEMMA SpliceKept ==
  ASSUME NEW from, NEW to, NEW mid \in Seq(SettledSteps), NEW new,
         steps \in Seq(SettledSteps), from \in 1..Len(steps) + 1, to \in from - 1..Len(steps),
         new = Splice(from, to, mid),
         Same(SubSeq(steps, from, to), mid)
  PROVE  Kept(steps, new)
<1>1. steps \in Seq(Steps) /\ mid \in Seq(Steps)
  BY SettledAre
<1>2. Splice(from, to, mid) \in Seq(SettledSteps)
  BY SplicedWithin
<1>3. Same(steps, Splice(from, to, mid))
  BY <1>1, SplicedMeans DEF Same
<1> QED BY <1>2, <1>3 DEF Kept

IsPart(w, from, to) == w = SubSeq(steps, from, to)

LEMMA PartOf ==
  ASSUME NEW from, NEW to, NEW w, IsPart(w, from, to), steps \in Seq(SettledSteps),
         from \in 1..Len(steps) + 1, to \in from - 1..Len(steps)
  PROVE  /\ w \in Seq(SettledSteps) /\ w \in Seq(Steps) /\ Len(w) = to - from + 1
         /\ \A i \in 1..to - from + 1 : w[i] = steps[from + i - 1]
BY Split, SettledAre DEF IsPart

LEMMA PairIs ==
  ASSUME steps \in Seq(SettledSteps), pos \in 2..Len(steps), NEW w, w = SubSeq(steps, pos - 1, pos)
  PROVE  /\ w \in Seq(Steps) /\ Len(w) = 2 /\ w[1] = Prev /\ w[2] = Cur
         /\ IsStep(Prev) /\ IsStep(Cur) /\ Settled(Prev) /\ Settled(Cur)
         /\ Prev \in SettledSteps /\ Cur \in SettledSteps
<1>1. /\ pos - 1 \in 1..Len(steps) + 1 /\ pos \in pos - 1 - 1..Len(steps)
      /\ pos - (pos - 1) + 1 = 2 /\ pos - 1 + 1 - 1 = pos - 1 /\ pos - 1 + 2 - 1 = pos
      /\ pos \in 1..Len(steps) /\ pos - 1 \in 1..Len(steps)
  OBVIOUS
<1>2. /\ w \in Seq(Steps) /\ Len(w) = pos - (pos - 1) + 1
      /\ \A i \in 1..pos - (pos - 1) + 1 : w[i] = steps[pos - 1 + i - 1]
  <2>1. IsPart(w, pos - 1, pos)
    BY DEF IsPart
  <2> QED BY <1>1, <2>1, PartOf, ZenonT(60)
<1>3. Len(w) = 2 /\ w[1] = steps[pos - 1 + 1 - 1] /\ w[2] = steps[pos - 1 + 2 - 1]
  <2>1. 1 \in 1..pos - (pos - 1) + 1 /\ 2 \in 1..pos - (pos - 1) + 1
    BY <1>1
  <2>2. w[1] = steps[pos - 1 + 1 - 1]
    BY <1>2, <2>1
  <2>3. w[2] = steps[pos - 1 + 2 - 1]
    BY <1>2, <2>1
  <2> QED BY <1>1, <1>2, <2>2, <2>3
<1>4. steps[pos] \in SettledSteps /\ steps[pos - 1] \in SettledSteps
  BY <1>1, ElementOfSeq
<1> QED BY <1>1, <1>2, <1>3, <1>4, SettledAre DEF Prev, Cur

LEMMA PairKept ==
  ASSUME NEW mid \in Seq(SettledSteps), NEW new,
         steps \in Seq(SettledSteps), pos \in 2..Len(steps), new = Splice(pos - 1, pos, mid),
         \A w \in Seq(Steps) : Len(w) = 2 /\ w[1] = Prev /\ w[2] = Cur => Same(w, mid)
  PROVE  Kept(steps, new)
<1> DEFINE w == SubSeq(steps, pos - 1, pos)
<1>1. w \in Seq(Steps) /\ Len(w) = 2 /\ w[1] = Prev /\ w[2] = Cur
  BY PairIs
<1>2. Same(w, mid)
  <2> HIDE DEF w
  <2> QED BY <1>1
<1>3. pos - 1 \in 1..Len(steps) + 1 /\ pos \in pos - 1 - 1..Len(steps)
  OBVIOUS
<1> QED BY <1>2, <1>3, SpliceKept

LEMMA OfOne ==
  ASSUME NEW s \in SettledSteps
  PROVE  <<s>> \in Seq(SettledSteps)
OBVIOUS

LEMMA EraseKept ==
  ASSUME NEW new, steps \in Seq(SettledSteps), pos \in 1..Len(steps), new = EraseCur,
         \A c \in Between : Fwd(steps[pos], c) = c /\ Rev(steps[pos], c) = c
  PROVE  Kept(steps, new)
<1> DEFINE w == SubSeq(steps, pos, pos)
<1>1. /\ pos \in 1..Len(steps) + 1 /\ pos \in pos - 1..Len(steps)
      /\ pos - pos + 1 = 1 /\ pos + 1 - 1 = pos
  OBVIOUS
<1>2. /\ w \in Seq(Steps) /\ Len(w) = pos - pos + 1
      /\ \A i \in 1..pos - pos + 1 : w[i] = steps[pos + i - 1]
  BY <1>1, PartOf DEF IsPart
<1> HIDE DEF w
<1>3. Len(w) = 1 /\ w[1] = steps[pos]
  BY <1>1, <1>2
<1>4. w[1].inv \in BOOLEAN
  <2>1. \A i \in 1..Len(w) : w[i].inv \in BOOLEAN
    BY <1>2, StepsOf
  <2>2. 1 \in 1..Len(w)
    BY <1>3
  <2> QED BY <2>1, <2>2
<1>5. Same(w, <<>>)
  BY <1>3, <1>4, OneStep, NoStep DEF Same, SameForward, SameReverse
<1>6. <<>> \in Seq(SettledSteps)
  OBVIOUS
<1> QED BY <1>1, <1>5, <1>6, SpliceKept DEF EraseCur, w

-----------------------------------------------------------------------------
(* The third loop, rule by rule.                                           *)

\* The rules the source takes for granted where the list does not bear them
\* out: a pop before a push, a Krovak projection before the inverse of the other
\* one, and a vertical shift moved after a push, wrong only in the other direction.
PopsThenPushes == Merging /\ ~IsInnerLonglat /\ PushThenPop(Prev, Cur) /\ Prev.name = "pop"
TurnsKrovak == Merging /\ KrovakTurned(Prev, Cur) /\ ~Prev.inv
MovesVertical == Gridding /\ VerticalBeforePush

InList == steps \in Seq(SettledSteps) /\ pos >= 2 /\ pos \in Nat

LEMMA MergeRange ==
  ASSUME InList, Merging
  PROVE  /\ pos \in 2..Len(steps) /\ pos \in 1..Len(steps) /\ Len(steps) \in Nat
         /\ steps \in Seq(SettledSteps)
<1>1. Len(steps) \in Nat
  BY DEF InList
<1> QED BY <1>1 DEF InList, Merging

LEMMA DropLonglatKept ==
  ASSUME InList, DropLonglat
  PROVE  Kept(steps, steps')
<1>1. Merging /\ Cur.name = "longlat" /\ steps' = EraseCur
  BY DEF DropLonglat, IsInnerLonglat
<1>2. IsStep(Cur)
  BY <1>1, MergeRange, PairIs
<1>3. \A c \in Between : Fwd(Cur, c) = c /\ Rev(Cur, c) = c
  BY <1>1, <1>2, DoingNothing
<1> QED BY <1>1, <1>3, MergeRange, EraseKept DEF Cur

LEMMA PairGone ==
  ASSUME NEW p, NEW c, IsStep(p), IsStep(c),
         \A x \in Between : Fwd(c, Fwd(p, x)) = x /\ Rev(p, Rev(c, x)) = x,
         NEW w \in Seq(Steps), Len(w) = 2, w[1] = p, w[2] = c
  PROVE  Same(w, <<>>)
<1>1. \A x : /\ RunForward(w, x) = Fwd(c, Fwd(p, x))
             /\ RunReverse(w, x) = Rev(p, Rev(c, x))
  BY PairRuns
<1> QED BY <1>1, NoStep DEF Same, SameForward, SameReverse

LEMMA UndoneVanishes ==
  ASSUME NEW p, NEW c, IsStep(p), IsStep(c), Settled(p), Settled(c), Undone(p, c),
         ~(PushThenPop(p, c) /\ p.name = "pop"),
         NEW w \in Seq(Steps), Len(w) = 2, w[1] = p, w[2] = c
  PROVE  Same(w, <<>>)
<1>1. CASE PushThenPop(p, c)
  <2>1. p.name = "push"
    BY <1>1 DEF PushThenPop
  <2> QED BY <1>1, <2>1, PushCancels, PairGone
<1>2. CASE UnitsUndone(p, c) \/ UnitsVanish(p, c)
  BY <1>2, UnitsCancel, PairVanishes
<1>3. CASE AxesUndone(p, c)
  BY <1>3, AxesCancel, PairVanishes
<1>4. CASE CartUndone(p, c)
  BY <1>4, CartCancels, PairGone
<1>5. CASE TranslationsUndone(p, c) \/ HelmertUndone(p, c)
  BY <1>5, HelmertCancels, PairVanishes
<1>6. CASE StepUndone(p, c)
  <2>1. p.name \notin {"push", "pop", "set"}
    <3>1. p.inv # c.inv /\ p.name = c.name /\ p.inv \in BOOLEAN /\ c.inv \in BOOLEAN
      BY <1>6 DEF StepUndone, IsStep
    <3>2. p.inv \/ c.inv
      BY <3>1
    <3> QED BY <3>1, <3>2 DEF Settled, NotInverted
  <2> QED BY <1>6, <2>1, StepCancels, PairGone
<1> QED BY <1>1, <1>2, <1>3, <1>4, <1>5, <1>6 DEF Undone

LEMMA PairErasedKept ==
  ASSUME InList, pos <= Len(steps), steps' = Splice(pos - 1, pos, <<>>),
         Undone(Prev, Cur), ~(PushThenPop(Prev, Cur) /\ Prev.name = "pop")
  PROVE  Kept(steps, steps')
<1>1. pos \in 2..Len(steps) /\ steps \in Seq(SettledSteps)
  BY DEF InList
<1>2. /\ IsStep(Prev) /\ IsStep(Cur) /\ Settled(Prev) /\ Settled(Cur)
  BY <1>1, PairIs
<1>3. \A w \in Seq(Steps) : Len(w) = 2 /\ w[1] = Prev /\ w[2] = Cur => Same(w, <<>>)
  BY <1>2, UndoneVanishes
<1>4. <<>> \in Seq(SettledSteps)
  OBVIOUS
<1> QED BY <1>1, <1>3, <1>4, PairKept

LEMMA MergeUndoneKept ==
  ASSUME InList, MergeUndone, ~PopsThenPushes
  PROVE  Kept(steps, steps')
<1>1. Merging /\ ~IsInnerLonglat /\ Undone(Prev, Cur) /\ steps' = Splice(pos - 1, pos, <<>>)
  BY DEF MergeUndone, DeletePrevAndCur
<1>2. ~(PushThenPop(Prev, Cur) /\ Prev.name = "pop")
  BY <1>1 DEF PopsThenPushes
<1> QED BY <1>1, <1>2, PairErasedKept DEF Merging

\* A pair is replaced by one step that does the same forward.
LEMMA PairMergedKept ==
  ASSUME NEW m, NEW new, steps \in Seq(SettledSteps), pos \in 2..Len(steps),
         new = Splice(pos - 1, pos, <<m>>),
         IsStep(m), Reversible(m), m.inv = FALSE, Reversible(Prev), Reversible(Cur),
         \A x \in Between : Fwd(Cur, Fwd(Prev, x)) = Fwd(m, x)
  PROVE  Kept(steps, new)
<1>1. m \in SettledSteps
  BY SettledAre DEF Settled
<1>2. <<m>> \in Seq(SettledSteps)
  BY <1>1, OfOne
<1>3. \A w \in Seq(Steps) : Len(w) = 2 /\ w[1] = Prev /\ w[2] = Cur => Same(w, <<m>>)
  BY PairMerges
<1> QED BY <1>2, <1>3, PairKept

LEMMA MergeUnitsKept ==
  ASSUME InList, MergeUnits
  PROVE  Kept(steps, steps')
<1> DEFINE m == MergedUnits(Prev, Cur)
<1>1. Merging /\ UnitsMerge(Prev, Cur) /\ steps' = Splice(pos - 1, pos, <<m>>)
  BY DEF MergeUnits, ReplacePrevAndCur
<1>2. IsStep(Prev) /\ IsStep(Cur)
  BY <1>1, MergeRange, PairIs
<1>3. /\ IsStep(m) /\ Reversible(m) /\ Reversible(Prev) /\ Reversible(Cur)
      /\ \A x \in Between : Fwd(Cur, Fwd(Prev, x)) = Fwd(m, x)
  BY <1>1, <1>2, UnitsMerged
<1>4. m.inv = FALSE
  BY DEF MergedUnits, Units, Step
<1> HIDE DEF m
<1> QED BY <1>1, <1>3, <1>4, MergeRange, PairMergedKept

LEMMA TurnKrovakKept ==
  ASSUME InList, TurnKrovak, ~TurnsKrovak
  PROVE  Kept(steps, steps')
<1> DEFINE m == Step("axisswap", <<-2, -1, 3>>)
<1>1. Merging /\ KrovakTurned(Prev, Cur) /\ steps' = Splice(pos - 1, pos, <<m>>)
  BY DEF TurnKrovak, ReplacePrevAndCur
<1>2. IsStep(Prev) /\ IsStep(Cur) /\ Prev.inv
  BY <1>1, MergeRange, PairIs DEF TurnsKrovak
<1>3. /\ IsStep(m) /\ Reversible(m) /\ Reversible(Prev) /\ Reversible(Cur)
      /\ \A x \in Between : Fwd(Cur, Fwd(Prev, x)) = Fwd(m, x)
  BY <1>1, <1>2, KrovakMerged
<1>4. m.inv = FALSE
  BY DEF Step
<1> HIDE DEF m
<1> QED BY <1>1, <1>3, <1>4, MergeRange, PairMergedKept

LEMMA ErasedIs ==
  ASSUME NEW S, NEW n, NEW e, steps \in Seq(S), pos \in 2..n, n = Len(steps), e = EraseCur
  PROVE  e \in Seq(S) /\ Len(e) = n - 1 /\ pos - 1 \in 1..n - 1 /\ e[pos - 1] = Prev
<1> DEFINE z == <<>>
           k == 1
<1>1. n \in Nat /\ pos \in Int /\ 2 <= pos /\ pos <= n
  OBVIOUS
<1>2. z \in Seq(S) /\ Len(z) = 0 /\ k = 1
  OBVIOUS
<1>3. e = Splice(pos, pos, z)
  BY DEF EraseCur
<1> HIDE DEF z, k
<1>4. pos \in 1..Len(steps) + 1 /\ pos \in pos - 1..Len(steps) /\ k = pos - pos + 1
  BY <1>1, <1>2
<1>5. Replaces(S, pos, pos, z, k, e)
  BY <1>2, <1>3, <1>4 DEF Replaces
<1>6. /\ Len(e) = n - 1
      /\ \A i \in 1..Len(steps) - 1 : e[i] = IF i < pos THEN steps[i] ELSE steps[i + 1]
  BY <1>2, <1>5, ErasedElements
<1>7. pos - 1 \in 1..Len(steps) - 1 /\ pos - 1 < pos
  BY <1>1
<1>8. e \in Seq(S)
  BY <1>2, <1>3, <1>4, SplicedWithin
<1> QED BY <1>6, <1>7, <1>8 DEF Prev

Changed(e, j, m, new) == new = [e EXCEPT ![j] = m]

LEMMA ElementReplaced ==
  ASSUME NEW S, NEW e, NEW j, NEW m, NEW new, Changed(e, j, m, new),
         e \in Seq(S), j \in 1..Len(e), m \in S
  PROVE  /\ new \in Seq(S) /\ Len(new) = Len(e)
         /\ \A i \in 1..Len(e) : new[i] = IF i = j THEN m ELSE e[i]
BY DEF Changed

LEMMA ChangedErased ==
  ASSUME NEW S, NEW m \in S, NEW new, steps \in Seq(S), pos \in 2..Len(steps),
         Changed(EraseCur, pos - 1, m, new)
  PROVE  new = Splice(pos - 1, pos, <<m>>)
<1> DEFINE e == EraseCur
           j == pos - 1
<1>1. e \in Seq(S) /\ Len(e) = Len(steps) - 1 /\ j \in 1..Len(steps) - 1
  BY ErasedIs
<1>2. Changed(e, j, m, new)
  OBVIOUS
<1>e. e = EraseCur /\ j = pos - 1
  OBVIOUS
<1> HIDE DEF e, j
<1>3. j \in 1..Len(e)
  BY <1>1
<1>4. /\ new \in Seq(S) /\ Len(new) = Len(e)
      /\ \A i \in 1..Len(e) : new[i] = IF i = j THEN m ELSE e[i]
  BY <1>1, <1>2, <1>3, ElementReplaced
<1>5. /\ Len(new) = Len(steps) - 1
      /\ \A i \in 1..Len(new) : new[i] = IF i = pos - 1 THEN m ELSE EraseCur[i]
  BY <1>1, <1>4, <1>e
<1> QED BY <1>4, <1>5, ErasedAndChanged

LEMMA MergeAxesKept ==
  ASSUME InList, MergeAxes
  PROVE  Kept(steps, steps')
<1> DEFINE m == MergedAxes(Prev, Cur)
<1>1. Merging /\ AxesMerge(Prev, Cur) /\ steps' = [EraseCur EXCEPT ![pos - 1] = m]
  BY DEF MergeAxes
<1>2. IsStep(Prev) /\ IsStep(Cur)
  BY <1>1, MergeRange, PairIs
<1>3. /\ IsStep(m) /\ Reversible(m) /\ Reversible(Prev) /\ Reversible(Cur)
      /\ \A x \in Between : Fwd(Cur, Fwd(Prev, x)) = Fwd(m, x)
  BY <1>1, <1>2, AxesMerged
<1>4. m.inv = FALSE
  BY DEF MergedAxes, Step
<1> HIDE DEF m
<1>5. m \in SettledSteps
  BY <1>3, <1>4, SettledAre DEF Settled
<1>6. pos \in 2..Len(steps) /\ steps \in Seq(SettledSteps)
  BY <1>1, MergeRange
<1>7. steps' = Splice(pos - 1, pos, <<m>>)
  BY <1>1, <1>5, <1>6, ChangedErased DEF Changed
<1> QED BY <1>3, <1>4, <1>6, <1>7, PairMergedKept

LEMMA SumTranslationsKept ==
  ASSUME InList, SumTranslations
  PROVE  Kept(steps, steps')
<1> DEFINE n == Sum(Prev, Cur)
           e == EraseCur
           j == pos - 1
           q == [Prev EXCEPT !.inv = FALSE, !.par.t = n]
           m == [name |-> "helmert", inv |-> FALSE,
                 par |-> [t |-> n, r |-> 0, convention |-> "none"], omit |-> "none"]
<1>1. /\ Merging /\ BothTranslations(Prev, Cur)
      /\ steps' = [e EXCEPT ![j].inv = FALSE, ![j].par.t = n]
  BY DEF SumTranslations
<1>2. IsStep(Prev) /\ IsStep(Cur)
  BY <1>1, MergeRange, PairIs
<1>3. /\ IsStep(m) /\ Reversible(m) /\ Reversible(Prev) /\ Reversible(Cur)
      /\ \A x \in Between : Fwd(Cur, Fwd(Prev, x)) = Fwd(m, x)
  BY <1>1, <1>2, TranslationsSummed
<1>4. m.inv = FALSE /\ q = m
  BY <1>1, <1>2, SummedIs
<1>6. pos \in 2..Len(steps) /\ steps \in Seq(SettledSteps)
  BY <1>1, MergeRange
<1>8. e \in Seq(SettledSteps) /\ Len(e) = Len(steps) - 1 /\ j \in 1..Len(steps) - 1 /\ e[j] = Prev
  BY <1>6, ErasedIs
<1>q. q = [Prev EXCEPT !.inv = FALSE, !.par.t = n]
  OBVIOUS
<1>e. e = EraseCur /\ j = pos - 1
  OBVIOUS
<1> HIDE DEF m, q, e, j, n
<1>9. [e EXCEPT ![j].inv = FALSE, ![j].par.t = n] = [e EXCEPT ![j] = q]
  <2>1. DOMAIN e = 1..Len(e) /\ j \in DOMAIN e
    BY <1>8
  <2> HIDE DEF e
  <2> QED BY <1>8, <1>q, <2>1
<1>5. m \in SettledSteps
  BY <1>3, <1>4, SettledAre DEF Settled
<1>7. steps' = Splice(pos - 1, pos, <<m>>)
  BY <1>1, <1>4, <1>5, <1>6, <1>9, <1>e, ChangedErased DEF Changed
<1> QED BY <1>3, <1>4, <1>6, <1>7, PairMergedKept

LEMMA OneOfPair ==
  ASSUME NEW p, NEW c, NEW s, IsStep(p), IsStep(c), IsStep(s),
         \A x \in Between : Fwd(c, Fwd(p, x)) = Fwd(s, x) /\ Rev(p, Rev(c, x)) = Rev(s, x),
         NEW w \in Seq(Steps), Len(w) = 2, w[1] = p, w[2] = c
  PROVE  Same(w, <<s>>)
<1>1. \A x : /\ RunForward(w, x) = Fwd(c, Fwd(p, x))
             /\ RunReverse(w, x) = Rev(p, Rev(c, x))
  BY PairRuns
<1>2. \A x : RunForward(<<s>>, x) = Fwd(s, x) /\ RunReverse(<<s>>, x) = Rev(s, x)
  BY ListOfOne
<1> QED BY <1>1, <1>2 DEF Same, SameForward, SameReverse

LEMMA DropSetKept ==
  ASSUME InList, DropSet
  PROVE  Kept(steps, steps')
<1>1. Merging
  BY DEF DropSet
<1>2. pos \in 2..Len(steps) /\ steps \in Seq(SettledSteps)
  BY <1>1, MergeRange
<1>3. IsStep(Prev) /\ IsStep(Cur) /\ Prev \in SettledSteps /\ Cur \in SettledSteps
  BY <1>2, PairIs
<1>4. CASE SetMakesOmitFwdUseless(Prev, Cur) /\ steps' = EraseCur
  <2>1. \A x \in Between : Fwd(Cur, Fwd(Prev, x)) = Fwd(Prev, x) /\ Rev(Prev, Rev(Cur, x)) = Rev(Prev, x)
    BY <1>3, <1>4, SetsMerged
  <2>2. \A w \in Seq(Steps) : Len(w) = 2 /\ w[1] = Prev /\ w[2] = Cur => Same(w, <<Prev>>)
    BY <1>3, <2>1, OneOfPair
  <2> DEFINE e == EraseCur
  <2>3. e \in Seq(SettledSteps) /\ Len(e) = Len(steps) - 1 /\ e[pos - 1] = Prev
    BY <1>2, ErasedIs
  <2>4. \A i \in 1..Len(e) : e[i] = IF i = pos - 1 THEN Prev ELSE EraseCur[i]
    BY <2>3
  <2> HIDE DEF e
  <2>5. e = Splice(pos - 1, pos, <<Prev>>)
    BY <1>2, <1>3, <2>3, <2>4, ErasedAndChanged
  <2>6. <<Prev>> \in Seq(SettledSteps)
    BY <1>3, OfOne
  <2>7. Kept(steps, e)
    BY <1>2, <2>2, <2>5, <2>6, PairKept
  <2> QED BY <1>4, <2>7 DEF e
<1>5. CASE SetMakesOmitInvUseless(Prev, Cur) /\ steps' = Splice(pos - 1, pos, <<Cur>>)
  <2>1. \A x \in Between : Fwd(Cur, Fwd(Prev, x)) = Fwd(Cur, x) /\ Rev(Prev, Rev(Cur, x)) = Rev(Cur, x)
    BY <1>3, <1>5, SetsMerged
  <2>2. \A w \in Seq(Steps) : Len(w) = 2 /\ w[1] = Prev /\ w[2] = Cur => Same(w, <<Cur>>)
    BY <1>3, <2>1, OneOfPair
  <2>3. <<Cur>> \in Seq(SettledSteps)
    BY <1>3, OfOne
  <2> QED BY <1>2, <1>5, <2>2, <2>3, PairKept
<1> QED BY <1>4, <1>5 DEF DropSet, ReplacePrevAndCur

LEMMA PairSettled ==
  ASSUME NEW a \in SettledSteps, NEW b \in SettledSteps
  PROVE  <<a, b>> \in Seq(SettledSteps)
OBVIOUS

LEMMA SwapUnitsAndAxesKept ==
  ASSUME InList, SwapUnitsAndAxes
  PROVE  Kept(steps, steps')
<1>1. Merging /\ Prev.name = "unitconvert" /\ Is21(Cur) /\ steps' = Splice(pos - 1, pos, <<Cur, Prev>>)
  BY DEF SwapUnitsAndAxes, UnitsAxesUnits
<1>2. pos \in 2..Len(steps) /\ steps \in Seq(SettledSteps)
  BY <1>1, MergeRange
<1>3. Prev \in SettledSteps /\ Cur \in SettledSteps
  BY <1>2, PairIs
<1>4. \A w \in Seq(Steps) : Len(w) = 2 /\ w[1] = Prev /\ w[2] = Cur => Same(w, <<Cur, Prev>>)
  <2>1. SUFFICES ASSUME NEW w \in Seq(Steps), Len(w) = 2, w[1] = Prev, w[2] = Cur
                 PROVE  Same(w, <<Cur, Prev>>)
    OBVIOUS
  <2>2. Same(w, <<w[2], w[1]>>)
    BY <1>1, <2>1, UnitsAndAxesSwapped
  <2> QED BY <2>1, <2>2
<1>5. <<Cur, Prev>> \in Seq(SettledSteps)
  BY <1>3, PairSettled
<1> QED BY <1>1, <1>2, <1>4, <1>5, PairKept

LEMMA ThreeIs ==
  ASSUME steps \in Seq(SettledSteps), pos \in 2..Len(steps) - 1,
         NEW w, IsPart(w, pos - 1, pos + 1)
  PROVE  /\ w \in Seq(Steps) /\ Len(w) = 3 /\ w[1] = Prev /\ w[2] = Cur /\ w[3] = Following
         /\ Prev \in SettledSteps /\ Cur \in SettledSteps /\ Following \in SettledSteps
         /\ pos - 1 \in 1..Len(steps) + 1 /\ pos + 1 \in pos - 1 - 1..Len(steps)
<1> DEFINE f == pos - 1
           t == pos + 1
<1>1. /\ f \in 1..Len(steps) + 1 /\ t \in f - 1..Len(steps)
      /\ t - f + 1 = 3 /\ f + 1 - 1 = pos - 1 /\ f + 2 - 1 = pos /\ f + 3 - 1 = pos + 1
      /\ pos - 1 \in 1..Len(steps) /\ pos \in 1..Len(steps) /\ pos + 1 \in 1..Len(steps)
      /\ f = pos - 1 /\ t = pos + 1
  OBVIOUS
<1>0. IsPart(w, f, t)
  OBVIOUS
<1> HIDE DEF f, t
<1>2. /\ w \in Seq(Steps) /\ Len(w) = t - f + 1
      /\ \A i \in 1..t - f + 1 : w[i] = steps[f + i - 1]
  BY <1>0, <1>1, PartOf
<1>3. Len(w) = 3 /\ w[1] = steps[f + 1 - 1] /\ w[2] = steps[f + 2 - 1] /\ w[3] = steps[f + 3 - 1]
  BY <1>1, <1>2
<1>4. steps[pos - 1] \in SettledSteps /\ steps[pos] \in SettledSteps /\ steps[pos + 1] \in SettledSteps
  BY <1>1, ElementOfSeq
<1>5. pos - 1 \in 1..Len(steps) + 1 /\ pos + 1 \in pos - 1 - 1..Len(steps)
  BY <1>1
<1> QED BY <1>1, <1>2, <1>3, <1>4, <1>5 DEF Prev, Cur, Following

LEMMA DropAxesAroundUnitsKept ==
  ASSUME InList, DropAxesAroundUnits
  PROVE  Kept(steps, steps')
<1>1. /\ Merging /\ pos < Len(steps) /\ Is21(Prev) /\ Cur.name = "unitconvert" /\ Is21(Following)
      /\ steps' = Splice(pos - 1, pos + 1, <<Cur>>)
  BY DEF DropAxesAroundUnits, AxesUnitsAxes, HasNext
<1>2. pos \in 2..Len(steps) - 1 /\ steps \in Seq(SettledSteps)
  BY <1>1, MergeRange
<1> DEFINE w == SubSeq(steps, pos - 1, pos + 1)
<1>3. /\ w \in Seq(Steps) /\ Len(w) = 3 /\ w[1] = Prev /\ w[2] = Cur /\ w[3] = Following
      /\ Cur \in SettledSteps
      /\ pos - 1 \in 1..Len(steps) + 1 /\ pos + 1 \in pos - 1 - 1..Len(steps)
  BY <1>2, ThreeIs DEF IsPart
<1>4. Same(w, <<Cur>>)
  <2> HIDE DEF w
  <2>1. Same(w, <<w[2]>>)
    BY <1>1, <1>3, AxesAroundUnitsDropped
  <2> QED BY <1>3, <2>1
<1>5. <<Cur>> \in Seq(SettledSteps)
  BY <1>3, OfOne
<1> QED BY <1>1, <1>2, <1>3, <1>4, <1>5, SpliceKept

-----------------------------------------------------------------------------
(* The last two loops, rule by rule.                                       *)

LEMMA GridRange ==
  ASSUME InList, Gridding, NEW k \in 2..9, Reaches(k)
  PROVE  /\ pos \in Nat /\ pos >= 2 /\ Len(steps) \in Nat /\ pos - 2 + k <= Len(steps)
         /\ steps \in Seq(SettledSteps)
<1>1. Len(steps) \in Nat
  BY DEF InList
<1> QED BY <1>1 DEF InList, Gridding, Reaches

LEMMA PartFrom ==
  ASSUME NEW from \in Int, NEW to \in Int, NEW w, IsPart(w, from, to),
         steps \in Seq(SettledSteps), from \in 1..Len(steps) + 1, to \in from - 1..Len(steps)
  PROVE  /\ w \in Seq(Steps) /\ Len(w) = to - from + 1
         /\ \A i \in 1..to - from + 1 : w[i] = steps[from + i - 1]
BY PartOf

LEMMA WindowIs ==
  ASSUME InList, Gridding, NEW k \in 2..9, Reaches(k), NEW t \in Int, t - k = pos - 2,
         NEW w, IsPart(w, pos - 1, t)
  PROVE  /\ w \in Seq(Steps) /\ Len(w) = k
         /\ \A i \in 1..k : w[i] = Window(i) /\ w[i] \in SettledSteps
         /\ pos - 1 \in 1..Len(steps) + 1 /\ t \in pos - 1 - 1..Len(steps)
<1> DEFINE f == pos - 1
<1>1. /\ pos \in Nat /\ pos >= 2 /\ Len(steps) \in Nat /\ pos - 2 + k <= Len(steps)
      /\ steps \in Seq(SettledSteps)
  BY GridRange
<1>2. /\ f \in 1..Len(steps) + 1 /\ t \in f - 1..Len(steps) /\ t - f + 1 = k
      /\ \A i \in 1..k : f + i - 1 = pos - 2 + i /\ f + i - 1 \in 1..Len(steps)
  BY <1>1
<1>3. IsPart(w, f, t)
  OBVIOUS
<1>f. f = pos - 1
  OBVIOUS
<1> HIDE DEF f
<1>4. /\ w \in Seq(Steps) /\ Len(w) = t - f + 1
      /\ \A i \in 1..t - f + 1 : w[i] = steps[f + i - 1]
  <2>1. f \in 1..Len(steps) + 1 /\ t \in f - 1..Len(steps)
    BY <1>2
  <2> QED BY <1>1, <1>3, <2>1, PartFrom
<1>5. \A i \in 1..k : w[i] = steps[f + i - 1]
  BY <1>2, <1>4
<1>6. ASSUME NEW i \in 1..k PROVE w[i] = Window(i) /\ w[i] \in SettledSteps
  <2>1. steps[f + i - 1] \in SettledSteps
    BY <1>1, <1>2, ElementOfSeq
  <2>2. w[i] = steps[f + i - 1] /\ f + i - 1 = pos - 2 + i
    BY <1>2, <1>5
  <2> QED BY <2>1, <2>2 DEF Window
<1>7. Len(w) = k
  BY <1>2, <1>4
<1> QED BY <1>2, <1>4, <1>6, <1>7, <1>f

LEMMA NotTurned ==
  ASSUME NEW s \in SettledSteps
  PROVE  /\ IsStep(s)
         /\ RadToDeg(s) \/ DegToRad(s) \/ PushXY(s) \/ PopXY(s) => ~s.inv
BY SettledAre DEF Settled, NotInverted, RadToDeg, DegToRad, PushXY, PopXY, Is

LEMMA ListOfThree ==
  ASSUME NEW S, NEW a \in S, NEW b \in S, NEW c \in S
  PROVE  <<a, b, c>> \in Seq(S)
OBVIOUS

LEMMA ListOfFour ==
  ASSUME NEW S, NEW a \in S, NEW b \in S, NEW c \in S, NEW d \in S
  PROVE  <<a, b, c, d>> \in Seq(S)
OBVIOUS

LEMMA DropConversionsKept ==
  ASSUME InList, DropConversions
  PROVE  Kept(steps, steps')
<1> DEFINE t == pos + 7
           w == SubSeq(steps, pos - 1, t)
           m == <<Window(6), Window(7), Window(8)>>
<1>1. Gridding /\ SavedAroundVertical /\ Reaches(9) /\ steps' = Splice(pos - 1, t, m)
  BY DEF DropConversions, SavedAroundVertical
<1>2. t \in Int /\ t - 9 = pos - 2 /\ IsPart(w, pos - 1, t) /\ 9 \in 2..9
  BY DEF InList, IsPart
<1>w. w = SubSeq(steps, pos - 1, t)
  OBVIOUS
<1> HIDE DEF t, w
<1>3. /\ w \in Seq(Steps) /\ Len(w) = 9
      /\ \A i \in 1..9 : w[i] = Window(i) /\ w[i] \in SettledSteps
      /\ pos - 1 \in 1..Len(steps) + 1 /\ t \in pos - 1 - 1..Len(steps)
  BY <1>1, <1>2, WindowIs
<1>4. /\ w[1] = Window(1) /\ w[2] = Window(2) /\ w[3] = Window(3) /\ w[4] = Window(4)
      /\ w[5] = Window(5) /\ w[6] = Window(6) /\ w[7] = Window(7) /\ w[8] = Window(8)
      /\ w[9] = Window(9)
      /\ w[1] \in SettledSteps /\ w[3] \in SettledSteps /\ w[5] \in SettledSteps
      /\ w[6] \in SettledSteps /\ w[7] \in SettledSteps /\ w[8] \in SettledSteps
      /\ w[9] \in SettledSteps
  BY <1>3
<1>5. /\ RadToDeg(w[1]) /\ Is21(w[2]) /\ PushXY(w[3])
      /\ Is21(w[4]) /\ DegToRad(w[5]) /\ IsVertical(w[6])
      /\ RadToDeg(w[7]) /\ Is21(w[8]) /\ PopXY(w[9])
  BY <1>1, <1>4 DEF SavedAroundVertical
<1>6. SavedList(w)
  BY <1>4, <1>5, NotTurned DEF SavedList
<1>7. m = <<w[6], w[7], w[8]>>
  BY <1>4
<1>8. m \in Seq(SettledSteps)
  BY <1>4, <1>7, ListOfThree
<1> HIDE DEF m
<1>9. Same(w, m)
  BY <1>3, <1>6, <1>7, ConversionsDropped
<1> QED BY <1>1, <1>3, <1>8, <1>9, <1>w, SpliceKept DEF InList

\* Forward only: in the other direction the vertical shift is applied to the
\* coordinates that were saved, and not to those that lead to them.
LEMMA MoveVerticalKept ==
  ASSUME InList, MoveVerticalAfterPush
  PROVE  steps' \in Seq(SettledSteps) /\ SameForward(steps, steps')
<1> DEFINE t == pos + 6
           w == SubSeq(steps, pos - 1, t)
           m == <<Window(6), Window(7), Window(8), Window(3)>>
<1>1. Gridding /\ VerticalBeforePush /\ Reaches(8) /\ steps' = Splice(pos - 1, t, m)
  BY DEF MoveVerticalAfterPush, VerticalBeforePush
<1>2. t \in Int /\ t - 8 = pos - 2 /\ IsPart(w, pos - 1, t) /\ 8 \in 2..9
  BY DEF InList, IsPart
<1>w. w = SubSeq(steps, pos - 1, t)
  OBVIOUS
<1> HIDE DEF t, w
<1>3. /\ w \in Seq(Steps) /\ Len(w) = 8
      /\ \A i \in 1..8 : w[i] = Window(i) /\ w[i] \in SettledSteps
      /\ pos - 1 \in 1..Len(steps) + 1 /\ t \in pos - 1 - 1..Len(steps)
  BY <1>1, <1>2, WindowIs
<1>4. /\ w[1] = Window(1) /\ w[2] = Window(2) /\ w[3] = Window(3) /\ w[4] = Window(4)
      /\ w[5] = Window(5) /\ w[6] = Window(6) /\ w[7] = Window(7) /\ w[8] = Window(8)
      /\ w[2] \in SettledSteps /\ w[3] \in SettledSteps /\ w[4] \in SettledSteps
      /\ w[6] \in SettledSteps /\ w[7] \in SettledSteps /\ w[8] \in SettledSteps
  BY <1>3
<1>5. /\ Is21(w[1]) /\ DegToRad(w[2]) /\ IsVertical(w[3])
      /\ RadToDeg(w[4]) /\ Is21(w[5]) /\ PushXY(w[6])
      /\ Is21(w[7]) /\ DegToRad(w[8])
  BY <1>1, <1>4 DEF VerticalBeforePush
<1>6. MovedList(w)
  BY <1>4, <1>5, NotTurned DEF MovedList
<1>7. m = <<w[6], w[7], w[8], w[3]>>
  BY <1>4
<1>8. m \in Seq(SettledSteps)
  BY <1>4, <1>7, ListOfFour
<1> HIDE DEF m
<1>9. SameForward(w, m)
  BY <1>3, <1>6, <1>7, VerticalMoved
<1>10. steps \in Seq(SettledSteps) /\ steps \in Seq(Steps) /\ m \in Seq(Steps)
  BY <1>8, SettledAre DEF InList
<1>11. Splice(pos - 1, t, m) \in Seq(SettledSteps)
  BY <1>3, <1>8, <1>10, SplicedWithin
<1>12. SameForward(steps, Splice(pos - 1, t, m))
  BY <1>3, <1>9, <1>10, <1>w, SplicedMeans
<1> QED BY <1>1, <1>11, <1>12

LEMMA ListOfFive ==
  ASSUME NEW S, NEW a \in S, NEW b \in S, NEW c \in S, NEW d \in S, NEW e \in S
  PROVE  <<a, b, c, d>> \o <<e>> \in Seq(S)
<1> DEFINE l == <<a, b, c, d>>
           z == <<e>>
<1>1. l \in Seq(S) /\ z \in Seq(S)
  OBVIOUS
<1> HIDE DEF l, z
<1>2. l \o z \in Seq(S)
  BY <1>1, ConcatProperties
<1> QED BY <1>2 DEF l, z

LEMMA SettledSurroundings ==
  ASSUME NEW p, NEW f, IsStep(p), IsStep(f), p.name = "hgridshift", p.omit = "none",
         f.name = "hgridshift", f.omit = "none"
  PROVE  /\ Step("push", Horizontal) \in SettledSteps /\ Step("pop", Horizontal) \in SettledSteps
         /\ OmittedInInverse(p) \in SettledSteps /\ OmittedForward(f) \in SettledSteps
<1>1. Step("push", Horizontal) \in SettledSteps /\ Step("pop", Horizontal) \in SettledSteps
  <2>1. /\ IsStep(Step("push", Horizontal)) /\ Step("push", Horizontal).inv = FALSE
        /\ IsStep(Step("pop", Horizontal)) /\ Step("pop", Horizontal).inv = FALSE
    BY StackSteps DEF Step
  <2> QED BY <2>1, SettledAre DEF Settled
<1> DEFINE u == [p EXCEPT !.omit = "inv"]
           v == [f EXCEPT !.omit = "fwd"]
<1>2. /\ IsStep(u) /\ u.name = "hgridshift"
      /\ IsStep(v) /\ v.name = "hgridshift"
  <2>1. "inv" \in Omits /\ "fwd" \in Omits
    BY DEF Omits
  <2> QED BY <2>1, GridOf
<1>3. OmittedInInverse(p) = u /\ OmittedForward(f) = v
  BY DEF OmittedInInverse, OmittedForward
<1> HIDE DEF u, v
<1>4. u \in SettledSteps /\ v \in SettledSteps
  BY <1>2, SettledAre DEF Settled, NotInverted
<1> QED BY <1>1, <1>3, <1>4

LEMMA SaveAroundShiftKept ==
  ASSUME InList, SaveAroundShift
  PROVE  Kept(steps, steps')
<1> DEFINE m == <<Step("push", Horizontal), OmittedInInverse(Prev), Cur,
                  OmittedForward(Following)>> \o <<Step("pop", Horizontal)>>
           w == SubSeq(steps, pos - 1, pos + 1)
<1>1. Gridding /\ ShiftedHeight /\ Reaches(3) /\ steps' = Splice(pos - 1, pos + 1, m)
  BY DEF SaveAroundShift, ShiftedHeight, Restored
<1>2. pos \in 2..Len(steps) - 1 /\ steps \in Seq(SettledSteps)
  <2>1. 3 \in 2..9
    OBVIOUS
  <2>2. /\ pos \in Nat /\ pos >= 2 /\ Len(steps) \in Nat /\ pos - 2 + 3 <= Len(steps)
        /\ steps \in Seq(SettledSteps)
    BY <1>1, <2>1, GridRange
  <2> QED BY <2>2
<1>3. /\ w \in Seq(Steps) /\ Len(w) = 3 /\ w[1] = Prev /\ w[2] = Cur /\ w[3] = Following
      /\ Prev \in SettledSteps /\ Cur \in SettledSteps /\ Following \in SettledSteps
      /\ pos - 1 \in 1..Len(steps) + 1 /\ pos + 1 \in pos - 1 - 1..Len(steps)
  BY <1>2, ThreeIs DEF IsPart
<1>4. /\ Prev.name = "hgridshift" /\ Prev.omit = "none" /\ IsVertical(Cur)
      /\ Following.name = "hgridshift" /\ Following.inv # Prev.inv
      /\ Following.omit = "none" /\ Following.par = Prev.par
  BY <1>1 DEF ShiftedHeight
<1>w. w = SubSeq(steps, pos - 1, pos + 1)
  OBVIOUS
<1>m. m = <<Step("push", Horizontal), OmittedInInverse(Prev), Cur,
            OmittedForward(Following)>> \o <<Step("pop", Horizontal)>>
  OBVIOUS
<1> HIDE DEF w, m
<1>5. m \in Seq(SettledSteps)
  <2>1. IsStep(Prev) /\ IsStep(Following)
    BY <1>3, SettledAre
  <2>2. /\ Step("push", Horizontal) \in SettledSteps /\ Step("pop", Horizontal) \in SettledSteps
        /\ OmittedInInverse(Prev) \in SettledSteps /\ OmittedForward(Following) \in SettledSteps
    BY <1>4, <2>1, SettledSurroundings
  <2> QED BY <1>3, <1>m, <2>2, ListOfFive
<1>6. Same(w, m)
  <2>1. m = <<Step("push", Horizontal), OmittedInInverse(w[1]), w[2],
              OmittedForward(w[3])>> \o <<Step("pop", Horizontal)>>
    BY <1>3, <1>m
  <2> QED BY <1>3, <1>4, <2>1, ShiftSaved
<1> QED BY <1>1, <1>2, <1>3, <1>5, <1>6, <1>w, SpliceKept

LEMMA CancelUndoneKept ==
  ASSUME InList, CancelUndone
  PROVE  Kept(steps, steps')
<1>1. Cancelling /\ Cancels(Prev, Cur) /\ steps' = Splice(pos - 1, pos, <<>>)
  BY DEF CancelUndone, DeletePrevAndCur
<1>2. pos \in 2..Len(steps) /\ steps \in Seq(SettledSteps)
  BY <1>1 DEF InList, Cancelling
<1>3. /\ IsStep(Prev) /\ IsStep(Cur) /\ Settled(Prev) /\ Settled(Cur)
  BY <1>2, PairIs
<1>4. CASE Is21(Prev) /\ Is21(Cur)
  <2>1. Undone(Prev, Cur)
    BY <1>4 DEF Undone, AxesUndone
  <2>2. Prev.name = "axisswap"
    BY <1>4 DEF Is21, IsAxisSwap
  <2> QED BY <1>1, <1>2, <2>1, <2>2, PairErasedKept
<1>5. CASE StepUndone(Prev, Cur)
  <2>1. Prev.name \notin {"push", "pop", "set"}
    <3>1. Prev.inv # Cur.inv /\ Prev.name = Cur.name /\ Prev.inv \in BOOLEAN /\ Cur.inv \in BOOLEAN
      BY <1>3, <1>5 DEF StepUndone, IsStep
    <3>2. Prev.inv \/ Cur.inv
      BY <3>1
    <3> QED BY <1>3, <3>1, <3>2 DEF Settled, NotInverted
  <2>2. \A x \in Between : Fwd(Cur, Fwd(Prev, x)) = x /\ Rev(Prev, Rev(Cur, x)) = x
    BY <1>3, <1>5, <2>1, StepCancels
  <2>3. \A w \in Seq(Steps) : Len(w) = 2 /\ w[1] = Prev /\ w[2] = Cur => Same(w, <<>>)
    BY <1>3, <2>2, PairGone
  <2>4. <<>> \in Seq(SettledSteps)
    OBVIOUS
  <2> QED BY <1>1, <1>2, <2>3, <2>4, PairKept
<1> QED BY <1>1, <1>4, <1>5 DEF Cancels

-----------------------------------------------------------------------------
(* The list inverted between startInversion and stopInversion.             *)

LEMMA FlipTwice ==
  ASSUME NEW s, IsStep(s)
  PROVE  Flip(Flip(s)) = s
<1>1. s \in [name : Names, inv : BOOLEAN, par : Parameters(s.name), omit : Omits]
  BY DEF IsStep
<1>2. s = [name |-> s.name, inv |-> s.inv, par |-> s.par, omit |-> s.omit]
  BY <1>1, RecordOf
<1>3. s.inv \in BOOLEAN /\ s.omit \in Omits
  BY <1>1
<1> DEFINE f == Flip(s)
<1>4. f.name = s.name /\ f.inv = ~s.inv /\ f.par = s.par /\ f.omit = OtherOmit(s.omit)
  BY DEF Flip
<1>5. Flip(f) = [name |-> f.name, inv |-> ~f.inv, par |-> f.par, omit |-> OtherOmit(f.omit)]
  BY DEF Flip
<1> HIDE DEF f
<1>6. (~f.inv) = s.inv
  BY <1>3, <1>4
<1>7. OtherOmit(f.omit) = s.omit
  BY <1>3, <1>4 DEF Omits, OtherOmit
<1>8. Flip(f) = s
  BY <1>2, <1>4, <1>5, <1>6, <1>7
<1> QED BY <1>8 DEF f

LEMMA FlippedElements ==
  ASSUME NEW list \in Seq(Steps)
  PROVE  /\ Len(Flipped(list)) = Len(list)
         /\ \A n \in 1..Len(list) : Flipped(list)[n] = Flip(list[Len(list) + 1 - n])
<1>1. Len(list) \in Nat
  BY StepsOf
<1>2. Flipped(list) \in Seq(Steps) /\ DOMAIN Flipped(list) = 1..Len(list)
  BY FlippedSteps DEF Flipped
<1>3. Len(Flipped(list)) = Len(list)
  BY <1>1, <1>2
<1> QED BY <1>3 DEF Flipped

LEMMA FlippedTwice ==
  ASSUME NEW list \in Seq(Steps)
  PROVE  Flipped(Flipped(list)) = list
<1> DEFINE N == Len(list)
           f == Flipped(list)
           g == Flipped(f)
<1>1. N \in Nat /\ \A i \in 1..N : IsStep(list[i])
  BY StepsOf
<1>2. f \in Seq(Steps) /\ Len(f) = N /\ \A n \in 1..N : f[n] = Flip(list[N + 1 - n])
  BY FlippedSteps, FlippedElements
<1> HIDE DEF f
<1>3. g \in Seq(Steps) /\ Len(g) = N /\ \A n \in 1..N : g[n] = Flip(f[N + 1 - n])
  <2>1. g \in Seq(Steps) /\ Len(g) = Len(f) /\ \A n \in 1..Len(f) : g[n] = Flip(f[Len(f) + 1 - n])
    BY <1>2, FlippedSteps, FlippedElements
  <2> HIDE DEF g
  <2> QED BY <1>2, <2>1
<1> HIDE DEF g
<1>4. ASSUME NEW n \in 1..N PROVE g[n] = list[n]
  <2>1. N + 1 - n \in 1..N /\ N + 1 - (N + 1 - n) = n
    BY <1>1
  <2>2. f[N + 1 - n] = Flip(list[N + 1 - (N + 1 - n)])
    BY <1>2, <2>1
  <2>3. g[n] = Flip(Flip(list[n]))
    BY <1>3, <2>1, <2>2
  <2> QED BY <1>1, <2>3, FlipTwice
<1>5. g = list
  BY <1>3, <1>4, SameLists
<1> QED BY <1>5 DEF f, g

LEMMA InvAndOmitReplaced ==
  ASSUME NEW A, NEW B, NEW C, NEW D, NEW p \in [name : A, inv : B, par : C, omit : D],
         NEW j \in B, NEW k \in D
  PROVE  LET q == [p EXCEPT !.inv = j, !.omit = k]
         IN  q \in [name : A, inv : B, par : C, omit : D]
             /\ q.name = p.name /\ q.inv = j /\ q.par = p.par /\ q.omit = k
OBVIOUS

LEMMA FlipIsExcept ==
  ASSUME NEW s, IsStep(s)
  PROVE  [s EXCEPT !.inv = ~@, !.omit = OtherOmit(@)] = Flip(s)
<1> DEFINE j == ~s.inv
           k == OtherOmit(s.omit)
           q == [s EXCEPT !.inv = j, !.omit = k]
<1>1. s \in [name : Names, inv : BOOLEAN, par : Parameters(s.name), omit : Omits]
  BY DEF IsStep
<1>2. j \in BOOLEAN
  OBVIOUS
<1>3. k \in Omits
  BY <1>1 DEF Omits, OtherOmit
<1>4. [s EXCEPT !.inv = ~@, !.omit = OtherOmit(@)] = q
  OBVIOUS
<1>5. Flip(s) = [name |-> s.name, inv |-> j, par |-> s.par, omit |-> k]
  BY DEF Flip
<1> HIDE DEF j, k
<1>6. /\ q \in [name : Names, inv : BOOLEAN, par : Parameters(s.name), omit : Omits]
      /\ q.name = s.name /\ q.inv = j /\ q.par = s.par /\ q.omit = k
  BY <1>1, <1>2, <1>3, InvAndOmitReplaced
<1> HIDE DEF q
<1>7. q = [name |-> q.name, inv |-> q.inv, par |-> q.par, omit |-> q.omit]
  BY <1>6, RecordOf
<1> QED BY <1>4, <1>5, <1>6, <1>7

LEMMA InvertedIs ==
  ASSUME NEW list \in Seq(Steps)
  PROVE  Inverted(list) = Flipped(list)
<1> DEFINE N == Len(list)
           f == [n \in 1..N |-> [list[n] EXCEPT !.inv = ~@, !.omit = OtherOmit(@)]]
<1>1. N \in Nat /\ \A i \in 1..N : IsStep(list[i])
  BY StepsOf
<1>2. \A n \in 1..N : [list[n] EXCEPT !.inv = ~@, !.omit = OtherOmit(@)] = Flip(list[n])
  BY <1>1, FlipIsExcept
<1>3. DOMAIN f = 1..N /\ \A n \in 1..N : f[n] = Flip(list[n])
  BY <1>1, <1>2
<1>4. Len(f) = N
  BY <1>1
<1>5. Inverted(list) = Reverse(f)
  BY DEF Inverted
<1> HIDE DEF f
<1>6. Reverse(f) = [i \in 1..N |-> f[(N - i) + 1]]
  BY <1>4 DEF Reverse
<1>7. ASSUME NEW n \in 1..N PROVE f[(N - n) + 1] = Flip(list[N + 1 - n])
  <2>1. (N - n) + 1 = N + 1 - n /\ N + 1 - n \in 1..N
    BY <1>1
  <2> QED BY <1>3, <2>1
<1>8. [i \in 1..N |-> f[(N - i) + 1]] = [n \in 1..N |-> Flip(list[N + 1 - n])]
  BY <1>7
<1> QED BY <1>5, <1>6, <1>8 DEF Flipped

LEMMA InvertedMeans ==
  ASSUME NEW list \in Seq(Steps), NEW c
  PROVE  /\ Inverted(list) \in Seq(Steps)
         /\ RunForward(Inverted(list), c) = RunReverse(list, c)
         /\ RunReverse(Inverted(list), c) = RunForward(list, c)
<1> DEFINE f == Flipped(list)
<1>1. Inverted(list) = f /\ f \in Seq(Steps) /\ Flipped(f) = list
  BY InvertedIs, FlippedSteps, FlippedTwice
<1>2. Len(list) \in Nat /\ \A n \in 1..Len(list) : list[n].inv \in BOOLEAN
  BY StepsOf
<1>3. RunReverse(list, c) = RunForward(f, c)
  BY <1>2, ReverseIsForwardOfFlipped
<1> HIDE DEF f
<1>4. Len(f) \in Nat /\ \A n \in 1..Len(f) : f[n].inv \in BOOLEAN
  BY <1>1, StepsOf
<1>5. RunReverse(f, c) = RunForward(Flipped(f), c)
  BY <1>4, ReverseIsForwardOfFlipped
<1> QED BY <1>1, <1>3, <1>5

-----------------------------------------------------------------------------
(* The first two loops.                                                    *)

LEMMA SameRefl ==
  ASSUME NEW a
  PROVE  Same(a, a)
BY DEF Same, SameForward, SameReverse

\* Before the second loop, the steps that were looked at are written forward if
\* they push or pop.
Seen == \A n \in 1..Len(steps) : n < pos /\ steps[n].name \in {"push", "pop"} => ~steps[n].inv

LEMMA RemoveStepKept ==
  ASSUME steps \in Seq(Steps), pos \in Nat, pos >= 1, Seen, RemoveStep
  PROVE  steps' \in Seq(Steps) /\ Same(steps, steps') /\ Seen'
<1>1. /\ pos \in 1..Len(steps) /\ DoesNothing(steps[pos]) /\ pos' = pos
      /\ steps' = RemoveAt(steps, pos) /\ Len(steps) \in Nat
  <2>1. Len(steps) \in Nat
    BY StepsOf
  <2> QED BY <2>1 DEF RemoveStep
<1> DEFINE z == <<>>
           k == 1
           w == SubSeq(steps, pos, pos)
<1>2. steps' = Splice(pos, pos, z) /\ z \in Seq(Steps) /\ Len(z) = 0
  BY <1>1, RemovedIs
<1>3. IsStep(steps[pos])
  BY <1>1, StepsOf
<1>4. pos \in 1..Len(steps) + 1 /\ pos \in pos - 1..Len(steps) /\ k = pos - pos + 1
  BY <1>1
<1>5. /\ w \in Seq(Steps) /\ Len(w) = pos - pos + 1
      /\ \A i \in 1..pos - pos + 1 : w[i] = steps[pos + i - 1]
  BY <1>4, Split
<1>6. Len(w) = 1 /\ w[1] = steps[pos] /\ w[1].inv \in BOOLEAN
  <2> HIDE DEF w
  <2>1. Len(w) = 1 /\ w[1] = steps[pos + 1 - 1] /\ pos + 1 - 1 = pos
    BY <1>1, <1>5
  <2>2. steps[pos].inv \in BOOLEAN
    BY <1>1, StepsOf
  <2> QED BY <2>1, <2>2
<1>7. Same(w, z)
  <2> HIDE DEF w
  <2>1. \A c \in Between : Fwd(w[1], c) = c /\ Rev(w[1], c) = c
    BY <1>1, <1>3, <1>6, DoingNothing
  <2> QED BY <1>6, <2>1, OneStep, NoStep DEF Same, SameForward, SameReverse
<1>8. Splice(pos, pos, z) \in Seq(Steps) /\ Same(steps, Splice(pos, pos, z))
  BY <1>2, <1>4, <1>7, SplicedMeans DEF Same
<1> HIDE DEF z, k, w
<1>9. Seen'
  <2> DEFINE new == Splice(pos, pos, z)
  <2>1. Replaces(Steps, pos, pos, z, k, new)
    BY <1>2, <1>4 DEF Replaces
  <2>2. steps' = new
    BY <1>2
  <2> HIDE DEF new
  <2>3. /\ Len(new) = Len(steps) - 1
        /\ \A i \in 1..Len(steps) - 1 : new[i] = IF i < pos THEN steps[i] ELSE steps[i + 1]
    BY <1>2, <2>1, ErasedElements
  <2>4. \A n \in 1..Len(new) : n < pos => new[n] = steps[n] /\ n \in 1..Len(steps)
    BY <1>1, <2>3
  <2>5. \A n \in 1..Len(new) : n < pos /\ new[n].name \in {"push", "pop"} => ~new[n].inv
    BY <2>4 DEF Seen
  <2> QED BY <1>1, <2>2, <2>5 DEF Seen
<1> QED BY <1>2, <1>8, <1>9

LEMMA KeepStepKept ==
  ASSUME steps \in Seq(Steps), pos \in Nat, pos >= 1, Seen, KeepStep
  PROVE  steps' \in Seq(Steps) /\ Same(steps, steps') /\ Seen'
<1> DEFINE r == Renamed(steps[pos])
           new == [steps EXCEPT ![pos] = r]
<1>1. /\ pos \in 1..Len(steps) /\ pos' = pos + 1 /\ steps' = new /\ Len(steps) \in Nat
      /\ \A n \in 1..Len(steps) : steps[n] \in Steps /\ IsStep(steps[n])
  <2>1. Len(steps) \in Nat /\ \A n \in 1..Len(steps) : steps[n] \in Steps /\ IsStep(steps[n])
    BY StepsOf
  <2> QED BY <2>1 DEF KeepStep
<1>2. /\ IsStep(r) /\ SameStep(steps[pos], r)
      /\ r.name \in {"push", "pop"} => ~r.inv
  BY <1>1, RenamedMeans
<1>3. r \in Steps
  BY <1>2, StepsAre
<1> HIDE DEF r
<1>4. /\ new \in Seq(Steps) /\ Len(new) = Len(steps)
      /\ \A n \in 1..Len(steps) : new[n] = IF n = pos THEN r ELSE steps[n]
  BY <1>1, <1>3
<1> HIDE DEF new
<1>5. \A n \in 1..Len(steps) : \A c \in Between :
        Fwd(steps[n], c) = Fwd(new[n], c) /\ Rev(steps[n], c) = Rev(new[n], c)
  BY <1>2, <1>4 DEF SameStep
<1>6. Same(steps, new)
  BY <1>4, <1>5, SameOneByOne
<1>7. \A n \in 1..Len(new) : n < pos + 1 /\ new[n].name \in {"push", "pop"} => ~new[n].inv
  BY <1>1, <1>2, <1>4 DEF Seen
<1> QED BY <1>1, <1>4, <1>6, <1>7 DEF Seen

LEMMA UninvertKept ==
  ASSUME steps \in Seq(Steps), pos \in Nat, Seen, Uninvert
  PROVE  Kept(steps, steps')
<1> DEFINE N == Len(steps)
           Row(n) == IF steps[n].inv THEN Uninverted(steps[n]) ELSE steps[n]
           new == [n \in 1..N |-> Row(n)]
<1>1. /\ N \in Nat /\ pos > N /\ steps' = new
      /\ \A n \in 1..N : steps[n] \in Steps /\ IsStep(steps[n])
  BY StepsOf DEF Uninvert
<1>2. ASSUME NEW n \in 1..N
      PROVE  IsStep(Row(n)) /\ SameStep(steps[n], Row(n)) /\ Settled(Row(n))
  <2>1. CASE steps[n].inv
    <3>1. steps[n].name \notin {"push", "pop"}
      BY <1>1, <2>1 DEF Seen
    <3> QED BY <1>1, <2>1, <3>1, UninvertedMeans
  <2>2. CASE ~steps[n].inv
    BY <1>1, <2>2 DEF Settled, SameStep
  <2> QED BY <2>1, <2>2
<1> HIDE DEF Row
<1>3. \A n \in 1..N : Row(n) \in Steps /\ Row(n) \in SettledSteps
  BY <1>2, StepsAre, SettledAre
<1>4. new \in Seq(Steps) /\ new \in Seq(SettledSteps) /\ Len(new) = N /\ \A n \in 1..N : new[n] = Row(n)
  <2>1. new \in [1..N -> Steps] /\ new \in [1..N -> SettledSteps]
    BY <1>3
  <2> QED BY <1>1, <2>1
<1> HIDE DEF new
<1>5. \A n \in 1..N : \A c \in Between :
        Fwd(steps[n], c) = Fwd(new[n], c) /\ Rev(steps[n], c) = Rev(new[n], c)
  BY <1>2, <1>4 DEF SameStep
<1>6. Same(steps, new)
  BY <1>4, <1>5, SameOneByOne
<1> QED BY <1>1, <1>4, <1>6 DEF Kept

-----------------------------------------------------------------------------
(* The invariant: what the list does.                                      *)

ListInv ==
  /\ steps \in Seq(Steps)
  /\ phase = "remove" => Seen
  /\ phase # "remove" => steps \in Seq(SettledSteps)

ForwardKept ==
  \A c \in Between :
    RunForward(steps, c) = IF inverse THEN RunReverse(input, c) ELSE RunForward(input, c)
ReverseKept ==
  \A c \in Between :
    RunReverse(steps, c) = IF inverse THEN RunForward(input, c) ELSE RunReverse(input, c)

\* What the rules take for granted and the list does not bear out.
Mistaken == ErasesTheBeginning \/ PopsThenPushes \/ TurnsKrovak

LEMMA InputIs ==
  ASSUME input \in Inputs
  PROVE  input \in Seq(Steps)
<1>1. input \in Seq(ToSet(input)) /\ DOMAIN input = 1..Len(input) /\ Len(input) \in Nat
  BY InputsAreLists
<1>2. \A n \in 1..Len(input) : input[n] \in Steps
  BY <1>1, InputsAreSteps, StepsAre
<1>3. input = [n \in 1..Len(input) |-> input[n]]
  BY <1>1
<1> QED BY <1>1, <1>2, <1>3, SeqOfRange

LEMMA InitKept ==
  ASSUME Init
  PROVE  ListInv /\ ForwardKept /\ ReverseKept
<1>1. input \in Seq(Steps) /\ steps = (IF inverse THEN Inverted(input) ELSE input)
      /\ phase = "remove" /\ pos = 1 /\ inverse \in BOOLEAN
  BY InputIs DEF Init
<1>2. steps \in Seq(Steps)
  BY <1>1, InvertedMeans
<1>3. Len(steps) \in Nat
  BY <1>2, StepsOf
<1>4. \A c : /\ Inverted(input) \in Seq(Steps)
             /\ RunForward(Inverted(input), c) = RunReverse(input, c)
             /\ RunReverse(Inverted(input), c) = RunForward(input, c)
  BY <1>1, InvertedMeans
<1>5. Seen
  BY <1>1, <1>3 DEF Seen
<1> QED BY <1>1, <1>2, <1>4, <1>5 DEF ListInv, ForwardKept, ReverseKept

\* What a step of the system keeps: the list does what it did, forward always,
\* and in the other direction when no vertical shift is moved.
StepKeeps ==
  /\ ListInv'
  /\ SameForward(steps, steps')
  /\ ~MovesVertical => SameReverse(steps, steps')
  /\ UNCHANGED <<input, inverse>>

LEMMA KeptKeeps ==
  ASSUME Kept(steps, steps'), phase' # "remove", UNCHANGED <<input, inverse>>
  PROVE  StepKeeps
BY SettledAre DEF Kept, Same, StepKeeps, ListInv

LEMMA SameKeeps ==
  ASSUME ListInv, phase # "remove", phase' # "remove", UNCHANGED <<input, inverse, steps>>
  PROVE  StepKeeps
BY SameRefl DEF Same, StepKeeps, ListInv

LEMMA FirstLoopKeeps ==
  ASSUME IInv, ListInv, RemoveStep \/ KeepStep \/ Uninvert
  PROVE  StepKeeps
<1>1. steps \in Seq(Steps) /\ phase = "remove" /\ Seen
  BY DEF ListInv, RemoveStep, KeepStep, Uninvert
<1>2. pos \in Nat /\ pos >= 1
  BY <1>1 DEF IInv, Cursor
<1>3. UNCHANGED <<input, inverse>>
  BY DEF RemoveStep, KeepStep, Uninvert
<1>4. CASE RemoveStep
  <2>1. steps' \in Seq(Steps) /\ Same(steps, steps') /\ Seen'
    BY <1>1, <1>2, <1>4, RemoveStepKept
  <2>2. phase' = "remove"
    BY <1>1, <1>4 DEF RemoveStep
  <2> QED BY <1>3, <2>1, <2>2 DEF StepKeeps, ListInv, Same
<1>5. CASE KeepStep
  <2>1. steps' \in Seq(Steps) /\ Same(steps, steps') /\ Seen'
    BY <1>1, <1>2, <1>5, KeepStepKept
  <2>2. phase' = "remove"
    BY <1>1, <1>5 DEF KeepStep
  <2> QED BY <1>3, <2>1, <2>2 DEF StepKeeps, ListInv, Same
<1>6. CASE Uninvert
  <2>1. Kept(steps, steps')
    BY <1>1, <1>2, <1>6, UninvertKept
  <2>2. phase' # "remove"
    BY <1>6 DEF Uninvert, Goto
  <2> QED BY <1>3, <2>1, <2>2, KeptKeeps
<1> QED BY <1>4, <1>5, <1>6

LEMMA InLoop ==
  ASSUME IInv, ListInv, Merging \/ Gridding \/ Cancelling
  PROVE  InList /\ phase # "remove"
BY DEF IInv, Cursor, ListInv, Merging, Gridding, Cancelling, InList

LEMMA MergeLoopKeeps ==
  ASSUME IInv, ListInv, ~Mistaken,
         \/ DropLonglat \/ MergeUndone \/ MergeUnits \/ SwapUnitsAndAxes
         \/ DropAxesAroundUnits \/ MergeAxes \/ DropSet \/ SumTranslations
         \/ TurnKrovak
  PROVE  StepKeeps
<1>1. Merging /\ Unchanged
  BY DEF DropLonglat, MergeUndone, MergeUnits, SwapUnitsAndAxes, DropAxesAroundUnits,
         MergeAxes, DropSet, SumTranslations, TurnKrovak
<1>2. InList /\ phase # "remove"
  BY <1>1, InLoop
<1>3. phase' # "remove" /\ UNCHANGED <<input, inverse>>
  BY <1>1, <1>2 DEF Unchanged
<1>4. Kept(steps, steps')
  BY <1>2, DropLonglatKept, MergeUndoneKept, MergeUnitsKept, SwapUnitsAndAxesKept,
     DropAxesAroundUnitsKept, MergeAxesKept, DropSetKept, SumTranslationsKept, TurnKrovakKept
     DEF Mistaken
<1> QED BY <1>3, <1>4, KeptKeeps

LEMMA LastLoopsKeep ==
  ASSUME IInv, ListInv, SaveAroundShift \/ DropConversions \/ CancelUndone
  PROVE  StepKeeps
<1>1. (Gridding \/ Cancelling) /\ Unchanged
  BY DEF SaveAroundShift, DropConversions, CancelUndone
<1>2. InList /\ phase # "remove"
  BY <1>1, InLoop
<1>3. phase' # "remove" /\ UNCHANGED <<input, inverse>>
  BY <1>1, <1>2 DEF Unchanged
<1>4. Kept(steps, steps')
  BY <1>2, SaveAroundShiftKept, DropConversionsKept, CancelUndoneKept
<1> QED BY <1>3, <1>4, KeptKeeps

LEMMA MoveVerticalKeeps ==
  ASSUME IInv, ListInv, MoveVerticalAfterPush
  PROVE  StepKeeps
<1>1. Gridding /\ Unchanged /\ VerticalBeforePush
  BY DEF MoveVerticalAfterPush
<1>2. InList /\ phase # "remove"
  BY <1>1, InLoop
<1>3. phase' # "remove" /\ UNCHANGED <<input, inverse>>
  BY <1>1, <1>2 DEF Unchanged
<1>4. steps' \in Seq(SettledSteps) /\ SameForward(steps, steps')
  BY <1>2, MoveVerticalKept
<1> QED BY <1>1, <1>3, <1>4, SettledAre DEF StepKeeps, ListInv, MovesVertical

LEMMA NextKeeps ==
  ASSUME IInv, ListInv, ~Mistaken, [Next]_vars
  PROVE  StepKeeps
<1>1. CASE RemoveStep \/ KeepStep \/ Uninvert
  BY <1>1, FirstLoopKeeps
<1>2. CASE \/ DropLonglat \/ MergeUndone \/ MergeUnits \/ SwapUnitsAndAxes
           \/ DropAxesAroundUnits \/ MergeAxes \/ DropSet \/ SumTranslations
           \/ TurnKrovak
  BY <1>2, MergeLoopKeeps
<1>3. CASE SaveAroundShift \/ DropConversions \/ CancelUndone
  BY <1>3, LastLoopsKeep
<1>4. CASE MoveVerticalAfterPush
  BY <1>4, MoveVerticalKeeps
<1>5. CASE MergeNothing \/ MergeEnds \/ GridNothing \/ GridsEnd \/ CancelNothing \/ CancelEnds
  <2>1. phase # "remove" /\ phase' # "remove" /\ UNCHANGED <<input, inverse, steps>>
    BY <1>5 DEF MergeNothing, MergeEnds, GridNothing, GridsEnd, CancelNothing, CancelEnds,
                Goto, Merging, Gridding, Cancelling
  <2> QED BY <2>1, SameKeeps
<1>6. CASE UNCHANGED vars
  BY <1>6, SameRefl DEF vars, StepKeeps, ListInv, Seen, Same
<1> QED BY <1>1, <1>2, <1>3, <1>4, <1>5, <1>6 DEF Next

LEMMA ForwardInductive ==
  ASSUME ListInv, ForwardKept, StepKeeps
  PROVE  ListInv' /\ ForwardKept'
BY DEF StepKeeps, ForwardKept, SameForward

LEMMA ReverseInductive ==
  ASSUME ListInv, ReverseKept, StepKeeps, ~MovesVertical
  PROVE  ReverseKept'
BY DEF StepKeeps, ReverseKept, SameReverse

LEMMA StartIs ==
  ASSUME NEW v \in Points
  PROVE  At(v) \in Between
<1> DEFINE z == <<>>
           s == <<z, z, z, z>>
<1>1. v \in Coordinates
  BY PointsAreCoordinates
<1>2. z \in Seq(0..M - 1)
  OBVIOUS
<1>3. At(v) = [v |-> v, stack |-> s]
  BY DEF At
<1> HIDE DEF z
<1>4. s \in [1..4 -> Seq(0..M - 1)]
  BY <1>2
<1> HIDE DEF s
<1> QED BY <1>1, <1>3, <1>4 DEF Between

LEMMA InductiveForward == Spec /\ []~Mistaken => [](IInv /\ ListInv /\ ForwardKept)
<1> DEFINE J == IInv /\ ListInv /\ ForwardKept
<1>1. Init => J
  BY InitIInv, InitKept
<1>2. J /\ ~Mistaken /\ [Next]_vars => J'
  <2> SUFFICES ASSUME J, ~Mistaken, [Next]_vars PROVE J'
    OBVIOUS
  <2>1. IInv'
    BY NextIInv DEF Mistaken
  <2>2. StepKeeps
    BY NextKeeps
  <2>3. ListInv' /\ ForwardKept'
    BY <2>2, ForwardInductive
  <2> QED BY <2>1, <2>3
<1> HIDE DEF J
<1>3. Spec /\ []~Mistaken => []J
  BY <1>1, <1>2, PTL DEF Spec
<1> QED BY <1>3 DEF J

LEMMA InductiveReverse ==
  Spec /\ []~Mistaken /\ []~MovesVertical => []ReverseKept
<1> DEFINE J == IInv /\ ListInv /\ ReverseKept
<1>1. Init => J
  BY InitIInv, InitKept
<1>2. J /\ ~Mistaken /\ ~MovesVertical /\ [Next]_vars => J'
  <2> SUFFICES ASSUME J, ~Mistaken, ~MovesVertical, [Next]_vars PROVE J'
    OBVIOUS
  <2>1. IInv'
    BY NextIInv DEF Mistaken
  <2>2. StepKeeps
    BY NextKeeps
  <2>3. ListInv'
    BY <2>2 DEF StepKeeps
  <2>4. ReverseKept'
    BY <2>2, ReverseInductive
  <2> QED BY <2>1, <2>3, <2>4
<1>3. J => ReverseKept
  OBVIOUS
<1> HIDE DEF J
<1> QED BY <1>1, <1>2, <1>3, PTL DEF Spec

\* Forward, the simplified pipeline computes what the one it was made from does.
RunsTheSame ==
  phase = "done" => \A v \in Points : RunForward(steps, At(v)) = Before(v)

\* In the forward direction no rule of the loops changes what a pipeline
\* computes, for pipelines of any length and parameters.
THEOREM ForwardIsKept == Spec /\ []~Mistaken => []RunsTheSame
<1>1. ForwardKept => RunsTheSame
  BY StartIs DEF ForwardKept, RunsTheSame, Before
<1> QED BY <1>1, InductiveForward, PTL

\* And in both directions, when no vertical shift is moved after a push: that
\* rule is right in the other direction only if what follows leads back to the
\* coordinates that were pushed.
THEOREM BothWaysAreKept ==
  Spec /\ []~Mistaken /\ []~MovesVertical => []SameBothWays
<1>1. ForwardKept /\ ReverseKept => SameBothWays
  BY StartIs DEF ForwardKept, ReverseKept, SameBothWays, Before, BeforeInverse
<1> QED BY <1>1, InductiveForward, InductiveReverse, PTL

\* Every input pops what it pushes and nothing else, in both directions.
InputsEmptyStacks ==
  \A list \in Inputs : \A v \in Points :
    /\ RunForward(list, At(v)).stack = At(v).stack
    /\ RunReverse(list, At(v)).stack = At(v).stack

LEMMA InputStays == Spec => [](input \in Inputs)
<1>1. Init => input \in Inputs
  BY DEF Init
<1>2. input \in Inputs /\ [Next]_vars => (input \in Inputs)'
  <2> SUFFICES ASSUME input \in Inputs, [Next]_vars PROVE input' = input
    OBVIOUS
  <2> QED BY DEF Next, vars, RemoveStep, KeepStep, Uninvert, DropLonglat, MergeUndone, MergeUnits,
      SwapUnitsAndAxes, DropAxesAroundUnits, MergeAxes, DropSet, SumTranslations,
      TurnKrovak, MergeNothing, MergeEnds, SaveAroundShift, DropConversions,
      MoveVerticalAfterPush, GridNothing, GridsEnd, CancelUndone, CancelNothing,
      CancelEnds, Unchanged
<1> QED BY <1>1, <1>2, PTL DEF Spec

\* No rule drops a push without its pop, or a pop without its push: from inputs
\* that leave the stacks as they found them come pipelines that do.
THEOREM StacksAreEmptied ==
  InputsEmptyStacks =>
    (Spec /\ []~Mistaken /\ []~MovesVertical => []StacksEmptied)
<1> SUFFICES ASSUME InputsEmptyStacks
             PROVE  Spec /\ []~Mistaken /\ []~MovesVertical => []StacksEmptied
  OBVIOUS
<1>1. ForwardKept /\ ReverseKept /\ input \in Inputs => StacksEmptied
  BY StartIs DEF ForwardKept, ReverseKept, StacksEmptied, InputsEmptyStacks
<1> QED BY <1>1, InductiveForward, InductiveReverse, InputStays, PTL
===============================================================================
