---------------------------- MODULE PipelineString ----------------------------
(***************************************************************************)
(* PROJStringFormatter (iso19111/io.cpp): the simplification of a pipeline *)
(* before it is written as a PROJ string. toString removes what does       *)
(* nothing, writes inverted steps without +inv where it can, and runs      *)
(* three loops over the list that look at a step, the one before it and    *)
(* sometimes those after it, and that step back after a change to see what *)
(* it brought together. startInversion and stopInversion, which invert a   *)
(* range of steps, come before it. One action is one turn of a loop.       *)
(*                                                                         *)
(* Left out: the sorting of the parameters, the writing of the string,     *)
(* parameters other than the ones a rule looks at, and the numbers of a    *)
(* Helmert step that cannot be read.                                       *)
(***************************************************************************)
EXTENDS Pipeline, SequencesExt

CONSTANTS
  Inputs,    \* the pipelines that are simplified
  Points     \* the coordinates the pipelines are compared on

ASSUME InputsAreLists == \A list \in Inputs : list \in Seq(ToSet(list))
ASSUME InputsAreSteps == \A list \in Inputs : \A n \in DOMAIN list : IsStep(list[n])
ASSUME PointsAreCoordinates == Points \subseteq Coordinates

VARIABLES
  input,     \* the pipeline as it was built
  inverse,   \* whether it was built between startInversion and stopInversion
  steps,     \* d->steps_
  pos,       \* iterCur, as an index; Len(steps) + 1 for the end
  phase      \* the loop of toString under way

vars == <<input, inverse, steps, pos, phase>>

-----------------------------------------------------------------------------
(* Construction *)

OtherOmit(o) == IF o = "fwd" THEN "inv" ELSE IF o = "inv" THEN "fwd" ELSE o

\* stopInversion: every step is inverted, and their order is reversed
Inverted(list) ==
  Reverse([n \in 1..Len(list) |->
    [list[n] EXCEPT !.inv = ~@, !.omit = OtherOmit(@)]])

Init ==
  /\ input \in Inputs /\ inverse \in BOOLEAN
  /\ steps = IF inverse THEN Inverted(input) ELSE input
  /\ pos = 1 /\ phase = "remove"

-----------------------------------------------------------------------------
(* Predicates on steps *)

Step(name, par) == [name |-> name, inv |-> FALSE, par |-> par, omit |-> "none"]
Order21 == <<2, 1, 3>>
IsAxisSwap(s, order) == s.name = "axisswap" /\ s.omit = "none" /\ s.par = order
Is21(s) == IsAxisSwap(s, Order21)
IsUnits(s) == s.name = "unitconvert" /\ s.omit = "none" /\ ~s.inv
IsXY(s) == IsUnits(s) /\ s.par.xy # <<>> /\ s.par.z = <<>>
IsZ(s) == IsUnits(s) /\ s.par.xy = <<>> /\ s.par.z # <<>>
IsXYZ(s) == IsUnits(s) /\ s.par.xy # <<>> /\ s.par.z # <<>>
Units(xy, z) == Step("unitconvert", [xy |-> xy, z |-> z])
Is(s, name, par) == s.name = name /\ s.par = par /\ s.omit = "none"
IsHelmert(s) == s.name = "helmert" /\ s.omit = "none"
IsTranslation(s) == IsHelmert(s) /\ s.par.convention = "none"

-----------------------------------------------------------------------------
(* Loop 1: what does nothing is removed; inverted push and pop are renamed *)

(* A conversion between equal units goes only where operations are exported, *)
(* with coordOperationOptimizations_; here each such step may go or stay.    *)
IsIdentity(s) ==
  s.name = "unitconvert" /\ s.omit = "none" /\ s.par.z = <<>>
    /\ s.par.xy # <<>> /\ s.par.xy[1] = s.par.xy[2]

DoesNothing(s) ==
  \/ IsHelmert(s) /\ s.par.t = 0 /\ s.par.r = 0
  \/ IsIdentity(s)
  \/ s.name = "noop" /\ Len(steps) > 1

Renamed(s) ==
  IF s.name \in {"push", "pop"} /\ s.inv
    THEN [s EXCEPT !.name = IF s.name = "push" THEN "pop" ELSE "push", !.inv = FALSE]
    ELSE s

Goto(p, at) == phase' = p /\ pos' = at

RemoveStep ==
  /\ phase = "remove" /\ pos <= Len(steps) /\ DoesNothing(steps[pos])
  /\ steps' = RemoveAt(steps, pos)
  /\ UNCHANGED <<input, inverse, pos, phase>>

KeepStep ==
  /\ phase = "remove" /\ pos <= Len(steps)
  /\ ~DoesNothing(steps[pos]) \/ IsIdentity(steps[pos])
  /\ steps' = [steps EXCEPT ![pos] = Renamed(@)]
  /\ pos' = pos + 1
  /\ UNCHANGED <<input, inverse, phase>>

-----------------------------------------------------------------------------
(* Loop 2: inverted steps that are known forward are written that way *)

Uninverted(s) ==
  CASE s.name = "axisswap" /\ s.omit = "none"
         /\ s.par \in {Order21, <<1, -2, 3>>, <<1, 2, -3>>} -> [s EXCEPT !.inv = FALSE]
    [] IsAxisSwap(s, <<2, -1, 3>>) -> Step("axisswap", <<-2, 1, 3>>)
    [] s.name = "unitconvert" /\ s.omit = "none" ->
         Units(Swapped(s.par.xy), Swapped(s.par.z))
    [] s.name = "set" -> [s EXCEPT !.inv = FALSE]
    [] OTHER -> s

Uninvert ==
  /\ phase = "remove" /\ pos > Len(steps)
  /\ steps' = [n \in 1..Len(steps) |->
                 IF steps[n].inv THEN Uninverted(steps[n]) ELSE steps[n]]
  /\ Goto("merge", 2)
  /\ UNCHANGED <<input, inverse>>

-----------------------------------------------------------------------------
(* The list and the cursor *)

Cur == steps[pos]
Prev == steps[pos - 1]
HasNext == pos < Len(steps)
Following == steps[pos + 1]

Splice(from, to, mid) ==
  SubSeq(steps, 1, from - 1) \o mid \o SubSeq(steps, to + 1, Len(steps))

\* deletePrevAndCurIter and deletePrevIter leave the cursor one step before the
\* place of the change, and never on the first step
BackNowhere == pos
BackTooFar == IF pos > 3 THEN pos - 2 ELSE 1
Back == IF pos > 4 THEN pos - 2 ELSE 2

DeletePrevAndCur == steps' = Splice(pos - 1, pos, <<>>) /\ pos' = Back
ReplacePrevAndCur(s) == steps' = Splice(pos - 1, pos, <<s>>) /\ pos' = Back
KeepCur == steps
EraseCur == Splice(pos, pos, <<>>)
Unchanged == UNCHANGED <<input, inverse, phase>>

-----------------------------------------------------------------------------
(* Loop 3: rules on neighbours *)

\* an ellipsoid only longlat inside the pipeline
IsInnerLonglat == HasNext /\ Cur.name = "longlat"

\* push and pop of the same single component; pop then push "is, almost, a no-op"
PushThenPop(p, c) ==
  /\ {p.name, c.name} = {"push", "pop"} /\ ~p.inv /\ ~c.inv
  /\ p.omit = "none" /\ c.omit = "none"
  /\ p.par = c.par /\ p.par \in {{1}, {2}, {3}, {4}}

UnitsUndone(p, c) ==
  /\ \/ IsXY(p) /\ IsXY(c)
     \/ IsZ(p) /\ IsZ(c)
     \/ IsXYZ(p) /\ IsXYZ(c)
  /\ c.par.xy = Swapped(p.par.xy) /\ c.par.z = Swapped(p.par.z)

\* the horizontal units cancel and the vertical ones are the same
UnitsVanish(p, c) ==
  /\ \/ IsXYZ(p) /\ IsXY(c)
     \/ IsXY(p) /\ IsXYZ(c)
  /\ c.par.xy = Swapped(p.par.xy)
  /\ LET z == p.par.z \o c.par.z IN z[1] = z[2]

AxesUndone(p, c) ==
  \/ Is21(p) /\ Is21(c)
  \/ /\ IsAxisSwap(p, <<2, -1, 3>>) /\ IsAxisSwap(c, <<-2, 1, 3>>)
     /\ ~p.inv /\ ~c.inv

\* WGS84 and GRS80 are taken for the same ellipsoid
CartUndone(p, c) ==
  /\ p.name = "cart" /\ c.name = "cart" /\ p.inv # c.inv
  /\ p.omit = "none" /\ c.omit = "none"
  /\ {p.par, c.par} = {"WGS84", "GRS80"}

Sum(p, c) == (IF p.inv THEN -p.par.t ELSE p.par.t) + (IF c.inv THEN -c.par.t ELSE c.par.t)
BothTranslations(p, c) == IsTranslation(p) /\ IsTranslation(c)
TranslationsUndone(p, c) == BothTranslations(p, c) /\ Sum(p, c) = 0

BothRotations(p, c) ==
  IsHelmert(p) /\ IsHelmert(c) /\ ~IsTranslation(p) /\ ~IsTranslation(c)
HelmertUndone(p, c) ==
  /\ BothRotations(p, c)
  /\ \/ /\ p.inv = c.inv /\ p.par.convention = c.par.convention
        /\ p.par.t = -c.par.t /\ p.par.r = -c.par.r
     \/ /\ p.inv # c.inv /\ p.par.convention # c.par.convention
        /\ p.par.t = c.par.t /\ p.par.r = -c.par.r

StepUndone(p, c) ==
  p.inv # c.inv /\ p.name = c.name /\ p.omit = c.omit /\ p.par = c.par

Undone(p, c) ==
  \/ PushThenPop(p, c) \/ UnitsUndone(p, c) \/ UnitsVanish(p, c)
  \/ AxesUndone(p, c) \/ CartUndone(p, c)
  \/ TranslationsUndone(p, c) \/ HelmertUndone(p, c)
  \/ StepUndone(p, c) /\ ~BothTranslations(p, c)

\* two conversions that make one: their horizontal and their vertical parts
\* follow each other, or one does nothing
Chains(a, b) == a # <<>> /\ b # <<>> => a[2] = b[1]
Chained(a, b) ==
  CASE a = <<>> -> b
    [] b = <<>> -> a
    [] OTHER    -> <<a[1], b[2]>>
DropSame(a, b) == IF a = Swapped(b) THEN <<>> ELSE Chained(a, b)
IsSame(a) == a # <<>> /\ a[1] = a[2]

\* which pairs are merged, and into what
UnitsMerge(p, c) ==
  \/ IsXY(p) /\ IsZ(c)
  \/ IsZ(p) /\ IsXY(c)
  \/ IsXY(p) /\ IsXYZ(c) /\ c.par.xy = Swapped(p.par.xy)
  \/ IsXYZ(p) /\ (IsZ(c) \/ IsXY(c)) /\ Chains(p.par.xy, c.par.xy) /\ Chains(p.par.z, c.par.z)
  \/ IsZ(p) /\ IsXYZ(c) /\ Chains(p.par.z, c.par.z)
  \/ IsXYZ(p) /\ IsXYZ(c) /\ Chains(p.par.xy, c.par.xy)
       /\ (IsSame(p.par.z) \/ IsSame(c.par.z))

MergedVertical(p, c) ==
  CASE IsXYZ(p) /\ IsXYZ(c) /\ IsSame(c.par.z)  -> p.par.z
    [] IsXYZ(p) /\ IsXYZ(c) /\ ~IsSame(c.par.z) -> c.par.z
    [] OTHER -> Chained(p.par.z, c.par.z)
MergedUnits(p, c) ==
  Units(IF IsXYZ(p) /\ IsXYZ(c) THEN Chained(p.par.xy, c.par.xy)
                                ELSE DropSame(p.par.xy, c.par.xy),
        MergedVertical(p, c))

AxesMerge(p, c) ==
  \/ IsAxisSwap(p, <<2, -1, 3>>) /\ IsAxisSwap(c, <<1, -2, 3>>) /\ ~p.inv /\ ~c.inv
  \/ Is21(p) /\ IsAxisSwap(c, <<2, -1, 3>>) /\ ~c.inv
  \/ IsAxisSwap(p, <<-2, 1, 3>>) /\ ~p.inv /\ Is21(c)
MergedAxes(p, c) ==
  Step("axisswap", IF IsAxisSwap(c, <<1, -2, 3>>) THEN Order21 ELSE <<1, -2, 3>>)

SetMakesOmitFwdUseless(p, c) ==
  /\ p.name = "set" /\ c.name = "set" /\ p.par = c.par
  /\ p.omit = "none" /\ c.omit = "fwd"
SetMakesOmitInvUseless(p, c) ==
  /\ p.name = "set" /\ c.name = "set" /\ p.par = c.par
  /\ p.omit = "inv" /\ c.omit = "none"

KrovakTurned(p, c) ==
  /\ p.name = "krovak" /\ c.name = "krovak" /\ p.inv # c.inv
  /\ p.omit = "none" /\ c.omit = "none" /\ p.par.swu # c.par.swu

UnitsAxesUnits ==
  /\ HasNext /\ Prev.name = "unitconvert" /\ Is21(Cur)
  /\ Following.name = "unitconvert"
AxesUnitsAxes ==
  /\ HasNext /\ Is21(Prev) /\ Cur.name = "unitconvert" /\ Is21(Following)

Merging == phase = "merge" /\ pos <= Len(steps)

DropLonglat ==
  /\ Merging /\ IsInnerLonglat
  /\ steps' = EraseCur /\ pos' = pos
  /\ Unchanged

MergeUndone ==
  /\ Merging /\ ~IsInnerLonglat /\ Undone(Prev, Cur)
  /\ DeletePrevAndCur
  /\ Unchanged

MergeUnits ==
  /\ Merging /\ ~Undone(Prev, Cur) /\ UnitsMerge(Prev, Cur)
  /\ ReplacePrevAndCur(MergedUnits(Prev, Cur))
  /\ Unchanged

SwapUnitsAndAxes ==
  /\ Merging /\ UnitsAxesUnits
  /\ steps' = Splice(pos - 1, pos, <<Cur, Prev>>)
  /\ pos' = pos + 1
  /\ Unchanged

DropAxesAroundUnits ==
  /\ Merging /\ AxesUnitsAxes
  /\ steps' = Splice(pos - 1, pos + 1, <<Cur>>)
  /\ pos' = Back
  /\ Unchanged

MergeAxes ==
  /\ Merging /\ AxesMerge(Prev, Cur)
  /\ steps' = [EraseCur EXCEPT ![pos - 1] = MergedAxes(Prev, Cur)] /\ pos' = pos
  /\ Unchanged

DropSet ==
  /\ Merging
  /\ \/ SetMakesOmitFwdUseless(Prev, Cur) /\ steps' = EraseCur /\ pos' = pos
     \/ SetMakesOmitInvUseless(Prev, Cur) /\ ReplacePrevAndCur(Cur)
  /\ Unchanged

SumTranslations ==
  /\ Merging /\ BothTranslations(Prev, Cur) /\ Sum(Prev, Cur) # 0
  /\ steps' = [EraseCur EXCEPT ![pos - 1].inv = FALSE,
                               ![pos - 1].par.t = Sum(Prev, Cur)]
  /\ pos' = pos
  /\ Unchanged

TurnKrovak ==
  /\ Merging /\ KrovakTurned(Prev, Cur)
  /\ ReplacePrevAndCur(Step("axisswap", <<-2, -1, 3>>))
  /\ Unchanged

Changes ==
  \/ IsInnerLonglat \/ Undone(Prev, Cur) \/ UnitsMerge(Prev, Cur)
  \/ UnitsAxesUnits \/ AxesUnitsAxes \/ AxesMerge(Prev, Cur)
  \/ SetMakesOmitFwdUseless(Prev, Cur) \/ SetMakesOmitInvUseless(Prev, Cur)
  \/ BothTranslations(Prev, Cur) \/ KrovakTurned(Prev, Cur)

MergeNothing ==
  /\ Merging /\ ~Changes
  /\ pos' = pos + 1
  /\ UNCHANGED <<input, inverse, steps, phase>>

MergeEnds ==
  /\ phase = "merge" /\ pos > Len(steps)
  /\ Goto("grids", 2)
  /\ UNCHANGED <<input, inverse, steps>>

-----------------------------------------------------------------------------
(* Loop 4: rules on a vertical grid and what surrounds it *)

Horizontal == {1, 2}
PushXY(s) == Is(s, "push", Horizontal)
PopXY(s) == Is(s, "pop", Horizontal)
IsVertical(s) == s.name = "vgridshift"
Window(n) == steps[pos - 2 + n]
Reaches(n) == pos - 2 + n <= Len(steps)

\* a horizontal shift, a vertical one, and the horizontal one undone
ShiftedHeight ==
  /\ Reaches(3) /\ Prev.name = "hgridshift" /\ Prev.omit = "none" /\ IsVertical(Cur)
  /\ Following.name = "hgridshift" /\ Following.inv # Prev.inv
  /\ Following.omit = "none" /\ Following.par = Prev.par

RadToDeg(s) == Is(s, "unitconvert", [xy |-> <<"rad", "deg">>, z |-> <<>>])
DegToRad(s) == Is(s, "unitconvert", [xy |-> <<"deg", "rad">>, z |-> <<>>])

\* a vertical shift between a conversion that is undone and one that is redone,
\* in coordinates that are saved before and restored after
SavedAroundVertical ==
  /\ Reaches(9)
  /\ RadToDeg(Window(1)) /\ Is21(Window(2)) /\ PushXY(Window(3))
  /\ Is21(Window(4)) /\ DegToRad(Window(5)) /\ IsVertical(Window(6))
  /\ RadToDeg(Window(7)) /\ Is21(Window(8)) /\ PopXY(Window(9))

\* a vertical shift in converted coordinates, before a push and the same conversion
VerticalBeforePush ==
  /\ Reaches(8)
  /\ Is21(Window(1)) /\ DegToRad(Window(2)) /\ IsVertical(Window(3))
  /\ RadToDeg(Window(4)) /\ Is21(Window(5)) /\ PushXY(Window(6))
  /\ Is21(Window(7)) /\ DegToRad(Window(8))

OmittedAgain(s) == [s EXCEPT !.omit = "inv"]
OmittedInInverse(s) == [s EXCEPT !.omit = "inv"]
OmittedForward(s) == [s EXCEPT !.omit = "fwd"]
NotRestored == <<>>
Restored == <<Step("pop", Horizontal)>>

Gridding == phase = "grids" /\ pos <= Len(steps)

SaveAroundShift ==
  /\ Gridding /\ ShiftedHeight
  /\ steps' = Splice(pos - 1, pos + 1,
                <<Step("push", Horizontal), OmittedInInverse(Prev), Cur,
                  OmittedForward(Following)>> \o Restored)
  /\ pos' = pos + 1
  /\ Unchanged

\* the cursor is left on the vertical shift, wherever it is now
DropConversions ==
  /\ Gridding /\ ~ShiftedHeight /\ SavedAroundVertical
  /\ steps' = Splice(pos - 1, pos + 7, <<Window(6), Window(7), Window(8)>>)
  /\ pos' = pos - 1
  /\ Unchanged

MoveVerticalAfterPush ==
  /\ Gridding /\ VerticalBeforePush
  /\ steps' = Splice(pos - 1, pos + 6,
                <<Window(6), Window(7), Window(8), Window(3)>>)
  /\ pos' = pos
  /\ Unchanged

GridNothing ==
  /\ Gridding /\ ~ShiftedHeight /\ ~SavedAroundVertical /\ ~VerticalBeforePush
  /\ pos' = pos + 1
  /\ UNCHANGED <<input, inverse, steps, phase>>

GridsEnd ==
  /\ phase = "grids" /\ pos > Len(steps)
  /\ Goto("cancel", 2)
  /\ UNCHANGED <<input, inverse, steps>>

-----------------------------------------------------------------------------
(* Loop 5: what the vertical rules brought together *)

Cancelling == phase = "cancel" /\ pos <= Len(steps)
Cancels(p, c) == (Is21(p) /\ Is21(c)) \/ StepUndone(p, c)

CancelUndone ==
  /\ Cancelling /\ Cancels(Prev, Cur)
  /\ DeletePrevAndCur
  /\ Unchanged

CancelNothing ==
  /\ Cancelling /\ ~Cancels(Prev, Cur)
  /\ pos' = pos + 1
  /\ UNCHANGED <<input, inverse, steps, phase>>

CancelEnds ==
  /\ phase = "cancel" /\ pos > Len(steps)
  /\ Goto("done", 1)
  /\ UNCHANGED <<input, inverse, steps>>

Next ==
  \/ RemoveStep \/ KeepStep \/ Uninvert
  \/ DropLonglat \/ MergeUndone \/ MergeUnits \/ SwapUnitsAndAxes
  \/ DropAxesAroundUnits \/ MergeAxes \/ DropSet \/ SumTranslations \/ TurnKrovak
  \/ MergeNothing \/ MergeEnds
  \/ SaveAroundShift \/ DropConversions \/ MoveVerticalAfterPush
  \/ GridNothing \/ GridsEnd
  \/ CancelUndone \/ CancelNothing \/ CancelEnds

Spec == Init /\ [][Next]_vars
\* toString runs until it returns
FairSpec == Spec /\ WF_vars(Next)

-----------------------------------------------------------------------------
(* Correctness *)

\* The cursor stays where the loops may use it: on a step after the first, as the
\* source asserts at the head of each of them, or past the end.
TypeOK ==
  /\ inverse \in BOOLEAN
  /\ phase \in {"remove", "merge", "grids", "cancel", "done"}
  /\ phase = "remove" => pos \in 1..Len(steps) + 1
  /\ phase \in {"merge", "grids", "cancel"} /\ pos <= Len(steps) => pos >= 2

\* What the pipeline given to the formatter does, in either direction.
Before(v) == IF inverse THEN RunReverse(input, At(v)) ELSE RunForward(input, At(v))
BeforeInverse(v) == IF inverse THEN RunForward(input, At(v)) ELSE RunReverse(input, At(v))

\* The simplified pipeline computes what the one it was made from computes, and
\* between startInversion and stopInversion what its inverse computes. And so
\* does its inverse: a rule that is right forward can be wrong here, for the
\* steps that are omitted in one direction and the coordinates that are saved.
SameBothWays ==
  phase = "done" =>
    \A v \in Points :
      /\ RunForward(steps, At(v)).v = Before(v).v
      /\ RunReverse(steps, At(v)).v = BeforeInverse(v).v

\* Every push is met by its pop in both directions whatever the rules moved or
\* dropped, so no value is left for the next pipeline step to pop by mistake.
StacksEmptied ==
  phase = "done" =>
    \A v \in Points :
      /\ RunForward(steps, At(v)).stack = At(v).stack
      /\ RunReverse(steps, At(v)).stack = At(v).stack

\* Going one step back after each change is enough: what a change brings together
\* is looked at again, and no step is left next to its inverse.
NothingLeftToCancel ==
  phase = "done" =>
    \A n \in 1..Len(steps) - 1 : ~Cancels(steps[n], steps[n + 1])

\* toString ends: the rules that move steps back and forth do not undo each other.
Terminates == <>(phase = "done")
==============================================================================
