---------------------------- MODULE FilterResults ----------------------------
(***************************************************************************)
(* What CoordinateOperationFactory::createOperations does with the         *)
(* operations that its search has found: FilterResults leaves out those    *)
(* that do not fit the context of the request, sorts the rest, and removes *)
(* from the sorted list what brings nothing                                *)
(* (src/iso19111/operation/coordinateoperationfactory.cpp).  The first     *)
(* operation of the list is the one most callers use.                      *)
(*                                                                         *)
(* An area is a set of cells, an extent is an area with a description, and *)
(* no extent is the empty area.  Of a name, what the comparisons look at   *)
(* is kept: its size, its rank, and what it says of a ballpark offset.     *)
(* The exceptions made for four French operations are left out.            *)
(***************************************************************************)
EXTENDS Integers, FiniteSets, Sequences, SequencesExt

CONSTANTS
  Cells,        \* the cells areas are made of
  NoDesc,       \* the description of an extent that has none
  Op,           \* the operations: a function from their identities
  Lists,        \* the lists the search may have found
  Contexts      \* the requests

Areas == SUBSET Cells

(***************************************************************************)
(* What is looked at in an operation.                                      *)
(***************************************************************************)
Operation == [
  exportable : BOOLEAN,             \* exportToPROJString does not throw
  projString : STRING,
  projSteps : Nat,                  \* number of steps of that pipeline
  xyzGridShift : BOOLEAN,
  ballpark : BOOLEAN,               \* hasBallparkTransformation()
  ballparkVertical : BOOLEAN,
  synthetic : BOOLEAN,              \* isNullTransformation()
  grids : SUBSET [available : BOOLEAN, known : BOOLEAN],
  accuracy : Int,                   \* negative when unknown
  extent : [area : Areas, desc : STRING \cup {NoDesc}],
  steps : Nat, transformations : Nat, identified : BOOLEAN,
  etrf2000 : BOOLEAN, generic : BOOLEAN,
  offsetFrom : {"none", "similar", "different"},
  nameSize : Nat, nameRank : Nat]

Context == [
  areaOfInterest : [area : Areas, desc : STRING \cup {NoDesc}],
  extentUse : {"NONE", "BOTH", "INTERSECTION", "SMALLEST"},
  strict : BOOLEAN,                 \* STRICT_CONTAINMENT
  desiredAccuracy : Nat,            \* 0: any
  allowBallpark : BOOLEAN,
  database : BOOLEAN,               \* there is an authority factory
  gridUse : {"USE_FOR_SORTING", "OTHER"},
  extent1 : Areas, extent2 : Areas, \* of the source and of the target CRS
  etrs89 : BOOLEAN]                 \* both CRS are named ETRS89-...

ASSUME OpAssumption == \A id \in DOMAIN Op : Op[id] \in Operation
ASSUME ContextsAssumption == Contexts \subseteq Context
ASSUME ListsAssumption == \A l \in Lists : l \in Seq(DOMAIN Op)
ASSUME CellsAssumption == IsFiniteSet(Cells)

VARIABLES
  sourceList,     \* what the search has found
  context,
  areaOfInterest,
  containsWithoutGrid,   \* hasOpThatContainsAreaOfInterestAndNoGrid
  res,
  pc              \* the member function that runs next

vars == <<sourceList, context, areaOfInterest, containsWithoutGrid, res, pc>>

Init ==
  /\ sourceList \in Lists
  /\ context \in Contexts
  /\ areaOfInterest = context.areaOfInterest
  /\ containsWithoutGrid = FALSE
  /\ res = <<>>
  /\ pc = "computeAreaOfInterest"

(***************************************************************************)
(* computeAreaOfInterest: without an area from the user, that of the       *)
(* smaller CRS, or what the two have in common.                            *)
(***************************************************************************)
Smallest(c) ==
  IF c.extent1 # {} /\ \/ c.extent2 = {}
                       \/ Cardinality(c.extent1) < Cardinality(c.extent2)
  THEN c.extent1 ELSE c.extent2

ImpliedArea(c) ==
  CASE c.extentUse = "INTERSECTION" -> c.extent1 \cap c.extent2
    [] c.extentUse = "SMALLEST" -> Smallest(c)
    [] OTHER -> {}

ComputeAreaOfInterest ==
  /\ pc = "computeAreaOfInterest"
  /\ pc' = "filterOut"
  /\ areaOfInterest' = IF context.areaOfInterest.area # {}
                       THEN context.areaOfInterest
                       ELSE [area |-> ImpliedArea(context), desc |-> NoDesc]
  /\ UNCHANGED <<sourceList, context, containsWithoutGrid, res>>

(***************************************************************************)
(* filterOut.                                                              *)
(***************************************************************************)
HasExtent(op) == op.extent.area # {}
HasArea == areaOfInterest.area # {}
UsesExtents == HasArea \/ context.extentUse = "BOTH"

\* matches the expected accuracy, and is no ballpark operation if these are
\* not allowed
Allowed(op) ==
  /\ context.desiredAccuracy # 0 =>
       op.accuracy >= 0 /\ op.accuracy <= context.desiredAccuracy
  /\ context.allowBallpark \/ ~op.ballpark

\* when an extent bears the description of the user's area, the others are
\* not looked at
Described(op, list) ==
  (/\ areaOfInterest.desc # NoDesc
   /\ \E id \in ToSet(list) : /\ HasExtent(Op[id])
                              /\ Op[id].extent.desc = areaOfInterest.desc)
  => op.extent.desc = areaOfInterest.desc

Regions == IF HasArea THEN {areaOfInterest.area}
           ELSE {context.extent1, context.extent2} \ {{}}

ExtentContains(op) == \A r \in Regions : r \subseteq op.extent.area
Overlaps(op, area) == op.extent.area \cap area # {}

Intersects(op) ==
  IF HasArea
  THEN Overlaps(op, areaOfInterest.area)
  ELSE /\ context.extent1 = {} \/ Overlaps(op, context.extent1)
       /\ Overlaps(op, context.extent2)

Placed(op, list) == HasExtent(op) /\ Described(op, list)

Fits(op, list) ==
  /\ Allowed(op)
  /\ UsesExtents =>
       /\ Placed(op, list)
       /\ IF context.strict THEN ExtentContains(op) ELSE Intersects(op)

\* some operation of the list that is allowed and no ballpark one satisfies P
SomeReal(list, P(_)) ==
  \E id \in ToSet(list) : Allowed(Op[id]) /\ ~Op[id].ballpark /\ P(Op[id])

ContainedWithoutGrid(list) ==
  /\ UsesExtents
  /\ SomeReal(list, LAMBDA op : Placed(op, list) /\ ExtentContains(op)
                                /\ op.grids = {})

\* the operations of a set, in the order of the list
Only(list, ids) ==
  FoldLeft(LAMBDA kept, id : IF id \in ids THEN Append(kept, id) ELSE kept, <<>>, list)
AllFitting(list) == Only(list, {id \in ToSet(list) : Fits(Op[id], list)})
AllAllowed(list) == Only(list, {id \in ToSet(list) : Allowed(Op[id])})

(* A plausible mistake: there is no second chance.                          *)
FilteredOnce(list) == AllFitting(list)

\* In case no operation has an extent and no result is found, all that match
\* the accuracy criterion are retained: they are appended to what is there.
Filtered(list) ==
  LET fitting == AllFitting(list)
      onlyBallpark == \A id \in ToSet(fitting) : Op[id].ballpark
      withExtent == UsesExtents /\ SomeReal(list, LAMBDA op : Placed(op, list))
      withoutExtent == UsesExtents /\ SomeReal(list, LAMBDA op : ~HasExtent(op))
  IN IF (fitting = <<>> /\ ~withExtent) \/ (onlyBallpark /\ withoutExtent)
     THEN fitting \o AllAllowed(list)
     ELSE fitting

FilterOut ==
  /\ pc = "filterOut"
  /\ pc' = "sort"
  /\ containsWithoutGrid' = ContainedWithoutGrid(sourceList)
  /\ res' = Filtered(sourceList)
  /\ UNCHANGED <<sourceList, context, areaOfInterest>>

(***************************************************************************)
(* sort: the characteristics of each operation, and the comparison.        *)
(***************************************************************************)
\* the part of an extent that counts: in the area of interest, or else in the
\* extents of the two CRS
Zone ==
  IF HasArea THEN areaOfInterest.area
  ELSE IF context.extent1 \cup context.extent2 # {}
       THEN context.extent1 \cup context.extent2
       ELSE Cells

UsedArea(op) == Cardinality(op.extent.area \cap Zone)

HasGrids(op) == context.database /\ op.grids # {}
GridsAvailable(op) ==
  context.database /\ context.gridUse = "USE_FOR_SORTING" =>
    \A g \in op.grids : g.available
GridsKnown(op) ==
  context.database => \A g \in op.grids : g.known \/ g.available

\* "Follow recommendations of IOGP 373-07-7 to use ETRF2000 hub if no direct
\* Transformation": the conditions under which true and false are returned
UsesHub(op) == op.etrf2000 /\ ~op.generic
HubFirst(a, b) ==
  context.etrs89 /\ UsesHub(a) /\ ~a.etrf2000 /\ b.generic
HubSecond(a, b) ==
  context.etrs89 /\ UsesHub(b) /\ ~a.etrf2000 /\ a.generic

\* The comparisons of SortFunction::compare in their order, each with the
\* condition under which a goes first and that under which b does.
Criteria(a, b) ==
  LET Both(P(_, _)) == <<P(a, b), P(b, a)>>
      Has(P(_)) == Both(LAMBDA x, y : P(x) /\ ~P(y))
      Lacks(P(_)) == Both(LAMBDA x, y : ~P(x) /\ P(y))
  IN << Has(LAMBDA x : x.exportable),
        Lacks(LAMBDA x : x.ballpark),
        Lacks(LAMBDA x : x.ballparkVertical),
        Lacks(LAMBDA x : x.synthetic),
        Has(GridsAvailable),
        Has(GridsKnown),
        Has(LAMBDA x : x.accuracy >= 0),
        Both(LAMBDA x, y : x.accuracy < 0 /\ HasGrids(x) /\ ~HasGrids(y)),
        Both(LAMBDA x, y : UsedArea(x) > UsedArea(y)),
        Both(LAMBDA x, y : x.accuracy >= 0 /\ x.accuracy < y.accuracy),
        Both(LAMBDA x, y : x.accuracy >= 0 /\ ~HasGrids(x) /\ HasGrids(y)),
        Has(LAMBDA x : x.xyzGridShift),
        <<HubFirst(a, b), HubSecond(a, b)>>,
        Both(LAMBDA x, y : x.steps < y.steps),
        Both(LAMBDA x, y : x.projSteps # 0 /\ x.projSteps < y.projSteps),
        Both(LAMBDA x, y : x.offsetFrom = "similar"
                           /\ y.offsetFrom = "different"),
        Both(LAMBDA x, y : x.nameSize < y.nameSize),
        Both(LAMBDA x, y : x.nameRank > y.nameRank) >>

(* A plausible mistake: the names are not compared.                         *)
PrecedesUnlessOnlyNamesDiffer(a, b) ==
  LET criteria == Criteria(a, b)
      deciding == {i \in 1..15 : criteria[i][1] \/ criteria[i][2]}
  IN deciding # {} /\ criteria[Min(deciding)][1]

\* the first criterion that tells them apart decides
Precedes(a, b) ==
  LET criteria == Criteria(a, b)
      deciding == {i \in DOMAIN criteria : criteria[i][1] \/ criteria[i][2]}
  IN deciding # {} /\ criteria[Min(deciding)][1]

\* std::sort, which for a short list is an insertion sort
Inserted(list, id) ==
  LET notAfter == {k \in DOMAIN list : ~Precedes(Op[id], Op[list[k]])}
  IN InsertAt(list, IF 1 \in notAfter THEN Max(notAfter) + 1 ELSE 1, id)

Sorted(list) == FoldLeft(Inserted, <<>>, list)

Sort ==
  /\ pc = "sort"
  /\ pc' = "removeSyntheticNullTransforms"
  /\ res' = Sorted(res)
  /\ UNCHANGED <<sourceList, context, areaOfInterest, containsWithoutGrid>>

(***************************************************************************)
(* What is removed from the sorted list.                                   *)
(***************************************************************************)
IsPlaceholder(op) == op.ballpark \/ op.synthetic

WithoutSynthetic(list, contained) ==
  IF contained /\ Len(list) > 1 /\ IsPlaceholder(Op[Last(list)])
  THEN Front(list) ELSE list

\* a concatenated operation that has an identifier counts as one step
Weight(op) == IF op.identified THEN 1 ELSE op.transformations

SameArea(a, b) == a.extent.area = b.extent.area
NotMoreAccurate(op, last) ==
  last.accuracy >= 0 /\ (op.accuracy >= last.accuracy \/ op.accuracy < 0)

(* Plausible mistakes: the extents, the identity are not compared.          *)
IsUninterestingAnywhere(op, last) ==
  \/ op = last
  \/ NotMoreAccurate(op, last) /\ Weight(op) > Weight(last)
IsUninterestingUnlessSame(op, last) ==
  NotMoreAccurate(op, last) /\ SameArea(op, last) /\ Weight(op) > Weight(last)

IsUninteresting(op, last) ==
  \/ op = last
  \/ NotMoreAccurate(op, last) /\ SameArea(op, last) /\ Weight(op) > Weight(last)

WithoutUninteresting(list) ==
  LET Keep(kept, id) == IF /\ kept # <<>>
                           /\ IsUninteresting(Op[id], Op[Last(kept)])
                        THEN kept ELSE Append(kept, id)
  IN FoldLeft(Keep, <<>>, list)

\* the key of setPROJPlusExtent
SameKey(a, b) == a.projString = b.projString /\ SameArea(a, b)

WithoutDuplicates(list) ==
  LET Keep(kept, id) ==
        IF /\ Op[id].exportable
           /\ \E k \in ToSet(kept) : Op[k].exportable /\ SameKey(Op[k], Op[id])
        THEN kept ELSE Append(kept, id)
  IN FoldLeft(Keep, <<>>, list)

RemoveSyntheticNullTransforms ==
  /\ \/ pc = "removeSyntheticNullTransforms" /\ pc' = "removeUninterestingOps"
     \/ pc = "removeSyntheticNullTransformsAgain" /\ pc' = "done"
  /\ res' = WithoutSynthetic(res, containsWithoutGrid)
  /\ UNCHANGED <<sourceList, context, areaOfInterest, containsWithoutGrid>>

RemoveUninterestingOps ==
  /\ pc = "removeUninterestingOps"
  /\ pc' = "removeDuplicateOps"
  /\ res' = WithoutUninteresting(res)
  /\ UNCHANGED <<sourceList, context, areaOfInterest, containsWithoutGrid>>

RemoveDuplicateOps ==
  /\ pc = "removeDuplicateOps"
  /\ pc' = "removeSyntheticNullTransformsAgain"
  /\ res' = WithoutDuplicates(res)
  /\ UNCHANGED <<sourceList, context, areaOfInterest, containsWithoutGrid>>

Next ==
  \/ ComputeAreaOfInterest
  \/ FilterOut
  \/ Sort
  \/ RemoveSyntheticNullTransforms
  \/ RemoveUninterestingOps
  \/ RemoveDuplicateOps

Spec == Init /\ [][Next]_vars

(***************************************************************************)
(* Properties.                                                             *)
(***************************************************************************)
Done == pc = "done"

\* what the documentation of filterAndSort (1721) says is kept
Promised(op) ==
  /\ Allowed(op)
  /\ UsesExtents => Placed(op, sourceList) /\ ExtentContains(op)

\* Operation k makes o superfluous for the reason one of the removals gives.
MakesSuperfluous(k, o) ==
  \/ k.exportable /\ o.exportable /\ SameKey(k, o)
  \/ NotMoreAccurate(o, k) /\ SameArea(k, o) /\ Weight(k) < Weight(o)
  \/ IsPlaceholder(o) /\ ~k.ballpark /\ ExtentContains(k)

\* An operation that has the accuracy asked for and whose area of use contains
\* the area of interest is in the result, or the result has one that makes it
\* superfluous, possibly through others that were removed: no two removals
\* justify each other and leave nothing.
Covered(found) ==
  LET AndThose(covered, id) ==
        covered \cup {o \in found : \E k \in covered :
                                       MakesSuperfluous(Op[k], Op[o])}
  IN FoldLeft(AndThose, ToSet(res), sourceList)

NothingLost ==
  Done => \A o \in ToSet(sourceList) :
            Promised(Op[o]) => o \in Covered(ToSet(sourceList))

\* No operation is returned twice, although filterOut appends all operations
\* to those it has kept when these are only ballpark ones (1421).
NoOperationTwice == Done => IsInjective(res)

\* "In case no operation has an extent and no result is found, retain all
\* initial operations that match accuracy criterion": nothing is returned only
\* if no operation is allowed or a real one is known to lie elsewhere.
EmptyForAReason ==
  Done /\ res = <<>> =>
    \/ \A id \in ToSet(sourceList) : ~Allowed(Op[id])
    \/ UsesExtents /\ \E id \in ToSet(sourceList) :
         ~Op[id].ballpark /\ HasExtent(Op[id]) /\ ~Fits(Op[id], sourceList)

\* What the request returns does not depend on the order in which the search
\* found the operations: the comparison is a strict weak order in which only
\* an operation and itself are equivalent. (Not between two realizations of
\* ETRS89: HubFirst is never true, so the comparison contradicts itself.)
Selected(list) ==
  LET contained == ContainedWithoutGrid(list)
  IN WithoutSynthetic(WithoutDuplicates(WithoutUninteresting(
       WithoutSynthetic(Sorted(Filtered(list)), contained))), contained)

OrderIndependent ==
  Done /\ IsInjective(sourceList) /\ ~context.etrs89 =>
    res = Selected(SetToSeq(ToSet(sourceList)))

(***************************************************************************)
(* What the theorems about these properties need of the operations, beyond *)
(* the assumptions above, and of the request.                              *)
(***************************************************************************)
\* The steps of a pipeline are counted unless there is none or it is a grid
\* shift of geocentric coordinates (1503-1523).
StepsCounted ==
  \A id \in DOMAIN Op :
    Op[id].projSteps = 0 <=> ~Op[id].exportable \/ Op[id].xyzGridShift

\* Either the names of all ballpark operations tell which coordinate systems
\* they are between, or those of none do; the same for the other operations.
OffsetsCompare ==
  \A a, b \in DOMAIN Op : Op[a].ballpark = Op[b].ballpark =>
    (Op[a].offsetFrom = "none" <=> Op[b].offsetFrom = "none")

\* The names of two operations that are as accurate are not the same.
NamesTellApart ==
  \A a, b \in DOMAIN Op :
    /\ a # b /\ Op[a].ballpark = Op[b].ballpark
    /\ Op[a].accuracy = Op[b].accuracy \/ (Op[a].accuracy < 0 /\ Op[b].accuracy < 0)
    => Op[a].nameSize # Op[b].nameSize \/ Op[a].nameRank # Op[b].nameRank

\* What the comparison is a total order for.
OpsComparable == StepsCounted /\ OffsetsCompare /\ NamesTellApart

OpsDistinct == \A a, b \in DOMAIN Op : Op[a] = Op[b] => a = b

\* What stands for no transformation is a ballpark operation, and the accuracy
\* of a ballpark operation is not known.
PlaceholdersAreVague ==
  \A id \in DOMAIN Op : /\ Op[id].synthetic => Op[id].ballpark
                        /\ Op[id].ballpark => Op[id].accuracy < 0

\* Where an operation need only intersect the extents of both CRS, that of the
\* target is known: without it filterOut finds no intersection.
TargetKnown == context.strict \/ HasArea \/ ~UsesExtents \/ context.extent2 # {}
=============================================================================
