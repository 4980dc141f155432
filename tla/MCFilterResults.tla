--------------------------- MODULE MCFilterResults ---------------------------
(* Three cells; operations of the kinds the search produces.                *)
EXTENDS FilterResults

CONSTANT none

Area(cells) == [area |-> cells, desc |-> none]
World == Area(Cells)
Available == [available |-> TRUE, known |-> TRUE]
Missing   == [available |-> FALSE, known |-> TRUE]
Unheard   == [available |-> FALSE, known |-> FALSE]

Direct(accuracy, extent, proj, size) ==
  [exportable |-> TRUE, projString |-> proj, projSteps |-> 4,
   xyzGridShift |-> FALSE, ballpark |-> FALSE, ballparkVertical |-> FALSE,
   synthetic |-> FALSE, grids |-> {}, accuracy |-> accuracy, extent |-> extent,
   steps |-> 1, transformations |-> 1, identified |-> TRUE,
   etrf2000 |-> FALSE, generic |-> FALSE, offsetFrom |-> "none",
   nameSize |-> size, nameRank |-> 1]

Helmert == Direct(5, World, "helmert", 12)
Ballpark(proj, size) ==
  [Direct(-1, World, proj, size) EXCEPT !.ballpark = TRUE,
     !.synthetic = TRUE, !.identified = FALSE, !.offsetFrom = "similar"]

\* Between ETRS89-XXX and ETRS89-YYY: through ETRF2000, through the generic
\* ETRS89, and in another way.
Hub == [Direct(1, World, "hub", 50) EXCEPT !.etrf2000 = TRUE, !.steps = 3,
          !.identified = FALSE]
Generic == [Direct(1, World, "generic", 40) EXCEPT !.generic = TRUE, !.steps = 2,
              !.identified = FALSE]
Realizations == {"hub", "generic", "other"}

Found == [
  hub        |-> Hub,
  generic    |-> Generic,
  other      |-> [Generic EXCEPT !.generic = FALSE, !.projString = "other", !.nameSize = 45],
  helmert    |-> Helmert,
  \* the same pipeline, and one that is no better, as two operations
  twoSteps   |-> [Helmert EXCEPT !.steps = 2, !.identified = FALSE, !.nameSize = 20],
  threeSteps |-> [Helmert EXCEPT !.steps = 3, !.transformations = 3, !.nameSize = 30,
                     !.identified = FALSE, !.accuracy = 6, !.projString = "three"],
  vague      |-> [Helmert EXCEPT !.accuracy = -1, !.transformations = 2, !.steps = 2,
                     !.identified = FALSE, !.projString = "vague"],
  grid       |-> [Direct(1, Area({1, 2}), "grid", 13) EXCEPT !.grids = {Available}],
  missing    |-> [Direct(1, Area({1, 2}), "missing", 13) EXCEPT !.grids = {Missing},
                     !.nameRank = 2],
  unheard    |-> [Direct(-1, World, "unheard", 15) EXCEPT !.grids = {Unheard}],
  local      |-> [Direct(2, [area |-> {1}, desc |-> "France"], "local", 11)
                     EXCEPT !.xyzGridShift = TRUE, !.projSteps = 0],
  nowhere    |-> Direct(3, Area({}), "nowhere", 16),
  unwritable |-> [Direct(1, World, "", 17) EXCEPT !.exportable = FALSE,
                     !.projSteps = 0],
  offset     |-> Ballpark("noop", 30),
  otherOffset |-> [Ballpark("noop2", 25) EXCEPT !.offsetFrom = "different"],
  ballparkHeight |-> [Ballpark("height", 40) EXCEPT !.synthetic = FALSE, !.steps = 2,
                     !.ballparkVertical = TRUE, !.transformations = 2]]

Request(user, use, one, two) ==
  [areaOfInterest |-> user, extentUse |-> use, strict |-> TRUE,
   desiredAccuracy |-> 0, allowBallpark |-> TRUE, database |-> TRUE,
   gridUse |-> "USE_FOR_SORTING", extent1 |-> one, extent2 |-> two,
   etrs89 |-> FALSE]

Places == {
  Request(Area({}), "NONE", {1, 2}, {2, 3}),
  Request(Area({}), "BOTH", {1, 2}, {1}),
  Request(Area({}), "BOTH", {}, {2}),
  Request(Area({}), "INTERSECTION", {1, 2}, {2, 3}),
  Request(Area({}), "INTERSECTION", {1}, {3}),
  Request(Area({}), "SMALLEST", {1, 2}, {1, 2, 3}),
  Request(Area({}), "SMALLEST", {1}, {}),
  Request([area |-> {1}, desc |-> "France"], "SMALLEST", Cells, Cells),
  Request(Area({2, 3}), "SMALLEST", Cells, Cells)}

MCContexts ==
  Places
  \cup {[p EXCEPT !.strict = FALSE] : p \in Places}
  \cup {[p EXCEPT !.desiredAccuracy = 2, !.strict = FALSE,
                  !.allowBallpark = p.extent1 # {1, 2}] : p \in Places}
  \cup {[p EXCEPT !.gridUse = "OTHER", !.database = p.extent1 # {1, 2}] :
          p \in {q \in Places : q.extentUse = "SMALLEST"}}
  \cup {[p EXCEPT !.etrs89 = TRUE] : p \in {q \in Places : q.extent1 = Cells}}

MCLists ==
  {l \in SeqOf(DOMAIN Found \ Realizations, 3) : IsInjective(l)}
  \cup {l \in SeqOf(Realizations, 3) : IsInjective(l)}
  \cup {<<"unwritable", "grid", "unwritable">>, <<"helmert", "helmert">>,
        <<"offset", "nowhere", "otherOffset", "local", "grid">>,
        <<"threeSteps", "missing", "twoSteps", "offset", "helmert", "vague">>}

(* The operations of the run are of those the theorems are about.           *)
ASSUME FoundIsComparable == OpsComparable /\ OpsDistinct /\ PlaceholdersAreVague
=============================================================================
