------------------------------ MODULE GridShift ------------------------------
(***************************************************************************)
(* The operations that read shift grids - hgridshift, vgridshift and       *)
(* gridshift - over the grid sets of grids.cpp: the list of sets made from *)
(* +grids, opened when the operation is created or at its first use, the   *)
(* search of the grid a point is in, its interpolation, the inverse        *)
(* iteration, and what happens when the file behind a set has been         *)
(* replaced on the server: the set is opened again and the point retried.  *)
(*                                                                         *)
(* One context and one operation, whose calls are cut at each search and   *)
(* each interpolation; the server publishes versions of the files and the  *)
(* network fails in between.  The space is cut into cells: a point, like a *)
(* guess of the iteration, is the cell it is in, and a shift is the        *)
(* provenance <<set, version, grid, cell>> of the nodes it came from.      *)
(* Only the guesses of the iteration leave the cell of the point.          *)
(***************************************************************************)
EXTENDS Naturals, Sequences, SequencesExt, FiniteSetsExt

CONSTANTS
    Cells,
    Outside,          \* where a guess can be besides the cells
    Content,          \* Content[s][v]: the grids of version v of the set s;
                      \* <<>> is a file that is not a grid, and subgrids
                      \* stand before their parent
    Optional,         \* the sets whose name has a '@'
    Kinds,            \* the operations
    MaxIterations,    \* MAX_ITERATIONS
    Addresses,        \* bound: where the allocator can put the grids of a set
    MaxPublished      \* bound: the publications

Sets == 1..Len(Content)
Versions(s) == 1..Len(Content[s])
Indices(s) == UNION {DOMAIN Content[s][v] : v \in Versions(s)}

Vertical == {"ELLIPSOIDAL_HEIGHT_OFFSET", "VERTICAL_OFFSET_GEOGRAPHIC_TO_VERTICAL",
             "VERTICAL_OFFSET_VERTICAL_TO_VERTICAL"}
Types == Vertical \cup {"GEOGRAPHIC_3D_OFFSET", "HORIZONTAL_OFFSET", "none"}
Grid == [type : Types, cells : SUBSET Cells, nodata : SUBSET Cells, biquadratic : BOOLEAN]

ASSUME ContentIsGrids == Content \in Seq(Seq(Seq(Grid)))
ASSUME FirstVersionsAreReadable == \A s \in Sets : Content[s] # <<>> /\ Content[s][1] # <<>>
ASSUME OutsideIsNoCell == Outside \notin Cells
ASSUME KindsAreModelled == Kinds \subseteq {"hgridshift", "vgridshift", "gridshift"}
ASSUME IterationsArePositive == MaxIterations \in Nat \ {0}
ASSUME AddressesAreSome == Addresses # {}

VARIABLES
    kind,       \* the operation
    server,     \* the version of each file the server has
    published,  \* bound: publications so far
    known,      \* gKnownGrids: the list was opened once in this process
    deferred,   \* m_defer_grid_opening
    deferError, \* m_error_code_in_defer_grid_opening
    grids,      \* m_grids: the sets of the list, in its order
    opened,     \* the version each set has open, 0 when it has no grid
    address,    \* where the grids of each set are
    types,      \* gridshift's m_mainGridType, m_auxGridType and their flags
    cache,      \* gridshift's m_cacheGridInfo
    call,       \* the call under way, or what the last one came to
    errno,      \* the errno of the context
    failed      \* history: the network failed while the call was reading

object == <<deferred, deferError, grids>>
sets == <<opened, address>>
surroundings == <<kind, server, published, known>>
vars == <<surroundings, object, sets, types, cache, call, errno, failed>>

NoError == "0"
Errors == {NoError, "NETWORK_ERROR", "FILE_NOT_FOUND_OR_INVALID", "OUTSIDE_GRID", "GRID_AT_NODATA", "NO_CONVERGENCE"}
Places == Cells \cup {Outside}
Shift == UNION {{s} \X Versions(s) \X Indices(s) \X Cells : s \in Sets}
NoShift == <<>>

(* second: gridshift's second pass; used: the shifts of the passes that    *)
(* are done, tried: those of this one.  out: "huge" is HUGE_VAL, "hole" a  *)
(* point whose height alone is, and "shift" what pj_hgrid_apply_internal   *)
(* held when it gave up: a shift, or a guess relative to the grid.         *)
Call == [stage : {"none", "find", "first", "iterate", "done"}, forward : BOOLEAN, cell : Places,
         second : BOOLEAN, found3D : BOOLEAN, set : Sets \cup {0}, grid : Nat, guess : Places,
         i : 0..MaxIterations, used : SUBSET Shift, tried : SUBSET Shift,
         out : {"none", "huge", "hole", "same", "shifted", "shift"}]
NoCall == [stage |-> "none", forward |-> TRUE, cell |-> Outside, second |-> FALSE, found3D |-> FALSE,
           set |-> 0, grid |-> 0, guess |-> Outside, i |-> 0, used |-> {}, tried |-> {}, out |-> "none"]

NoTypes == [main |-> "none", aux |-> "none", is3D |-> FALSE, horizontal |-> FALSE]
NoInfo == [last |-> Outside, buffer |-> NoShift]
GridKeys == UNION {{s} \X Addresses \X Indices(s) : s \in Sets}

Init ==
    /\ kind \in Kinds
    /\ server = [s \in Sets |-> 1]
    /\ published = 0
    /\ known = FALSE
    /\ deferred = FALSE
    /\ deferError = NoError
    /\ grids = <<>>
    /\ opened = [s \in Sets |-> 0]
    /\ address = [s \in Sets |-> CHOOSE a \in Addresses : TRUE]
    /\ types = NoTypes
    /\ cache = [k \in GridKeys |-> NoInfo]
    /\ call = NoCall
    /\ errno = NoError
    /\ failed = FALSE

-----------------------------------------------------------------------------
(* The list of sets and what is in them.                                   *)

Readable(s) == Content[s][server[s]] # <<>>

(* pj_hgrid_init, pj_vgrid_init, pj_generic_grid_init, for the sets that   *)
(* the network let reach: the first mandatory one that cannot be opened    *)
(* empties the list.                                                       *)
Opens(reached, s) == s \in reached /\ Readable(s)
Missing(reached) == {s \in Sets \ Optional : ~Opens(reached, s)}
OpenError(reached) ==
    CASE Missing(reached) = {} -> NoError
      [] Missing(reached) # {} /\ Min(Missing(reached)) \in reached -> "FILE_NOT_FOUND_OR_INVALID"
      [] OTHER -> "NETWORK_ERROR"
Listed(reached) ==
    IF Missing(reached) # {} THEN <<>>
    ELSE FlattenSeq([s \in Sets |-> IF Opens(reached, s) THEN <<s>> ELSE <<>>])

(* checkGridTypes: FALSE when a type is missing or the vertical types are  *)
(* mixed; with no grid at all it is left with the last vertical type.      *)
TypesIn(list) == UNION {{g.type : g \in Range(Content[s][server[s]])} : s \in Range(list)}
TypesAreSupported(list) == "none" \notin TypesIn(list) /\ Cardinality(TypesIn(list) \cap Vertical) <= 1
VerticalType(list) ==
    IF TypesIn(list) \cap Vertical = {} THEN "none" ELSE CHOOSE t \in Vertical : t \in TypesIn(list)
CheckGridTypes(list) ==
    LET has(t) == t \in TypesIn(list) IN
    [main |-> CASE has("GEOGRAPHIC_3D_OFFSET") -> "GEOGRAPHIC_3D_OFFSET"
                [] ~has("GEOGRAPHIC_3D_OFFSET") /\ has("HORIZONTAL_OFFSET") -> "HORIZONTAL_OFFSET"
                [] list = <<>> -> "VERTICAL_OFFSET_VERTICAL_TO_VERTICAL"
                [] OTHER -> VerticalType(list),
     aux |-> IF has("HORIZONTAL_OFFSET") THEN VerticalType(list) ELSE "none",
     is3D |-> has("GEOGRAPHIC_3D_OFFSET"), horizontal |-> has("HORIZONTAL_OFFSET")]

(* The sets a call can look into.                                          *)
GridsOf(s) == IF opened[s] = 0 THEN <<>> ELSE Content[s][opened[s]]

(* gridAt: the first grid of the set that covers the place; only gridshift *)
(* asks for a type.                                                        *)
Covers(g, type, place) == place \in g.cells /\ (kind = "gridshift" => g.type = type)
GridAt(s, type, place) ==
    {g \in DOMAIN GridsOf(s) :
        Covers(GridsOf(s)[g], type, place) /\ \A h \in 1..(g - 1) : ~Covers(GridsOf(s)[h], type, place)}

(* findGrid: none, or the one of the first set of the list that has one.   *)
FindIn(ns, type, place) == UNION {{<<grids[n], g>> : g \in GridAt(grids[n], type, place)} : n \in ns}
FindGrid(type, place) ==
    FindIn({n \in DOMAIN grids : \A m \in 1..(n - 1) : GridAt(grids[m], type, place) = {}}, type, place)

-----------------------------------------------------------------------------
(* Interpolation and reopening.                                            *)

Key(s, g) == <<s, address[s], g>>
Value(val, err, changed, info) == [val |-> val, err |-> err, changed |-> changed, info |-> info]

(* pj_hgrid_interpolate, read_vgrid_value, grid_interpolate: no value off  *)
(* the grid, on a hole or after a failed read.  gridshift keeps the nodes  *)
(* of the last cell of each grid, and reads into that buffer before it     *)
(* knows whether it can use them.  Nodes read after the file was replaced  *)
(* may come from either version.                                           *)
Interpolations(s, g, place) ==
    LET grid == GridsOf(s)[g]
        v == opened[s]
        info == cache[Key(s, g)]
        filled(w) == IF kind = "gridshift" THEN [last |-> place, buffer |-> <<s, w, g, place>>] ELSE info
        spoilt(w) == IF kind = "gridshift" THEN [info EXCEPT !.buffer = <<s, w, g, place>>] ELSE info
        hole == place \in grid.nodata
    IN CASE place \notin grid.cells -> {Value(NoShift, errno, FALSE, info)}
         [] place \in grid.cells /\ kind = "gridshift" /\ info.last = place ->
               {Value(info.buffer, errno, FALSE, info)}
         [] OTHER ->
               {IF hole /\ kind = "vgridshift" THEN Value(NoShift, "GRID_AT_NODATA", FALSE, info)
                ELSE IF hole /\ kind = "gridshift" THEN Value(NoShift, errno, FALSE, spoilt(v))
                ELSE Value(<<s, v, g, place>>, errno, FALSE, filled(v))}
               \cup {Value(NoShift, "NETWORK_ERROR", FALSE, i) : i \in {info, spoilt(v)}}
               \cup (IF server[s] = v THEN {}
                     ELSE {Value(NoShift, errno, TRUE, spoilt(v)),
                           Value(<<s, server[s], g, place>>, errno, TRUE, filled(server[s]))})

(* reopen: how it ends, and the set after it.  The set loses its grids     *)
(* before, and an unreadable file sets no errno.                           *)
Reopenings(s) ==
    {[ok |-> FALSE, err |-> "NETWORK_ERROR", ver |-> 0, at |-> address[s]]}
    \cup (IF Readable(s)
          THEN {[ok |-> TRUE, err |-> errno, ver |-> server[s], at |-> a] : a \in Addresses}
          ELSE {[ok |-> FALSE, err |-> errno, ver |-> 0, at |-> address[s]]})

Reopen(s, r) ==
    /\ opened' = [opened EXCEPT ![s] = r.ver]
    /\ address' = [address EXCEPT ![s] = r.at]

(* What an interpolation leaves in gridshift's buffer.                     *)
Keep(x) == cache' = IF x.info = cache[Key(call.set, call.grid)] THEN cache
                    ELSE [cache EXCEPT ![Key(call.set, call.grid)] = x.info]

-----------------------------------------------------------------------------
(* The ways a call goes on.                                                *)

Goto(c) == call' = c

(* The end: the value goes back through pj_hgrid_apply, which says         *)
(* OUTSIDE_GRID of any HUGE_VAL, or apply, which does unless errno says    *)
(* something else; in its second pass it does not look.                    *)
ErrnoOf(c, out, err) ==
    IF out = "huge" /\ (kind = "hgridshift" \/ (kind = "gridshift" /\ (err = NoError \/ c.second)))
    THEN "OUTSIDE_GRID" ELSE err

End(c, out, err) ==
    /\ Goto([c EXCEPT !.stage = "done", !.out = out, !.used = @ \cup c.tried, !.tried = {},
                      !.set = 0, !.grid = 0, !.guess = Outside, !.i = 0])
    /\ errno' = ErrnoOf(c, out, err)

(* gridshift's second pass, for the height, unless the first did it.       *)
NeedsSecond(c) == kind = "gridshift" /\ ~c.second /\ ~c.found3D /\ types.aux # "none"
PassDone(c, out, err) ==
    IF NeedsSecond(c)
    THEN /\ Goto([c EXCEPT !.stage = "find", !.second = TRUE, !.used = @ \cup c.tried, !.tried = {},
                           !.set = 0, !.grid = 0, !.out = out])
         /\ errno' = err
    ELSE End(c, out, err)

(* The file has changed: retry the point, or give up with what is at hand. *)
GiveUpWith(x) ==
    CASE kind = "gridshift" -> "huge"
      [] kind = "vgridshift" -> "hole"
      [] OTHER -> IF call.stage = "iterate" \/ x.val # NoShift THEN "shift" ELSE "huge"
Retry == [call EXCEPT !.stage = "find", !.tried = {}, !.set = 0, !.grid = 0, !.guess = Outside, !.i = 0]
(* A plausible mistake, which xyzgridshift.cpp 102-107 and deformation.cpp *)
(* 121-126 make: the point is retried with the set as it is.               *)
HasChangedRetryOnly(x) == Goto(Retry) /\ UNCHANGED <<sets, failed, errno>>
HasChanged(x) ==
    \E r \in Reopenings(call.set) :
       /\ Reopen(call.set, r)
       /\ failed' = (failed \/ r.err = "NETWORK_ERROR")
       /\ IF r.ok THEN Goto(Retry) /\ UNCHANGED errno
          ELSE End(call, GiveUpWith(x), r.err)

-----------------------------------------------------------------------------
(* The operation: its creation and its calls.                              *)

OpenList(reached) ==
    /\ grids' = Listed(reached)
    /\ opened' = [s \in Sets |-> IF s \in Range(Listed(reached)) THEN server[s] ELSE 0]
    /\ UNCHANGED address

Checked(list) == kind = "gridshift" => TypesAreSupported(list)

CreateDeferred ==
    /\ call.stage = "none"
    /\ deferred' = TRUE
    /\ Goto([NoCall EXCEPT !.stage = "done"])
    /\ errno' = NoError
    /\ UNCHANGED <<surroundings, deferError, grids, sets, types, cache, failed>>

(* Nothing was asked to wait, and the list is opened for the first time.   *)
Create(reached) ==
    /\ call.stage = "none"
    /\ ~known
    /\ IF OpenError(reached) = NoError /\ Checked(Listed(reached))
       THEN /\ OpenList(reached)
            /\ types' = IF kind = "gridshift" THEN CheckGridTypes(Listed(reached)) ELSE NoTypes
            /\ known' = TRUE
            /\ Goto([NoCall EXCEPT !.stage = "done"])
            /\ errno' = NoError
       ELSE /\ errno' = "FILE_NOT_FOUND_OR_INVALID"
            /\ UNCHANGED <<known, grids, sets, types, call>>
    /\ UNCHANGED <<kind, server, published, deferred, deferError, cache, failed>>

Destroy ==
    /\ call.stage = "done"
    /\ deferred' = FALSE
    /\ deferError' = NoError
    /\ grids' = <<>>
    /\ opened' = [s \in Sets |-> 0]
    /\ types' = NoTypes
    /\ cache' = [k \in GridKeys |-> NoInfo]
    /\ Goto(NoCall)
    /\ errno' = NoError
    /\ failed' = FALSE
    /\ UNCHANGED <<surroundings, address>>

(* A point comes in; pj_fwd4d or pj_inv4d has put errno to 0.              *)
Point(forward, cell) == [NoCall EXCEPT !.stage = "find", !.forward = forward, !.cell = cell]
Failing(forward, cell) == [Point(forward, cell) EXCEPT !.stage = "done", !.out = "huge"]

Begin(forward, cell) ==
    /\ call.stage = "done"
    /\ failed' = FALSE
    /\ ~deferred
    /\ errno' = deferError
    /\ Goto(IF deferError # NoError THEN Failing(forward, cell)
            ELSE IF kind # "gridshift" /\ grids = <<>>
                 THEN [Point(forward, cell) EXCEPT !.stage = "done", !.out = "same"]
                 ELSE Point(forward, cell))
    /\ UNCHANGED <<surroundings, object, sets, types, cache>>

(* The list is opened now.  What it ends with is remembered for good.      *)
(* A plausible mistake: the list is empty and nothing says why.            *)
RememberNothing(reached) == NoError
Remember(reached) == OpenError(reached)
BeginDeferred(forward, cell, reached) ==
    /\ call.stage = "done"
    /\ failed' = FALSE
    /\ deferred
    /\ deferred' = FALSE
    /\ OpenList(reached)
    /\ deferError' = Remember(reached)
    /\ errno' = Remember(reached)
    /\ types' = IF kind = "gridshift" /\ Remember(reached) = NoError /\ Checked(Listed(reached))
                THEN CheckGridTypes(Listed(reached)) ELSE NoTypes
    /\ Goto(IF Remember(reached) # NoError \/ ~Checked(Listed(reached)) THEN Failing(forward, cell)
            ELSE IF kind # "gridshift" /\ Listed(reached) = <<>>
                 THEN [Point(forward, cell) EXCEPT !.stage = "done", !.out = "same"]
                 ELSE Point(forward, cell))
    /\ UNCHANGED <<surroundings, cache>>

(* The grid to use.  Where gridshift has grids of both kinds and no 3D one *)
(* covers the point, m_mainGridType itself becomes HORIZONTAL_OFFSET.      *)
Main == ~call.second /\ types.is3D
Switches == Main /\ types.horizontal /\ FindGrid(types.main, call.cell) = {}
SearchType ==
    IF call.second THEN types.aux ELSE IF Switches THEN "HORIZONTAL_OFFSET" ELSE types.main

Search ==
    /\ call.stage = "find"
    /\ types' = IF Switches THEN [types EXCEPT !.main = "HORIZONTAL_OFFSET"] ELSE types
    /\ \/ /\ FindGrid(SearchType, call.cell) = {}
          /\ End(call, IF kind = "vgridshift" THEN "hole" ELSE "huge", "OUTSIDE_GRID")
       \/ /\ \E f \in FindGrid(SearchType, call.cell) :
                Goto([call EXCEPT !.stage = "first", !.set = f[1], !.grid = f[2], !.found3D = @ \/ (Main /\ ~Switches)])
          /\ UNCHANGED errno
    /\ UNCHANGED <<surroundings, object, sets, cache, failed>>

VerticalOnly == kind = "vgridshift" \/ call.second \/ ~(types.is3D \/ types.horizontal)
Iterates ==
    /\ ~call.forward
    /\ kind = "hgridshift" \/ ~VerticalOnly
    /\ ~GridsOf(call.set)[call.grid].biquadratic

(* The interpolation at the point itself.                                  *)
First ==
    /\ call.stage = "first"
    /\ \E x \in Interpolations(call.set, call.grid, call.cell) :
          /\ Keep(x)
          /\ \/ x.changed /\ HasChanged(x)
             \/ /\ ~x.changed
                /\ failed' = (failed \/ x.err = "NETWORK_ERROR")
                /\ UNCHANGED sets
                /\ \/ x.val = NoShift /\ End(call, IF kind = "vgridshift" THEN "hole" ELSE "huge", x.err)
                   \/ /\ x.val # NoShift
                      /\ ~Iterates
                      /\ PassDone([call EXCEPT !.tried = {x.val}], "shifted", x.err)
                   \/ /\ x.val # NoShift
                      /\ Iterates
                      /\ \E p \in Places :
                            Goto([call EXCEPT !.stage = "iterate", !.tried = {x.val}, !.guess = p, !.i = MaxIterations])
                      /\ UNCHANGED errno
    /\ UNCHANGED <<surroundings, object, types>>

(* One turn of the inverse iteration: another guess, the end, or another   *)
(* grid when the guess left this one.  The last turn never counts.         *)
NotConverged == IF kind = "hgridshift" THEN "OUTSIDE_GRID" ELSE "NO_CONVERGENCE"
(* Plausible mistakes: a file that has changed in the iteration goes       *)
(* unnoticed; errno is cleared where the first approximation is used.      *)
LooksUnchanged(x) == TRUE
Unchanged(x) == ~x.changed
ClearedErrno(x) == NoError
EdgeErrno(x) == x.err

(* The grid to iterate into, when the guess left this one.                 *)
Elsewhere == {f \in FindGrid(SearchType, call.guess) : f # <<call.set, call.grid>>}

Iterate ==
    /\ call.stage = "iterate"
    /\ \E x \in Interpolations(call.set, call.grid, call.guess) :
          /\ Keep(x)
          /\ \/ ~Unchanged(x) /\ HasChanged(x)
             \/ /\ Unchanged(x)
                /\ failed' = (failed \/ x.err = "NETWORK_ERROR")
                /\ UNCHANGED sets
                /\ \/ x.val = NoShift /\ Elsewhere = {}
                      /\ PassDone([call EXCEPT !.i = 0, !.guess = Outside], "shifted", EdgeErrno(x))
                   \/ /\ (x.val = NoShift /\ Elsewhere # {}) \/ x.val # NoShift
                      /\ call.i = 1
                      /\ End(call, "huge", NotConverged)
                   \/ /\ x.val = NoShift /\ call.i > 1
                      /\ \E f \in Elsewhere : Goto([call EXCEPT !.i = @ - 1, !.set = f[1], !.grid = f[2]])
                      /\ errno' = x.err
                   \/ /\ x.val # NoShift /\ call.i > 1
                      /\ \/ PassDone([call EXCEPT !.tried = @ \cup {x.val}, !.i = 0, !.guess = Outside], "shifted", x.err)
                         \/ /\ \E p \in Places : Goto([call EXCEPT !.tried = @ \cup {x.val}, !.i = @ - 1, !.guess = p])
                            /\ errno' = x.err
    /\ UNCHANGED <<surroundings, object, types>>

-----------------------------------------------------------------------------
Publish(s) ==
    /\ published < MaxPublished
    /\ server[s] + 1 \in Versions(s)
    /\ server' = [server EXCEPT ![s] = @ + 1]
    /\ published' = published + 1
    /\ UNCHANGED <<kind, known, object, sets, types, cache, call, errno, failed>>

Step == Search \/ First \/ Iterate

Next ==
    \/ Step
    \/ CreateDeferred
    \/ \E reached \in SUBSET Sets : Create(reached)
    \/ Destroy
    \/ \E forward \in BOOLEAN, cell \in Cells :
          Begin(forward, cell) \/ \E reached \in SUBSET Sets : BeginDeferred(forward, cell, reached)
    \/ \E s \in Sets : Publish(s)

Spec == Init /\ [][Next]_vars
FairSpec == Spec /\ WF_vars(Step)
-----------------------------------------------------------------------------
(* pj_fwd4d and pj_inv4d take a finite x and no errno for a success.       *)
Success == call.stage = "done" /\ call.out \notin {"none", "huge"} /\ errno = NoError

(* A shifted point of hgridshift or vgridshift got its shifts from the     *)
(* versions its sets have open when it is returned: no answer mixes nodes  *)
(* of a file and of the one that replaced it, however often the file       *)
(* changes during an inverse iteration that wanders between sets.  And a   *)
(* forward one got it from the first set of the list that covers it.       *)
(* gridshift's buffer of nodes makes no such promise.                      *)
AnswerFromOpenGrids ==
    Success /\ call.out = "shifted" /\ kind # "gridshift" =>
        /\ \A u \in call.used : u[2] = opened[u[1]]
        /\ call.forward => call.used = {<<f[1], opened[f[1]], f[2], call.cell>> : f \in FindGrid("none", call.cell)}

(* When the network failed while a point was computed, in the middle of an *)
(* iteration for instance, where the first approximation is used instead,  *)
(* the caller gets an error and not a point.                               *)
NetworkErrorIsReported == call.stage = "done" /\ failed => errno # NoError

(* A point is never transformed without a grid that the caller said must   *)
(* be there, however many points and retries after a list that could not   *)
(* be opened late.                                                         *)
MandatoryGridsAreThere == Success => Sets \ Optional \subseteq Range(grids)

(* Every point is answered: the retries end when the server stops to       *)
(* replace the files, the iteration after MAX_ITERATIONS turns.            *)
CallReturns == call.stage \in {"find", "first", "iterate"} ~> call.stage = "done"

(* What gridshift.gie (180-192) expects of a 3D grid combined with a       *)
(* horizontal and a vertical one: a point gets the shift of the 3D grid    *)
(* where there is one and of both others elsewhere, from the cell it is    *)
(* in, whatever points came before.                                        *)
Reference(cell) ==
    LET shift(type) == {<<f[1], opened[f[1]], f[2], cell>> : f \in FindGrid(type, cell)}
        main == IF types.is3D THEN "HORIZONTAL_OFFSET" ELSE types.main
    IN IF shift("GEOGRAPHIC_3D_OFFSET") # {} THEN shift("GEOGRAPHIC_3D_OFFSET")
       ELSE shift(main) \cup shift(types.aux)
SameAnswer ==
    Success /\ call.out = "shifted" /\ call.forward /\ kind = "gridshift" => call.used = Reference(call.cell)
=============================================================================
