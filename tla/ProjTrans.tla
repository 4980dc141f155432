------------------------------ MODULE ProjTrans ------------------------------
(***************************************************************************)
(* proj_create_crs_to_crs_from_pj (crs_to_crs.cpp), proj_trans and         *)
(* proj_trans_array (trans.cpp): a transformation between two CRSs that    *)
(* holds several candidate operations and picks one of them for each       *)
(* point, retrying with another one when the first does not answer.        *)
(*                                                                         *)
(* An operation is a record:                                               *)
(*   boxes     its area of use, one box or, over the antimeridian, two, or *)
(*             none when no corner of it can be reprojected; a box is the  *)
(*             points inside it and its pseudo area                        *)
(*   accuracy  in metres, -1 when it is not known                          *)
(*   offshore, unknownArea, priority, ballpark   as their names say        *)
(*   grids     "none", "local": all on disk, "remote": known to the        *)
(*             database but not on disk, "unknown": neither                *)
(*   answers   the points its domain and its grids cover                   *)
(* The choice of the operations, proj_create_operations, is external: a    *)
(* member of Searches gives its answers when operations that miss a grid    *)
(* are kept and when they are discarded. One direction is modelled: the    *)
(* other one is the same code with the boxes of the target CRS. Epochs,    *)
(* NaN coordinates, the selection of a box through geocentric coordinates  *)
(* and a change of the network setting after the creation are left out.    *)
(***************************************************************************)
EXTENDS Integers, Sequences, SequencesExt

CONSTANTS
  Points,    \* what a coordinate can be
  Searches,   \* [kept, discarding]: two sequences of operations
  MaxArray   \* bound: the longest array proj_trans_array is called with

\* the return values of proj_errno met here; "mixed" is PROJ_ERR_COORD_TRANSFM
Errors == {"none", "network", "outside", "no_inverse_op", "no_operation",
           "mixed"}
MaxAttempts == 3   \* N_MAX_RETRY + 1

Area == [points : SUBSET Points, size : Nat]
Operation ==
  [boxes : Seq(Area), accuracy : Int, offshore : BOOLEAN, unknownArea : BOOLEAN,
   priority : BOOLEAN, ballpark : BOOLEAN, answers : SUBSET Points,
   grids : {"none", "local", "remote", "unknown"}]

ASSUME MaxArrayAssumption == MaxArray \in Nat
ASSUME SearchesAreLists ==
  Searches \subseteq [kept : Seq(Operation), discarding : Seq(Operation)]

VARIABLES
  network,   \* whether the network is enabled in the context
  server,    \* whether the server of the grids answers
  ops,       \* alternativeCoordinateOperations, or the only operation
  flags,     \* errorIfBest..., warnIfBest... and skipNonInstantiable of P
  cur,       \* iCurCoordOp; 0 for -1
  errno,     \* last_errno of the context
  call,      \* the call under way
  answer,    \* the result for the current point and the error number left
  batch      \* the state of proj_trans_array

vars == <<network, server, ops, flags, cur, errno, call, answer, batch>>

-----------------------------------------------------------------------------
(* The list of candidates *)

\* pj_create_prepared_operations: one entry per box of each operation
Prepared(list) ==
  FlattenSeq([n \in 1..Len(list) |->
    [b \in 1..Len(list[n].boxes) |-> [op |-> list[n], box |-> list[n].boxes[b]]]])

Alone(op) == <<[op |-> op, box |-> [points |-> Points, size |-> 0]]>>

IsInstantiable(op, net) ==
  \/ op.grids \in {"none", "local"}
  \/ op.grids = "remote" /\ net

HasUsableNonBallpark(list, net) ==
  \E n \in 1..Len(list) : ~list[n].op.ballpark /\ IsInstantiable(list[n].op, net)

\* the operations that miss a grid are kept by ONLY_BEST=YES, by the default,
\* and when the network could bring the grid
Candidates(choice, opt) ==
  IF opt.error \/ opt.warn \/ opt.network THEN choice.kept ELSE choice.discarding

MayRerun(opt) == (opt.error \/ opt.warn) /\ ~opt.network

WithoutBallpark(list) ==
  FlattenSeq([n \in 1..Len(list) |->
    IF list[n].op.ballpark THEN <<>> ELSE <<list[n]>>])

\* when no entry can be used, short of a ballpark one, a second search without
\* the operations that miss a grid is appended to the first
Completed(choice, opt) ==
  LET first  == Prepared(Candidates(choice, opt))
      second == Prepared(choice.discarding)
  IN IF MayRerun(opt) /\ ~HasUsableNonBallpark(first, opt.network) /\ second # <<>>
       THEN WithoutBallpark(first) \o second
       ELSE first

\* a candidate that is alone is returned as it is
ReturnsFirst(list, opt) ==
  /\ Len(list) = 1
  /\ ~MayRerun(opt) \/ opt.error \/ IsInstantiable(list[1], opt.network)

\* pj_warn_about_missing_grid: the message, and the flag it clears
Warns(f) == f.warn /\ ~f.error
AfterWarning(f) == IF Warns(f) THEN [f EXCEPT !.warn = FALSE] ELSE f

OptionFlags(opt) == [error |-> opt.error, warn |-> opt.warn, skip |-> opt.warn]

-----------------------------------------------------------------------------
(* Creation *)

NoCall == [pc |-> "idle", array |-> FALSE, todo |-> <<>>, tried |-> <<>>,
           skip |-> FALSE, i |-> 0, best |-> 0, accuracy |-> 0, net |-> FALSE]
NoAnswer == [by |-> 0, fallback |-> FALSE, error |-> "none"]
NoBatch == [ret |-> "none", isSet |-> FALSE, same |-> TRUE, failed |-> FALSE]

Init ==
  /\ network = FALSE /\ server = TRUE
  /\ ops = <<>> /\ cur = 0 /\ errno = "none"
  /\ flags = [error |-> FALSE, warn |-> TRUE, skip |-> TRUE]
  /\ call = [NoCall EXCEPT !.pc = "new"]
  /\ answer = NoAnswer /\ batch = NoBatch

Enter(pc) == call' = [NoCall EXCEPT !.pc = pc]

CreateFails(choice, opt) ==
  LET list == Candidates(choice, opt)
  IN /\ \/ list = <<>>
        \/ ReturnsFirst(list, opt) /\ opt.error
             /\ ~IsInstantiable(list[1], opt.network)
        \/ ~ReturnsFirst(list, opt) /\ Prepared(list) = <<>>
     /\ Enter("failed")
     /\ UNCHANGED <<ops, flags>>

\* P of the first operation is returned, with a warning when it cannot be used
CreateSingle(choice, opt) ==
  LET list == Candidates(choice, opt)
      ok   == IsInstantiable(list[1], opt.network)
      f    == OptionFlags(opt)
  IN /\ ReturnsFirst(list, opt)
     /\ ok \/ ~opt.error
     /\ ops' = Alone(list[1])
     /\ flags' = IF ok THEN f ELSE AfterWarning(f)
     /\ Enter("idle")

\* the set of candidates, or the one that is left of it; a first search that
\* found one unusable operation has warned already
CreateSet(choice, opt) ==
  LET list == Candidates(choice, opt)
      f    == OptionFlags(opt)
      all  == Completed(choice, opt)
  IN /\ list # <<>> /\ ~ReturnsFirst(list, opt) /\ Prepared(list) # <<>>
     /\ ops' = IF Len(all) = 1 THEN Alone(all[1].op) ELSE all
     /\ flags' = CASE Len(all) = 1  -> [f EXCEPT !.skip = TRUE]
                   [] Len(list) = 1 -> AfterWarning(f)
                   [] OTHER         -> f
     /\ Enter("idle")

\* ONLY_BEST=YES sets error, its default warns, ONLY_BEST=NO does neither
Create ==
  /\ call.pc = "new"
  /\ \E choice \in Searches, error, warn, net \in BOOLEAN :
       LET opt == [error |-> error, warn |-> warn, network |-> net]
       IN /\ ~(error /\ warn)
          /\ network' = net
          /\ \/ CreateFails(choice, opt)
             \/ CreateSingle(choice, opt)
             \/ CreateSet(choice, opt)
  /\ UNCHANGED <<server, cur, errno, answer, batch>>

-----------------------------------------------------------------------------
(* proj_trans *)

Point == Head(call.todo)
NOps == Len(ops)
Covers(e, p) == p \in e.box.points
Usable(e) == IsInstantiable(e.op, network)
Tried == {call.tried[n] : n \in 1..Len(call.tried)}

\* one candidate against the best one so far
MoreAccurate(e) == e.op.accuracy >= 0 /\ e.op.accuracy < call.accuracy
SmallerArea(e) ==
  LET b == ops[call.best]
  IN /\ e.op.accuracy = call.accuracy
     /\ e.box.size < b.box.size
     /\ ~(e.op.unknownArea /\ ~b.op.unknownArea)
     /\ ~b.op.priority

WinsByArea(e) ==   \* the area compared before the accuracy
  \/ call.best = 0
  \/ (e.box.size < ops[call.best].box.size \/ MoreAccurate(e)) /\ ~e.op.offshore
WinsIfOnshore(e) ==   \* the offshore test applied to the first candidate too
  /\ call.best = 0 \/ MoreAccurate(e) \/ SmallerArea(e)
  /\ ~e.op.offshore
Wins(e) ==
  \/ call.best = 0
  \/ (MoreAccurate(e) \/ SmallerArea(e)) /\ ~e.op.offshore

Suits(n) ==
  /\ n \notin Tried
  /\ Covers(ops[n], Point)
  /\ Wins(ops[n])
  /\ call.skip => Usable(ops[n])

\* one turn of the loop of pj_get_suggested_operation
Consider ==
  /\ call.pc = "scan" /\ call.i <= NOps
  /\ call' = IF Suits(call.i)
               THEN [call EXCEPT !.i = @ + 1, !.best = call.i,
                                 !.accuracy = ops[call.i].op.accuracy]
               ELSE [call EXCEPT !.i = @ + 1]
  /\ UNCHANGED <<network, server, ops, flags, cur, errno, answer, batch>>

Scanning(c) == [c EXCEPT !.pc = "scan", !.i = 1, !.best = 0, !.accuracy = 0]

\* what the coordinate becomes under an operation: the error number, or "none"
Outcome(op, p) ==
  CASE ~IsInstantiable(op, network) -> "no_inverse_op"
    [] op.grids = "remote" /\ ~server -> "network"
    [] p \in op.answers             -> "none"
    [] OTHER                        -> "outside"

\* pj_fwd4d: the error number is that of the operation, or the one before it
ErrnoAfter(out, before) == IF out = "none" THEN before ELSE out

Returns(by, fallback, error) ==
  /\ answer' = [by |-> by, fallback |-> fallback, error |-> error]
  /\ errno' = error

OutOfCandidates ==
  /\ call.pc = "scan" /\ call.i > NOps /\ call.best = 0
  /\ call' = [call EXCEPT !.pc = "fallback"]
  /\ UNCHANGED <<network, server, ops, flags, cur, errno, answer, batch>>

\* the suggested operation is run: the error number of an earlier attempt is
\* forgotten first, and that of an earlier call is not
Out == Outcome(ops[call.best].op, Point)
Err == ErrnoAfter(Out, IF call.tried = <<>> THEN errno ELSE "none")

Attempts ==
  /\ call.pc = "scan" /\ call.i > NOps /\ call.best # 0
  /\ cur' = call.best

LastTry == Len(call.tried) = MaxAttempts - 1

After(pc) == [call EXCEPT !.pc = pc, !.tried = Append(@, call.best),
                          !.net = @ \/ Out = "network"]

AttemptNetworkError ==
  /\ Attempts
  /\ Err = "network"
  /\ Returns(0, FALSE, Err)
  /\ call' = After("returned")
  /\ UNCHANGED <<network, server, ops, flags, batch>>

AttemptAnswers ==
  /\ Attempts
  /\ Err # "network" /\ Out = "none"
  /\ Returns(call.best, FALSE, Err)
  /\ call' = After("returned")
  /\ UNCHANGED <<network, server, ops, flags, batch>>

NeverOnlyBest == FALSE
\* ONLY_BEST=YES: the best operation or an error
OnlyBest == flags.error

AttemptFailsForGood ==
  /\ Attempts
  /\ Out \notin {"none", "network"} /\ OnlyBest
  /\ Returns(0, FALSE, "no_operation")
  /\ call' = After("returned")
  /\ UNCHANGED <<network, server, ops, flags, batch>>

\* the first failure that warns also makes the rest of the call, and every
\* later call, skip the operations that miss a grid
WarningDone(f) == [f EXCEPT !.warn = FALSE]

AttemptFails ==
  /\ Attempts
  /\ Out \notin {"none", "network"} /\ ~OnlyBest
  /\ flags' = IF flags.warn THEN WarningDone(flags) ELSE flags
  /\ errno' = Err
  /\ LET next == [After("scan") EXCEPT !.skip = @ \/ flags.warn]
     IN call' = IF LastTry THEN [next EXCEPT !.pc = "fallback"] ELSE Scanning(next)
  /\ UNCHANGED <<network, server, ops, answer, batch>>

\* without a better one, the first operation that needs no grid, wherever the
\* point is; what it gives is returned, whether it answers or not
WithoutGrids == {n \in 1..NOps : ops[n].op.grids = "none"}

FallbackUnrecorded(n) ==
  LET out == Outcome(ops[n].op, Point)
  IN /\ UNCHANGED cur
     /\ Returns(IF out = "none" THEN n ELSE 0, TRUE, ErrnoAfter(out, errno))
FallbackTo(n) ==
  LET out == Outcome(ops[n].op, Point)
  IN /\ cur' = n
     /\ Returns(IF out = "none" THEN n ELSE 0, TRUE, ErrnoAfter(out, errno))

Fallback ==
  /\ call.pc = "fallback"
  /\ \E n \in WithoutGrids :
       /\ \A m \in WithoutGrids : n <= m
       /\ FallbackTo(n)
  /\ call' = [call EXCEPT !.pc = "returned"]
  /\ UNCHANGED <<network, server, ops, flags, batch>>

NoFallback ==
  /\ call.pc = "fallback" /\ WithoutGrids = {}
  /\ Returns(0, TRUE, "no_operation")
  /\ call' = [call EXCEPT !.pc = "returned"]
  /\ UNCHANGED <<network, server, ops, flags, cur, batch>>

\* a transformation with one operation runs it
RunSingle ==
  /\ call.pc = "begin" /\ NOps = 1
  /\ LET out == Outcome(ops[1].op, Point)
     IN /\ Returns(IF out = "none" THEN 1 ELSE 0, FALSE, ErrnoAfter(out, errno))
        /\ call' = [call EXCEPT !.pc = "returned", !.net = out = "network"]
  /\ cur' = 1
  /\ UNCHANGED <<network, server, ops, flags, batch>>

BeginSearch ==
  /\ call.pc = "begin" /\ NOps > 1
  /\ call' = [Scanning(call) EXCEPT
                !.skip = flags.skip /\ ~flags.warn /\ ~flags.error]
  /\ UNCHANGED <<network, server, ops, flags, cur, errno, answer, batch>>

-----------------------------------------------------------------------------
(* The callers *)

Trans(p) ==
  /\ call.pc = "idle"
  /\ call' = [NoCall EXCEPT !.pc = "begin", !.todo = <<p>>]
  /\ answer' = NoAnswer
  /\ UNCHANGED <<network, server, ops, flags, cur, errno, batch>>

TransReturns ==
  /\ call.pc = "returned" /\ ~call.array
  /\ Enter("idle")
  /\ UNCHANGED <<network, server, ops, flags, cur, errno, answer, batch>>

StartPointDirty(e) == e
\* proj_trans_array sets the error number to 0 before each point
StartPoint(e) == "none"

TransArray(points) ==
  /\ call.pc = "idle"
  /\ call' = [NoCall EXCEPT !.pc = "begin", !.array = TRUE, !.todo = points]
  /\ answer' = NoAnswer /\ batch' = NoBatch
  /\ errno' = StartPoint(errno)
  /\ UNCHANGED <<network, server, ops, flags, cur>>

CollectedLast(b, err) == [b EXCEPT !.ret = err]
\* the error number returned: that of the points that failed, if it is the same
Collected(b, err) ==
  CASE err = "none" -> b
    [] err # "none" /\ ~b.isSet -> [b EXCEPT !.ret = err, !.isSet = TRUE]
    [] err # "none" /\ b.isSet /\ b.same /\ b.ret # err ->
         [b EXCEPT !.ret = "mixed", !.same = FALSE]
    [] OTHER -> b

ArrayPointReturns ==
  /\ call.pc = "returned" /\ call.array
  /\ batch' = [Collected(batch, errno) EXCEPT !.failed = @ \/ answer.by = 0]
  /\ IF Len(call.todo) = 1
       THEN Enter("arrayReturned") /\ errno' = batch'.ret /\ UNCHANGED answer
       ELSE /\ call' = [NoCall EXCEPT !.pc = "begin", !.array = TRUE,
                                      !.todo = Tail(call.todo)]
            /\ errno' = StartPoint(errno)
            /\ answer' = NoAnswer
  /\ UNCHANGED <<network, server, ops, flags, cur>>

ArrayReturns ==
  /\ call.pc = "arrayReturned"
  /\ Enter("idle")
  /\ UNCHANGED <<network, server, ops, flags, cur, errno, answer, batch>>

\* the caller forgets the error: proj_errno_reset
ErrnoReset ==
  /\ call.pc = "idle" /\ errno # "none"
  /\ errno' = "none"
  /\ UNCHANGED <<network, server, ops, flags, cur, call, answer, batch>>

\* the server of the grids goes down or comes back
ServerChanges ==
  /\ call.pc # "new"
  /\ server' = ~server
  /\ UNCHANGED <<network, ops, flags, cur, errno, call, answer, batch>>

Next ==
  \/ Create
  \/ \E p \in Points : Trans(p)
  \/ \E points \in SeqOf(Points, MaxArray) \ {<<>>} : TransArray(points)
  \/ RunSingle \/ BeginSearch \/ Consider \/ OutOfCandidates
  \/ AttemptNetworkError \/ AttemptAnswers \/ AttemptFailsForGood \/ AttemptFails
  \/ Fallback \/ NoFallback
  \/ TransReturns \/ ArrayPointReturns \/ ArrayReturns
  \/ ErrnoReset \/ ServerChanges

Spec == Init /\ [][Next]_vars

-----------------------------------------------------------------------------
(* Correctness *)

Returned == call.pc = "returned"
Answered == Returned /\ answer.by # 0

\* The operation proj_trans_get_last_used_operation and proj_pj_info name is
\* the one that computed the coordinates just returned, whichever of the first
\* attempt, a retry, the fallback or an only operation gave them.
LastUsedIsProducer == Answered => cur = answer.by

\* An operation answers only when each operation that covers the point, is
\* known to be more accurate and is not an offshore one, has been tried and has
\* failed, or misses a grid and is skipped: over the attempts of a call, with
\* the list of the second search appended to that of the first.
MoreAccurateOnesFailed ==
  (Answered /\ ~answer.fallback /\ NOps > 1) =>
    \A n \in 1..NOps :
      (/\ Covers(ops[n], Point) /\ ~ops[n].op.offshore
       /\ 0 <= ops[n].op.accuracy
       /\ ops[n].op.accuracy < ops[answer.by].op.accuracy)
      => \/ n \in Tried /\ n # answer.by
         \/ call.skip /\ ~Usable(ops[n])

\* With ONLY_BEST=YES a point is never given the answer of an operation when a
\* more accurate one covers it, whether or not that one has its grids
\* (functions.rst, ONLY_BEST).
BestOrNothing ==
  (Answered /\ flags.error /\ NOps > 1) =>
    ~ \E n \in 1..NOps :
        /\ Covers(ops[n], Point) /\ ~ops[n].op.offshore
        /\ 0 <= ops[n].op.accuracy
        /\ ops[n].op.accuracy < ops[answer.by].op.accuracy

\* Without ONLY_BEST=YES, "no operation" is reported only when three operations
\* have failed for the point, or every one that covers it and has its grids
\* has, and no operation does without grids.
NoOperationIsTrue ==
  (Returned /\ answer.error = "no_operation" /\ ~flags.error /\ answer.by = 0) =>
    /\ WithoutGrids = {}
    /\ \/ Len(call.tried) = MaxAttempts
       \/ \A n \in 1..NOps :
            Covers(ops[n], Point) /\ Usable(ops[n]) => n \in Tried

\* proj_trans_array returns 0 only if every point was transformed: a failure is
\* not hidden by the success of a later point.
ArrayReportsFailures ==
  call.pc = "arrayReturned" /\ batch.failed => errno # "none"

\* In an array, a point fails for a network error only if an operation met one
\* while it was transformed: the error of a point is not that of another one.
NetworkErrorIsOfThisPoint ==
  Returned /\ call.array /\ answer.error = "network" => call.net
==============================================================================
