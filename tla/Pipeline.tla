------------------------------- MODULE Pipeline -------------------------------
(***************************************************************************)
(* What a pipeline computes (pipeline.cpp): its steps in order forward, in *)
(* the reverse order with the inverse of each in the other direction, with *)
(* +inv, +omit_fwd, +omit_inv and the stacks of push and pop.              *)
(*                                                                         *)
(* A step is a record: its name, whether it is inverted, its parameters,   *)
(* and omit, "fwd" or "inv" when it has +omit_fwd or +omit_inv. Coordinates*)
(* are numbers modulo M, and every operation is a bijection of them that   *)
(* reads and writes the components the real one does and obeys its laws:   *)
(* unit conversions multiply, shifts by grids add what the other           *)
(* coordinates select, a Helmert transformation is taken to its first      *)
(* order in the rotation. A point that fails is left out.                  *)
(***************************************************************************)
EXTENDS Integers, Sequences

M == 7   \* bound: the numbers a coordinate is taken modulo

\* unitconvert: the factor of each unit
Factor == [rad |-> 1, deg |-> 2, m |-> 1, ft |-> 3, usft |-> 5]
Reciprocal(a) == CHOOSE b \in 1..M - 1 : (a * b) % M = 1
Ratio(inOut) ==
  IF inOut = <<>> THEN 1 ELSE Factor[inOut[1]] * Reciprocal(Factor[inOut[2]])
Swapped(inOut) == IF inOut = <<>> THEN <<>> ELSE <<inOut[2], inOut[1]>>

ConvertUnits(p, v) ==
  <<v[1] * Ratio(p.xy), v[2] * Ratio(p.xy), v[3] * Ratio(p.z), v[4]>>

\* axisswap: order[i] is the component read, with its sign, for component i
Abs(n) == IF n < 0 THEN -n ELSE n
Read(v, n) == IF n < 0 THEN -v[-n] ELSE v[n]
SwapAxes(order, v) == [i \in 1..4 |-> IF i = 4 THEN v[4] ELSE Read(v, order[i])]
UnswapAxes(order, v) ==
  [i \in 1..4 |->
    IF i = 4 THEN v[4]
    ELSE LET j == CHOOSE j \in 1..3 : Abs(order[j]) = i
         IN IF order[j] < 0 THEN -v[j] ELSE v[j]]

\* helmert: a translation, and a rotation whose sign is that of its convention
Rotation(p) == IF p.convention = "coordinate_frame" THEN -p.r ELSE p.r
Shift(p, sign, v) ==
  <<v[1] + sign * p.t, v[2] + sign * (p.t + Rotation(p)), v[3] + sign * p.t, v[4]>>

\* hgridshift, vgridshift, cart, krovak: what they depend on
ShiftByGrid(p, sign, v) == <<v[1] + sign * (v[2] * v[2] + p.grid), v[2], v[3], v[4]>>
ShiftHeight(sign, v) == <<v[1], v[2], v[3] + sign * (v[1] + 2 * v[2]), v[4]>>
ToGeocentric(v) == <<v[1] + v[3], v[2], v[3] + v[2], v[4]>>
FromGeocentric(v) == <<v[1] - (v[3] - v[2]), v[2], v[3] - v[2], v[4]>>
SouthWest(p, v) == IF p.swu THEN <<-v[2], -v[1], v[3], v[4]>> ELSE v
Project(p, v) == SouthWest(p, <<v[2] + 1, v[1] + v[2], v[3], v[4]>>)
Unproject(p, v) ==
  LET w == SouthWest(p, v) IN <<w[2] - (w[1] - 1), w[1] - 1, w[3], w[4]>>

\* push and pop: one stack per component; nothing is popped of an empty one
Push(which, c) ==
  [c EXCEPT !.stack = [i \in 1..4 |-> IF i \in which THEN <<c.v[i]>> \o @[i] ELSE @[i]]]
Pop(which, c) ==
  LET popped == {i \in which : c.stack[i] # <<>>}
  IN [v |-> [i \in 1..4 |-> IF i \in popped THEN Head(c.stack[i]) ELSE c.v[i]],
      stack |-> [i \in 1..4 |-> IF i \in popped THEN Tail(c.stack[i]) ELSE c.stack[i]]]

Set(p, v) == [v EXCEPT ![4] = p.v4]

Values(c, v) == [c EXCEPT !.v = [i \in 1..4 |-> v[i] % M]]

\* pj_fwd4d and pj_inv4d of the operation of a step
Forward(s, c) ==
  CASE s.name = "push" -> Push(s.par, c)
    [] s.name = "pop"  -> Pop(s.par, c)
    [] s.name = "unitconvert" -> Values(c, ConvertUnits(s.par, c.v))
    [] s.name = "axisswap"    -> Values(c, SwapAxes(s.par, c.v))
    [] s.name = "helmert"     -> Values(c, Shift(s.par, 1, c.v))
    [] s.name = "hgridshift"  -> Values(c, ShiftByGrid(s.par, 1, c.v))
    [] s.name = "vgridshift"  -> Values(c, ShiftHeight(1, c.v))
    [] s.name = "cart"        -> Values(c, ToGeocentric(c.v))
    [] s.name = "krovak"      -> Values(c, Project(s.par, c.v))
    [] s.name = "set"         -> Values(c, Set(s.par, c.v))
    [] s.name \in {"noop", "longlat"} -> c

Backward(s, c) ==
  CASE s.name = "push" -> Pop(s.par, c)
    [] s.name = "pop"  -> Push(s.par, c)
    [] s.name = "unitconvert" ->
         Values(c, ConvertUnits([xy |-> Swapped(s.par.xy), z |-> Swapped(s.par.z)], c.v))
    [] s.name = "axisswap"    -> Values(c, UnswapAxes(s.par, c.v))
    [] s.name = "helmert"     -> Values(c, Shift(s.par, -1, c.v))
    [] s.name = "hgridshift"  -> Values(c, ShiftByGrid(s.par, -1, c.v))
    [] s.name = "vgridshift"  -> Values(c, ShiftHeight(-1, c.v))
    [] s.name = "cart"        -> Values(c, FromGeocentric(c.v))
    [] s.name = "krovak"      -> Values(c, Unproject(s.par, c.v))
    [] s.name = "set"         -> Values(c, Set(s.par, c.v))
    [] s.name \in {"noop", "longlat"} -> c

\* pipeline_forward_4d: the steps from the first to the last
RunForward(steps, c) ==
  LET after[n \in 0..Len(steps)] ==
        IF n = 0 THEN c
        ELSE LET s == steps[n]
             IN CASE s.omit = "fwd" -> after[n - 1]
                  [] s.omit # "fwd" /\ s.inv -> Backward(s, after[n - 1])
                  [] OTHER -> Forward(s, after[n - 1])
  IN after[Len(steps)]

\* pipeline_reverse_4d: the steps from the last to the first
RunReverse(steps, c) ==
  LET after[n \in 1..Len(steps) + 1] ==
        IF n = Len(steps) + 1 THEN c
        ELSE LET s == steps[n]
             IN CASE s.omit = "inv" -> after[n + 1]
                  [] s.omit # "inv" /\ s.inv -> Forward(s, after[n + 1])
                  [] OTHER -> Backward(s, after[n + 1])
  IN after[1]

-----------------------------------------------------------------------------
(* The steps and the coordinates *)

Unit == {"rad", "deg", "m", "ft", "usft"}
Pair == {<<>>} \cup (Unit \X Unit)

\* the order of an axisswap names each component once, with its sign
Orders == {o \in [1..3 -> -3..3] : {Abs(o[i]) : i \in 1..3} = 1..3}

\* a Helmert transformation without a convention has no rotation
Conventions == {"none", "position_vector", "coordinate_frame"}
HelmertPar ==
  {p \in [t : Int, r : Int, convention : Conventions] : p.convention = "none" => p.r = 0}

Parameters(name) ==
  CASE name \in {"push", "pop"} -> SUBSET (1..4)
    [] name = "unitconvert" -> [xy : Pair, z : Pair]
    [] name = "axisswap" -> Orders
    [] name = "helmert" -> HelmertPar
    [] name \in {"hgridshift", "vgridshift"} -> [grid : Int]
    [] name = "cart" -> STRING
    [] name = "krovak" -> [swu : BOOLEAN]
    [] name = "set" -> [v4 : Int]
    [] name \in {"noop", "longlat"} -> {<<>>}

Names == {"push", "pop", "unitconvert", "axisswap", "helmert", "hgridshift", "vgridshift",
          "cart", "krovak", "set", "noop", "longlat"}
Omits == {"none", "fwd", "inv"}
IsStep(s) == s \in [name : Names, inv : BOOLEAN, par : Parameters(s.name), omit : Omits]

Coordinates == [1..4 -> 0..M - 1]
At(v) == [v |-> v, stack |-> <<<<>>, <<>>, <<>>, <<>>>>]
==============================================================================
