--------------------------- MODULE MCPipelineString ---------------------------
(* The pipelines simplified: all the short ones over the steps the rules are   *)
(* about, longer ones over the steps that interact, pipelines followed by      *)
(* their inverse, and, for the rules on vertical grids, the sequences they     *)
(* look for with every step left out.                                          *)
EXTENDS PipelineString

Inv(s) == [s EXCEPT !.inv = TRUE]
Omit(s, o) == [s EXCEPT !.omit = o]

XY(in, out) == Units(<<in, out>>, <<>>)
Z(in, out) == Units(<<>>, <<in, out>>)
XYZ(a, b, c, d) == Units(<<a, b>>, <<c, d>>)
Axes(order) == Step("axisswap", order)
Swap == Axes(<<2, 1, 3>>)
Translation(t) == Step("helmert", [t |-> t, r |-> 0, convention |-> "none"])
Helmert(t, r, convention) == Step("helmert", [t |-> t, r |-> r, convention |-> convention])
H(grid) == Step("hgridshift", [grid |-> grid])
V == Step("vgridshift", [grid |-> 0])
Save(which) == Step("push", which)
Restore(which) == Step("pop", which)
SetTime(v4) == Step("set", [v4 |-> v4])
Cart(ellps) == Step("cart", ellps)
Krovak(swu) == Step("krovak", [swu |-> swu])
Noop == Step("noop", <<>>)
Longlat == Step("longlat", <<>>)

Conversions ==
  {XY("deg", "rad"), XY("rad", "deg"), Inv(XY("rad", "deg")), XY("rad", "rad"),
   Z("m", "ft"), Z("ft", "m"), Inv(Z("m", "usft")), Z("ft", "usft"),
   XYZ("deg", "rad", "m", "ft"), XYZ("rad", "deg", "ft", "m"),
   XYZ("rad", "deg", "m", "m"), Inv(XYZ("rad", "deg", "ft", "usft")),
   Swap, Inv(Swap)}
Turns ==
  {Swap, Axes(<<2, -1, 3>>), Inv(Axes(<<2, -1, 3>>)), Axes(<<-2, 1, 3>>),
   Axes(<<1, -2, 3>>), Inv(Axes(<<1, 2, -3>>)), XY("rad", "deg")}
Geocentric ==
  {Cart("WGS84"), Inv(Cart("WGS84")), Cart("GRS80"), Inv(Cart("GRS80")),
   Translation(0), Translation(1), Inv(Translation(1)), Translation(-1),
   Helmert(0, 0, "position_vector"), Helmert(1, 1, "position_vector"),
   Helmert(-1, -1, "position_vector"), Inv(Helmert(1, -1, "coordinate_frame"))}
Others ==
  {SetTime(1), Inv(SetTime(1)), Omit(SetTime(1), "fwd"), Omit(SetTime(1), "inv"),
   SetTime(2), Krovak(TRUE), Inv(Krovak(TRUE)), Krovak(FALSE), Inv(Krovak(FALSE)),
   Noop, Longlat, Inv(Longlat)}
Shifts ==
  {H(1), Inv(H(1)), H(2), V, Inv(V), Save({1, 2}), Restore({1, 2}), Save({3}), Restore({3}),
   Inv(Restore({3}))}
Mixed == {XY("deg", "rad"), XY("rad", "deg"), XYZ("deg", "rad", "m", "ft"), Swap, V, Inv(V)}
Reversible == {H(1), V, Cart("WGS84"), Krovak(TRUE), Translation(1),
               Helmert(1, 1, "position_vector"), XY("deg", "rad"), Axes(<<2, -1, 3>>)}

Lists(alphabet, n) == UNION {[1..k -> alphabet] : k \in 0..n}

\* Pipelines in which what is popped was pushed, read from either end
Depth(list, which) ==
  LET isPush(s) == s.name = IF s.inv THEN "pop" ELSE "push"
      depth[n \in 0..Len(list)] ==
        IF n = 0 THEN 0
        ELSE depth[n - 1]
               + (IF list[n].name \notin {"push", "pop"} \/ which \notin list[n].par THEN 0
                  ELSE IF isPush(list[n]) THEN 1 ELSE -1)
  IN depth
Balanced(list) ==
  \A which \in {1, 3} :
    LET depth == Depth([n \in 1..Len(list) |->
                   IF list[n].name \in {"push", "pop"} THEN list[n]
                   ELSE [list[n] EXCEPT !.par = {}]], which)
    IN depth[Len(list)] = 0 /\ \A n \in 1..Len(list) : depth[n] >= 0

\* The rule on Krovak takes the projection to come after its inverse (see the README)
Projects(list) ==
  \A i, j \in DOMAIN list :
    i < j /\ list[i].name = "krovak" /\ ~list[i].inv /\ list[j].name = "krovak" /\ list[j].inv
      => list[i].par = list[j].par

\* What the rules on vertical grids look for, where the code may meet it: the
\* second is never the beginning of a pipeline (see the README)
SavedPattern ==
  <<XY("rad", "deg"), Swap, Save({1, 2}), Swap, XY("deg", "rad"), V,
    XY("rad", "deg"), Swap, Restore({1, 2})>>
MovedPattern ==
  <<Swap, XY("deg", "rad"), V, XY("rad", "deg"), Swap, Save({1, 2}),
    Swap, XY("deg", "rad")>>
Undoing == <<XY("rad", "deg"), Swap>>
Long ==
  {<<H(1), V, Inv(H(1))>>, <<Inv(H(1)), V, H(1)>>,
   <<H(1)>> \o SavedPattern, <<Inv(V)>> \o SavedPattern \o <<Swap, H(1)>>, <<Inv(H(1)), V>> \o SavedPattern,
   <<Swap, XY("deg", "rad"), H(1)>> \o SavedPattern,
   <<V>> \o SavedPattern \o MovedPattern \o Undoing \o <<Restore({1, 2})>>,
   MovedPattern \o Undoing \o <<Restore({1, 2})>>,
   MovedPattern \o <<H(1), V, Inv(H(1))>> \o Undoing \o <<Restore({1, 2})>>,
   <<H(2)>> \o MovedPattern \o <<V>> \o Undoing \o <<Restore({1, 2}), Inv(H(2))>>}
WithOneLess(list) == {list} \cup {RemoveAt(list, n) : n \in DOMAIN list}

MCPoints == {<<1, 2, 4, 3>>, <<3, 5, 2, 6>>, <<0, 1, 6, 0>>}

\* Their steps between a push of the horizontal coordinates and its pop lead back
\* to where they started, as in the pipelines the library builds (see the README)
ComesBack(list) ==
  \A i, j \in DOMAIN list : i < j /\ PushXY(list[i]) /\ PopXY(list[j]) =>
    \A v \in MCPoints :
      LET w == RunForward(SubSeq(list, i + 1, j - 1), At(v)).v
      IN w[1] = v[1] /\ w[2] = v[2]

\* Pipelines followed by their inverse
ThereAndBack == {list \o Inverted(list) : list \in Lists(Reversible, 3)}

MCInputs ==
  {list \in Lists(Conversions, 3) \cup Lists(Turns, 4) \cup Lists(Geocentric, 3)
              \cup Lists(Others, 3) \cup Lists(Shifts, 4)
              \cup Lists(Mixed, 5) \cup ThereAndBack
              \cup Lists(Conversions \cup Turns \cup Geocentric \cup Others \cup Shifts, 2)
              \cup {list \in UNION {WithOneLess(l) : l \in Long} : ComesBack(list)} :
     Balanced(list) /\ Projects(list) /\ ~IsPrefix(SavedPattern, list)}

==============================================================================
