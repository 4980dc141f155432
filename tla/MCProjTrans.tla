----------------------------- MODULE MCProjTrans -----------------------------
(* A transformation between two CRSs, on three points, "c" in no box.       *)
EXTENDS ProjTrans

Op(boxes, accuracy, grids, answers) ==
  [boxes |-> boxes, accuracy |-> accuracy, offshore |-> FALSE,
   unknownArea |-> FALSE, priority |-> FALSE, ballpark |-> FALSE,
   grids |-> grids, answers |-> answers]
Box(points, size) == [points |-> points, size |-> size]

Fine     == Op(<<Box({"a", "b"}, 2)>>, 1, "local", {"a"})
Remote   == Op(<<Box({"a", "b"}, 3)>>, 1, "remote", {"a", "b"})
Unknown  == Op(<<Box({"a"}, 1)>>, 0, "unknown", {})
Shelf    == [Op(<<Box({"a", "b"}, 1)>>, 1, "local", {"b"}) EXCEPT !.offshore = TRUE]
Pacific  == Op(<<Box({"a"}, 1), Box({"b"}, 1)>>, 2, "local", {"b"})
Helmert  == Op(<<Box({"a", "b"}, 4)>>, 5, "none", {"a", "b", "c"})
Null     == [Op(<<Box({"b"}, 4)>>, 1, "none", {"b", "c"}) EXCEPT !.priority = TRUE]
Ballpark == [Op(<<Box({"a", "b"}, 5)>>, -1, "none", {"a", "b", "c"})
               EXCEPT !.ballpark = TRUE, !.unknownArea = TRUE]
Empty    == Op(<<Box({"a"}, 1)>>, 3, "local", {})
Polar    == Op(<<>>, 1, "none", {})

Pool == {Fine, Remote, Unknown, Shelf, Pacific, Null, Ballpark, Polar}

\* every list of up to three of them, a few longer ones, and second searches
\* that find what the first does not
MCSearches ==
  {[kept |-> k, discarding |-> SelectSeq(k, LAMBDA o : o.grids \in {"none", "local"})] :
     k \in SeqOf(Pool, 3) \union
           {<<Remote, Fine, Helmert, Ballpark>>,
            <<Remote, Unknown, Pacific, Fine, Helmert>>,
            <<Unknown, Fine, Pacific, Remote>>,
            <<Unknown, Shelf, Pacific, Empty>>,
            <<Unknown, Shelf, Pacific, Empty, Helmert>>}}
  \union
  {[kept |-> <<Remote, Ballpark>>, discarding |-> <<Helmert>>],
   [kept |-> <<Remote>>, discarding |-> <<Ballpark, Helmert>>],
   [kept |-> <<Unknown, Remote>>, discarding |-> <<>>]}
==============================================================================
