----------------------------- MODULE MCGridShift -----------------------------
(* Two files on the server for hgridshift, vgridshift and gridshift: the   *)
(* first, optional, has a subgrid with a hole and is replaced by something *)
(* unreadable; the second covers what is left, and is replaced by one      *)
(* whose types gridshift does not take together.                           *)
EXTENDS GridShift

G(type, cells, nodata, biquadratic) ==
    [type |-> type, cells |-> cells, nodata |-> nodata, biquadratic |-> biquadratic]

MCCells == 1..3
MCContent ==
    << << <<G("HORIZONTAL_OFFSET", {1}, {1}, FALSE), G("HORIZONTAL_OFFSET", {1, 2}, {}, FALSE)>>,
          <<>> >>,
       << <<G("GEOGRAPHIC_3D_OFFSET", {3}, {}, TRUE), G("ELLIPSOIDAL_HEIGHT_OFFSET", {1, 2}, {2}, FALSE)>>,
          <<G("HORIZONTAL_OFFSET", {2, 3}, {}, FALSE), G("ELLIPSOIDAL_HEIGHT_OFFSET", {2, 3}, {}, FALSE),
            G("VERTICAL_OFFSET_GEOGRAPHIC_TO_VERTICAL", {1}, {}, FALSE)>> >> >>

(* A file with a 3D grid and one with a horizontal and a vertical grid.    *)
MCMixContent ==
    << << <<G("GEOGRAPHIC_3D_OFFSET", {3}, {}, FALSE)>> >>,
       << <<G("HORIZONTAL_OFFSET", {1, 2}, {}, FALSE), G("ELLIPSOIDAL_HEIGHT_OFFSET", {1, 2}, {}, FALSE)>> >> >>
==============================================================================
