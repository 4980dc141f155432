--------------------------- MODULE MCGridDownload ---------------------------
(* Two processes, one of which looks the file up; three versions of two    *)
(* and three units.                                                        *)
EXTENDS GridDownload

CONSTANTS p1, p2

MCProcesses == {p1, p2}
MCLookers == {p1}
MCSize == <<2, 3, 2>>
MCCacheKeys == {<<TRUE, FALSE>>, <<FALSE, FALSE>>}
=============================================================================
