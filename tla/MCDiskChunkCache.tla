-------------------------- MODULE MCDiskChunkCache --------------------------
(* Small instances of DiskChunkCache for TLC.                              *)
EXTENDS DiskChunkCache, TLC

CONSTANTS x1, x2

(* Contents are only stored and compared, so they are interchangeable. *)
Symmetric == Permutations({x1, x2})
=============================================================================
