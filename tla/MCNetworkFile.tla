---------------------------- MODULE MCNetworkFile ----------------------------
(* Small instances of NetworkFile for TLC.                                 *)
EXTENDS NetworkFile, TLC

CONSTANTS t1, t2, p1, p2

(* Two files of one process share its memory caches. *)
SameProcess == [t \in {t1, t2} |-> p1]

OneThread == [t \in {t1} |-> p1]

TwoProcesses == t1 :> p1 @@ t2 :> p2

(* The versions of a file of two chunks, one unit each. *)
TwoChunks2 == <<2, 2>>

(* A file of two chunks of two units, the last one short. *)
ShortLast == <<3>>
=============================================================================
