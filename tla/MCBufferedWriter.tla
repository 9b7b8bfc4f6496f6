-------------------------- MODULE MCBufferedWriter --------------------------
(* Instances of BufferedWriter for TLC. *)
EXTENDS BufferedWriter

CONSTANTS t1, t2, t3, f1, f2, f3

ThreeThreads == {t1, t2, t3}
ThreeFrames == {f1, f2, f3}
LastIsEmpty == {f3}
AllFaults == {"reset", "close", "throw"}
=============================================================================
