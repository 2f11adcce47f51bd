---------------------------- MODULE MCMyDynamic ----------------------------
(***************************************************************************)
(* Instances of MyDynamic for TLC.                                         *)
(***************************************************************************)
EXTENDS MyDynamic, TLC

InsideDevice == 0 .. KBUF_SIZE
PastTheEnd   == {KBUF_SIZE + 1}
Symmetry     == Permutations(Threads) \cup Permutations(Files)
============================================================================
