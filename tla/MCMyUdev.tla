------------------------------ MODULE MCMyUdev ------------------------------
(***************************************************************************)
(* An instance of MyUdev for TLC.  No property tells the threads apart.    *)
(***************************************************************************)
EXTENDS MyUdev, TLC

CONSTANT x     \* an identity

Upper == [id |-> x, case |-> "upper"]
Lower == [id |-> x, case |-> "lower"]

\* Both cases in both places of the buffer, by one write or by two.
MCTexts == {<<Upper>>, <<Lower>>, <<Lower, Upper>>}

Symmetry == Permutations(Threads)
=============================================================================
