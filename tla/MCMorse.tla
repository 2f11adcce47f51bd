------------------------------ MODULE MCMorse ------------------------------
(***************************************************************************)
(* An instance of Morse for TLC: a writer to minor 0 writes every single   *)
(* character, and "He 1L", a text with skipped characters in it, while a   *)
(* writer to minor 1 writes "a".                                           *)
(***************************************************************************)
EXTENDS Morse

CONSTANTS w1, w2

MCTexts ==
  [w \in {w1, w2} |->
     IF w = w1 THEN {<<ch>> : ch \in 1 .. 255} \cup {<<72, 101, 32, 49, 76>>}
               ELSE {<<97>>}]

TwoWriters == [w \in {w1, w2} |-> IF w = w1 THEN 1 ELSE 2]
============================================================================
