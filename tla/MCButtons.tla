------------------------------ MODULE MCButtons ------------------------------
(* Instances of Buttons for TLC: a tick is 100 ms.                            *)
EXTENDS Buttons

OneKey  == {0}
TwoKeys == {0, 1}
=============================================================================
