------------------------------ MODULE MCKeyboard ------------------------------
(***************************************************************************)
(* Instances of Keyboard for TLC: the three keys of main, an LED beside    *)
(* the first of them.                                                      *)
(***************************************************************************)
EXTENDS Keyboard

MCKeyIds == 0 .. 2
=============================================================================
