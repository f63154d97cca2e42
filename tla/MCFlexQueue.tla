---------------------------- MODULE MCFlexQueue ----------------------------
(* The instance of FlexQueue for TLC: two threads push, two pop and release. *)
EXTENDS FlexQueue
=============================================================================
