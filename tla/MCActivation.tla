---------------------------- MODULE MCActivation ----------------------------
(* Small instances of Activation. *)
EXTENDS Activation

CONSTANTS m1, m2

MCOrder1 == <<m1>>
MCOrder2 == <<m1, m2>>
=============================================================================
