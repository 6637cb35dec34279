-------------------------- MODULE MCZellijCapture --------------------------
(* TLC instances of keyboard capture.                                      *)
EXTENDS ZellijCapture, TLC

CONSTANTS l1, l2
MCLeases == {l1, l2}
Symmetry == Permutations(MCLeases)

Bounds(f, K, s) == [faults |-> f, kinds |-> K, switches |-> s]

(* Nothing disturbs a capture.                                             *)
Undisturbed == {Bounds(0, {}, 0)}

(* One fault and one mode change by the user, in any order; the faults     *)
(* with the largest aftermath happen to a user who keeps the mode.         *)
Disturbed ==
    {Bounds(1, {"expiry", "reload", "broker"}, 1),
     Bounds(1, {"write", "release", "channel", "suspend"}, 0)}
=============================================================================
