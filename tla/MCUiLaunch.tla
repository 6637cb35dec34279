----------------------------- MODULE MCUiLaunch -----------------------------
(* TLC instances of the launch protocol.                                   *)
EXTENDS UiLaunch, TLC

Symmetry == Permutations(Tokens) \cup Permutations(Sessions)
              \cup Permutations(Uis) \cup Permutations(Panes)
=============================================================================
