-------------------------- MODULE MCMenuInactivity --------------------------
(* TLC instance: a menu without a timeout and two with different ones.     *)
EXTENDS MenuInactivity, TLC

MCTimeout == [x \in Menus |-> CASE x = "never" -> NoTime [] x = "short" -> 1 [] OTHER -> 3]
=============================================================================
