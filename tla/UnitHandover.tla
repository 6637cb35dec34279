---------------------------- MODULE UnitHandover ----------------------------
(* What an activation promises about one unit, whatever crashes: the decision *)
(* to keep the replacement or to restore the previous brokers is taken once,  *)
(* every broker of the unit follows it, and no two generations of brokers     *)
(* accept menus at the same time.                                             *)
(*                                                                            *)
(* DESIGN.md "Commit, abort, and crash recovery" states it in words; module   *)
(* Activation models the journal, the coordinator and the brokers that are    *)
(* meant to implement it.                                                     *)
CONSTANTS Members

VARIABLES
  decision,  \* "open", "commit" or "abort"
  serving    \* per member, the generation that accepts menus, or "nobody"

TypeOK ==
  /\ decision \in {"open", "commit", "abort"}
  /\ serving \in [Members -> {"old", "nobody", "target"}]

Init ==
  /\ decision = "open"
  /\ serving = [m \in Members |-> "old"]

(* A previous broker stops accepting menus. A request that was on its way when *)
(* the coordinator died may still arrive after the unit was abandoned.         *)
Drain(m) ==
  /\ decision /= "commit"
  /\ serving[m] = "old"
  /\ serving' = [serving EXCEPT ![m] = "nobody"]
  /\ UNCHANGED decision

(* A previous broker serves again: only while the replacement is not decided. *)
Resume(m) ==
  /\ decision /= "commit"
  /\ serving[m] = "nobody"
  /\ serving' = [serving EXCEPT ![m] = "old"]
  /\ UNCHANGED decision

(* The replacement is decided once the whole unit is quiet, and never undone. *)
Commit ==
  /\ decision = "open"
  /\ \A m \in Members : serving[m] = "nobody"
  /\ decision' = "commit"
  /\ UNCHANGED serving

Abandon ==
  /\ decision = "open"
  /\ decision' = "abort"
  /\ UNCHANGED serving

(* A replacement broker opens to menus: only after the unit's decision. *)
Open(m) ==
  /\ decision = "commit"
  /\ serving[m] = "nobody"
  /\ serving' = [serving EXCEPT ![m] = "target"]
  /\ UNCHANGED decision

(* A broker process is lost. *)
Lose(m) ==
  /\ serving[m] /= "nobody"
  /\ serving' = [serving EXCEPT ![m] = "nobody"]
  /\ UNCHANGED decision

Next ==
  \/ Commit
  \/ Abandon
  \/ \E m \in Members : Drain(m) \/ Resume(m) \/ Open(m) \/ Lose(m)

vars == <<decision, serving>>

Spec == Init /\ [][Next]_vars

(* The two generations of a unit never accept menus at the same time. *)
OneGeneration ==
  \A m, n \in Members : ~ (serving[m] = "old" /\ serving[n] = "target")
=============================================================================
