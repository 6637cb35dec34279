------------------------- MODULE UnitHandoverProofs -------------------------
(***************************************************************************)
(* The handover of a unit for any set of members.  OneGeneration is not    *)
(* inductive alone: that no replacement serves before the decision, and no *)
(* previous broker after it, is what ties the members to each other.       *)
(***************************************************************************)
EXTENDS UnitHandover, TLAPS

Inv ==
  /\ TypeOK
  /\ decision = "commit" => \A m \in Members : serving[m] # "old"
  /\ decision # "commit" => \A m \in Members : serving[m] # "target"

LEMMA InvAlways == Spec => []Inv
<1>1. Init => Inv
  BY DEF Init, Inv, TypeOK
<1>2. Inv /\ [Next]_vars => Inv'
  <2> SUFFICES ASSUME Inv, [Next]_vars PROVE Inv'
    OBVIOUS
  <2> USE DEF Inv, TypeOK
  <2>1. CASE Commit
    BY <2>1 DEF Commit
  <2>2. CASE Abandon
    BY <2>2 DEF Abandon
  <2>3. ASSUME NEW m \in Members, Drain(m) PROVE Inv'
    BY <2>3 DEF Drain
  <2>4. ASSUME NEW m \in Members, Resume(m) PROVE Inv'
    BY <2>4 DEF Resume
  <2>5. ASSUME NEW m \in Members, Open(m) PROVE Inv'
    BY <2>5 DEF Open
  <2>6. ASSUME NEW m \in Members, Lose(m) PROVE Inv'
    BY <2>6 DEF Lose
  <2>7. CASE UNCHANGED vars
    BY <2>7 DEF vars
  <2> QED
    BY <2>1, <2>2, <2>3, <2>4, <2>5, <2>6, <2>7 DEF Next
<1> QED
  BY <1>1, <1>2, PTL DEF Spec

(* No unit ever has a broker of each generation accepting menus, the promise *)
(* of the activation transaction of lifecycle/activate.rs; ActivationProofs  *)
(* shows that Activation implements Spec, so journal and brokers keep it.    *)
THEOREM OneGenerationAlways == Spec => []OneGeneration
<1>1. Inv => OneGeneration
  BY DEF Inv, OneGeneration
<1> QED
  BY <1>1, InvAlways, PTL
=============================================================================
