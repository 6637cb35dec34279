------------------------- MODULE HostCleanupProofs -------------------------
(***************************************************************************)
(* The cleanup supervisor's safety for every set of leases and every       *)
(* number of enqueues and host failures.                                   *)
(*                                                                         *)
(* EntryOwned is not inductive alone: whether a spawn may be skipped       *)
(* depends on what a filled slot says about its task, and whether a new    *)
(* task may be started depends on there being no task without a slot.      *)
(* Claimed says both, and that claims are issued once.                     *)
(***************************************************************************)
EXTENDS HostCleanup, TLAPS

(* A filled slot names a task of its lease that works, a task that works    *)
(* holds its lease's slot, and claims not yet issued have no task.          *)
Claimed ==
    /\ \A l \in Leases : slot[l] # 0 => Key(slot[l]) = l /\ Working(slot[l])
    /\ \A c \in Claims : Working(c) => slot[Key(c)] = c
    /\ \A c \in Claims : c >= nextClaim => task[c].pc = "none"
    /\ nextClaim <= enqueues + 1

(* An entry has a filled slot. *)
Slotted == \A l \in Leases : entry[l] # "none" => slot[l] # 0

(* A task removes its entry only after the host confirmed. *)
Confirmed ==
    /\ ForgottenIsReleased
    /\ \A c \in Claims : task[c].pc = "succeeded" => Key(c) \in released

Inv == TypeOK /\ Claimed /\ Slotted /\ Confirmed

-----------------------------------------------------------------------------

LEMMA InitInv == Init => Inv
<1> SUFFICES ASSUME Init PROVE Inv
    OBVIOUS
<1>1. (CHOOSE l \in Leases : TRUE) \in Leases
    BY CleanupAssumption
<1>2. TypeOK
    <2>1. task \in [Claims -> [pc : TaskPc, key : Leases]]
        BY <1>1 DEF Init, TaskPc
    <2>2. due \in [Leases -> BOOLEAN]
        BY DEF Init
    <2>3. entry \in [Leases -> {"none", "Ready", "InFlight"}]
        BY DEF Init
    <2>4. slot \in [Leases -> Claims \cup {0}]
        BY DEF Init
    <2>5. /\ nextClaim \in 1..(MaxEnqueues + 1)
          /\ enqueues \in 0..MaxEnqueues
          /\ failures \in 0..MaxHostFailures
        BY CleanupAssumption DEF Init
    <2>6. /\ released \subseteq Leases /\ retired \subseteq Leases
          /\ drain \in {"idle", "waiting", "confirmed", "unconfirmed"}
        BY DEF Init
    <2> QED
        BY <2>1, <2>2, <2>3, <2>4, <2>5, <2>6 DEF TypeOK
<1>3. \A c \in Claims : task[c].pc = "none"
    BY DEF Init
<1>4. Claimed
    <2>1. nextClaim <= enqueues + 1 /\ \A l \in Leases : slot[l] = 0
        BY DEF Init
    <2> QED
        BY <1>3, <2>1 DEF Claimed, Working
<1>5. Slotted /\ Confirmed
    BY <1>3 DEF Init, Slotted, Confirmed, ForgottenIsReleased
<1> QED
    BY <1>2, <1>4, <1>5 DEF Inv

(* Types of what the steps below move. *)
LEMMA Types ==
    ASSUME TypeOK
    PROVE  /\ \A c \in Claims : Key(c) \in Leases /\ task[c].pc \in TaskPc
           /\ \A c \in Claims : task[c] = [pc |-> task[c].pc, key |-> Key(c)]
           /\ 0 \notin Claims /\ Claims \subseteq Nat
BY CleanupAssumption DEF TypeOK, Key, Claims

(* Goto changes one program counter. *)
LEMMA GotoMoves ==
    ASSUME TypeOK, NEW c \in Claims, NEW pc \in TaskPc, Goto(c, pc)
    PROVE  /\ task' \in [Claims -> [pc : TaskPc, key : Leases]]
           /\ \A d \in Claims : Key(d)' = Key(d)
           /\ \A d \in Claims : task'[d].pc = IF d = c THEN pc ELSE task[d].pc
BY DEF TypeOK, Goto, Key

(* A task that goes on working, with slots, claims and enqueues left alone. *)
LEMMA KeepsClaims ==
    ASSUME TypeOK, Claimed, NEW c \in Claims, Working(c),
           NEW pc \in TaskPc \ {"none", "leaving", "ended"}, Goto(c, pc),
           UNCHANGED <<slot, nextClaim, enqueues>>
    PROVE  Claimed'
<1>1. /\ \A d \in Claims : Key(d)' = Key(d)
      /\ \A d \in Claims : task'[d].pc = IF d = c THEN pc ELSE task[d].pc
    BY GotoMoves
<1>2. \A d \in Claims : Working(d)' <=> Working(d)
    BY <1>1 DEF Working
<1>3. \A l \in Leases : slot[l] # 0 => slot[l] \in Claims
    BY DEF TypeOK
<1>4. \A d \in Claims : d >= nextClaim => d # c
    BY DEF Claimed, Working
<1> QED
    BY <1>1, <1>2, <1>3, <1>4 DEF Claimed

LEMMA EnqueueInv ==
    ASSUME Inv, NEW l \in Leases, Enqueue(l)
    PROVE  Inv'
<1> USE DEF Inv
<1>1. enqueues \in Nat /\ enqueues < MaxEnqueues /\ enqueues' = enqueues + 1
      /\ enqueues' \in 0..MaxEnqueues
    BY CleanupAssumption DEF Enqueue, TypeOK
<1>2. entry' = [entry EXCEPT ![l] = "InFlight"] /\ retired' = retired \cup {l}
      /\ released' = released /\ failures' = failures /\ drain' = drain
    BY DEF Enqueue
<1>3. entry' \in [Leases -> {"none", "Ready", "InFlight"}] /\ retired' \subseteq Leases
    BY <1>2 DEF TypeOK
<1>4. CASE UNCHANGED <<due, slot, task, nextClaim>> /\ slot[l] # 0
    <2>1. TypeOK'
        BY <1>1, <1>2, <1>3, <1>4 DEF TypeOK
    <2>2. Claimed'
        <3>1. nextClaim \in Nat
            BY DEF TypeOK
        <3> QED
            BY <1>1, <1>4, <3>1 DEF Claimed, Key, Working
    <2>3. Slotted'
        BY <1>2, <1>3, <1>4 DEF Slotted, TypeOK
    <2>4. Confirmed'
        BY <1>2, <1>4 DEF Confirmed, ForgottenIsReleased, Key, TypeOK
    <2> QED
        BY <2>1, <2>2, <2>3, <2>4
<1>5. CASE /\ due' = [due EXCEPT ![l] = TRUE] /\ UNCHANGED <<slot, task, nextClaim>>
           /\ slot[l] # 0
    <2>1. TypeOK'
        BY <1>1, <1>2, <1>3, <1>5 DEF TypeOK
    <2>2. Claimed'
        <3>1. nextClaim \in Nat
            BY DEF TypeOK
        <3> QED
            BY <1>1, <1>5, <3>1 DEF Claimed, Key, Working
    <2>3. Slotted'
        BY <1>2, <1>3, <1>5 DEF Slotted, TypeOK
    <2>4. Confirmed'
        BY <1>2, <1>5 DEF Confirmed, ForgottenIsReleased, Key, TypeOK
    <2> QED
        BY <2>1, <2>2, <2>3, <2>4
<1>6. CASE /\ due' = [due EXCEPT ![l] = TRUE] /\ slot[l] = 0
           /\ slot' = [slot EXCEPT ![l] = nextClaim]
           /\ task' = [task EXCEPT ![nextClaim] = [pc |-> "loop", key |-> l]]
           /\ nextClaim' = nextClaim + 1
    <2>1. nextClaim \in Claims /\ nextClaim' \in 1..(MaxEnqueues + 1)
          /\ nextClaim' <= enqueues' + 1 /\ nextClaim \in Nat
        BY <1>1, <1>6, CleanupAssumption DEF Claimed, TypeOK, Claims
    <2>2. TypeOK'
        BY <1>1, <1>2, <1>3, <1>6, <2>1 DEF TypeOK, TaskPc
    <2>3. /\ task[nextClaim].pc = "none"
          /\ \A d \in Claims : d # nextClaim => task'[d] = task[d]
          /\ task'[nextClaim].pc = "loop" /\ task'[nextClaim].key = l
        BY <1>6, <2>1 DEF Claimed, TypeOK
    <2>4. \A k \in Leases : k # l => slot'[k] = slot[k]
        BY <1>6 DEF TypeOK
    <2>5. slot'[l] = nextClaim
        BY <1>6 DEF TypeOK
    <2>6. (\A k \in Leases : slot[k] # 0 => Key(slot[k]) = k /\ Working(slot[k]))'
        <3>1. SUFFICES ASSUME NEW k \in Leases, slot'[k] # 0
                       PROVE  task'[slot'[k]].key = k
                              /\ task'[slot'[k]].pc \notin {"none", "leaving", "ended"}
            BY DEF Key, Working
        <3>2. CASE k = l
            BY <2>3, <2>5, <3>2
        <3>3. CASE k # l
            <4>1. slot'[k] = slot[k] /\ slot[k] \in Claims
                BY <2>4, <3>1, <3>3 DEF TypeOK
            <4>2. task[slot[k]].key = k /\ task[slot[k]].pc \notin {"none", "leaving", "ended"}
                BY <3>1, <4>1 DEF Claimed, Key, Working
            <4> QED
                BY <2>3, <4>1, <4>2
        <3> QED
            BY <3>2, <3>3
    <2>7. \A d \in Claims : Working(d)' => slot'[Key(d)'] = d
        <3>1. SUFFICES ASSUME NEW d \in Claims, Working(d)'
                       PROVE  slot'[task'[d].key] = d
            BY DEF Key
        <3>2. CASE d = nextClaim
            BY <2>3, <2>5, <3>2
        <3>3. CASE d # nextClaim
            <4>1. task'[d] = task[d]
                BY <2>3, <3>3
            <4>2. Working(d) /\ slot[task[d].key] = d
                BY <3>1, <4>1 DEF Working, Claimed, Key
            <4>3. task[d].key \in Leases /\ d # 0
                BY Types DEF Key
            <4>4. task[d].key # l
                BY <1>6, <4>2, <4>3
            <4> QED
                BY <2>4, <4>1, <4>2, <4>3, <4>4
        <3> QED
            BY <3>2, <3>3
    <2>8. \A d \in Claims : d >= nextClaim' => task'[d].pc = "none"
        <3>1. SUFFICES ASSUME NEW d \in Claims, d >= nextClaim' PROVE task'[d].pc = "none"
            OBVIOUS
        <3>2. d # nextClaim /\ d >= nextClaim
            BY <1>6, <2>1, <3>1, Types
        <3> QED
            BY <2>3, <3>2 DEF Claimed
    <2>9. Claimed'
        BY <2>1, <2>6, <2>7, <2>8 DEF Claimed
    <2>10. Slotted'
        <3>1. nextClaim # 0
            BY <2>1, Types
        <3> QED
            BY <1>2, <2>4, <2>5, <3>1 DEF Slotted, TypeOK
    <2>11. Confirmed'
        <3>1. ForgottenIsReleased'
            BY <1>2 DEF Confirmed, ForgottenIsReleased, TypeOK
        <3>2. \A d \in Claims : task'[d].pc = "succeeded" => Key(d)' \in released'
            BY <1>2, <2>3 DEF Confirmed, Key
        <3> QED
            BY <3>1, <3>2 DEF Confirmed
    <2> QED
        BY <2>2, <2>9, <2>10, <2>11
<1>7. slot[l] # 0 => HasLiveTask(l)
    BY DEF HasLiveTask, Claimed, Working
<1>8. entry[l] = "InFlight" => slot[l] # 0
    BY DEF Slotted
<1> QED
    BY <1>4, <1>5, <1>6, <1>7, <1>8 DEF Enqueue, Spawn, HasLiveTask

(* A step of a task that goes on working and only moves its own program      *)
(* counter and its lease's entry.                                            *)
LEMMA TaskMovesInv ==
    ASSUME Inv, NEW c \in Claims, Working(c),
           NEW pc \in TaskPc \ {"none", "leaving", "ended"}, Goto(c, pc),
           NEW e \in {"none", "Ready", "InFlight"},
           entry' = [entry EXCEPT ![Key(c)] = e],
           due' \in [Leases -> BOOLEAN], failures' \in 0..MaxHostFailures,
           released \subseteq released', released' \subseteq Leases,
           pc = "succeeded" => Key(c) \in released',
           e = "none" => Key(c) \in released' \/ entry[Key(c)] = "none",
           UNCHANGED <<slot, nextClaim, enqueues, retired, drain>>
    PROVE  Inv'
<1> USE DEF Inv
<1>1. /\ task' \in [Claims -> [pc : TaskPc, key : Leases]]
      /\ \A d \in Claims : Key(d)' = Key(d)
      /\ \A d \in Claims : task'[d].pc = IF d = c THEN pc ELSE task[d].pc
    BY GotoMoves
<1>2. Key(c) \in Leases /\ c # 0
    BY Types
<1>3. entry' \in [Leases -> {"none", "Ready", "InFlight"}]
    BY DEF TypeOK
<1>4. TypeOK'
    BY <1>1, <1>3 DEF TypeOK
<1>5. Claimed'
    BY KeepsClaims
<1>6. Slotted'
    <2>1. slot[Key(c)] = c
        BY DEF Claimed
    <2> QED
        BY <1>2, <2>1 DEF Slotted, TypeOK
<1>7. ForgottenIsReleased'
    BY <1>2 DEF Confirmed, ForgottenIsReleased, TypeOK
<1>8. \A d \in Claims : task'[d].pc = "succeeded" => Key(d)' \in released'
    BY <1>1 DEF Confirmed
<1> QED
    BY <1>4, <1>5, <1>6, <1>7, <1>8 DEF Confirmed

(* A task that leaves gives back its own slot and no other. *)
LEMMA TaskLeavesInv ==
    ASSUME Inv, NEW c \in Claims, NEW pc \in {"leaving", "ended"}, Goto(c, pc),
           entry[Key(c)] = "none" \/ ~ Working(c), task[c].pc # "none",
           slot' = [slot EXCEPT ![Key(c)] = IF @ = c THEN 0 ELSE @],
           UNCHANGED <<entry, due, nextClaim, enqueues, failures, released, retired, drain>>
    PROVE  Inv'
<1> USE DEF Inv
<1>1. /\ task' \in [Claims -> [pc : TaskPc, key : Leases]]
      /\ \A d \in Claims : Key(d)' = Key(d)
      /\ \A d \in Claims : task'[d].pc = IF d = c THEN pc ELSE task[d].pc
    BY GotoMoves DEF TaskPc
<1>2. Key(c) \in Leases /\ c # 0 /\ 0 \notin Claims
    BY Types
<1>3. slot' \in [Leases -> Claims \cup {0}]
    BY DEF TypeOK
<1>4. TypeOK'
    BY <1>1, <1>3 DEF TypeOK
<1>5. \A l \in Leases : slot'[l] # 0 => slot'[l] = slot[l] /\ slot[l] \in Claims \ {c}
    <2>1. \A l \in Leases : slot[l] = c => l = Key(c)
        BY <1>2 DEF Claimed
    <2> QED
        BY <1>2, <2>1 DEF TypeOK
<1>6. \A l \in Leases : slot[l] # c => slot'[l] = slot[l]
    BY <1>2 DEF TypeOK
<1>7. \A d \in Claims \ {c} : Working(d)' <=> Working(d)
    BY <1>1 DEF Working
<1>8. ~ Working(c)'
    BY <1>1 DEF Working
<1>9. (\A l \in Leases : slot[l] # 0 => Key(slot[l]) = l /\ Working(slot[l]))'
    <2>1. SUFFICES ASSUME NEW l \in Leases, slot'[l] # 0
                   PROVE  task'[slot'[l]].key = l
                          /\ task'[slot'[l]].pc \notin {"none", "leaving", "ended"}
        BY DEF Key, Working
    <2>2. slot'[l] = slot[l] /\ slot[l] \in Claims \ {c} /\ slot[l] # 0
        BY <1>2, <1>5, <2>1
    <2>3. task[slot[l]].key = l /\ task[slot[l]].pc \notin {"none", "leaving", "ended"}
        BY <2>2 DEF Claimed, Key, Working
    <2> QED
        BY <1>1, <2>2, <2>3 DEF Key
<1>10. \A d \in Claims : Working(d)' => slot'[Key(d)'] = d
    <2>1. SUFFICES ASSUME NEW d \in Claims, Working(d)' PROVE slot'[Key(d)] = d
        BY <1>1
    <2>2. d # c /\ Working(d)
        BY <1>7, <1>8, <2>1
    <2>3. slot[Key(d)] = d /\ Key(d) \in Leases
        BY <2>2, Types DEF Claimed
    <2> QED
        BY <1>6, <2>2, <2>3
<1>11. \A d \in Claims : d >= nextClaim' => task'[d].pc = "none"
    BY <1>1 DEF Claimed
<1>12. Claimed'
    BY <1>9, <1>10, <1>11 DEF Claimed
<1>13. Slotted'
    <2>1. SUFFICES ASSUME NEW l \in Leases, entry[l] # "none" PROVE slot'[l] # 0
        BY DEF Slotted
    <2>2. slot[l] # 0 /\ Key(slot[l]) = l /\ Working(slot[l])
        BY <2>1 DEF Slotted, Claimed
    <2>3. slot[l] # c
        BY <2>1, <2>2
    <2> QED
        BY <1>6, <2>2, <2>3
<1>14. Confirmed'
    BY <1>1 DEF Confirmed, ForgottenIsReleased
<1> QED
    BY <1>4, <1>12, <1>13, <1>14

(* One case per step of a task or answer of the host. *)
LEMMA TaskInv ==
    ASSUME Inv, NEW c \in Claims, TaskStep(c) \/ HostReleases(c) \/ HostFails(c)
    PROVE  Inv'
<1> USE DEF Inv
<1>1. Key(c) \in Leases /\ entry[Key(c)] \in {"none", "Ready", "InFlight"}
      /\ entry = [entry EXCEPT ![Key(c)] = entry[Key(c)]]
    BY Types DEF TypeOK
<1>2. CASE TaskLooks(c)
    <2>1. Working(c)
        BY <1>2 DEF TaskLooks, At, Working
    <2> DEFINE e == entry[Key(c)]
               mine == e = "InFlight" \/ (e = "Ready" /\ due[Key(c)])
               f == IF mine THEN "InFlight" ELSE e
               pc == IF e = "none" THEN "releasing" ELSE IF mine THEN "calling" ELSE "recheck"
    <2>2. entry' = [entry EXCEPT ![Key(c)] = f] /\ Goto(c, pc)
        BY <1>2 DEF TaskLooks
    <2>3. pc \in TaskPc \ {"none", "leaving", "ended"} /\ pc # "succeeded"
        BY DEF TaskPc
    <2>4. f \in {"none", "Ready", "InFlight"} /\ (f = "none" => e = "none")
        BY <1>1
    <2>5. UNCHANGED <<due, failures, released, slot, nextClaim, enqueues, retired, drain>>
        BY <1>2 DEF TaskLooks
    <2> HIDE DEF f, pc
    <2> QED
        BY <2>1, <2>2, <2>3, <2>4, <2>5, TaskMovesInv DEF TypeOK
<1>3. CASE TaskRechecks(c)
    <2> DEFINE pc == IF entry[Key(c)] = "none" THEN "releasing" ELSE "asleep"
    <2>1. pc \in TaskPc \ {"none", "leaving", "ended"} /\ pc # "succeeded"
        BY DEF TaskPc
    <2>2. Working(c) /\ Goto(c, pc)
          /\ UNCHANGED <<entry, due, failures, released, slot, nextClaim, enqueues, retired, drain>>
        BY <1>3 DEF TaskRechecks, At, Working
    <2> HIDE DEF pc
    <2> QED
        BY <1>1, <2>1, <2>2, TaskMovesInv DEF TypeOK
<1>4. CASE TaskWakes(c)
    <2>1. Working(c) /\ Goto(c, "loop")
          /\ UNCHANGED <<entry, due, failures, released, slot, nextClaim, enqueues, retired, drain>>
        BY <1>4 DEF TaskWakes, At, Working
    <2>2. "loop" \in TaskPc \ {"none", "leaving", "ended"}
        BY DEF TaskPc
    <2> QED
        BY <1>1, <2>1, <2>2, TaskMovesInv DEF TypeOK
<1>5. CASE TaskRemoves(c)
    <2>1. Working(c) /\ Goto(c, "releasing") /\ Key(c) \in released
          /\ entry' = [entry EXCEPT ![Key(c)] = "none"]
          /\ UNCHANGED <<due, failures, released, slot, nextClaim, enqueues, retired, drain>>
        BY <1>5 DEF TaskRemoves, At, Working, Confirmed
    <2>2. "releasing" \in TaskPc \ {"none", "leaving", "ended"}
        BY DEF TaskPc
    <2> QED
        BY <1>1, <2>1, <2>2, TaskMovesInv DEF TypeOK
<1>6. CASE TaskBacksOff(c)
    <2>1. Working(c) /\ UNCHANGED <<failures, released, slot, nextClaim, enqueues, retired, drain>>
        BY <1>6 DEF TaskBacksOff, At, Working
    <2>2. {"releasing", "asleep"} \subseteq TaskPc \ {"none", "leaving", "ended"}
        BY DEF TaskPc
    <2>3. CASE Goto(c, "releasing") /\ UNCHANGED <<entry, due>>
        BY <1>1, <2>1, <2>2, <2>3, TaskMovesInv DEF TypeOK
    <2>4. CASE /\ entry' = [entry EXCEPT ![Key(c)] = "Ready"]
               /\ due' = [due EXCEPT ![Key(c)] = FALSE] /\ Goto(c, "asleep")
        <3>1. due' \in [Leases -> BOOLEAN]
            BY <2>4 DEF TypeOK
        <3> QED
            BY <2>1, <2>2, <2>4, <3>1, TaskMovesInv DEF TypeOK
    <2> QED
        BY <1>6, <2>3, <2>4 DEF TaskBacksOff
<1>7. CASE TaskReleasesSlot(c)
    <2>1. Working(c) /\ task[c].pc = "releasing"
          /\ UNCHANGED <<entry, due, failures, released, nextClaim, enqueues, retired, drain>>
        BY <1>7 DEF TaskReleasesSlot, At, Working
    <2>2. CASE entry[Key(c)] # "none"
        <3>1. Goto(c, "loop") /\ UNCHANGED slot
            BY <1>7, <2>2 DEF TaskReleasesSlot
        <3>2. "loop" \in TaskPc \ {"none", "leaving", "ended"}
            BY DEF TaskPc
        <3> QED
            BY <1>1, <2>1, <3>1, <3>2, TaskMovesInv DEF TypeOK
    <2>3. CASE entry[Key(c)] = "none"
        BY <1>7, <2>1, <2>3, TaskLeavesInv DEF TaskReleasesSlot, Releases
    <2> QED
        BY <2>2, <2>3
<1>8. CASE TaskEnds(c)
    <2>1. ~ Working(c) /\ task[c].pc # "none" /\ Goto(c, "ended")
        BY <1>8 DEF TaskEnds, At, Working
    <2> QED
        BY <1>8, <2>1, TaskLeavesInv DEF TaskEnds
<1>9. CASE HostReleases(c)
    <2>1. Working(c) /\ Goto(c, "succeeded") /\ released' = released \cup {Key(c)}
          /\ UNCHANGED <<entry, due, failures, slot, nextClaim, enqueues, retired, drain>>
        BY <1>9 DEF HostReleases, At, Working
    <2>2. "succeeded" \in TaskPc \ {"none", "leaving", "ended"}
        BY DEF TaskPc
    <2> QED
        BY <1>1, <2>1, <2>2, TaskMovesInv DEF TypeOK
<1>10. CASE HostFails(c)
    <2>1. Working(c) /\ Goto(c, "failed") /\ failures < MaxHostFailures
          /\ failures' = failures + 1
          /\ UNCHANGED <<entry, due, released, slot, nextClaim, enqueues, retired, drain>>
        BY <1>10 DEF HostFails, At, Working
    <2>2. "failed" \in TaskPc \ {"none", "leaving", "ended"}
        BY DEF TaskPc
    <2>3. failures' \in 0..MaxHostFailures
        BY <2>1, CleanupAssumption DEF TypeOK
    <2> QED
        BY <1>1, <2>1, <2>2, <2>3, TaskMovesInv DEF TypeOK
<1> QED
    BY <1>2, <1>3, <1>4, <1>5, <1>6, <1>7, <1>8, <1>9, <1>10 DEF TaskStep

(* Timers and the drain's wait touch neither entries nor tasks. *)
LEMMA OtherInv ==
    ASSUME Inv, UNCHANGED <<entry, slot, task, nextClaim, enqueues, failures, released, retired>>,
           due' \in [Leases -> BOOLEAN],
           drain' \in {"idle", "waiting", "confirmed", "unconfirmed"}
    PROVE  Inv'
<1>1. TypeOK'
    BY DEF Inv, TypeOK
<1>2. Claimed' /\ Slotted' /\ Confirmed'
    BY DEF Inv, Claimed, Slotted, Confirmed, ForgottenIsReleased, Working, Key
<1> QED
    BY <1>1, <1>2 DEF Inv

LEMMA StepInv == Inv /\ [Next]_vars => Inv'
<1> SUFFICES ASSUME Inv, [Next]_vars PROVE Inv'
    OBVIOUS
<1>1. due \in [Leases -> BOOLEAN] /\ drain \in {"idle", "waiting", "confirmed", "unconfirmed"}
    BY DEF Inv, TypeOK
<1>2. CASE UNCHANGED vars
    BY <1>1, <1>2, OtherInv DEF vars
<1>3. CASE \E l \in Leases : Enqueue(l)
    BY <1>3, EnqueueInv
<1>4. CASE \E l \in Leases : BackoffElapses(l)
    <2>1. PICK l \in Leases : BackoffElapses(l)
        BY <1>4
    <2>2. due' \in [Leases -> BOOLEAN]
        BY <1>1, <2>1 DEF BackoffElapses
    <2> QED
        BY <1>1, <2>1, <2>2, OtherInv DEF BackoffElapses
<1>5. CASE \E c \in Claims : TaskStep(c) \/ HostReleases(c) \/ HostFails(c)
    BY <1>5, TaskInv
<1>6. CASE DrainWaits \/ DrainConfirmed \/ DrainDeadline
    BY <1>1, <1>6, OtherInv DEF DrainWaits, DrainConfirmed, DrainDeadline
<1> QED
    BY <1>2, <1>3, <1>4, <1>5, <1>6 DEF Next

LEMMA InvAlways == Spec => []Inv
<1>1. Init => Inv
    BY InitInv
<1>2. Inv /\ [Next]_vars => Inv'
    BY StepInv
<1> QED
    BY <1>1, <1>2, PTL DEF Spec

-----------------------------------------------------------------------------

(* CleanupRegistry, CleanupSupervisor: entries, slots, tasks and claims stay *)
(* in their types; a claim is never issued beyond the enqueues.              *)
THEOREM CleanupTyped == Spec => []TypeOK
<1>1. Inv => TypeOK
    BY DEF Inv
<1> QED
    BY <1>1, InvAlways, PTL

(* The liveness invariant of CleanupSupervisor: "an entry present in         *)
(* BrokerState::cleanup always has a live task owning its key".              *)
THEOREM EntryOwnedAlways == Spec => []EntryOwned
<1>1. Inv => EntryOwned
    BY DEF Inv, Slotted, Claimed, EntryOwned
<1> QED
    BY <1>1, InvAlways, PTL

(* has_live_task and remove_if_claim together: no lease ever has two tasks   *)
(* that could call the host for it.                                          *)
THEOREM OneWorkerAlways == Spec => []OneWorker
<1>1. Inv => OneWorker
    BY DEF Inv, Claimed, OneWorker
<1> QED
    BY <1>1, InvAlways, PTL

(* run_pending_pane_cleanup, run_capture_cleanup: a lease handed to the      *)
(* supervisor leaves the registry only after the host let go of it.          *)
THEOREM ForgottenIsReleasedAlways == Spec => []ForgottenIsReleased
<1>1. Inv => ForgottenIsReleased
    BY DEF Inv, Confirmed
<1> QED
    BY <1>1, InvAlways, PTL
=============================================================================
