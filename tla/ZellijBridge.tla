---------------------------- MODULE ZellijBridge ----------------------------
(***************************************************************************)
(* Keyboard capture in the Zellij bridge plugin                            *)
(* (crates/muxe-zellij-wasm/src/bridge.rs), for the one client the plugin  *)
(* instance serves.  A menu captures the keyboard by putting the client in *)
(* Zellij's Locked mode; whoever ends the capture must give the user's     *)
(* mode back.  Zellij applies switch_mode later and in order, and tells    *)
(* the plugin of every mode it enters later still, so the plugin works on  *)
(* observations that may be stale.                                         *)
(*                                                                         *)
(* The plugin is one record; each handler is an operator that gives the    *)
(* record after it (Cancelled, Began, ModeSeen), the modes it asks the     *)
(* host for and the events it emits.  Pane focus, origin tracking and      *)
(* dispatched commands of the plugin are left out.                         *)
(***************************************************************************)
EXTENDS Naturals, Sequences

CONSTANTS
    Leases,         \* CaptureLeaseId
    UserModes,      \* input modes other than Locked
    None,           \* an absent option
    LeaseTicks      \* CAPTURE_LEASE_TICKS

Locked == "Locked"
Modes == UserModes \cup {Locked}

ASSUME BridgeAssumption ==
    /\ LeaseTicks \in Nat \ {0}
    /\ Locked \notin UserModes
    /\ None \notin Leases \cup Modes

VARIABLES
    mode,           \* the client's input mode in Zellij
    ops,            \* switch_mode calls Zellij has not applied yet
    updates,        \* ModeUpdate events the plugin has not handled yet
    userMode,       \* the mode the user last chose
    bridge,         \* the plugin instance
    events          \* lines on the event pipe

hostVars == <<mode, ops, updates, userMode>>

Pending == [lease : Leases, prior : Modes \cup {None}, requested : BOOLEAN]
Active == [lease : Leases, prior : Modes, ticks : 1..LeaseTicks]

Bridge ==
    [loaded : BOOLEAN,
     registered : BOOLEAN,                          \* registration.is_some()
     current : Modes \cup {None},                   \* current_mode, as observed
     pending : Pending \cup {None},
     active : Active \cup {None},
     barrier : {"none", "unobserved", "observed"}]  \* restoring_mode

ASSUME SlotAssumption == None \notin Pending \cup Active

Event == [kind : {"CaptureReady", "CaptureLost"}, lease : Leases]

BridgeTypeOK ==
    /\ mode \in Modes /\ userMode \in Modes
    /\ ops \in Seq(Modes) /\ updates \in Seq(Modes)
    /\ bridge \in Bridge
    /\ events \in Seq(Event)

FreshBridge == [loaded |-> TRUE, registered |-> FALSE, current |-> None,
                pending |-> None, active |-> None, barrier |-> "none"]

-----------------------------------------------------------------------------
(* What the plugin does, as functions of its record.                        *)

Owns(slot, L) == slot # None /\ slot.lease \in L

(* cancel_capture_for_restore for the leases of L: the switch_mode calls.  *)
RestoreOps(b, L) ==
    (IF Owns(b.pending, L) /\ b.pending.requested THEN <<b.pending.prior>> ELSE <<>>)
      \o (IF Owns(b.active, L) /\ b.current = Locked THEN <<b.active.prior>> ELSE <<>>)

(* Faulty variant of Cancelled: no barrier.                                *)
CancelledAtOnce(b, L) ==
    [b EXCEPT !.pending = IF Owns(@, L) THEN None ELSE @,
              !.active = IF Owns(@, L) THEN None ELSE @]

(* ... and the record afterwards, with the barrier that makes the next     *)
(* capture wait until the restoration was observed.                        *)
Cancelled(b, L) ==
    [b EXCEPT !.pending = IF Owns(@, L) THEN None ELSE @,
              !.active = IF Owns(@, L) THEN None ELSE @,
              !.barrier = IF Owns(b.active, L) /\ b.current = Locked /\ b.active.prior # Locked
                          THEN "observed"
                          ELSE IF Owns(b.pending, L) /\ b.pending.requested
                          THEN "unobserved"
                          ELSE @]

(* emit: nothing is written before the instance has registered.            *)
Emitted(b, kind, lease) ==
    IF b.registered THEN <<[kind |-> kind, lease |-> lease]>> ELSE <<>>

Captures(l, prior) == [lease |-> l, prior |-> prior, ticks |-> LeaseTicks]

(* The ways begin_capture can go.                                          *)
Retried(b, l) == Owns(b.active, {l}) \/ Owns(b.pending, {l})
AlreadyLocked(b) == b.barrier = "none" /\ b.current = Locked
CanRequest(b) == b.barrier = "none" /\ b.current # None

Began(b, l) ==
    IF Retried(b, l) THEN b
    ELSE IF AlreadyLocked(b) THEN [b EXCEPT !.active = Captures(l, Locked)]
    ELSE [b EXCEPT !.pending = [lease |-> l, prior |-> b.current, requested |-> CanRequest(b)]]

BeganOps(b, l) ==
    IF ~Retried(b, l) /\ CanRequest(b) /\ b.current # Locked THEN <<Locked>> ELSE <<>>

BeganEvents(b, l) ==
    IF Owns(b.active, {l}) \/ (~Retried(b, l) /\ AlreadyLocked(b))
    THEN Emitted(b, "CaptureReady", l) ELSE <<>>

(* on_mode_update.  While a restoration is under way an update is only     *)
(* counted, until a mode other than Locked is seen after Locked.           *)
Swallowed(b, m) == \/ b.barrier # "none" /\ m = Locked
                   \/ b.barrier = "unobserved"

Observed(b, m) ==
    [b EXCEPT !.current = m,
              !.barrier = IF @ = "none" THEN @
                          ELSE IF m = Locked THEN "observed"
                          ELSE IF @ = "observed" THEN "none" ELSE @]

Activates(b, m) == m = Locked /\ b.pending # None
Dismisses(b, m) == m # Locked /\ b.active # None

ModeSeen(b, m) ==
    LET o == Observed(b, m) IN
    IF Swallowed(b, m) THEN o
    ELSE IF Activates(b, m)
    THEN [o EXCEPT !.pending = None,
                   !.active = Captures(b.pending.lease,
                                       IF b.pending.prior = None THEN Locked ELSE b.pending.prior)]
    ELSE IF m = Locked THEN o
    ELSE [o EXCEPT !.pending = IF @ = None THEN None
                               ELSE [@ EXCEPT !.prior = m, !.requested = TRUE],
                   !.active = None]

ModeSeenOps(b, m) ==
    IF ~Swallowed(b, m) /\ m # Locked /\ b.pending # None /\ ~b.pending.requested
    THEN <<Locked>> ELSE <<>>

ModeSeenEvents(b, m) ==
    IF Swallowed(b, m) THEN <<>>
    ELSE IF Activates(b, m) THEN Emitted(b, "CaptureReady", b.pending.lease)
    ELSE IF Dismisses(b, m) THEN Emitted(b, "CaptureLost", b.active.lease)
    ELSE <<>>

-----------------------------------------------------------------------------
(* Zellij and its user.                                                     *)

(* The user changes the mode, out of Locked as well as into it.            *)
UserSwitches(m) ==
    /\ m # mode
    /\ mode' = m
    /\ userMode' = m
    /\ updates' = IF bridge.loaded THEN Append(updates, m) ELSE updates
    /\ UNCHANGED <<ops, bridge, events>>

(* Zellij applies the oldest switch_mode.                                  *)
HostApplies ==
    /\ ops # <<>>
    /\ mode' = Head(ops)
    /\ ops' = Tail(ops)
    /\ updates' = IF bridge.loaded THEN Append(updates, mode') ELSE updates
    /\ UNCHANGED <<userMode, bridge, events>>

(* on_mode_update *)
BridgeSeesMode ==
    /\ bridge.loaded
    /\ updates # <<>>
    /\ LET m == Head(updates) IN
       /\ bridge' = ModeSeen(bridge, m)
       /\ ops' = ops \o ModeSeenOps(bridge, m)
       /\ events' = events \o ModeSeenEvents(bridge, m)
    /\ updates' = Tail(updates)
    /\ UNCHANGED <<mode, userMode>>

(* on_timer, expire_capture_lease: a tick without renewal.                 *)
Expires(b) == b.active # None /\ b.active.ticks = 1

(* Faulty variant: the plugin never counts the broker's silence.           *)
BridgeTicksIdle == bridge.loaded /\ bridge.active # None /\ UNCHANGED <<hostVars, bridge, events>>

BridgeTicks ==
    /\ bridge.loaded
    /\ bridge.active # None
    /\ IF Expires(bridge)
       THEN LET l == bridge.active.lease IN
            /\ bridge' = Cancelled(bridge, {l})
            /\ ops' = ops \o RestoreOps(bridge, {l})
            /\ events' = events \o Emitted(bridge, "CaptureLost", l)
       ELSE /\ bridge' = [bridge EXCEPT !.active.ticks = @ - 1]
            /\ UNCHANGED <<ops, events>>
    /\ UNCHANGED <<mode, updates, userMode>>

(* on_before_close, then the instance is gone.                             *)
BridgeCloses ==
    /\ bridge.loaded
    /\ ops' = ops \o RestoreOps(bridge, Leases)
    /\ events' = events \o (IF bridge.active # None /\ bridge.current = Locked
                            THEN Emitted(bridge, "CaptureLost", bridge.active.lease)
                            ELSE <<>>)
    /\ bridge' = [FreshBridge EXCEPT !.loaded = FALSE]
    /\ updates' = <<>>
    /\ UNCHANGED <<mode, userMode>>

(* Zellij loads an instance again and tells it the current mode.  The      *)
(* calls of the instance before it have been applied by then.              *)
BridgeLoads ==
    /\ ~bridge.loaded
    /\ ops = <<>>
    /\ bridge' = FreshBridge
    /\ updates' = <<mode>>
    /\ UNCHANGED <<mode, ops, userMode, events>>
=============================================================================
