---------------------------- MODULE ZellijCapture ----------------------------
(***************************************************************************)
(* Keyboard capture of one Zellij client, end to end: the broker's calls   *)
(* of begin_capture and end_capture, the session it stores the capture in, *)
(* the adapter's capture table, waiters and request queue                  *)
(* (crates/muxe-adapter-zellij/src/adapter.rs and capture.rs), the request *)
(* and event pipes, and the bridge plugin of module ZellijBridge.  Each    *)
(* lease stands for one menu's capture; calls for different menus run      *)
(* concurrently, as the broker's cleanup tasks and attachment handlers do. *)
(*                                                                         *)
(* A pipe channel that is lost and respawned, a bridge that expires or     *)
(* reloads, a write that fails, an acknowledgement that never comes, a     *)
(* suspension for activation and the death of the broker are faults, as    *)
(* many as the behaviour's budget allows.  A request whose write failed or *)
(* that is no longer waited for may still reach the plugin, later or never.*)
(***************************************************************************)
EXTENDS ZellijBridge

FaultKinds == {"channel", "expiry", "reload", "write", "release", "suspend", "broker"}

(* Bounds of a behaviour: faults, which ones, and mode changes by the user.*)
Budget == [faults : Nat, kinds : SUBSET FaultKinds, switches : Nat]

CONSTANT Budgets    \* bounds a behaviour may start with

ASSUME BudgetsAssumption == Budgets \subseteq Budget

VARIABLES
    table,          \* CaptureTable : state of the client
    call,           \* the begin_capture or end_capture call of each lease
    waiter,         \* pending_capture : the reply each begin_capture waits for
    queue,          \* requests queued for the client
    wire,           \* in_flight : the request the plugin is to read
    late,           \* requests given up on that the plugin may still read
    link,           \* whether adapter and plugin share a registration
    broker,         \* "up", "suspended" for activation, or "dead"
    overtaken,      \* a capture began in the plugin while it held another
    loss,           \* CaptureLost of each lease, on its way to the broker
    left            \* what is left of the bounds

adapterVars == <<table, call, waiter, queue, wire, late, link, broker, loss>>
vars == <<hostVars, bridge, events, adapterVars, overtaken, left>>

Request == [kind : {"Begin", "End", "Renew"}, lease : Leases]

ASSUME RequestAssumption == None \notin Request

CallPc == {"none", "admitted", "begun", "waiting", "sentTimeout", "confirmed", "held",
           "failed", "detached", "releasing", "ended"}

TypeOK ==
    /\ BridgeTypeOK
    /\ table \in [state : {"Idle", "Beginning", "Captured"}, lease : Leases \cup {None}]
    /\ call \in [Leases -> CallPc]
    /\ waiter \in [Leases -> {"none", "unsent", "sent", "ready", "dropped"}]
    /\ queue \in Seq(Request)
    /\ wire \in Request \cup {None}
    /\ late \subseteq Request
    /\ link \in {"registered", "lost", "subscribing", "subscribed"}
    /\ broker \in {"up", "suspended", "dead"}
    /\ overtaken \in BOOLEAN
    /\ loss \in [Leases -> {"none", "told", "ignored"}]
    /\ left \in Budget

Idle == [state |-> "Idle", lease |-> None]

Init ==
    /\ mode \in UserModes /\ userMode = mode
    /\ ops = <<>> /\ updates = <<>> /\ events = <<>>
    /\ bridge = [FreshBridge EXCEPT !.registered = TRUE, !.current = mode]
    /\ table = Idle
    /\ call = [l \in Leases |-> "none"]
    /\ waiter = [l \in Leases |-> "none"]
    /\ queue = <<>> /\ wire = None /\ late = {}
    /\ link = "registered"
    /\ broker = "up"
    /\ overtaken = FALSE
    /\ loss = [l \in Leases |-> "none"]
    /\ left \in Budgets

-----------------------------------------------------------------------------
(* The capture table (capture.rs).                                          *)

TableIs(state, l) == table = [state |-> state, lease |-> l]

(* release: only the lease that owns or acquires the client.               *)
Released(l) == IF table.lease = l THEN Idle ELSE table

Req(kind, l) == [kind |-> kind, lease |-> l]

(* Vec::retain of the queue: all but the request r, which is in it at most *)
(* once.                                                                   *)
Without(q, r) ==
    IF \E i \in DOMAIN q : q[i] = r
    THEN LET i == CHOOSE i \in DOMAIN q : q[i] = r
         IN  SubSeq(q, 1, i - 1) \o SubSeq(q, i + 1, Len(q))
    ELSE q

-----------------------------------------------------------------------------
(* begin_capture.                                                           *)

(* require_active and active_registration pass.                            *)
BeginAdmitted(l) ==
    /\ call[l] = "none"
    /\ broker = "up" /\ link = "registered"
    /\ call' = [call EXCEPT ![l] = "admitted"]
    /\ UNCHANGED <<hostVars, bridge, events, table, waiter, queue, wire, late, link,
                   broker, loss, overtaken, left>>

(* CaptureTable::begin; a client that is not idle is busy.                 *)
BeginTable(l) ==
    /\ broker # "dead"
    /\ call[l] = "admitted"
    /\ IF table = Idle
       THEN /\ table' = [state |-> "Beginning", lease |-> l]
            /\ call' = [call EXCEPT ![l] = "begun"]
       ELSE /\ call' = [call EXCEPT ![l] = "failed"]
            /\ UNCHANGED table
    /\ UNCHANGED <<hostVars, bridge, events, waiter, queue, wire, late, link,
                   broker, loss, overtaken, left>>

(* The waiter is installed and the request queued.                         *)
BeginQueued(l) ==
    /\ broker # "dead"
    /\ call[l] = "begun"
    /\ call' = [call EXCEPT ![l] = "waiting"]
    /\ waiter' = [waiter EXCEPT ![l] = "unsent"]
    /\ queue' = Append(queue, Req("Begin", l))
    /\ UNCHANGED <<hostVars, bridge, events, table, wire, late, link, broker, loss,
                   overtaken, left>>

(* The reply arrived: confirm, unless the record is gone meanwhile.        *)
BeginConfirmed(l) ==
    /\ broker # "dead"
    /\ call[l] = "waiting" /\ waiter[l] = "ready"
    /\ waiter' = [waiter EXCEPT ![l] = "none"]
    /\ IF TableIs("Beginning", l)
       THEN /\ table' = [state |-> "Captured", lease |-> l]
            /\ call' = [call EXCEPT ![l] = "confirmed"]
       ELSE /\ table' = Released(l)
            /\ call' = [call EXCEPT ![l] = "failed"]
    /\ UNCHANGED <<hostVars, bridge, events, queue, wire, late, link, broker, loss,
                   overtaken, left>>

(* Ten seconds passed, or the waiter was dropped.  An unsent request is    *)
(* taken back; one that was sent is followed by EndCapture.                *)
BeginTimesOut(l) ==
    /\ broker # "dead"
    /\ call[l] = "waiting" /\ waiter[l] # "ready"
    /\ waiter' = [waiter EXCEPT ![l] = "none"]
    /\ queue' = IF waiter[l] = "sent" THEN queue
                ELSE Without(queue, Req("Begin", l))
    /\ table' = Released(l)
    /\ call' = [call EXCEPT ![l] = IF waiter[l] = "sent" THEN "sentTimeout" ELSE "failed"]
    /\ UNCHANGED <<hostVars, bridge, events, wire, late, link, broker, loss,
                   overtaken, left>>

BeginTakenBack(l) ==
    /\ broker # "dead"
    /\ call[l] = "sentTimeout"
    /\ queue' = Append(queue, Req("End", l))
    /\ call' = [call EXCEPT ![l] = "failed"]
    /\ UNCHANGED <<hostVars, bridge, events, table, waiter, wire, late, link,
                   broker, loss, overtaken, left>>

-----------------------------------------------------------------------------
(* The broker.                                                              *)

(* Broker::begin_capture stores the capture in its session; one that was   *)
(* detached meanwhile leaves the capture to the cleanup task.              *)
BrokerStores(l) ==
    /\ broker # "dead"
    /\ call[l] = "confirmed"
    /\ \E pc \in {"held", "detached"} : call' = [call EXCEPT ![l] = pc]
    /\ UNCHANGED <<hostVars, bridge, events, table, waiter, queue, wire, late, link,
                   broker, loss, overtaken, left>>

(* detach: the menu ends, and its capture goes to the cleanup task.        *)
Detaches(l) ==
    /\ broker # "dead"
    /\ call[l] = "held"
    /\ call' = [call EXCEPT ![l] = "detached"]
    /\ UNCHANGED <<hostVars, bridge, events, table, waiter, queue, wire, late, link,
                   broker, loss, overtaken, left>>

(* Faulty variant: the loss is read and nobody's session ends.             *)
BrokerShrugs(l) ==
    /\ broker # "dead"
    /\ loss[l] = "told"
    /\ loss' = [loss EXCEPT ![l] = "none"]
    /\ UNCHANGED <<hostVars, bridge, events, table, call, waiter, queue, wire, late, link,
                   broker, overtaken, left>>

(* handle_health_event: CaptureLost detaches the session that stores the   *)
(* capture; when no session does it is ignored.                            *)
BrokerHears(l) ==
    /\ broker # "dead"
    /\ loss[l] = "told"
    /\ IF call[l] = "held"
       THEN /\ call' = [call EXCEPT ![l] = "detached"]
            /\ loss' = [loss EXCEPT ![l] = "none"]
       ELSE /\ loss' = [loss EXCEPT ![l] = "ignored"]
            /\ UNCHANGED call
    /\ UNCHANGED <<hostVars, bridge, events, table, waiter, queue, wire, late, link,
                   broker, overtaken, left>>

-----------------------------------------------------------------------------
(* end_capture, called by the cleanup task: the table first, then, after   *)
(* active_registration, the line.                                          *)

EndReleases(l) ==
    /\ call[l] = "detached"
    /\ broker = "up"
    /\ table' = Released(l)
    /\ call' = [call EXCEPT ![l] = "releasing"]
    /\ UNCHANGED <<hostVars, bridge, events, waiter, queue, wire, late, link,
                   broker, loss, overtaken, left>>

EndQueued(l) ==
    /\ broker # "dead"
    /\ call[l] = "releasing"
    /\ queue' = IF link = "registered" THEN Append(queue, Req("End", l)) ELSE queue
    /\ call' = [call EXCEPT ![l] = "ended"]
    /\ UNCHANGED <<hostVars, bridge, events, table, waiter, wire, late, link,
                   broker, loss, overtaken, left>>

(* renew_active_captures, on every sweep.  A renewal of a lease that is    *)
(* full, or a second one behind another, would change nothing: cut.        *)
Renews ==
    /\ broker = "up"
    /\ table.state = "Captured"
    /\ Req("Renew", table.lease) \notin {queue[i] : i \in DOMAIN queue} \cup {wire}
    /\ bridge.active # None /\ bridge.active.ticks < LeaseTicks
    /\ queue' = Append(queue, Req("Renew", table.lease))
    /\ UNCHANGED <<hostVars, bridge, events, table, call, waiter, wire, late, link,
                   broker, loss, overtaken, left>>

-----------------------------------------------------------------------------
(* The pipes.                                                               *)

(* pump_all, send_item: one request at a time, to the live registration.   *)
(* The next one may follow as soon as the plugin has handled this one; the *)
(* code also waits for its acknowledgement on the event pipe.              *)
CanSend ==
    /\ broker = "up" /\ link = "registered"
    /\ wire = None /\ queue # <<>>

(* pending_capture learns the provenance of its request before the write.  *)
WaiterSent ==
    waiter' = [l \in Leases |->
                 IF Head(queue) = Req("Begin", l) /\ waiter[l] = "unsent" THEN "sent"
                 ELSE waiter[l]]

Pump ==
    /\ CanSend
    /\ wire' = Head(queue)
    /\ queue' = Tail(queue)
    /\ WaiterSent
    /\ UNCHANGED <<hostVars, bridge, events, table, call, late, link, broker, loss,
                   overtaken, left>>

(* A capture that begins while the plugin still holds one for another.     *)
Overtakes(l) ==
    /\ ~Retried(bridge, l)
    /\ bridge.active # None \/ bridge.pending # None

(* on_request, for the request r of the plugin's registration.             *)
Handles(r) ==
    /\ bridge.loaded /\ bridge.registered
    /\ \/ /\ r.kind = "Begin"
          /\ bridge' = Began(bridge, r.lease)
          /\ ops' = ops \o BeganOps(bridge, r.lease)
          /\ events' = events \o BeganEvents(bridge, r.lease)
          /\ overtaken' = (overtaken \/ Overtakes(r.lease))
       \/ /\ r.kind = "End"
          /\ bridge' = Cancelled(bridge, {r.lease})
          /\ ops' = ops \o RestoreOps(bridge, {r.lease})
          /\ UNCHANGED <<events, overtaken>>
       \/ /\ r.kind = "Renew"
          /\ bridge' = IF Owns(bridge.active, {r.lease})
                       THEN [bridge EXCEPT !.active.ticks = LeaseTicks] ELSE bridge
          /\ UNCHANGED <<ops, events, overtaken>>
    /\ UNCHANGED <<mode, updates, userMode, table, call, waiter, queue, link,
                   broker, loss, left>>

BridgeHandles ==
    /\ wire # None /\ Handles(wire)
    /\ wire' = None
    /\ UNCHANGED late

BridgeHandlesLate ==
    \E r \in late :
        /\ Handles(r)
        /\ late' = late \ {r}
        /\ UNCHANGED wire

(* handle_event_line.  CaptureLost drops the waiter and is passed on to    *)
(* the broker as a health event; a reply that was already taken stays.     *)
(* The code takes a reply to the last attempt only, the model one to any   *)
(* attempt of the lease that was written.                                  *)
AdapterHears ==
    /\ broker = "up" /\ link = "registered"
    /\ events # <<>>
    /\ LET e == Head(events) IN
       /\ waiter' = [waiter EXCEPT ![e.lease] =
                    IF e.kind = "CaptureReady" THEN (IF @ = "sent" THEN "ready" ELSE @)
                    ELSE IF @ \in {"unsent", "sent"} THEN "dropped" ELSE @]
       /\ loss' = IF e.kind = "CaptureLost" THEN [loss EXCEPT ![e.lease] = "told"]
                  ELSE loss
    /\ events' = Tail(events)
    /\ UNCHANGED <<hostVars, bridge, table, call, queue, wire, late, link, broker,
                   overtaken, left>>

(* A line of an older channel or of a registration that was retired is     *)
(* dropped, and so is one on a pipe that nobody reads any more.            *)
AdapterIgnores ==
    /\ broker # "up" \/ link # "registered"
    /\ events # <<>>
    /\ events' = Tail(events)
    /\ UNCHANGED <<hostVars, bridge, adapterVars, overtaken, left>>

-----------------------------------------------------------------------------
(* Faults.                                                                  *)

Fault(kind) ==
    /\ kind \in left.kinds
    /\ left.faults > 0
    /\ left' = [left EXCEPT !.faults = @ - 1]

(* A fault, or what follows from a plugin that was reloaded: it has no     *)
(* registration, so it takes no request and sends no heartbeat.            *)
FaultOrReloaded(kind) ==
    \/ Fault(kind)
    \/ ~bridge.registered /\ UNCHANGED left

(* retire_registration_state: waiters whose request was sent are dropped;  *)
(* the record goes too, unless its request is still in the queue.          *)
RetireWaiters ==
    waiter' = [l \in Leases |-> IF waiter[l] = "sent"
                                     \/ (waiter[l] = "unsent" /\ table.lease # l)
                                THEN "dropped" ELSE waiter[l]]

RetiredTable ==
    IF table.state = "Beginning" /\ waiter[table.lease] = "unsent" THEN table ELSE Idle

(* ... and the broker is told of the capture that went with it.            *)
RetirementTold ==
    loss' = IF RetiredTable # table THEN [loss EXCEPT ![table.lease] = "told"] ELSE loss

(* in_flight is cleared.  A plugin that keeps its registration may read    *)
(* the request later.                                                      *)
GivesUp ==
    /\ wire' = None
    /\ late' = IF wire # None /\ bridge.registered THEN late \cup {wire} ELSE late

(* restart_whole_pipe: a new generation.  Requests of the old one may      *)
(* reach the plugin until the plugin has read the new subscription.        *)
ChannelRestarts ==
    /\ broker = "up"
    /\ Fault("channel")
    /\ RetireWaiters /\ RetirementTold
    /\ table' = Idle
    /\ GivesUp
    /\ events' = <<>>
    /\ link' = "subscribing"
    /\ UNCHANGED <<hostVars, bridge, call, queue, broker, overtaken>>

(* sweep_expired_clients: no heartbeat for 15 seconds.                     *)
ClientExpires ==
    /\ broker = "up" /\ link = "registered"
    /\ FaultOrReloaded("expiry")
    /\ RetireWaiters /\ RetirementTold
    /\ table' = RetiredTable
    /\ GivesUp
    /\ link' = "lost"
    /\ UNCHANGED <<hostVars, bridge, events, call, queue, broker, overtaken>>

(* watch_release: the request pipe was not released for 10 seconds.        *)
RequestLost ==
    /\ broker = "up"
    /\ wire # None
    /\ FaultOrReloaded("release")
    /\ GivesUp
    /\ UNCHANGED <<hostVars, bridge, events, table, call, waiter, queue, link,
                   broker, loss, overtaken>>

(* send_item: the write fails but may have reached the plugin; the request *)
(* stays at the front of the queue and is written again.                   *)
WriteFails ==
    /\ CanSend
    /\ Fault("write")
    /\ late' = IF bridge.registered THEN late \cup {Head(queue)} ELSE late
    /\ WaiterSent
    /\ UNCHANGED <<hostVars, bridge, events, table, call, queue, wire, link, broker,
                   loss, overtaken>>

Reload ==
    /\ Fault("reload")
    /\ BridgeCloses
    /\ UNCHANGED <<adapterVars, overtaken>>

(* suspend_for_activation parks both pipes and purges the queue ...        *)
Suspend ==
    /\ broker = "up"
    /\ Fault("suspend")
    /\ broker' = "suspended"
    /\ RetireWaiters /\ RetirementTold
    /\ table' = Idle
    /\ GivesUp
    /\ queue' = <<>>
    /\ events' = <<>>
    /\ link' = "lost"
    /\ UNCHANGED <<hostVars, bridge, call, overtaken>>

(* ... and resume_after_activation_abort subscribes again.                 *)
Resume ==
    /\ broker = "suspended"
    /\ broker' = "up"
    /\ link' = "subscribing"
    /\ UNCHANGED <<hostVars, bridge, events, table, call, waiter, queue, wire, late,
                   loss, overtaken, left>>

BrokerDies ==
    /\ broker # "dead"
    /\ Fault("broker")
    /\ broker' = "dead"
    /\ GivesUp
    /\ queue' = <<>>
    /\ UNCHANGED <<hostVars, bridge, events, table, call, waiter, link, loss,
                   overtaken>>

(* subscribe: the plugin lets go of every capture and forgets its          *)
(* registration, so older requests are no longer for it.                   *)
BridgeSubscribes ==
    /\ broker # "dead"
    /\ link = "subscribing" /\ bridge.loaded
    /\ bridge' = [Cancelled(bridge, Leases) EXCEPT !.registered = FALSE]
    /\ ops' = ops \o RestoreOps(bridge, Leases)
    /\ wire' = None /\ late' = {}
    /\ link' = "subscribed"
    /\ UNCHANGED <<mode, updates, userMode, events, table, call, waiter, queue,
                   broker, loss, overtaken, left>>

(* try_register, on_register.  The Register line comes behind every line    *)
(* of the registration before it.                                          *)
BridgeRegisters ==
    /\ broker = "up"
    /\ link = "subscribed" /\ bridge.loaded
    /\ events = <<>>
    /\ bridge' = [bridge EXCEPT !.registered = TRUE]
    /\ link' = "registered"
    /\ UNCHANGED <<hostVars, events, table, call, waiter, queue, wire, late, broker,
                   loss, overtaken, left>>

-----------------------------------------------------------------------------

Switch ==
    /\ left.switches > 0
    /\ \E m \in Modes : UserSwitches(m)
    /\ left' = [left EXCEPT !.switches = @ - 1]
    /\ UNCHANGED <<adapterVars, overtaken>>

ZellijStep ==
    /\ HostApplies \/ BridgeSeesMode \/ BridgeTicks \/ BridgeLoads
    /\ UNCHANGED <<adapterVars, overtaken, left>>

Begin(l) ==
    \/ BeginTable(l) \/ BeginQueued(l) \/ BeginConfirmed(l) \/ BeginTimesOut(l)
    \/ BeginTakenBack(l) \/ BrokerStores(l)

End(l) == EndReleases(l) \/ EndQueued(l)

Next ==
    \/ Switch \/ ZellijStep
    \/ \E l \in Leases :
          BeginAdmitted(l) \/ Begin(l) \/ Detaches(l) \/ BrokerHears(l) \/ End(l)
    \/ Renews \/ Pump \/ BridgeHandles \/ BridgeHandlesLate
    \/ AdapterHears \/ AdapterIgnores
    \/ ChannelRestarts \/ ClientExpires \/ RequestLost \/ WriteFails \/ Reload
    \/ Suspend \/ BrokerDies
    \/ Resume \/ BridgeSubscribes \/ BridgeRegisters

Spec == Init /\ [][Next]_vars

(* Zellij applies mode switches and reports them, and its timer fires.     *)
Fairness ==
    /\ WF_vars(HostApplies /\ UNCHANGED <<adapterVars, overtaken, left>>)
    /\ WF_vars(BridgeSeesMode /\ UNCHANGED <<adapterVars, overtaken, left>>)
    /\ WF_vars(BridgeTicks /\ UNCHANGED <<adapterVars, overtaken, left>>)

FairSpec == Spec /\ Fairness

-----------------------------------------------------------------------------

(* The plugin holds and awaits no capture, and nothing is under way        *)
(* between it and Zellij.                                                  *)
Settled ==
    /\ ops = <<>> /\ updates = <<>>
    /\ bridge.pending = None /\ bridge.active = None

(* Nothing that concerns the keyboard is under way or owed any more.       *)
Quiet ==
    /\ Settled
    /\ table = Idle
    /\ \A l \in Leases : call[l] \in {"none", "failed", "ended"}
    /\ queue = <<>> /\ wire = None /\ events = <<>>

NotLocked == mode = Locked => userMode = Locked

(* DESIGN.md: on exit "the bridge ... restores the captured original       *)
(* mode".  When all captures are over, a user who was not in Locked mode   *)
(* is not left in it.                                                      *)
NotLeftLocked == Quiet => NotLocked

(* ... and this is so, with faults too and whatever the broker still does  *)
(* or has stopped doing, whenever the plugin lets go of a capture and none *)
(* began in it before the one it held had ended.                           *)
GivenBack == Settled /\ ~overtaken => NotLocked

(* A capture that the adapter counts as held is held by the plugin too, or *)
(* its loss is on the way to the broker, or the broker is ending it: the   *)
(* renewals of a busy adapter never outlive the plugin's lease unnoticed.  *)
(* One loss is excepted, and it is the only one: the adapter confirms a    *)
(* capture whose loss it has read after the reply, and a broker that is    *)
(* told before its session stores the capture ignores it.                  *)
LossReported ==
    broker = "up" /\ link = "registered" /\ bridge.registered /\ ~overtaken
      => \A l \in Leases :
            TableIs("Captured", l) /\ loss[l] # "ignored"
              => \/ Owns(bridge.active, {l})
                 \/ \E i \in DOMAIN events :
                       events[i] = [kind |-> "CaptureLost", lease |-> l]
                 \/ loss[l] = "told"
                 \/ call[l] = "detached"

(* DESIGN.md: a "short capture lease so broker failure conditionally       *)
(* restores the original mode".  After the broker dies the plugin lets go  *)
(* of the capture by itself, for good, and the user is not left locked.    *)
SilenceReleases ==
    broker = "dead" ~> [](~overtaken => bridge.active = None /\ NotLocked)
=============================================================================
