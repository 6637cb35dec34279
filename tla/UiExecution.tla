---------------------------- MODULE UiExecution ----------------------------
(***************************************************************************)
(* Invocations: the broker's execution registry (broker.rs) together with  *)
(* the menu session of each UI (runtime.rs, session.rs).  A UI invokes a   *)
(* binding, the broker reserves, dispatches to the host or spawns a        *)
(* command, and reports the end; a menu control, a deadline, the loss of   *)
(* the session, the loss of the host and an activation drain all race with *)
(* it.  Each critical section under the state lock is one action.          *)
(*                                                                         *)
(* A UI has one request in flight and handles nothing else until it is     *)
(* answered (runner.rs dispatch); events that arrive meanwhile stay queued *)
(* (client.rs), so the broker's last step and the UI's handling of the     *)
(* answer are one action.  Event delivery belongs to the step that decides *)
(* it.  The menus carry no timers here (see MenuInactivity).               *)
(***************************************************************************)
EXTENDS MenuSession

CONSTANTS
    Uis,            \* UiSessionId, one per UI connection
    Bindings,       \* the compiled bindings a menu offers
    None,           \* an absent option
    MaxDepth,       \* bound: menus on a stack
    Budgets         \* bounds: the faults a behaviour may contain, one budget of the set

(* A budget: sessions lost to a full outbox or an unhealthy scope, losses  *)
(* of the host (host_loss_armed: at most one), and activation drains.      *)
Budget == [losses : Nat, hostLosses : {0, 1}, drains : Nat]

(* A compiled binding: what runs, and its ExecutionPolicy.                 *)
Binding == [kind : {"host", "command", "deferred", "reload"},
            mode : {"await", "detach"},
            onControl : {"detach", "cancel"},        \* on_menu_control
            onTimeout : {"none", "detach", "cancel"},
            cancellable : BOOLEAN,                   \* capabilities of the action
            after : AfterActions]

(* validate_execution refuses a cancel policy for work that cannot be      *)
(* cancelled.                                                              *)
ValidExecution(b) == "cancel" \in {b.onControl, b.onTimeout} => b.cancellable

ASSUME ExecutionAssumption ==
    /\ Bindings \subseteq Binding
    /\ \A b \in Bindings : ValidExecution(b)
    /\ NoExec \notin Uis \cup Bindings /\ None \notin Uis
    /\ MaxDepth \in Nat \ {0}
    /\ Budgets \subseteq Budget

VARIABLES
    bind,           \* the binding of each execution id that was handed out
    home,           \* the UI that invoked it
    executions,     \* BrokerState.executions
    awaiting,       \* BrokerState.awaiting : session -> execution
    sealed,         \* BrokerState.activation_sealed
    attached,       \* the keys of Broker.sessions
    handler,        \* the request of each UI that the broker is serving
    menus,          \* the MenuSession of each UI
    online,         \* the UI process and its connection
    inbox,          \* events sent to each UI and not yet handled
    host,           \* executions at the host adapter
    procs,          \* GenericSupervisor.processes: running, supervised children
    killed,         \* children whose cancellation was sent
    armed,          \* spawned execution deadlines
    stops,          \* cancel calls in flight, by who awaits the answer
    tasks,          \* running detach calls
    lost,           \* fail_host_executions: executions still to be failed
    drain,          \* drain_for_activation
    bounds          \* what is left of the budget

registry == <<executions, awaiting>>
identity == <<bind, home>>
uiVars == <<handler, menus, online>>
work == <<host, procs, killed>>
vars == <<identity, registry, sealed, attached, uiVars, inbox, work, armed, stops,
          tasks, lost, drain, bounds>>

-----------------------------------------------------------------------------
(* State.                                                                   *)

(* ExecutionRecord; what the binding fixes is looked up in bind.           *)
Record == [session : Uis \cup {None}, awaiting : BOOLEAN, cancellable : BOOLEAN,
           phase : {"Reserved", "Adapter", "Generic"}, deferred : BOOLEAN,
           control : Controls \cup {NoExec},     \* pending_control
           stopping : BOOLEAN]                   \* termination_requested

(* An absent record is none of the records.                                *)
ASSUME RecordAssumption == NoExec \notin Record

HandlerPc == {"idle", "reserve", "dispatch", "accepting", "activate", "supervised",
              "unhook", "abandon", "control"}

Handler == [pc : HandlerPc, exec : Execs \cup {NoExec}, awaited : BOOLEAN]

(* ExecutionCompleted, and BrokerRetiring.                                 *)
Event == [exec : Execs \cup {NoExec}, ok : BOOLEAN]

Retiring == [exec |-> NoExec, ok |-> FALSE]

Task == [sess : Uis, by : {"ui", "loss", "drain"},
         step : {"fail", "unlink", "state", "stops", "late", "activate"},
         todo : SUBSET Execs,                    \* to be failed, then to be stopped
         deferred : SUBSET Execs, exec : Execs \cup {NoExec}]

TypeOK ==
    /\ bind \in [Execs -> Bindings \cup {NoExec}]
    /\ home \in [Execs -> Uis \cup {None}]
    /\ executions \in [Execs -> Record \cup {NoExec}]
    /\ awaiting \in [Uis -> Execs \cup {NoExec}]
    /\ sealed \in BOOLEAN
    /\ attached \subseteq Uis
    /\ handler \in [Uis -> Handler]
    /\ menus \in [Uis -> Session]
    /\ online \in [Uis -> {"up", "leaving", "gone"}]
    /\ inbox \in [Uis -> Seq(Event)]
    /\ host \in [Execs -> {"none", "running", "done"}]
    /\ procs \subseteq Execs /\ killed \subseteq Execs
    /\ armed \in [Execs -> {"none", "detach", "cancel"}]
    /\ stops \in [Execs -> {"none", "control", "detach", "deadline", "drain"}]
    /\ tasks \subseteq Task
    /\ lost \subseteq Execs
    /\ drain \in [pc : {"idle", "seal", "check", "stop", "sessions", "late", "done"},
                  execs : SUBSET Execs, wait : SUBSET Execs, sess : SUBSET Uis,
                  late : SUBSET Execs]
    /\ bounds \in Budget

Idle == [pc |-> "idle", exec |-> NoExec, awaited |-> FALSE]

NoDrain == [pc |-> "idle", execs |-> {}, wait |-> {}, sess |-> {}, late |-> {}]

Init ==
    /\ bind = [e \in Execs |-> NoExec]
    /\ home = [e \in Execs |-> None]
    /\ executions = [e \in Execs |-> NoExec]
    /\ awaiting = [s \in Uis |-> NoExec]
    /\ sealed = FALSE
    /\ attached = Uis
    /\ handler = [s \in Uis |-> Idle]
    /\ \E root \in Menus : menus = [s \in Uis |-> NewSession(root, 0)]
    /\ online = [s \in Uis |-> "up"]
    /\ inbox = [s \in Uis |-> <<>>]
    /\ host = [e \in Execs |-> "none"]
    /\ procs = {} /\ killed = {}
    /\ armed = [e \in Execs |-> "none"]
    /\ stops = [e \in Execs |-> "none"]
    /\ tasks = {}
    /\ lost = {}
    /\ drain = NoDrain
    /\ bounds \in Budgets

-----------------------------------------------------------------------------
(* The registry.                                                            *)

Known(e) == executions[e] # NoExec

Generic(e) == bind[e].kind = "command"      \* ExecutionOwner::GenericProcess

NewRecord(s, b) ==
    [session |-> s, awaiting |-> b.mode = "await", cancellable |-> b.kind = "command",
     phase |-> "Reserved", deferred |-> b.kind = "deferred", control |-> NoExec,
     stopping |-> FALSE]

(* Faulty variant: the index keeps the entry.                              *)
RemoveKeepsIndex(e) ==
    /\ executions' = [executions EXCEPT ![e] = NoExec]
    /\ UNCHANGED awaiting

(* The record leaves the registry, and the index if it was awaited.        *)
Remove(e) ==
    /\ executions' = [executions EXCEPT ![e] = NoExec]
    /\ awaiting' = [s \in Uis |-> IF Known(e) /\ executions[e].awaiting
                                     /\ executions[e].session = s
                                  THEN NoExec ELSE awaiting[s]]

(* deliver_session_event_to: only a session with a record has an outbox.   *)
Deliver(s, event) ==
    inbox' = [inbox EXCEPT ![s] = IF s \in attached THEN Append(@, event) ELSE @]

(* Faulty variant: an end before activation is not reported.               *)
FinishOnlyActive(e, ok) ==
    LET r == executions[e] IN
    IF ~Known(e) THEN UNCHANGED <<registry, inbox>>
    ELSE /\ Remove(e)
         /\ IF r.awaiting /\ r.session # None /\ r.control = NoExec /\ r.phase # "Reserved"
            THEN Deliver(r.session, [exec |-> e, ok |-> ok])
            ELSE UNCHANGED inbox

(* complete_adapter_execution and finish_generic: the awaited UI is told   *)
(* unless it asked for a control, which gets its own answer.               *)
Finish(e, ok) ==
    LET r == executions[e] IN
    IF ~Known(e) THEN UNCHANGED <<registry, inbox>>
    ELSE /\ Remove(e)
         /\ IF r.awaiting /\ r.session # None /\ r.control = NoExec
            THEN Deliver(r.session, [exec |-> e, ok |-> ok])
            ELSE UNCHANGED inbox

(* detach_execution_ui: the index entry of the session is dropped.         *)
Unhook(e) ==
    IF ~Known(e) THEN UNCHANGED registry
    ELSE /\ executions' = [executions EXCEPT ![e].awaiting = FALSE, ![e].session = None]
         /\ awaiting' = [s \in Uis |-> IF s = executions[e].session THEN NoExec
                                       ELSE awaiting[s]]

(* activate_execution: the owner is published and its deadline starts.     *)
Activate(e) ==
    IF ~Known(e) THEN UNCHANGED <<registry, armed>>
    ELSE /\ executions' = [executions EXCEPT
                             ![e].phase = IF Generic(e) THEN "Generic" ELSE "Adapter",
                             ![e].cancellable = bind[e].cancellable]
         /\ armed' = [armed EXCEPT ![e] = bind[e].onTimeout]
         /\ UNCHANGED awaiting

(* request_execution_stop, up to the call of the owner: at most one stop   *)
(* is in flight, and a caller that finds one is satisfied.                 *)
StopNeeded(e) == Known(e) /\ ~executions[e].stopping

RequestStop(e, who) ==
    IF StopNeeded(e)
    THEN /\ executions' = [executions EXCEPT ![e].stopping = TRUE]
         /\ stops' = [stops EXCEPT ![e] = who]
    ELSE UNCHANGED <<executions, stops>>

-----------------------------------------------------------------------------
(* Invocation.                                                              *)

GoHandler(s, pc) == handler' = [handler EXCEPT ![s].pc = pc]

(* The answer to an invocation, and what the UI does with it.              *)
Answer(s, m) ==
    /\ handler' = [handler EXCEPT ![s] = Idle]
    /\ menus' = [menus EXCEPT ![s] = m]
    /\ UNCHANGED online

Refuse(s) == Answer(s, menus[s])

Accept(s, e, awaited) ==
    Answer(s, IF awaited THEN ActionPending(menus[s], e, 0)
              ELSE DetachedAccepted(menus[s], bind[e].after, 0))

Ready(s) == online[s] = "up" /\ handler[s].pc = "idle" /\ menus[s].state # "Dismissed"

(* A key selects a binding; the broker resolves it from the session record *)
(* and draws the execution id.                                             *)
Invoke(s, b, e) ==
    /\ Ready(s) /\ menus[s].state = "Active"
    /\ s \in attached
    /\ bind[e] = NoExec
    /\ b.kind # "reload"
    /\ bind' = [bind EXCEPT ![e] = b]
    /\ home' = [home EXCEPT ![e] = s]
    /\ handler' = [handler EXCEPT ![s] = [pc |-> "reserve", exec |-> e, awaited |-> FALSE]]
    /\ UNCHANGED <<registry, sealed, attached, menus, online, inbox, work, armed, stops,
                   tasks, lost, drain, bounds>>

(* Config reload answers itself: the completion event precedes the answer. *)
InvokeReload(s, b, e) ==
    /\ Ready(s) /\ menus[s].state = "Active"
    /\ s \in attached
    /\ bind[e] = NoExec
    /\ b.kind = "reload"
    /\ bind' = [bind EXCEPT ![e] = b]
    /\ home' = [home EXCEPT ![e] = s]
    /\ IF b.mode = "await"
       THEN /\ Deliver(s, [exec |-> e, ok |-> TRUE])
            /\ Answer(s, ActionPending(menus[s], e, 0))
       ELSE Answer(s, DetachedAccepted(menus[s], b.after, 0)) /\ UNCHANGED inbox
    /\ UNCHANGED <<registry, sealed, attached, work, armed, stops, tasks, lost, drain, bounds>>

(* reserve_execution; a post-dismissal action is answered at once and the  *)
(* UI quits.                                                               *)
Reserve(s) ==
    LET e == handler[s].exec  b == bind[e] IN
    /\ handler[s].pc = "reserve"
    /\ IF sealed \/ (b.mode = "await" /\ awaiting[s] # NoExec)
       THEN Refuse(s) /\ UNCHANGED registry
       ELSE /\ executions' = [executions EXCEPT ![e] = NewRecord(s, b)]
            /\ awaiting' = [awaiting EXCEPT ![s] = IF b.mode = "await" THEN e ELSE @]
            /\ IF b.kind = "deferred"
               THEN Answer(s, DetachedAccepted(menus[s], "Quit", 0))
               ELSE GoHandler(s, "dispatch") /\ UNCHANGED <<menus, online>>
    /\ UNCHANGED <<identity, sealed, attached, inbox, work, armed, stops, tasks, lost,
                   drain, bounds>>

(* Faulty variant: the reservation is not released.                        *)
RefusedKeepsReservation(s) ==
    /\ handler[s].pc = "dispatch"
    /\ Refuse(s)
    /\ UNCHANGED <<identity, registry, sealed, attached, inbox, work, armed, stops, tasks,
                   lost, drain, bounds>>

(* The dispatch or the spawn is refused: release_reservation.  A record    *)
(* that was completed meanwhile is left alone.                             *)
DispatchRefused(s) ==
    LET e == handler[s].exec IN
    /\ handler[s].pc = "dispatch"
    /\ Remove(e)
    /\ Refuse(s)
    /\ UNCHANGED <<identity, sealed, attached, inbox, work, armed, stops, tasks, lost,
                   drain, bounds>>

(* The host starts the work, which may be over before it answers.          *)
HostStarts(s) ==
    LET e == handler[s].exec IN
    /\ handler[s].pc = "dispatch" /\ ~Generic(e)
    /\ host' = [host EXCEPT ![e] = "running"]
    /\ GoHandler(s, "accepting")
    /\ UNCHANGED <<identity, registry, sealed, attached, menus, online, inbox, procs,
                   killed, armed, stops, tasks, lost, drain, bounds>>

(* The host accepts, awaitable or not; detached work is unhooked.          *)
HostAccepts(s) ==
    LET e == handler[s].exec IN
    /\ handler[s].pc = "accepting"
    /\ \E awaitable \in BOOLEAN :
          LET awaited == awaitable /\ bind[e].mode = "await" IN
          /\ handler' = [handler EXCEPT ![s].pc = "activate", ![s].awaited = awaited]
          /\ IF awaited THEN UNCHANGED registry ELSE Unhook(e)
    /\ UNCHANGED <<identity, sealed, attached, menus, online, inbox, work, armed, stops,
                   tasks, lost, drain, bounds>>

(* execute_command: the child is registered and supervised before anything *)
(* else can fail.                                                          *)
Spawn(s) ==
    LET e == handler[s].exec IN
    /\ handler[s].pc = "dispatch" /\ Generic(e)
    /\ procs' = procs \cup {e}
    /\ GoHandler(s, "supervised")
    /\ UNCHANGED <<identity, registry, sealed, attached, menus, online, inbox, host,
                   killed, armed, stops, tasks, lost, drain, bounds>>

(* A stop requested before the child existed reaches it now.               *)
Supervised(s) ==
    LET e == handler[s].exec IN
    /\ handler[s].pc = "supervised"
    /\ killed' = IF Known(e) /\ executions[e].stopping THEN killed \cup ({e} \cap procs)
                 ELSE killed
    /\ handler' = [handler EXCEPT ![s].pc = "activate",
                                  ![s].awaited = bind[e].mode = "await"]
    /\ UNCHANGED <<identity, registry, sealed, attached, menus, online, inbox, host, procs,
                   armed, stops, tasks, lost, drain, bounds>>

(* activate_execution and its result: under the seal the invocation fails, *)
(* although the host work goes on; a child is cancelled instead.           *)
Activation(s) ==
    LET e == handler[s].exec IN
    /\ handler[s].pc = "activate"
    /\ Activate(e)
    /\ IF Generic(e)
       THEN /\ UNCHANGED online
            /\ killed' = IF sealed THEN killed \cup ({e} \cap procs) ELSE killed
            /\ IF handler[s].awaited /\ ~sealed
               THEN Accept(s, e, TRUE)
               ELSE GoHandler(s, IF sealed THEN "abandon" ELSE "unhook") /\ UNCHANGED menus
       ELSE /\ UNCHANGED killed
            /\ IF sealed THEN Refuse(s) ELSE Accept(s, e, handler[s].awaited)
    /\ UNCHANGED <<identity, sealed, attached, inbox, host, procs, stops, tasks, lost,
                   drain, bounds>>

(* A detached command: the UI is unhooked after activation.                *)
CommandDetached(s) ==
    LET e == handler[s].exec IN
    /\ handler[s].pc = "unhook"
    /\ Unhook(e)
    /\ Accept(s, e, FALSE)
    /\ UNCHANGED <<identity, sealed, attached, inbox, work, armed, stops, tasks, lost,
                   drain, bounds>>

(* Faulty variant: the reaper is not awaited.                              *)
AbandonedAtOnce(s) ==
    LET e == handler[s].exec IN
    /\ handler[s].pc = "abandon"
    /\ executions' = [executions EXCEPT ![e] = NoExec]
    /\ awaiting' = [awaiting EXCEPT ![s] = NoExec]
    /\ Refuse(s)
    /\ UNCHANGED <<identity, sealed, attached, inbox, work, armed, stops, tasks, lost,
                   drain, bounds>>

(* The seal won: wait for the reaper, then drop whatever is left.          *)
Abandoned(s) ==
    LET e == handler[s].exec IN
    /\ handler[s].pc = "abandon" /\ e \notin procs
    /\ executions' = [executions EXCEPT ![e] = NoExec]
    /\ awaiting' = [awaiting EXCEPT ![s] = NoExec]
    /\ Refuse(s)
    /\ UNCHANGED <<identity, sealed, attached, inbox, work, armed, stops, tasks, lost,
                   drain, bounds>>

-----------------------------------------------------------------------------
(* Ends of executions.                                                      *)

(* DispatchCompleted from the host.                                        *)
HostCompletes(e) ==
    /\ host[e] = "running"
    /\ host' = [host EXCEPT ![e] = "done"]
    /\ \E ok \in BOOLEAN : Finish(e, ok)
    /\ UNCHANGED <<identity, sealed, attached, uiVars, procs, killed, armed, stops, tasks,
                   lost, drain, bounds>>

(* The reaper sees the child end: by itself, or after its cancellation.    *)
ChildExits(e) ==
    /\ e \in procs
    /\ procs' = procs \ {e}
    /\ \E ok \in BOOLEAN : Finish(e, ok)
    /\ UNCHANGED <<identity, sealed, attached, uiVars, host, killed, armed, stops, tasks,
                   lost, drain, bounds>>

(* Faulty variant: the UI is told and stays attached to the execution.     *)
DeadlineKeepsUi(e) ==
    LET r == executions[e] IN
    /\ armed[e] # "none"
    /\ armed' = [armed EXCEPT ![e] = "none"]
    /\ IF ~Known(e) \/ r.phase = "Reserved" \/ r.stopping
       THEN UNCHANGED <<registry, inbox, stops>>
       ELSE /\ executions' = [executions EXCEPT ![e].stopping = (armed[e] = "cancel")]
            /\ IF r.session # None
               THEN Deliver(r.session, [exec |-> e, ok |-> FALSE]) ELSE UNCHANGED inbox
            /\ stops' = [stops EXCEPT ![e] = IF armed[e] = "cancel" THEN "deadline" ELSE @]
            /\ UNCHANGED awaiting
    /\ UNCHANGED <<identity, sealed, attached, uiVars, work, tasks, lost, drain, bounds>>

(* supervise_execution_deadline: ignored before activation and once a stop *)
(* is under way; otherwise the UI is let go with an event, and a cancel    *)
(* policy stops the owner.                                                 *)
DeadlineFires(e) ==
    LET r == executions[e] IN
    /\ armed[e] # "none"
    /\ armed' = [armed EXCEPT ![e] = "none"]
    /\ IF ~Known(e) \/ r.phase = "Reserved" \/ r.stopping
       THEN UNCHANGED <<registry, inbox, stops>>
       ELSE /\ executions' = [executions EXCEPT
                                ![e] = [r EXCEPT !.session = None, !.awaiting = FALSE,
                                                 !.stopping = (armed[e] = "cancel")]]
            /\ awaiting' = [s \in Uis |-> IF r.awaiting /\ r.session = s THEN NoExec
                                          ELSE awaiting[s]]
            /\ IF r.session # None
               THEN Deliver(r.session, [exec |-> e, ok |-> FALSE]) ELSE UNCHANGED inbox
            /\ stops' = [stops EXCEPT ![e] = IF armed[e] = "cancel" THEN "deadline" ELSE @]
    /\ UNCHANGED <<identity, sealed, attached, uiVars, work, tasks, lost, drain, bounds>>

(* HostLost: every host execution known now is failed, one by one.         *)
HostLost ==
    /\ bounds.hostLosses > 0 /\ lost = {}
    /\ bounds' = [bounds EXCEPT !.hostLosses = @ - 1]
    /\ lost' = {e \in Execs : Known(e) /\ ~Generic(e)}
    /\ UNCHANGED <<identity, registry, sealed, attached, uiVars, inbox, work, armed, stops,
                   tasks, drain>>

FailLost(e) ==
    /\ e \in lost
    /\ lost' = lost \ {e}
    /\ Finish(e, FALSE)
    /\ UNCHANGED <<identity, sealed, attached, uiVars, work, armed, stops, tasks, drain,
                   bounds>>

-----------------------------------------------------------------------------
(* Menu controls.                                                           *)

(* The broker's answer to a control, as the UI receives it.                *)
Confirmed(s, e, c) == Answer(s, PendingControlCompleted(menus[s], e, c, 0))

(* A control key while an action is pending, and the broker's control up   *)
(* to the cancel call.                                                     *)
Control(s, c) ==
    LET e == awaiting[s]  m == KeyControl(menus[s], c, 0) IN
    /\ Ready(s) /\ menus[s].state = "Pending" /\ menus[s].control = NoExec
    /\ IF e = NoExec
       THEN Answer(s, m) /\ UNCHANGED <<executions, stops>>     \* Acknowledged
       ELSE IF executions[e].control # NoExec                   \* PendingControlInFlight
       THEN Answer(s, m) /\ UNCHANGED <<executions, stops>>
       ELSE IF bind[e].onControl = "detach"
            THEN /\ executions' = [executions EXCEPT ![e].control = c]
                 /\ Answer(s, PendingControlCompleted(m, e, c, 0))
                 /\ UNCHANGED stops
            ELSE IF ~executions[e].cancellable                  \* CancelUnsupported
            THEN Answer(s, m) /\ UNCHANGED <<executions, stops>>
            ELSE /\ executions' = [executions EXCEPT ![e].control = c, ![e].stopping = TRUE]
                 /\ UNCHANGED online
                 /\ IF StopNeeded(e)
                    THEN /\ stops' = [stops EXCEPT ![e] = "control"]
                         /\ handler' = [handler EXCEPT ![s] = [pc |-> "control", exec |-> e,
                                                               awaited |-> TRUE]]
                         /\ menus' = [menus EXCEPT ![s] = m]
                    ELSE /\ UNCHANGED <<stops, handler>>
                         /\ menus' = [menus EXCEPT ![s] = PendingControlCompleted(m, e, c, 0)]
    /\ UNCHANGED <<identity, awaiting, sealed, attached, inbox, work, armed, tasks, lost,
                   drain, bounds>>

(* A control key in a visible menu is handled locally.                     *)
LocalControl(s, c) ==
    /\ Ready(s) /\ menus[s].state = "Active"
    /\ menus' = [menus EXCEPT ![s] = KeyControl(@, c, 0)]
    /\ UNCHANGED <<identity, registry, sealed, attached, handler, online, inbox, work,
                   armed, stops, tasks, lost, drain, bounds>>

(* A key that opens a submenu is handled locally as well.                  *)
OpenMenu(s, x) ==
    /\ Ready(s) /\ menus[s].state = "Active" /\ Len(menus[s].stack) < MaxDepth
    /\ menus' = [menus EXCEPT ![s] = OpenSubmenu(@, x, 0)]
    /\ UNCHANGED <<identity, registry, sealed, attached, handler, online, inbox, work,
                   armed, stops, tasks, lost, drain, bounds>>

(* The owner accepts the cancellation: a child that runs, or the host.     *)
StopWorks(e) == IF Generic(e) THEN e \in procs \/ (Known(e) /\ executions[e].phase = "Reserved")
                ELSE host[e] = "running"

StopAccepted(e) ==
    /\ stops[e] # "none" /\ StopWorks(e)
    /\ stops' = [stops EXCEPT ![e] = "none"]
    /\ killed' = IF Generic(e) THEN killed \cup ({e} \cap procs) ELSE killed
    /\ IF stops[e] = "control"
       THEN Confirmed(home[e], e, menus[home[e]].control)
       ELSE UNCHANGED uiVars
    /\ UNCHANGED <<identity, registry, sealed, attached, inbox, host, procs, armed, tasks,
                   lost, drain, bounds>>

(* The owner refuses: the flag is taken back unless a deadline asked, and  *)
(* clear_pending_control takes back the control if the execution is still  *)
(* the awaited one.  A drain gives up.                                     *)
StopRefused(e) ==
    LET s == home[e]
        still == stops[e] = "control" /\ awaiting[s] = e IN
    /\ stops[e] # "none"
    /\ Generic(e) => ~StopWorks(e)
    /\ stops' = [stops EXCEPT ![e] = "none"]
    /\ executions' = [executions EXCEPT
                        ![e] = IF ~Known(e) \/ stops[e] = "deadline" THEN @
                               ELSE [@ EXCEPT !.stopping = FALSE,
                                              !.control = IF still THEN NoExec
                                                          ELSE executions[e].control]]
    /\ IF stops[e] # "control" THEN UNCHANGED uiVars
       ELSE IF still THEN Refuse(s)
       ELSE Confirmed(s, e, menus[s].control)
    /\ IF stops[e] = "drain" THEN drain' = NoDrain /\ sealed' = FALSE
                             ELSE UNCHANGED <<drain, sealed>>
    /\ UNCHANGED <<identity, awaiting, attached, inbox, work, armed, tasks, lost, bounds>>

-----------------------------------------------------------------------------
(* The UI process.                                                          *)

DetachCall(s, who) == [sess |-> s, by |-> who, step |-> "unlink", todo |-> {},
                       deferred |-> {}, exec |-> NoExec]

(* handle_broker_event, and the exit on BrokerRetiring.                    *)
UiEvent(s) ==
    LET event == Head(inbox[s]) IN
    /\ Ready(s) /\ inbox[s] # <<>>
    /\ inbox' = [inbox EXCEPT ![s] = Tail(@)]
    /\ IF event = Retiring
       THEN /\ online' = [online EXCEPT ![s] = "leaving"]
            /\ tasks' = tasks \cup {DetachCall(s, "ui")}
            /\ UNCHANGED menus
       ELSE /\ menus' = [menus EXCEPT ![s] = ActionCompleted(@, event.exec, event.ok,
                                                             bind[event.exec].after, 0)]
            /\ UNCHANGED <<online, tasks>>
    /\ UNCHANGED <<identity, registry, sealed, attached, handler, work, armed, stops, lost,
                   drain, bounds>>

(* A dismissed menu detaches (DetachUi); a signal, the end of input or a   *)
(* lost connection has the same effect at the broker.                      *)
Leave(s) ==
    /\ online[s] = "up" /\ handler[s].pc = "idle"
    /\ online' = [online EXCEPT ![s] = "leaving"]
    /\ tasks' = tasks \cup {DetachCall(s, "ui")}
    /\ UNCHANGED <<identity, registry, sealed, attached, handler, menus, inbox, work, armed,
                   stops, lost, drain, bounds>>

UiDismissed(s) == menus[s].state = "Dismissed" /\ Leave(s)

UiInterrupted(s) == menus[s].state # "Dismissed" /\ Leave(s)

UiGone(s) ==
    /\ online[s] = "leaving"
    /\ \A k \in tasks : ~(k.sess = s /\ k.by = "ui")
    /\ online' = [online EXCEPT ![s] = "gone"]
    /\ UNCHANGED <<identity, registry, sealed, attached, handler, menus, inbox, work, armed,
                   stops, tasks, lost, drain, bounds>>

-----------------------------------------------------------------------------
(* detach.                                                                  *)

Become(k, l) == tasks' = (tasks \ {k}) \cup {l}

DetachUnlink(k) ==
    /\ k \in tasks /\ k.step = "unlink"
    /\ attached' = attached \ {k.sess}
    /\ Become(k, [k EXCEPT !.step = "state"])
    /\ UNCHANGED <<identity, registry, sealed, uiVars, inbox, work, armed, stops, lost,
                   drain, bounds>>

OfSession(s) == {e \in Execs : Known(e) /\ executions[e].session = s}

(* Faulty variant: the executions stay attached to the session.            *)
DetachKeepsSession(k) ==
    LET mine == OfSession(k.sess) IN
    /\ k \in tasks /\ k.step = "state"
    /\ awaiting' = [awaiting EXCEPT ![k.sess] = NoExec]
    /\ executions' = [e \in Execs |-> IF e \in mine
                                      THEN [executions[e] EXCEPT !.awaiting = FALSE]
                                      ELSE executions[e]]
    /\ Become(k, [k EXCEPT !.step = "stops",
                           !.deferred = {e \in mine : executions[e].deferred}])
    /\ UNCHANGED <<identity, sealed, attached, uiVars, inbox, work, armed, stops, lost,
                   drain, bounds>>

(* Faulty variant: every cancellable execution is stopped.                 *)
DetachCancelsAll(k) ==
    LET mine == OfSession(k.sess) IN
    /\ k \in tasks /\ k.step = "state"
    /\ awaiting' = [awaiting EXCEPT ![k.sess] = NoExec]
    /\ executions' = [e \in Execs |-> IF e \in mine
                                      THEN [executions[e] EXCEPT !.awaiting = FALSE,
                                                                 !.session = None]
                                      ELSE executions[e]]
    /\ Become(k, [k EXCEPT !.step = "stops",
                           !.todo = {e \in mine : executions[e].cancellable},
                           !.deferred = {e \in mine : executions[e].deferred}])
    /\ UNCHANGED <<identity, sealed, attached, uiVars, inbox, work, armed, stops, lost,
                   drain, bounds>>

(* Every execution of the session loses its UI; those with a cancel policy *)
(* and no control of their own are to be stopped, deferred ones dispatched.*)
DetachState(k) ==
    LET mine == OfSession(k.sess) IN
    /\ k \in tasks /\ k.step = "state"
    /\ awaiting' = [awaiting EXCEPT ![k.sess] = NoExec]
    /\ executions' = [e \in Execs |-> IF e \in mine
                                      THEN [executions[e] EXCEPT !.awaiting = FALSE,
                                                                 !.session = None]
                                      ELSE executions[e]]
    /\ Become(k, [k EXCEPT !.step = "stops",
                           !.todo = {e \in mine : /\ executions[e].control = NoExec
                                                  /\ bind[e].onControl = "cancel"
                                                  /\ executions[e].cancellable},
                           !.deferred = {e \in mine : executions[e].deferred}])
    /\ UNCHANGED <<identity, sealed, attached, uiVars, inbox, work, armed, stops, lost,
                   drain, bounds>>

(* The stop a detach asked for last has been answered.                     *)
Answered(k) == k.exec # NoExec => stops[k.exec] # "detach"

DetachStop(k, e) ==
    /\ k \in tasks /\ k.step = "stops" /\ e \in k.todo /\ Answered(k)
    /\ RequestStop(e, "detach")
    /\ Become(k, [k EXCEPT !.todo = @ \ {e}, !.exec = e])
    /\ UNCHANGED <<identity, awaiting, sealed, attached, uiVars, inbox, work, armed, lost,
                   drain, bounds>>

(* schedule_post_dismissal: the deferred request is taken exactly once.    *)
DetachSchedule(k, e) ==
    /\ k \in tasks /\ k.step = "stops" /\ k.todo = {} /\ Answered(k) /\ e \in k.deferred
    /\ IF Known(e) /\ executions[e].deferred
       THEN /\ executions' = [executions EXCEPT ![e].deferred = FALSE]
            /\ Become(k, [k EXCEPT !.deferred = @ \ {e}, !.step = "late", !.exec = e])
       ELSE UNCHANGED executions /\ Become(k, [k EXCEPT !.deferred = @ \ {e}])
    /\ UNCHANGED <<identity, awaiting, sealed, attached, uiVars, inbox, work, armed, stops,
                   lost, drain, bounds>>

(* Faulty variant: a refused late dispatch is only logged.                 *)
LateRefusedSilently(k) ==
    /\ k \in tasks /\ k.step = "late"
    /\ Unhook(k.exec)
    /\ Become(k, [k EXCEPT !.step = "stops", !.exec = NoExec])
    /\ UNCHANGED <<identity, sealed, attached, uiVars, inbox, work, armed, stops, lost, drain,
                   bounds>>

(* dispatch_portable_after_ui_dismissal is refused: the execution fails.   *)
LateRefused(k) ==
    /\ k \in tasks /\ k.step = "late"
    /\ Finish(k.exec, FALSE)
    /\ Become(k, [k EXCEPT !.step = "stops", !.exec = NoExec])
    /\ UNCHANGED <<identity, sealed, attached, uiVars, work, armed, stops, lost, drain, bounds>>

LateAccepted(k) ==
    /\ k \in tasks /\ k.step = "late"
    /\ host' = [host EXCEPT ![k.exec] = "running"]
    /\ Unhook(k.exec)
    /\ Become(k, [k EXCEPT !.step = "activate"])
    /\ UNCHANGED <<identity, sealed, attached, uiVars, inbox, procs, killed, armed, stops,
                   lost, drain, bounds>>

LateActivated(k) ==
    /\ k \in tasks /\ k.step = "activate"
    /\ Activate(k.exec)
    /\ Become(k, [k EXCEPT !.step = "stops", !.exec = NoExec])
    /\ UNCHANGED <<identity, sealed, attached, uiVars, inbox, work, stops, lost, drain, bounds>>

DetachDone(k) ==
    /\ k \in tasks /\ k.step = "stops" /\ k.todo = {} /\ k.deferred = {} /\ Answered(k)
    /\ tasks' = tasks \ {k}
    /\ UNCHANGED <<identity, registry, sealed, attached, uiVars, inbox, work, armed, stops,
                   lost, drain, bounds>>

(* A full outbox loses the event that found it full and detaches the       *)
(* session; the connection and the UI behind it stay as they are.          *)
SessionLost(s) ==
    /\ bounds.losses > 0 /\ s \in attached
    /\ bounds' = [bounds EXCEPT !.losses = @ - 1]
    /\ tasks' = tasks \cup {DetachCall(s, "loss")}
    /\ \E kept \in {Len(inbox[s]) - 1, Len(inbox[s])} :
          kept >= 0 /\ inbox' = [inbox EXCEPT ![s] = SubSeq(@, 1, kept)]
    /\ UNCHANGED <<identity, registry, sealed, attached, uiVars, work, armed, stops, lost,
                   drain>>

(* scope_unhealthy: the host work of the session is reported failed, but   *)
(* stays registered, and the session is detached.                          *)
ScopeUnhealthy(s) ==
    /\ bounds.losses > 0 /\ s \in attached
    /\ bounds' = [bounds EXCEPT !.losses = @ - 1]
    /\ tasks' = tasks \cup {[DetachCall(s, "loss") EXCEPT
                               !.step = "fail",
                               !.todo = {e \in OfSession(s) : ~Generic(e)
                                                               /\ executions[e].control = NoExec}]}
    /\ UNCHANGED <<identity, registry, sealed, attached, uiVars, inbox, work, armed, stops,
                   lost, drain>>

ScopeFail(k, e) ==
    /\ k \in tasks /\ k.step = "fail" /\ e \in k.todo
    /\ Deliver(k.sess, [exec |-> e, ok |-> FALSE])
    /\ Become(k, [k EXCEPT !.todo = @ \ {e}])
    /\ UNCHANGED <<identity, registry, sealed, attached, uiVars, work, armed, stops, lost,
                   drain, bounds>>

ScopeFailed(k) ==
    /\ k \in tasks /\ k.step = "fail" /\ k.todo = {}
    /\ Become(k, [k EXCEPT !.step = "unlink"])
    /\ UNCHANGED <<identity, registry, sealed, attached, uiVars, inbox, work, armed, stops,
                   lost, drain, bounds>>

-----------------------------------------------------------------------------
(* drain_for_activation.  The launch gate and host cleanup are UiLaunch's. *)

DrainSeal ==
    /\ drain.pc = "idle" /\ bounds.drains > 0
    /\ bounds' = [bounds EXCEPT !.drains = @ - 1]
    /\ sealed' = TRUE
    /\ drain' = [drain EXCEPT !.pc = "seal"]
    /\ UNCHANGED <<identity, registry, attached, uiVars, inbox, work, armed, stops, tasks, lost>>

(* Every reservation made before the seal is settled.                      *)
DrainSettled ==
    /\ drain.pc = "seal"
    /\ \A e \in Execs : Known(e) /\ executions[e].phase = "Reserved" => executions[e].deferred
    /\ drain' = [drain EXCEPT !.pc = "check"]
    /\ UNCHANGED <<identity, registry, sealed, attached, uiVars, inbox, work, armed, stops,
                   tasks, lost, bounds>>

AtHost == {e \in Execs : Known(e) /\ executions[e].phase = "Adapter"}

DrainCheck ==
    /\ drain.pc = "check"
    /\ IF \E e \in AtHost : ~executions[e].cancellable
       THEN drain' = NoDrain /\ sealed' = FALSE                \* ActivationDrainRefused
       ELSE /\ drain' = [drain EXCEPT !.pc = "stop", !.execs = AtHost,
                                      !.wait = AtHost,
                                      !.late = {e \in Execs : Known(e) /\ executions[e].deferred}]
            /\ UNCHANGED sealed
    /\ UNCHANGED <<identity, registry, attached, uiVars, inbox, work, armed, stops, tasks,
                   lost, bounds>>

NoDrainStop == \A e \in Execs : stops[e] # "drain"

(* One stop after the other, then all of them are awaited.  An execution   *)
(* that someone else is stopping is only awaited.                          *)
DrainStop(e) ==
    /\ drain.pc = "stop" /\ e \in drain.execs /\ NoDrainStop
    /\ drain' = [drain EXCEPT !.execs = @ \ {e}]
    /\ RequestStop(e, "drain")
    /\ UNCHANGED <<identity, awaiting, sealed, attached, uiVars, inbox, work, armed, tasks,
                   lost, bounds>>

DrainWaited == NoDrainStop /\ \A e \in drain.wait : ~Known(e)

DrainStopped ==
    /\ drain.pc = "stop" /\ drain.execs = {} /\ DrainWaited
    /\ drain' = [drain EXCEPT !.pc = "sessions", !.wait = {}, !.sess = attached]
    /\ UNCHANGED <<identity, registry, sealed, attached, uiVars, inbox, work, armed, stops,
                   tasks, lost, bounds>>

DrainDetaching == \E k \in tasks : k.by = "drain"

(* Faulty variant: the UI is not told.                                     *)
DrainSilently(s) ==
    /\ drain.pc = "sessions" /\ s \in drain.sess /\ ~DrainDetaching
    /\ drain' = [drain EXCEPT !.sess = @ \ {s}]
    /\ tasks' = tasks \cup {DetachCall(s, "drain")}
    /\ UNCHANGED <<identity, registry, sealed, attached, uiVars, inbox, work, armed, stops,
                   lost, bounds>>

DrainSession(s) ==
    /\ drain.pc = "sessions" /\ s \in drain.sess /\ ~DrainDetaching
    /\ drain' = [drain EXCEPT !.sess = @ \ {s}]
    /\ Deliver(s, Retiring)
    /\ tasks' = tasks \cup {DetachCall(s, "drain")}
    /\ UNCHANGED <<identity, registry, sealed, attached, uiVars, work, armed, stops, lost, bounds>>

DrainDetached ==
    /\ drain.pc = "sessions" /\ drain.sess = {} /\ ~DrainDetaching
    /\ drain' = [drain EXCEPT !.pc = "late"]
    /\ UNCHANGED <<identity, registry, sealed, attached, uiVars, inbox, work, armed, stops,
                   tasks, lost, bounds>>

(* Deferred work that was dispatched by a detach above is stopped as well, *)
(* and awaited, one after the other.                                       *)
DrainLate(e) ==
    /\ drain.pc = "late" /\ e \in drain.late /\ DrainWaited
    /\ drain' = [drain EXCEPT !.late = @ \ {e}, !.wait = {e}]
    /\ RequestStop(e, "drain")
    /\ UNCHANGED <<identity, awaiting, sealed, attached, uiVars, inbox, work, armed, tasks,
                   lost, bounds>>

DrainDone ==
    /\ drain.pc = "late" /\ drain.late = {} /\ DrainWaited
    /\ drain' = [drain EXCEPT !.pc = "done", !.wait = {}]
    /\ UNCHANGED <<identity, registry, sealed, attached, uiVars, inbox, work, armed, stops,
                   tasks, lost, bounds>>

(* reopen_dispatch after an aborted activation.                            *)
Reopen ==
    /\ drain.pc = "done"
    /\ drain' = NoDrain
    /\ sealed' = FALSE
    /\ UNCHANGED <<identity, registry, attached, uiVars, inbox, work, armed, stops, tasks,
                   lost, bounds>>

-----------------------------------------------------------------------------

InvokeNext(s) ==
    \/ Reserve(s) \/ DispatchRefused(s) \/ HostStarts(s) \/ HostAccepts(s) \/ Spawn(s)
    \/ Supervised(s) \/ Activation(s) \/ CommandDetached(s) \/ Abandoned(s)

DetachNext(k) ==
    \/ DetachUnlink(k) \/ DetachState(k) \/ LateRefused(k) \/ LateAccepted(k)
    \/ LateActivated(k) \/ DetachDone(k)
    \/ ScopeFailed(k)
    \/ \E e \in Execs : DetachStop(k, e) \/ DetachSchedule(k, e) \/ ScopeFail(k, e)

DrainNext ==
    \/ DrainSettled \/ DrainCheck \/ DrainStopped \/ DrainDetached \/ DrainDone
    \/ \E e \in Execs : DrainStop(e) \/ DrainLate(e)
    \/ \E s \in Uis : DrainSession(s)

ExecNext(e) ==
    \/ HostCompletes(e) \/ ChildExits(e) \/ DeadlineFires(e) \/ FailLost(e)
    \/ StopAccepted(e) \/ StopRefused(e)

Next ==
    \/ \E s \in Uis :
          \/ \E b \in Bindings, e \in Execs : Invoke(s, b, e) \/ InvokeReload(s, b, e)
          \/ \E c \in Controls : Control(s, c) \/ LocalControl(s, c)
          \/ \E x \in Menus : OpenMenu(s, x)
          \/ InvokeNext(s) \/ UiEvent(s) \/ UiDismissed(s) \/ UiInterrupted(s) \/ UiGone(s)
          \/ SessionLost(s) \/ ScopeUnhealthy(s)
    \/ \E e \in Execs : ExecNext(e)
    \/ \E k \in tasks : DetachNext(k)
    \/ HostLost \/ DrainSeal \/ DrainNext \/ Reopen

Spec == Init /\ [][Next]_vars

(* Handlers and tasks run, the UI reads its events, and the work itself    *)
(* ends: the host reports every dispatch it accepted, and a command exits. *)
(* What users, the network and the coordinator do is not fair.             *)
Fairness ==
    /\ \A s \in Uis : WF_vars(InvokeNext(s)) /\ WF_vars(UiEvent(s))
                        /\ WF_vars(UiDismissed(s)) /\ WF_vars(UiGone(s))
    /\ \A e \in Execs : /\ WF_vars(HostCompletes(e)) /\ WF_vars(ChildExits(e))
                        /\ WF_vars(FailLost(e)) /\ WF_vars(StopAccepted(e) \/ StopRefused(e))
    /\ WF_vars(\E k \in tasks : DetachNext(k))
    /\ WF_vars(DrainNext)

FairSpec == Spec /\ Fairness

-----------------------------------------------------------------------------
(* Properties.                                                              *)

(* The admission index never names an execution that is gone, let go by    *)
(* its UI, or another session's: whatever completes, times out, detaches   *)
(* or is refused first takes its own entry with it.  A stale entry would   *)
(* refuse every later invocation of the session.                           *)
IndexedIsAwaited ==
    \A s \in Uis : awaiting[s] # NoExec =>
        /\ Known(awaiting[s])
        /\ executions[awaiting[s]].awaiting
        /\ executions[awaiting[s]].session = s

(* A reservation always has someone who will settle it: the handler or the *)
(* detach that dispatches it, or, while it is deferred, a UI or a detach   *)
(* that still has to let it go.  drain_for_activation waits for exactly    *)
(* this without a deadline.                                                *)
ReservationHasOwner ==
    \A e \in Execs : Known(e) /\ executions[e].phase = "Reserved" =>
        \/ /\ handler[home[e]].exec = e
           /\ handler[home[e]].pc \in {"dispatch", "accepting", "supervised", "activate"}
        \/ \E k \in tasks : k.step \in {"late", "activate"} /\ k.exec = e
        \/ executions[e].deferred /\ (online[home[e]] # "gone" \/ \E k \in tasks : e \in k.deferred)

(* Once a UI is gone nothing is attached to it: no execution of its        *)
(* session, no index entry, and no deferred action that was never          *)
(* dispatched.  An invocation that was being served while its session was  *)
(* torn down for another reason is included.                               *)
GoneUiReleased ==
    \A s \in Uis : online[s] = "gone" =>
        /\ awaiting[s] = NoExec
        /\ OfSession(s) = {}
        /\ \A e \in Execs : home[e] = s /\ Known(e) /\ executions[e].deferred =>
              \E k \in tasks : e \in k.deferred

(* The child registry and the execution registry agree: a supervised child *)
(* always has its record, and a record of a running command its child,     *)
(* however exit, cancellation, seal and activation interleave.             *)
ChildrenRegistered ==
    \A e \in Execs :
        /\ e \in procs => Known(e)
        /\ Known(e) /\ executions[e].phase = "Generic" => e \in procs

(* A completion event is final: once it is on its way to a UI, the broker  *)
(* no longer counts that UI as waiting, so it can never be told twice.     *)
(* The exception is a session that scope_unhealthy is tearing down.        *)
ReportIsFinal ==
    \A s \in Uis : \A i \in DOMAIN inbox[s] :
        inbox[s][i] # Retiring =>
            \/ ~Known(inbox[s][i].exec)
            \/ ~executions[inbox[s][i].exec].awaiting
            \/ \E k \in tasks : k.sess = s /\ k.by = "loss"

(* Drain doc: "Detach-policy work keeps its supervised child".  A child is *)
(* cancelled only where a policy of its binding says so, or when its       *)
(* invocation is refused because the seal came first: not by a dismissal,  *)
(* a lost session or a drain.                                              *)
CancelFollowsPolicy ==
    [][\A e \in killed' \ killed :
          \/ "cancel" \in {bind[e].onControl, bind[e].onTimeout}
          \/ sealed /\ handler[home[e]].pc = "activate" /\ handler[home[e]].exec = e]_vars

(* A menu that waits for an action without having asked for a control gets *)
(* its end, as an event or by leaving, even when the action was over       *)
(* before its invocation was answered.                                     *)
PendingResolved ==
    \A s \in Uis, e \in Execs :
        menus[s].state = "Pending" /\ menus[s].exec = e /\ menus[s].control = NoExec
        ~> menus[s].state # "Pending" \/ menus[s].exec # e \/ menus[s].control # NoExec
           \/ online[s] # "up"

(* Every execution leaves the registry once its work is over, deferred     *)
(* ones included.                                                          *)
ExecutionEnds == \A e \in Execs : Known(e) ~> ~Known(e)

(* A drain comes to an end: it waits for reservations and for stopped host *)
(* work without a timeout of its own.                                      *)
DrainEnds == drain.pc # "idle" ~> drain.pc \in {"idle", "done"}

(* A UI whose session the broker detached goes away: a drain sends it      *)
(* BrokerRetiring before it detaches, and nothing it still waits for keeps *)
(* it from reading that event.                                             *)
DetachedUiLeaves ==
    \A s \in Uis : s \notin attached /\ online[s] = "up" ~> online[s] # "up"
=============================================================================
