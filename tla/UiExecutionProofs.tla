------------------------- MODULE UiExecutionProofs --------------------------
(***************************************************************************)
(* The execution registry for any number of UIs, executions and bindings,  *)
(* any budget of faults and any depth of menus.                            *)
(*                                                                         *)
(* None of the registry's invariants is inductive alone.  What they rest   *)
(* on is that an execution id is used once (Untouched), that everything    *)
(* that still names an execution agrees with its binding and its UI, and   *)
(* that the last one to hold a reservation, a deferred action or a session *)
(* hands it on or lets it go: the conjuncts of Inv.                        *)
(***************************************************************************)
EXTENDS UiExecution, SequenceTheorems, TLAPS

(* The execution has an id, a binding and a UI.                            *)
Named(e) == bind[e] # NoExec

Cancels(e) == "cancel" \in {bind[e].onControl, bind[e].onTimeout}

(* The handler of the UI that invoked e serves e, at one of these steps.   *)
At(e, pcs) == handler[home[e]].pc \in pcs /\ handler[home[e]].exec = e

Dispatching == {"dispatch", "accepting", "supervised", "activate"}

Mentions(k, e) == e \in k.todo \/ e \in k.deferred \/ e = k.exec

(* Nothing but the handler that is about to reserve knows the id.          *)
Untouched(e) ==
    /\ ~Known(e) /\ stops[e] = "none" /\ e \notin procs
    /\ \A s \in Uis : \A i \in DOMAIN inbox[s] : inbox[s][i].exec # e
    /\ \A k \in tasks : ~Mentions(k, e)

UntouchedUntilReserved ==
    /\ \A e \in Execs : ~Named(e) => Untouched(e)
    /\ \A s \in Uis : handler[s].pc = "reserve" => Untouched(handler[s].exec)

(* The binding and the UI of an execution, and who serves it.              *)
NamedHome == \A e \in Execs : Named(e) => home[e] \in Uis

HandlerOk(s) ==
    /\ handler[s].pc # "idle" =>
          handler[s].exec \in Execs /\ Named(handler[s].exec) /\ home[handler[s].exec] = s
    /\ handler[s].pc \notin {"idle", "reserve", "control"} =>
          bind[handler[s].exec].kind # "deferred"
    /\ handler[s].pc = "dispatch" =>
          /\ handler[s].exec \notin procs
          /\ Generic(handler[s].exec) => Known(handler[s].exec)

HandlersOk == \A s \in Uis : HandlerOk(s)

(* A record belongs to the UI that invoked it or to nobody, and it is      *)
(* stopped only where its binding allows it, unless it is host work.       *)
RecordOk(e) ==
    /\ Named(e)
    /\ executions[e].session \in {home[e], None}
    /\ executions[e].awaiting => executions[e].session = home[e]
    /\ executions[e].phase = "Adapter" => ~Generic(e)
    /\ executions[e].deferred =>
          bind[e].kind = "deferred" /\ executions[e].phase = "Reserved"
    /\ executions[e].stopping /\ Generic(e) => Cancels(e)

RecordsOk == \A e \in Execs : Known(e) => RecordOk(e)

(* Before its child exists a command's record is with the handler that     *)
(* spawns it.                                                              *)
ChildOk(e) ==
    /\ e \in procs => Named(e) /\ Generic(e) /\ Known(e)
    /\ Known(e) /\ executions[e].phase = "Generic" => e \in procs
    /\ Known(e) /\ Generic(e) /\ e \notin procs => At(e, {"dispatch"})

ChildrenOk == \A e \in Execs : ChildOk(e)

(* Reservations, and deferred actions.                                     *)
Late(e) == \E k \in tasks : k.step \in {"late", "activate"} /\ k.exec = e

Waiting(e) == \E k \in tasks : e \in k.deferred

Owned == \A e \in Execs : Known(e) /\ executions[e].phase = "Reserved" =>
    At(e, Dispatching) \/ Late(e) \/ executions[e].deferred

DeferredKept == \A e \in Execs : Known(e) /\ executions[e].deferred =>
    executions[e].session = home[e] \/ Waiting(e)

(* A UI that left has its detach on the way, or nothing of it is left.     *)
Detaching(s) == \E k \in tasks : k.sess = s /\ k.by = "ui" /\ k.step \in {"unlink", "state"}

Released(s) == awaiting[s] = NoExec /\ OfSession(s) = {}

LeftOk == \A s \in Uis :
    /\ online[s] # "up" => handler[s].pc = "idle" /\ (Detaching(s) \/ Released(s))
    /\ online[s] = "gone" => \A k \in tasks : ~(k.sess = s /\ k.by = "ui")

(* A report outlives its record, unless the session is being torn down and *)
(* its records are still attached to it.                                   *)
TearingDown(s) ==
    \E k \in tasks : k.sess = s /\ k.by = "loss" /\ k.step \in {"fail", "unlink", "state"}

ReportOk(s, e) ==
    /\ e \in Execs /\ Named(e) /\ home[e] = s
    /\ Known(e) /\ executions[e].awaiting => TearingDown(s)

ReportsOk == \A s \in Uis : \A i \in DOMAIN inbox[s] :
    inbox[s][i] # Retiring => ReportOk(s, inbox[s][i].exec)

(* What a detach still has to do.                                          *)
TaskOk(k) ==
    /\ k.step = "fail" => k.by = "loss" /\ \A e \in k.todo : Named(e) /\ home[e] = k.sess
    /\ k.step # "fail" => \A e \in k.todo : Named(e) /\ bind[e].onControl = "cancel"
    /\ \A e \in k.deferred : Named(e) /\ bind[e].kind = "deferred"
    /\ k.step \in {"fail", "unlink", "state"} => k.deferred = {}
    /\ k.step \in {"late", "activate"} =>
          /\ k.exec \in Execs /\ Named(k.exec) /\ bind[k.exec].kind = "deferred"
          /\ Known(k.exec) => ~executions[k.exec].deferred

TasksOk == \A k \in tasks : TaskOk(k)

(* A stop in flight: its record is marked, and the menu control that asked *)
(* for it is still being served.                                           *)
StopOk(e) ==
    /\ Named(e) /\ (Generic(e) => Cancels(e))
    /\ Known(e) => executions[e].stopping
    /\ stops[e] = "control" => At(e, {"control"})

StopsOk == \A e \in Execs : stops[e] # "none" => StopOk(e)

HostWork(e) == host[e] = "running" \/ e \in lost \/ e \in drain.execs \/ e \in drain.late

HostOk == \A e \in Execs : HostWork(e) => Named(e) /\ ~Generic(e)

ArmedOk == \A e \in Execs : armed[e] # "none" => Named(e) /\ armed[e] = bind[e].onTimeout

Stacks == \A s \in Uis : menus[s].stack # <<>>

(* The inductive invariant: types, and how the parts agree.                *)
Types == TypeOK /\ Stacks

Agreement ==
    /\ NamedHome /\ HandlersOk /\ RecordsOk /\ ChildrenOk /\ UntouchedUntilReserved
    /\ Owned /\ DeferredKept /\ LeftOk /\ ReportsOk /\ TasksOk /\ StopsOk
    /\ HostOk /\ ArmedOk /\ IndexedIsAwaited

Inv == Types /\ Agreement

-----------------------------------------------------------------------------
(* The menu sessions keep their type and never an empty stack.              *)

TypedMenu(m) == m \in Session /\ m.stack # <<>>

LEMMA TopTyped ==
    ASSUME NEW m, TypedMenu(m)
    PROVE  Top(m) \in Menus /\ Timeout[Top(m)] \in Times /\ Len(m.stack) \in Nat \ {0}
BY MenuAssumption DEF TypedMenu, Session, Top

(* A prefix of a sequence.                                                 *)
LEMMA PrefixTyped ==
    ASSUME NEW S, NEW q \in Seq(S), NEW n \in Nat, n <= Len(q)
    PROVE  SubSeq(q, 1, n) \in Seq(S) /\ Len(SubSeq(q, 1, n)) = n
<1>1. Len(q) \in Nat
    BY LenProperties
<1>2. ASSUME NEW i \in 1..n PROVE q[i] \in S
    <2>1. i \in 1..Len(q)
        BY <1>1, <1>2
    <2> QED
        BY <2>1, ElementOfSeq
<1> QED
    BY <1>2, SubSeqProperties

LEMMA ResetTyped ==
    ASSUME NEW m, TypedMenu(m)
    PROVE  TypedMenu(ResetDeadline(m, 0)) /\ ResetDeadline(m, 0).state = m.state
<1>1. FullDeadline(Top(m), 0) \in Times
    BY TopTyped DEF FullDeadline, Times
<1> QED
    BY <1>1 DEF ResetDeadline, TypedMenu, Session

LEMMA DismissTyped ==
    ASSUME NEW m, TypedMenu(m)
    PROVE  TypedMenu(Dismiss(m))
BY DEF Dismiss, TypedMenu, Session, Times

(* One menu is closed, or the stack dismissed.                             *)
LEMMA ApplyControlTyped ==
    ASSUME NEW m, TypedMenu(m), NEW c
    PROVE  TypedMenu(ApplyControl(m, c, 0))
<1>1. CASE c = "Quit" \/ Len(m.stack) = 1
    BY <1>1, DismissTyped DEF ApplyControl
<1>2. CASE ~(c = "Quit" \/ Len(m.stack) = 1)
    <2> DEFINE n == Len(m.stack) - 1
               rest == SubSeq(m.stack, 1, n)
               p == [m EXCEPT !.stack = rest]
    <2>1. n \in Nat \ {0} /\ n <= Len(m.stack)
        BY <1>2, TopTyped
    <2>2. m.stack \in Seq(Menus)
        BY DEF TypedMenu, Session
    <2>3. rest \in Seq(Menus) /\ Len(rest) = n
        BY <2>1, <2>2, PrefixTyped
    <2>4. rest # <<>>
        BY <2>1, <2>3
    <2>5. TypedMenu(p)
        BY <2>3, <2>4 DEF TypedMenu, Session
    <2>6. ApplyControl(m, c, 0) = ResetDeadline(p, 0)
        BY <1>2 DEF ApplyControl
    <2> QED
        BY <2>5, <2>6, ResetTyped
<1> QED
    BY <1>1, <1>2

LEMMA AfterActionTyped ==
    ASSUME NEW m, TypedMenu(m), NEW a \in AfterActions
    PROVE  TypedMenu(ApplyAfterAction(m, a, 0))
BY DismissTyped, ApplyControlTyped DEF ApplyAfterAction, AfterActions

LEMMA PendingKeyTyped ==
    ASSUME NEW m, TypedMenu(m), NEW c \in Controls \cup {NoExec}
    PROVE  TypedMenu(PendingKey(m, c))
<1>1. Timeout[Top(m)] \in Times
    BY TopTyped
<1> QED
    BY <1>1 DEF PendingKey, TypedMenu, Session

LEMMA KeyControlTyped ==
    ASSUME NEW m, TypedMenu(m), NEW c \in Controls
    PROVE  TypedMenu(KeyControl(m, c, 0))
<1>1. m.state \in {"Active", "Pending", "Dismissed"}
    BY DEF TypedMenu, Session
<1>2. CASE m.state = "Active"
    BY <1>2, ResetTyped, ApplyControlTyped DEF KeyControl
<1>3. CASE m.state = "Pending"
    BY <1>3, PendingKeyTyped DEF KeyControl
<1>4. CASE m.state = "Dismissed"
    BY <1>4 DEF KeyControl
<1> QED
    BY <1>1, <1>2, <1>3, <1>4

LEMMA ActionPendingTyped ==
    ASSUME NEW m, TypedMenu(m), NEW e \in Execs
    PROVE  TypedMenu(ActionPending(m, e, 0))
<1> DEFINE rest == IF m.deadline = NoTime THEN NoTime
                   ELSE IF m.deadline <= 0 THEN 0 ELSE m.deadline - 0
<1>1. rest \in Times
    BY DEF TypedMenu, Session, Times
<1>2. CASE m.state = "Active"
    <2>1. ActionPending(m, e, 0) =
              [m EXCEPT !.state = "Pending", !.exec = e, !.control = NoExec,
                        !.deadline = NoTime, !.paused = rest]
        BY <1>2 DEF ActionPending
    <2> HIDE DEF rest
    <2> QED
        BY <1>1, <2>1 DEF TypedMenu, Session, Times
<1>3. CASE m.state # "Active"
    BY <1>3 DEF ActionPending
<1> QED
    BY <1>2, <1>3

LEMMA DetachedAcceptedTyped ==
    ASSUME NEW m, TypedMenu(m), NEW a \in AfterActions
    PROVE  TypedMenu(DetachedAccepted(m, a, 0))
BY AfterActionTyped DEF DetachedAccepted

LEMMA ActivatedTyped ==
    ASSUME NEW m, TypedMenu(m)
    PROVE  /\ TypedMenu(Activated(m))
           /\ TypedMenu([Activated(m) EXCEPT !.paused = NoTime])
           /\ TypedMenu([Activated(m) EXCEPT !.control = NoExec, !.paused = NoTime])
BY DEF TypedMenu, Session, Activated, Times

LEMMA ResumeTyped ==
    ASSUME NEW m, TypedMenu(m)
    PROVE  TypedMenu(ResumeDeadline(m, 0))
<1> DEFINE until == IF m.paused = NoTime THEN NoTime ELSE 0 + m.paused
<1>1. until \in Times
    BY DEF TypedMenu, Session, Times
<1>2. ResumeDeadline(m, 0) = [m EXCEPT !.deadline = until, !.paused = NoTime]
    BY DEF ResumeDeadline
<1> HIDE DEF until
<1> QED
    BY <1>1, <1>2 DEF TypedMenu, Session, Times

LEMMA ActionCompletedTyped ==
    ASSUME NEW m, TypedMenu(m), NEW e, NEW ok, NEW a \in AfterActions
    PROVE  TypedMenu(ActionCompleted(m, e, ok, a, 0))
<1>1. /\ TypedMenu(ResetDeadline([Activated(m) EXCEPT !.paused = NoTime], 0))
      /\ TypedMenu(ResumeDeadline(Activated(m), 0))
      /\ TypedMenu(ApplyAfterAction([Activated(m) EXCEPT !.paused = NoTime], a, 0))
    BY ActivatedTyped, ResetTyped, ResumeTyped, AfterActionTyped
<1> QED
    BY <1>1 DEF ActionCompleted

LEMMA ControlCompletedTyped ==
    ASSUME NEW m, TypedMenu(m), NEW e, NEW c
    PROVE  TypedMenu(PendingControlCompleted(m, e, c, 0))
BY ActivatedTyped, ApplyControlTyped DEF PendingControlCompleted

LEMMA OpenSubmenuTyped ==
    ASSUME NEW m, TypedMenu(m), NEW x \in Menus
    PROVE  TypedMenu(OpenSubmenu(m, x, 0))
<1> DEFINE longer == Append(m.stack, x)
           p == [m EXCEPT !.stack = longer]
<1>1. longer \in Seq(Menus) /\ longer # <<>>
    BY AppendProperties DEF TypedMenu, Session
<1>2. TypedMenu(p)
    BY <1>1 DEF TypedMenu, Session
<1> QED
    BY <1>2, ResetTyped DEF OpenSubmenu

LEMMA NewSessionTyped ==
    ASSUME NEW x \in Menus
    PROVE  TypedMenu(NewSession(x, 0))
<1>1. FullDeadline(x, 0) \in Times
    BY MenuAssumption DEF FullDeadline, Times
<1> QED
    BY <1>1 DEF NewSession, TypedMenu, Session, Times

-----------------------------------------------------------------------------
(* Types, part by part.                                                     *)

IdentityTyped ==
    bind \in [Execs -> Bindings \cup {NoExec}] /\ home \in [Execs -> Uis \cup {None}]

RegistryTyped ==
    /\ executions \in [Execs -> Record \cup {NoExec}]
    /\ awaiting \in [Uis -> Execs \cup {NoExec}]

UiTyped ==
    /\ handler \in [Uis -> Handler]
    /\ menus \in [Uis -> Session] /\ Stacks
    /\ online \in [Uis -> {"up", "leaving", "gone"}]

InboxTyped == inbox \in [Uis -> Seq(Event)]

WorkTyped ==
    /\ host \in [Execs -> {"none", "running", "done"}]
    /\ procs \subseteq Execs /\ killed \subseteq Execs /\ lost \subseteq Execs

TimersTyped ==
    /\ armed \in [Execs -> {"none", "detach", "cancel"}]
    /\ stops \in [Execs -> {"none", "control", "detach", "deadline", "drain"}]

TasksTyped == tasks \subseteq Task

DrainTyped ==
    /\ drain \in [pc : {"idle", "seal", "check", "stop", "sessions", "late", "done"},
                  execs : SUBSET Execs, wait : SUBSET Execs, sess : SUBSET Uis,
                  late : SUBSET Execs]
    /\ sealed \in BOOLEAN

ScopeTyped == attached \subseteq Uis /\ bounds \in Budget

LEMMA TypesSplit ==
    Types <=> /\ IdentityTyped /\ RegistryTyped /\ UiTyped /\ InboxTyped /\ WorkTyped
              /\ TimersTyped /\ TasksTyped /\ DrainTyped /\ ScopeTyped
BY DEF Types, TypeOK, IdentityTyped, RegistryTyped, UiTyped, InboxTyped, WorkTyped,
       TimersTyped, TasksTyped, DrainTyped, ScopeTyped

LEMMA InitTyped == Init => Types
<1> SUFFICES ASSUME Init PROVE Types
    OBVIOUS
<1>1. IdentityTyped /\ RegistryTyped
    BY DEF Init, IdentityTyped, RegistryTyped
<1>2. UiTyped
    <2>1. PICK root \in Menus : menus = [s \in Uis |-> NewSession(root, 0)]
        BY DEF Init
    <2>2. TypedMenu(NewSession(root, 0))
        BY NewSessionTyped
    <2>3. menus \in [Uis -> Session] /\ Stacks
        BY <2>1, <2>2 DEF TypedMenu, Stacks
    <2>4. handler \in [Uis -> Handler] /\ online \in [Uis -> {"up", "leaving", "gone"}]
        BY DEF Init, Idle, Handler, HandlerPc
    <2> QED
        BY <2>3, <2>4 DEF UiTyped
<1>3. InboxTyped
    BY DEF Init, InboxTyped
<1>4. WorkTyped /\ TimersTyped /\ TasksTyped
    BY DEF Init, WorkTyped, TimersTyped, TasksTyped
<1>5. DrainTyped
    BY DEF Init, DrainTyped, NoDrain
<1>6. ScopeTyped
    BY ExecutionAssumption DEF Init, ScopeTyped
<1> QED
    BY <1>1, <1>2, <1>3, <1>4, <1>5, <1>6, TypesSplit

(* What a binding fixes.                                                   *)
LEMMA BindingTyped ==
    ASSUME Types, NEW e \in Execs, Named(e)
    PROVE  /\ bind[e] \in Bindings /\ bind[e] \in Binding
           /\ bind[e].after \in AfterActions
           /\ bind[e].onTimeout \in {"none", "detach", "cancel"}
           /\ bind[e].onControl \in {"detach", "cancel"}
           /\ bind[e].cancellable \in BOOLEAN
           /\ bind[e].mode \in {"await", "detach"}
<1>1. bind[e] \in Bindings
    BY DEF Types, TypeOK, Named
<1>2. bind[e] \in Binding
    BY <1>1, ExecutionAssumption
<1> QED
    BY <1>1, <1>2 DEF Binding

LEMMA RemoveTyped ==
    ASSUME RegistryTyped, NEW e \in Execs, Remove(e)
    PROVE  RegistryTyped'
BY DEF RegistryTyped, Remove

LEMMA DeliverTyped ==
    ASSUME InboxTyped, NEW s \in Uis, NEW event \in Event, Deliver(s, event)
    PROVE  InboxTyped'
<1>1. Append(inbox[s], event) \in Seq(Event)
    BY AppendProperties DEF InboxTyped
<1> QED
    BY <1>1 DEF InboxTyped, Deliver

LEMMA FinishTyped ==
    ASSUME RegistryTyped, InboxTyped, NEW e \in Execs, NEW ok \in BOOLEAN, Finish(e, ok)
    PROVE  RegistryTyped' /\ InboxTyped'
<1>1. CASE ~Known(e)
    BY <1>1 DEF Finish, registry, RegistryTyped, InboxTyped
<1>2. CASE Known(e)
    <2>1. RegistryTyped'
        BY <1>2, RemoveTyped DEF Finish
    <2>2. executions[e] \in Record
        BY <1>2 DEF RegistryTyped, Known
    <2>3. [exec |-> e, ok |-> ok] \in Event
        BY DEF Event
    <2>4. CASE executions[e].awaiting /\ executions[e].session # None
               /\ executions[e].control = NoExec
        <3>1. executions[e].session \in Uis
            BY <2>2, <2>4 DEF Record
        <3>2. Deliver(executions[e].session, [exec |-> e, ok |-> ok])
            BY <1>2, <2>4 DEF Finish
        <3> QED
            BY <2>1, <2>3, <3>1, <3>2, DeliverTyped
    <2>5. CASE ~(executions[e].awaiting /\ executions[e].session # None
                 /\ executions[e].control = NoExec)
        BY <1>2, <2>1, <2>5 DEF Finish, InboxTyped
    <2> QED
        BY <2>4, <2>5
<1> QED
    BY <1>1, <1>2

LEMMA UnhookTyped ==
    ASSUME RegistryTyped, NEW e \in Execs, Unhook(e)
    PROVE  RegistryTyped'
<1>1. CASE ~Known(e)
    BY <1>1 DEF Unhook, registry, RegistryTyped
<1>2. CASE Known(e)
    <2>1. executions[e] \in Record
        BY <1>2 DEF RegistryTyped, Known
    <2>2. [[executions[e] EXCEPT !.awaiting = FALSE] EXCEPT !.session = None] \in Record
        BY <2>1 DEF Record
    <2> QED
        BY <1>2, <2>2 DEF Unhook, RegistryTyped
<1> QED
    BY <1>1, <1>2

LEMMA ActivateTyped ==
    ASSUME Types, NEW e \in Execs, Named(e), Activate(e), stops' = stops
    PROVE  RegistryTyped' /\ TimersTyped'
<1>1. RegistryTyped /\ TimersTyped
    BY TypesSplit
<1>2. CASE ~Known(e)
    BY <1>1, <1>2 DEF Activate, registry, RegistryTyped, TimersTyped
<1>3. CASE Known(e)
    <2>1. executions[e] \in Record
        BY <1>1, <1>3 DEF RegistryTyped, Known
    <2>2. [[executions[e] EXCEPT !.phase = IF Generic(e) THEN "Generic" ELSE "Adapter"]
              EXCEPT !.cancellable = bind[e].cancellable] \in Record
        BY <2>1, BindingTyped DEF Record
    <2>3. RegistryTyped'
        BY <1>1, <1>3, <2>2 DEF Activate, RegistryTyped
    <2>4. TimersTyped'
        BY <1>1, <1>3, BindingTyped DEF Activate, TimersTyped
    <2> QED
        BY <2>3, <2>4
<1> QED
    BY <1>2, <1>3

LEMMA RequestStopTyped ==
    ASSUME RegistryTyped, TimersTyped, NEW e \in Execs, NEW who \in {"detach", "drain"},
           RequestStop(e, who), UNCHANGED <<awaiting, armed>>
    PROVE  RegistryTyped' /\ TimersTyped'
<1>1. CASE ~StopNeeded(e)
    BY <1>1 DEF RequestStop, RegistryTyped, TimersTyped
<1>2. CASE StopNeeded(e)
    <2>1. executions[e] \in Record
        BY <1>2 DEF RegistryTyped, StopNeeded, Known
    <2>2. [executions[e] EXCEPT !.stopping = TRUE] \in Record
        BY <2>1 DEF Record
    <2>3. RegistryTyped'
        BY <1>2, <2>2 DEF RequestStop, RegistryTyped
    <2>4. TimersTyped'
        BY <1>2 DEF RequestStop, TimersTyped
    <2> QED
        BY <2>3, <2>4
<1> QED
    BY <1>1, <1>2

LEMMA AnswerTyped ==
    ASSUME UiTyped, NEW s \in Uis, NEW m, TypedMenu(m), Answer(s, m)
    PROVE  UiTyped'
<1>1. Idle \in Handler
    BY DEF Idle, Handler, HandlerPc
<1>2. handler' \in [Uis -> Handler] /\ online' \in [Uis -> {"up", "leaving", "gone"}]
    BY <1>1 DEF Answer, UiTyped
<1>3. menus' \in [Uis -> Session] /\ \A u \in Uis : menus'[u].stack # <<>>
    BY DEF Answer, UiTyped, TypedMenu, Stacks
<1> QED
    BY <1>2, <1>3 DEF UiTyped, Stacks

LEMMA MenuOf ==
    ASSUME UiTyped, NEW s \in Uis
    PROVE  TypedMenu(menus[s])
BY DEF UiTyped, TypedMenu, Stacks

LEMMA RefuseTyped ==
    ASSUME UiTyped, NEW s \in Uis, Refuse(s)
    PROVE  UiTyped'
BY MenuOf, AnswerTyped DEF Refuse

LEMMA AcceptTyped ==
    ASSUME Types, NEW s \in Uis, NEW e \in Execs, Named(e), NEW awaited,
           Accept(s, e, awaited)
    PROVE  UiTyped'
<1>1. UiTyped /\ TypedMenu(menus[s]) /\ bind[e].after \in AfterActions
    BY MenuOf, TypesSplit, BindingTyped
<1>2. /\ TypedMenu(ActionPending(menus[s], e, 0))
      /\ TypedMenu(DetachedAccepted(menus[s], bind[e].after, 0))
    BY <1>1, ActionPendingTyped, DetachedAcceptedTyped
<1> QED
    BY <1>1, <1>2, AnswerTyped DEF Accept

LEMMA GoHandlerTyped ==
    ASSUME UiTyped, NEW s \in Uis, NEW pc \in HandlerPc, GoHandler(s, pc),
           UNCHANGED <<menus, online>>
    PROVE  UiTyped'
<1>1. [handler[s] EXCEPT !.pc = pc] \in Handler
    BY DEF UiTyped, Handler
<1> QED
    BY <1>1 DEF UiTyped, GoHandler, Stacks

LEMMA BecomeTyped ==
    ASSUME TasksTyped, NEW k, NEW l \in Task, Become(k, l)
    PROVE  TasksTyped'
BY DEF TasksTyped, Become

LEMMA TypesJoin ==
    ASSUME IdentityTyped', RegistryTyped', UiTyped', InboxTyped', WorkTyped', TimersTyped',
           TasksTyped', DrainTyped', ScopeTyped'
    PROVE  Types'
BY DEF Types, TypeOK, IdentityTyped, RegistryTyped, UiTyped, InboxTyped, WorkTyped,
       TimersTyped, TasksTyped, DrainTyped, ScopeTyped

(* The request a handler serves.                                           *)
LEMMA Served ==
    ASSUME Inv, NEW s \in Uis, handler[s].pc # "idle"
    PROVE  /\ handler[s].exec \in Execs /\ Named(handler[s].exec)
           /\ home[handler[s].exec] = s
BY DEF Inv, Agreement, HandlersOk, HandlerOk

LEMMA InvokeTyped ==
    ASSUME Inv, NEW s \in Uis, NEW b \in Bindings, NEW e \in Execs, Invoke(s, b, e)
    PROVE  Types'
<1>0. Types /\ IdentityTyped /\ RegistryTyped /\ UiTyped /\ InboxTyped
      /\ WorkTyped /\ TimersTyped /\ TasksTyped /\ DrainTyped /\ ScopeTyped
    BY TypesSplit DEF Inv
<1>11. IdentityTyped'
    <2>1. bind' \in [Execs -> Bindings \cup {NoExec}]
        BY <1>0 DEF IdentityTyped, Invoke
    <2>2. home' \in [Execs -> Uis \cup {None}]
        BY <1>0 DEF IdentityTyped, Invoke
    <2> QED
        BY <2>1, <2>2 DEF IdentityTyped
<1>12. UiTyped'
    <2>1. [pc |-> "reserve", exec |-> e, awaited |-> FALSE] \in Handler
        BY DEF Handler, HandlerPc
    <2> QED
        BY <1>0, <2>1 DEF Invoke, UiTyped, Stacks
<1>13. /\ RegistryTyped' /\ InboxTyped' /\ WorkTyped' /\ TimersTyped'
       /\ TasksTyped' /\ DrainTyped' /\ ScopeTyped'
    BY <1>0 DEF Invoke, registry, work, uiVars, RegistryTyped, InboxTyped,
           WorkTyped, TimersTyped, TasksTyped, DrainTyped, ScopeTyped
<1> QED
    BY <1>11, <1>12, <1>13, TypesJoin

LEMMA InvokeReloadTyped ==
    ASSUME Inv, NEW s \in Uis, NEW b \in Bindings, NEW e \in Execs,
           InvokeReload(s, b, e)
    PROVE  Types'
<1>0. Types /\ IdentityTyped /\ RegistryTyped /\ UiTyped /\ InboxTyped
      /\ WorkTyped /\ TimersTyped /\ TasksTyped /\ DrainTyped /\ ScopeTyped
    BY TypesSplit DEF Inv
<1>1. b.after \in AfterActions /\ TypedMenu(menus[s])
    BY <1>0, MenuOf, ExecutionAssumption DEF Binding
<1>11. IdentityTyped'
    <2>1. bind' \in [Execs -> Bindings \cup {NoExec}]
        BY <1>0 DEF IdentityTyped, InvokeReload
    <2>2. home' \in [Execs -> Uis \cup {None}]
        BY <1>0 DEF IdentityTyped, InvokeReload
    <2> QED
        BY <2>1, <2>2 DEF IdentityTyped
<1>12. UiTyped'
    <2>1. /\ TypedMenu(ActionPending(menus[s], e, 0))
          /\ TypedMenu(DetachedAccepted(menus[s], b.after, 0))
        BY <1>1, ActionPendingTyped, DetachedAcceptedTyped
    <2> QED
        BY <1>0, <2>1, AnswerTyped DEF InvokeReload
<1>13. InboxTyped'
    <2>1. [exec |-> e, ok |-> TRUE] \in Event
        BY DEF Event
    <2>2. CASE b.mode = "await"
        BY <1>0, <2>1, <2>2, DeliverTyped DEF InvokeReload
    <2>3. CASE b.mode # "await"
        BY <1>0, <2>3 DEF InvokeReload, InboxTyped
    <2> QED
        BY <2>2, <2>3
<1>14. /\ RegistryTyped' /\ WorkTyped' /\ TimersTyped'
       /\ TasksTyped' /\ DrainTyped' /\ ScopeTyped'
    BY <1>0 DEF InvokeReload, registry, work, uiVars, RegistryTyped, WorkTyped,
           TimersTyped, TasksTyped, DrainTyped, ScopeTyped
<1> QED
    BY <1>11, <1>12, <1>13, <1>14, TypesJoin

LEMMA ReserveTyped ==
    ASSUME Inv, NEW s \in Uis, Reserve(s)
    PROVE  Types'
<1>0. Types /\ IdentityTyped /\ RegistryTyped /\ UiTyped /\ InboxTyped
      /\ WorkTyped /\ TimersTyped /\ TasksTyped /\ DrainTyped /\ ScopeTyped
    BY TypesSplit DEF Inv
<1> DEFINE e == handler[s].exec
<1>1. handler[s].pc = "reserve" /\ e \in Execs /\ Named(e) /\ home[e] = s
    BY Served DEF Reserve
<1>11. RegistryTyped'
    <2>1. NewRecord(s, bind[e]) \in Record
        BY DEF NewRecord, Record
    <2>2. executions' \in [Execs -> Record \cup {NoExec}]
        BY <1>0, <1>1, <2>1 DEF Reserve, RegistryTyped, registry
    <2>3. awaiting' \in [Uis -> Execs \cup {NoExec}]
        BY <1>0, <1>1 DEF Reserve, RegistryTyped, registry
    <2> QED
        BY <2>2, <2>3 DEF RegistryTyped
<1>12. UiTyped'
    <2>1. TypedMenu(DetachedAccepted(menus[s], "Quit", 0)) /\ "dispatch" \in HandlerPc
        BY <1>0, MenuOf, DetachedAcceptedTyped DEF AfterActions, HandlerPc
    <2>2. \/ Refuse(s)
          \/ Answer(s, DetachedAccepted(menus[s], "Quit", 0))
          \/ GoHandler(s, "dispatch") /\ UNCHANGED <<menus, online>>
        BY DEF Reserve
    <2> QED
        BY <1>0, <2>1, <2>2, AnswerTyped, RefuseTyped, GoHandlerTyped
<1>13. /\ IdentityTyped' /\ InboxTyped' /\ WorkTyped' /\ TimersTyped'
       /\ TasksTyped' /\ DrainTyped' /\ ScopeTyped'
    BY <1>0 DEF Reserve, identity, work, uiVars, registry, IdentityTyped,
           InboxTyped, WorkTyped, TimersTyped, TasksTyped, DrainTyped, ScopeTyped
<1> QED
    BY <1>11, <1>12, <1>13, TypesJoin

LEMMA DispatchRefusedTyped ==
    ASSUME Inv, NEW s \in Uis, DispatchRefused(s)
    PROVE  Types'
<1>0. Types /\ IdentityTyped /\ RegistryTyped /\ UiTyped /\ InboxTyped
      /\ WorkTyped /\ TimersTyped /\ TasksTyped /\ DrainTyped /\ ScopeTyped
    BY TypesSplit DEF Inv
<1> DEFINE e == handler[s].exec
<1>1. handler[s].pc = "dispatch" /\ e \in Execs /\ Named(e) /\ home[e] = s
    BY Served DEF DispatchRefused
<1>11. RegistryTyped'
    BY <1>0, <1>1, RemoveTyped DEF DispatchRefused
<1>12. UiTyped'
    BY <1>0, RefuseTyped DEF DispatchRefused
<1>13. /\ IdentityTyped' /\ InboxTyped' /\ WorkTyped' /\ TimersTyped'
       /\ TasksTyped' /\ DrainTyped' /\ ScopeTyped'
    BY <1>0 DEF DispatchRefused, identity, work, uiVars, registry, IdentityTyped,
           InboxTyped, WorkTyped, TimersTyped, TasksTyped, DrainTyped, ScopeTyped
<1> QED
    BY <1>11, <1>12, <1>13, TypesJoin

LEMMA HostStartsTyped ==
    ASSUME Inv, NEW s \in Uis, HostStarts(s)
    PROVE  Types'
<1>0. Types /\ IdentityTyped /\ RegistryTyped /\ UiTyped /\ InboxTyped
      /\ WorkTyped /\ TimersTyped /\ TasksTyped /\ DrainTyped /\ ScopeTyped
    BY TypesSplit DEF Inv
<1> DEFINE e == handler[s].exec
<1>1. handler[s].pc = "dispatch" /\ e \in Execs /\ Named(e) /\ home[e] = s
    BY Served DEF HostStarts
<1>11. WorkTyped'
    BY <1>0, <1>1 DEF HostStarts, WorkTyped
<1>12. UiTyped'
    BY <1>0, GoHandlerTyped DEF HostStarts, HandlerPc
<1>13. /\ IdentityTyped' /\ RegistryTyped' /\ InboxTyped' /\ TimersTyped'
       /\ TasksTyped' /\ DrainTyped' /\ ScopeTyped'
    BY <1>0 DEF HostStarts, identity, registry, work, uiVars, IdentityTyped,
           RegistryTyped, InboxTyped, TimersTyped, TasksTyped, DrainTyped,
           ScopeTyped
<1> QED
    BY <1>11, <1>12, <1>13, TypesJoin

LEMMA HostAcceptsTyped ==
    ASSUME Inv, NEW s \in Uis, HostAccepts(s)
    PROVE  Types'
<1>0. Types /\ IdentityTyped /\ RegistryTyped /\ UiTyped /\ InboxTyped
      /\ WorkTyped /\ TimersTyped /\ TasksTyped /\ DrainTyped /\ ScopeTyped
    BY TypesSplit DEF Inv
<1> DEFINE e == handler[s].exec
<1>1. handler[s].pc = "accepting" /\ e \in Execs /\ Named(e) /\ home[e] = s
    BY Served DEF HostAccepts
<1>11. RegistryTyped'
    <2>1. UNCHANGED registry \/ Unhook(e)
        BY DEF HostAccepts
    <2> QED
        BY <1>0, <1>1, <2>1, UnhookTyped DEF RegistryTyped, registry
<1>12. UiTyped'
    <2>1. PICK a \in BOOLEAN :
              handler' = [handler EXCEPT ![s].pc = "activate",
                                         ![s].awaited = (a /\ bind[e].mode = "await")]
        BY DEF HostAccepts
    <2>2. [[handler[s] EXCEPT !.pc = "activate"]
              EXCEPT !.awaited = (a /\ bind[e].mode = "await")] \in Handler
        BY <1>0 DEF UiTyped, Handler, HandlerPc
    <2> QED
        BY <1>0, <2>1, <2>2 DEF HostAccepts, UiTyped, Stacks
<1>13. /\ IdentityTyped' /\ InboxTyped' /\ WorkTyped' /\ TimersTyped'
       /\ TasksTyped' /\ DrainTyped' /\ ScopeTyped'
    BY <1>0 DEF HostAccepts, identity, work, uiVars, registry, IdentityTyped,
           InboxTyped, WorkTyped, TimersTyped, TasksTyped, DrainTyped, ScopeTyped
<1> QED
    BY <1>11, <1>12, <1>13, TypesJoin

LEMMA SpawnTyped ==
    ASSUME Inv, NEW s \in Uis, Spawn(s)
    PROVE  Types'
<1>0. Types /\ IdentityTyped /\ RegistryTyped /\ UiTyped /\ InboxTyped
      /\ WorkTyped /\ TimersTyped /\ TasksTyped /\ DrainTyped /\ ScopeTyped
    BY TypesSplit DEF Inv
<1> DEFINE e == handler[s].exec
<1>1. handler[s].pc = "dispatch" /\ e \in Execs /\ Named(e) /\ home[e] = s
    BY Served DEF Spawn
<1>11. WorkTyped'
    BY <1>0, <1>1 DEF Spawn, WorkTyped
<1>12. UiTyped'
    BY <1>0, GoHandlerTyped DEF Spawn, HandlerPc
<1>13. /\ IdentityTyped' /\ RegistryTyped' /\ InboxTyped' /\ TimersTyped'
       /\ TasksTyped' /\ DrainTyped' /\ ScopeTyped'
    BY <1>0 DEF Spawn, identity, registry, work, uiVars, IdentityTyped,
           RegistryTyped, InboxTyped, TimersTyped, TasksTyped, DrainTyped,
           ScopeTyped
<1> QED
    BY <1>11, <1>12, <1>13, TypesJoin

LEMMA SupervisedTyped ==
    ASSUME Inv, NEW s \in Uis, Supervised(s)
    PROVE  Types'
<1>0. Types /\ IdentityTyped /\ RegistryTyped /\ UiTyped /\ InboxTyped
      /\ WorkTyped /\ TimersTyped /\ TasksTyped /\ DrainTyped /\ ScopeTyped
    BY TypesSplit DEF Inv
<1> DEFINE e == handler[s].exec
<1>1. handler[s].pc = "supervised" /\ e \in Execs /\ Named(e) /\ home[e] = s
    BY Served DEF Supervised
<1>11. WorkTyped'
    BY <1>0, <1>1 DEF Supervised, WorkTyped
<1>12. UiTyped'
    <2>1. [[handler[s] EXCEPT !.pc = "activate"]
              EXCEPT !.awaited = (bind[e].mode = "await")] \in Handler
        BY <1>0 DEF UiTyped, Handler, HandlerPc
    <2> QED
        BY <1>0, <2>1 DEF Supervised, UiTyped, Stacks
<1>13. /\ IdentityTyped' /\ RegistryTyped' /\ InboxTyped' /\ TimersTyped'
       /\ TasksTyped' /\ DrainTyped' /\ ScopeTyped'
    BY <1>0 DEF Supervised, identity, registry, work, uiVars, IdentityTyped,
           RegistryTyped, InboxTyped, TimersTyped, TasksTyped, DrainTyped,
           ScopeTyped
<1> QED
    BY <1>11, <1>12, <1>13, TypesJoin

LEMMA ActivationTyped ==
    ASSUME Inv, NEW s \in Uis, Activation(s)
    PROVE  Types'
<1>0. Types /\ IdentityTyped /\ RegistryTyped /\ UiTyped /\ InboxTyped
      /\ WorkTyped /\ TimersTyped /\ TasksTyped /\ DrainTyped /\ ScopeTyped
    BY TypesSplit DEF Inv
<1> DEFINE e == handler[s].exec
<1>1. handler[s].pc = "activate" /\ e \in Execs /\ Named(e) /\ home[e] = s
    BY Served DEF Activation
<1>11. RegistryTyped' /\ TimersTyped'
    BY <1>0, <1>1, ActivateTyped DEF Activation
<1>12. WorkTyped'
    BY <1>0, <1>1 DEF Activation, WorkTyped
<1>13. UiTyped'
    <2>1. \/ Accept(s, e, TRUE) \/ Accept(s, e, handler[s].awaited) \/ Refuse(s)
          \/ GoHandler(s, "abandon") /\ UNCHANGED <<menus, online>>
          \/ GoHandler(s, "unhook") /\ UNCHANGED <<menus, online>>
        BY DEF Activation
    <2>2. "abandon" \in HandlerPc /\ "unhook" \in HandlerPc
        BY DEF HandlerPc
    <2> QED
        BY <1>0, <1>1, <2>1, <2>2, AcceptTyped, RefuseTyped, GoHandlerTyped
<1>14. /\ IdentityTyped' /\ InboxTyped' /\ TasksTyped'
       /\ DrainTyped' /\ ScopeTyped'
    BY <1>0 DEF Activation, identity, work, uiVars, registry, IdentityTyped,
           InboxTyped, TasksTyped, DrainTyped, ScopeTyped
<1> QED
    BY <1>11, <1>12, <1>13, <1>14, TypesJoin

LEMMA CommandDetachedTyped ==
    ASSUME Inv, NEW s \in Uis, CommandDetached(s)
    PROVE  Types'
<1>0. Types /\ IdentityTyped /\ RegistryTyped /\ UiTyped /\ InboxTyped
      /\ WorkTyped /\ TimersTyped /\ TasksTyped /\ DrainTyped /\ ScopeTyped
    BY TypesSplit DEF Inv
<1> DEFINE e == handler[s].exec
<1>1. handler[s].pc = "unhook" /\ e \in Execs /\ Named(e) /\ home[e] = s
    BY Served DEF CommandDetached
<1>11. RegistryTyped'
    BY <1>0, <1>1, UnhookTyped DEF CommandDetached
<1>12. UiTyped'
    BY <1>0, <1>1, AcceptTyped DEF CommandDetached
<1>13. /\ IdentityTyped' /\ InboxTyped' /\ WorkTyped' /\ TimersTyped'
       /\ TasksTyped' /\ DrainTyped' /\ ScopeTyped'
    BY <1>0 DEF CommandDetached, identity, work, uiVars, registry, IdentityTyped,
           InboxTyped, WorkTyped, TimersTyped, TasksTyped, DrainTyped, ScopeTyped
<1> QED
    BY <1>11, <1>12, <1>13, TypesJoin

LEMMA AbandonedTyped ==
    ASSUME Inv, NEW s \in Uis, Abandoned(s)
    PROVE  Types'
<1>0. Types /\ IdentityTyped /\ RegistryTyped /\ UiTyped /\ InboxTyped
      /\ WorkTyped /\ TimersTyped /\ TasksTyped /\ DrainTyped /\ ScopeTyped
    BY TypesSplit DEF Inv
<1> DEFINE e == handler[s].exec
<1>1. handler[s].pc = "abandon" /\ e \in Execs /\ Named(e) /\ home[e] = s
    BY Served DEF Abandoned
<1>11. RegistryTyped'
    BY <1>0, <1>1 DEF Abandoned, RegistryTyped
<1>12. UiTyped'
    BY <1>0, RefuseTyped DEF Abandoned
<1>13. /\ IdentityTyped' /\ InboxTyped' /\ WorkTyped' /\ TimersTyped'
       /\ TasksTyped' /\ DrainTyped' /\ ScopeTyped'
    BY <1>0 DEF Abandoned, identity, work, uiVars, registry, IdentityTyped,
           InboxTyped, WorkTyped, TimersTyped, TasksTyped, DrainTyped, ScopeTyped
<1> QED
    BY <1>11, <1>12, <1>13, TypesJoin
LEMMA HostCompletesTyped ==
    ASSUME Inv, NEW e \in Execs, HostCompletes(e)
    PROVE  Types'
<1>0. Types /\ IdentityTyped /\ RegistryTyped /\ UiTyped /\ InboxTyped
      /\ WorkTyped /\ TimersTyped /\ TasksTyped /\ DrainTyped /\ ScopeTyped
    BY TypesSplit DEF Inv
<1>11. RegistryTyped' /\ InboxTyped'
    <2>1. PICK ok \in BOOLEAN : Finish(e, ok)
        BY DEF HostCompletes
    <2> QED
        BY <1>0, <2>1, FinishTyped
<1>12. WorkTyped'
    BY <1>0 DEF HostCompletes, WorkTyped
<1>13. /\ IdentityTyped' /\ UiTyped' /\ TimersTyped'
       /\ TasksTyped' /\ DrainTyped' /\ ScopeTyped'
    BY <1>0 DEF HostCompletes, identity, uiVars, work, registry, IdentityTyped,
           UiTyped, TimersTyped, TasksTyped, DrainTyped, ScopeTyped, Stacks
<1> QED
    BY <1>11, <1>12, <1>13, TypesJoin

LEMMA ChildExitsTyped ==
    ASSUME Inv, NEW e \in Execs, ChildExits(e)
    PROVE  Types'
<1>0. Types /\ IdentityTyped /\ RegistryTyped /\ UiTyped /\ InboxTyped
      /\ WorkTyped /\ TimersTyped /\ TasksTyped /\ DrainTyped /\ ScopeTyped
    BY TypesSplit DEF Inv
<1>11. RegistryTyped' /\ InboxTyped'
    <2>1. PICK ok \in BOOLEAN : Finish(e, ok)
        BY DEF ChildExits
    <2> QED
        BY <1>0, <2>1, FinishTyped
<1>12. WorkTyped'
    BY <1>0 DEF ChildExits, WorkTyped
<1>13. /\ IdentityTyped' /\ UiTyped' /\ TimersTyped'
       /\ TasksTyped' /\ DrainTyped' /\ ScopeTyped'
    BY <1>0 DEF ChildExits, identity, uiVars, work, registry, IdentityTyped,
           UiTyped, TimersTyped, TasksTyped, DrainTyped, ScopeTyped, Stacks
<1> QED
    BY <1>11, <1>12, <1>13, TypesJoin

LEMMA FailLostTyped ==
    ASSUME Inv, NEW e \in Execs, FailLost(e)
    PROVE  Types'
<1>0. Types /\ IdentityTyped /\ RegistryTyped /\ UiTyped /\ InboxTyped
      /\ WorkTyped /\ TimersTyped /\ TasksTyped /\ DrainTyped /\ ScopeTyped
    BY TypesSplit DEF Inv
<1>11. RegistryTyped' /\ InboxTyped'
    BY <1>0, FinishTyped DEF FailLost
<1>12. WorkTyped'
    BY <1>0 DEF FailLost, WorkTyped, work
<1>13. /\ IdentityTyped' /\ UiTyped' /\ TimersTyped'
       /\ TasksTyped' /\ DrainTyped' /\ ScopeTyped'
    BY <1>0 DEF FailLost, identity, uiVars, work, registry, IdentityTyped, UiTyped,
           TimersTyped, TasksTyped, DrainTyped, ScopeTyped, Stacks
<1> QED
    BY <1>11, <1>12, <1>13, TypesJoin

LEMMA DeadlineTyped ==
    ASSUME Inv, NEW e \in Execs, DeadlineFires(e)
    PROVE  Types'
<1>0. Types /\ IdentityTyped /\ RegistryTyped /\ UiTyped /\ InboxTyped
      /\ WorkTyped /\ TimersTyped /\ TasksTyped /\ DrainTyped /\ ScopeTyped
    BY TypesSplit DEF Inv
<1> DEFINE r == executions[e]
           let == [[[r EXCEPT !.session = None] EXCEPT !.awaiting = FALSE]
                      EXCEPT !.stopping = (armed[e] = "cancel")]
<1>1. CASE ~Known(e) \/ r.phase = "Reserved" \/ r.stopping
    <2>1. UNCHANGED <<registry, inbox, stops>>
        BY <1>1 DEF DeadlineFires
    <2>2. RegistryTyped' /\ InboxTyped'
        BY <1>0, <2>1 DEF registry, RegistryTyped, InboxTyped
    <2>3. TimersTyped'
        BY <1>0, <2>1 DEF DeadlineFires, TimersTyped
    <2> QED
        BY <1>0, <2>2, <2>3, TypesJoin
        DEF DeadlineFires, identity, uiVars, work, IdentityTyped, UiTyped, WorkTyped, TasksTyped,
            DrainTyped, ScopeTyped, Stacks
<1>2. CASE ~(~Known(e) \/ r.phase = "Reserved" \/ r.stopping)
    <2>1. r \in Record
        BY <1>0, <1>2 DEF RegistryTyped, Known
    <2>2. let \in Record
        BY <2>1 DEF Record
    <2>3. RegistryTyped'
        BY <1>0, <1>2, <2>2 DEF DeadlineFires, RegistryTyped
    <2>4. TimersTyped'
        BY <1>0, <1>2 DEF DeadlineFires, TimersTyped
    <2>5. InboxTyped'
        <3>1. [exec |-> e, ok |-> FALSE] \in Event
            BY DEF Event
        <3>2. CASE r.session # None
            <4>1. r.session \in Uis /\ Deliver(r.session, [exec |-> e, ok |-> FALSE])
                BY <1>2, <2>1, <3>2 DEF DeadlineFires, Record
            <4> QED
                BY <1>0, <3>1, <4>1, DeliverTyped
        <3>3. CASE r.session = None
            BY <1>0, <1>2, <3>3 DEF DeadlineFires, InboxTyped
        <3> QED
            BY <3>2, <3>3
    <2> QED
        BY <1>0, <2>3, <2>4, <2>5, TypesJoin
        DEF DeadlineFires, identity, uiVars, work, IdentityTyped, UiTyped, WorkTyped, TasksTyped,
            DrainTyped, ScopeTyped, Stacks
<1> QED
    BY <1>1, <1>2

LEMMA HostLostTyped ==
    ASSUME Inv, HostLost
    PROVE  Types'
<1>0. Types /\ IdentityTyped /\ RegistryTyped /\ UiTyped /\ InboxTyped
      /\ WorkTyped /\ TimersTyped /\ TasksTyped /\ DrainTyped /\ ScopeTyped
    BY TypesSplit DEF Inv
<1>11. WorkTyped'
    BY <1>0 DEF HostLost, WorkTyped, work
<1>12. ScopeTyped'
    <2>1. bounds.hostLosses = 1
        BY <1>0 DEF HostLost, ScopeTyped, Budget
    <2> QED
        BY <1>0, <2>1 DEF HostLost, ScopeTyped, Budget
<1>13. /\ IdentityTyped' /\ RegistryTyped' /\ UiTyped' /\ InboxTyped'
       /\ TimersTyped' /\ TasksTyped' /\ DrainTyped'
    BY <1>0 DEF HostLost, identity, registry, uiVars, work, IdentityTyped,
           RegistryTyped, UiTyped, InboxTyped, TimersTyped, TasksTyped, DrainTyped,
           Stacks
<1> QED
    BY <1>11, <1>12, <1>13, TypesJoin

LEMMA LocalControlTyped ==
    ASSUME Inv, NEW s \in Uis, NEW c \in Controls, LocalControl(s, c)
    PROVE  Types'
<1>0. Types /\ IdentityTyped /\ RegistryTyped /\ UiTyped /\ InboxTyped
      /\ WorkTyped /\ TimersTyped /\ TasksTyped /\ DrainTyped /\ ScopeTyped
    BY TypesSplit DEF Inv
<1>11. UiTyped'
    <2>1. TypedMenu(KeyControl(menus[s], c, 0))
        BY <1>0, MenuOf, KeyControlTyped
    <2> QED
        BY <1>0, <2>1 DEF LocalControl, UiTyped, TypedMenu, Stacks
<1>12. /\ IdentityTyped' /\ RegistryTyped' /\ InboxTyped' /\ WorkTyped'
       /\ TimersTyped' /\ TasksTyped' /\ DrainTyped' /\ ScopeTyped'
    BY <1>0 DEF LocalControl, identity, registry, work, uiVars, IdentityTyped,
           RegistryTyped, InboxTyped, WorkTyped, TimersTyped, TasksTyped,
           DrainTyped, ScopeTyped
<1> QED
    BY <1>11, <1>12, TypesJoin

LEMMA OpenMenuTyped ==
    ASSUME Inv, NEW s \in Uis, NEW x \in Menus, OpenMenu(s, x)
    PROVE  Types'
<1>0. Types /\ IdentityTyped /\ RegistryTyped /\ UiTyped /\ InboxTyped
      /\ WorkTyped /\ TimersTyped /\ TasksTyped /\ DrainTyped /\ ScopeTyped
    BY TypesSplit DEF Inv
<1>11. UiTyped'
    <2>1. TypedMenu(OpenSubmenu(menus[s], x, 0))
        BY <1>0, MenuOf, OpenSubmenuTyped
    <2> QED
        BY <1>0, <2>1 DEF OpenMenu, UiTyped, TypedMenu, Stacks
<1>12. /\ IdentityTyped' /\ RegistryTyped' /\ InboxTyped' /\ WorkTyped'
       /\ TimersTyped' /\ TasksTyped' /\ DrainTyped' /\ ScopeTyped'
    BY <1>0 DEF OpenMenu, identity, registry, work, uiVars, IdentityTyped,
           RegistryTyped, InboxTyped, WorkTyped, TimersTyped, TasksTyped,
           DrainTyped, ScopeTyped
<1> QED
    BY <1>11, <1>12, TypesJoin

LEMMA StopAcceptedTyped ==
    ASSUME Inv, NEW e \in Execs, StopAccepted(e)
    PROVE  Types'
<1>0. Types /\ IdentityTyped /\ RegistryTyped /\ UiTyped /\ InboxTyped
      /\ WorkTyped /\ TimersTyped /\ TasksTyped /\ DrainTyped /\ ScopeTyped
    BY TypesSplit DEF Inv
<1>1. Named(e) /\ home[e] \in Uis /\ TypedMenu(menus[home[e]])
    BY <1>0, MenuOf DEF Inv, Agreement, StopsOk, StopOk, NamedHome, StopAccepted
<1>11. WorkTyped'
    BY <1>0 DEF StopAccepted, WorkTyped
<1>12. TimersTyped'
    BY <1>0 DEF StopAccepted, TimersTyped
<1>13. UiTyped'
    <2>1. TypedMenu(PendingControlCompleted(menus[home[e]], e, menus[home[e]].control, 0))
        BY <1>1, ControlCompletedTyped
    <2>2. CASE stops[e] = "control"
        BY <1>0, <1>1, <2>1, <2>2, AnswerTyped DEF StopAccepted, Confirmed
    <2>3. CASE stops[e] # "control"
        BY <1>0, <2>3 DEF StopAccepted, uiVars, UiTyped, Stacks
    <2> QED
        BY <2>2, <2>3
<1>14. /\ IdentityTyped' /\ RegistryTyped' /\ InboxTyped'
       /\ TasksTyped' /\ DrainTyped' /\ ScopeTyped'
    BY <1>0 DEF StopAccepted, identity, registry, work, uiVars, IdentityTyped,
           RegistryTyped, InboxTyped, TasksTyped, DrainTyped, ScopeTyped
<1> QED
    BY <1>11, <1>12, <1>13, <1>14, TypesJoin

LEMMA StopRefusedTyped ==
    ASSUME Inv, NEW e \in Execs, StopRefused(e)
    PROVE  Types'
<1>0. Types /\ IdentityTyped /\ RegistryTyped /\ UiTyped /\ InboxTyped
      /\ WorkTyped /\ TimersTyped /\ TasksTyped /\ DrainTyped /\ ScopeTyped
    BY TypesSplit DEF Inv
<1>1. Named(e) /\ home[e] \in Uis /\ TypedMenu(menus[home[e]])
    BY <1>0, MenuOf DEF Inv, Agreement, StopsOk, StopOk, NamedHome, StopRefused
<1>11. RegistryTyped'
    <2>1. CASE ~Known(e) \/ stops[e] = "deadline"
        BY <1>0, <2>1 DEF StopRefused, RegistryTyped
    <2>2. CASE ~(~Known(e) \/ stops[e] = "deadline")
        <3> DEFINE still == stops[e] = "control" /\ awaiting[home[e]] = e
                   c == IF still THEN NoExec ELSE executions[e].control
        <3>1. executions[e] \in Record
            BY <1>0, <2>2 DEF RegistryTyped, Known
        <3>2. c \in Controls \cup {NoExec}
            BY <3>1 DEF Record
        <3>3. executions' = [executions EXCEPT ![e] = [[executions[e] EXCEPT !.stopping = FALSE]
                                                          EXCEPT !.control = c]]
            BY <2>2, <3>1 DEF StopRefused, Record
        <3> HIDE DEF c
        <3>4. [[executions[e] EXCEPT !.stopping = FALSE] EXCEPT !.control = c] \in Record
            BY <3>1, <3>2 DEF Record
        <3> QED
            BY <1>0, <3>3, <3>4 DEF StopRefused, RegistryTyped
    <2> QED
        BY <2>1, <2>2
<1>12. TimersTyped'
    BY <1>0 DEF StopRefused, TimersTyped
<1>13. UiTyped'
    <2>1. TypedMenu(PendingControlCompleted(menus[home[e]], e, menus[home[e]].control, 0))
        BY <1>1, ControlCompletedTyped
    <2>2. \/ Refuse(home[e]) \/ Confirmed(home[e], e, menus[home[e]].control)
          \/ UNCHANGED uiVars
        BY DEF StopRefused
    <2> QED
        BY <1>0, <1>1, <2>1, <2>2, AnswerTyped, RefuseTyped DEF Confirmed, uiVars, UiTyped, Stacks
<1>14. DrainTyped'
    <2>1. sealed' \in BOOLEAN
        BY <1>0 DEF StopRefused, DrainTyped
    <2>2. drain' = NoDrain \/ drain' = drain
        BY DEF StopRefused
    <2> QED
        BY <1>0, <2>1, <2>2 DEF DrainTyped, NoDrain
<1>15. /\ IdentityTyped' /\ InboxTyped' /\ WorkTyped'
       /\ TasksTyped' /\ ScopeTyped'
    BY <1>0 DEF StopRefused, identity, work, uiVars, registry, IdentityTyped,
           InboxTyped, WorkTyped, TasksTyped, ScopeTyped
<1> QED
    BY <1>11, <1>12, <1>13, <1>14, <1>15, TypesJoin

LEMMA LeaveTyped ==
    ASSUME Inv, NEW s \in Uis, Leave(s)
    PROVE  Types'
<1>0. Types /\ IdentityTyped /\ RegistryTyped /\ UiTyped /\ InboxTyped
      /\ WorkTyped /\ TimersTyped /\ TasksTyped /\ DrainTyped /\ ScopeTyped
    BY TypesSplit DEF Inv
<1>11. UiTyped'
    BY <1>0 DEF Leave, UiTyped, Stacks
<1>12. TasksTyped'
    <2>1. DetachCall(s, "ui") \in Task
        BY DEF DetachCall, Task
    <2> QED
        BY <1>0, <2>1 DEF Leave, TasksTyped
<1>13. /\ IdentityTyped' /\ RegistryTyped' /\ InboxTyped' /\ WorkTyped'
       /\ TimersTyped' /\ DrainTyped' /\ ScopeTyped'
    BY <1>0 DEF Leave, identity, registry, work, uiVars, IdentityTyped,
           RegistryTyped, InboxTyped, WorkTyped, TimersTyped, DrainTyped, ScopeTyped
<1> QED
    BY <1>11, <1>12, <1>13, TypesJoin

LEMMA UiGoneTyped ==
    ASSUME Inv, NEW s \in Uis, UiGone(s)
    PROVE  Types'
<1>0. Types /\ IdentityTyped /\ RegistryTyped /\ UiTyped /\ InboxTyped
      /\ WorkTyped /\ TimersTyped /\ TasksTyped /\ DrainTyped /\ ScopeTyped
    BY TypesSplit DEF Inv
<1>11. UiTyped'
    BY <1>0 DEF UiGone, UiTyped, Stacks
<1>12. /\ IdentityTyped' /\ RegistryTyped' /\ InboxTyped' /\ WorkTyped'
       /\ TimersTyped' /\ TasksTyped' /\ DrainTyped' /\ ScopeTyped'
    BY <1>0 DEF UiGone, identity, registry, work, uiVars, IdentityTyped,
           RegistryTyped, InboxTyped, WorkTyped, TimersTyped, TasksTyped,
           DrainTyped, ScopeTyped
<1> QED
    BY <1>11, <1>12, TypesJoin
LEMMA ControlTyped ==
    ASSUME Inv, NEW s \in Uis, NEW c \in Controls, Control(s, c)
    PROVE  Types'
<1>0. Types /\ IdentityTyped /\ RegistryTyped /\ UiTyped /\ InboxTyped
      /\ WorkTyped /\ TimersTyped /\ TasksTyped /\ DrainTyped /\ ScopeTyped
    BY TypesSplit DEF Inv
<1> DEFINE e == awaiting[s]
           m == KeyControl(menus[s], c, 0)
           p == PendingControlCompleted(m, e, c, 0)
           r == executions[e]
           busy == [pc |-> "control", exec |-> e, awaited |-> TRUE]
<1>1. TypedMenu(m)
    BY <1>0, MenuOf, KeyControlTyped
<1>2. TypedMenu(p)
    BY <1>1, ControlCompletedTyped
<1>3. e # NoExec => e \in Execs /\ r \in Record
    BY <1>0 DEF RegistryTyped, Inv, Agreement, IndexedIsAwaited, Known
<1> HIDE DEF m, p
<1>4. \/ Answer(s, m) /\ UNCHANGED <<executions, stops>>
      \/ /\ e # NoExec /\ Answer(s, p) /\ UNCHANGED stops
         /\ executions' = [executions EXCEPT ![e].control = c]
      \/ /\ e # NoExec
         /\ executions' = [executions EXCEPT ![e].control = c, ![e].stopping = TRUE]
         /\ UNCHANGED online
         /\ \/ /\ stops' = [stops EXCEPT ![e] = "control"]
               /\ handler' = [handler EXCEPT ![s] = busy] /\ menus' = [menus EXCEPT ![s] = m]
            \/ UNCHANGED <<stops, handler>> /\ menus' = [menus EXCEPT ![s] = p]
    BY DEF Control, m, p
<1>11. RegistryTyped'
    <2>1. e # NoExec => /\ [r EXCEPT !.control = c] \in Record
                        /\ [[r EXCEPT !.control = c] EXCEPT !.stopping = TRUE] \in Record
        BY <1>3 DEF Record
    <2>2. awaiting' = awaiting
        BY DEF Control
    <2> QED
        BY <1>0, <1>3, <1>4, <2>1, <2>2 DEF RegistryTyped
<1>12. TimersTyped'
    <2>1. armed' = armed
        BY DEF Control
    <2> QED
        BY <1>0, <1>3, <1>4, <2>1 DEF TimersTyped
<1>13. UiTyped'
    <2>1. CASE Answer(s, m) \/ Answer(s, p)
        BY <1>0, <1>1, <1>2, <2>1, AnswerTyped
    <2>2. CASE e # NoExec /\ UNCHANGED online /\ handler' \in {handler, [handler EXCEPT ![s] = busy]}
               /\ menus' \in {[menus EXCEPT ![s] = m], [menus EXCEPT ![s] = p]}
        <3>1. busy \in Handler
            BY <1>3, <2>2 DEF Handler, HandlerPc
        <3>2. handler' \in [Uis -> Handler]
            BY <1>0, <2>2, <3>1 DEF UiTyped
        <3>3. menus' \in [Uis -> Session] /\ \A u \in Uis : menus'[u].stack # <<>>
            BY <1>0, <1>1, <1>2, <2>2 DEF UiTyped, TypedMenu, Stacks
        <3> QED
            BY <1>0, <2>2, <3>2, <3>3 DEF UiTyped, Stacks
    <2> QED
        BY <1>4, <2>1, <2>2
<1>14. /\ IdentityTyped' /\ InboxTyped' /\ WorkTyped'
       /\ TasksTyped' /\ DrainTyped' /\ ScopeTyped'
    BY <1>0 DEF Control, identity, work, uiVars, registry, IdentityTyped,
           InboxTyped, WorkTyped, TasksTyped, DrainTyped, ScopeTyped
<1> QED
    BY <1>11, <1>12, <1>13, <1>14, TypesJoin

LEMMA UiEventTyped ==
    ASSUME Inv, NEW s \in Uis, UiEvent(s)
    PROVE  Types'
<1>0. Types /\ IdentityTyped /\ RegistryTyped /\ UiTyped /\ InboxTyped
      /\ WorkTyped /\ TimersTyped /\ TasksTyped /\ DrainTyped /\ ScopeTyped
    BY TypesSplit DEF Inv
<1> DEFINE event == Head(inbox[s])
<1>1. inbox[s] \in Seq(Event) /\ inbox[s] # <<>>
    BY <1>0 DEF UiEvent, InboxTyped
<1>2. Tail(inbox[s]) \in Seq(Event) /\ event = inbox[s][1] /\ 1 \in DOMAIN inbox[s]
    BY <1>1, HeadTailProperties
<1>3. event # Retiring => event.exec \in Execs /\ bind[event.exec].after \in AfterActions
    <2>1. event # Retiring => event.exec \in Execs /\ Named(event.exec)
        BY <1>2 DEF Inv, Agreement, ReportsOk, ReportOk
    <2> QED
        BY <1>0, <2>1, BindingTyped
<1> HIDE DEF event
<1>11. InboxTyped'
    BY <1>0, <1>2 DEF UiEvent, InboxTyped
<1>12. UiTyped'
    <2> DEFINE m == ActionCompleted(menus[s], event.exec, event.ok, bind[event.exec].after, 0)
    <2>1. event # Retiring => TypedMenu(m)
        BY <1>0, <1>3, MenuOf, ActionCompletedTyped
    <2> HIDE DEF m
    <2>2. \/ event = Retiring /\ online' = [online EXCEPT ![s] = "leaving"] /\ menus' = menus
          \/ event # Retiring /\ menus' = [menus EXCEPT ![s] = m] /\ online' = online
        BY DEF UiEvent, event, m
    <2>3. menus' \in [Uis -> Session] /\ \A u \in Uis : menus'[u].stack # <<>>
        BY <1>0, <2>1, <2>2 DEF UiTyped, TypedMenu, Stacks
    <2>4. online' \in [Uis -> {"up", "leaving", "gone"}]
        BY <1>0, <2>2 DEF UiTyped
    <2> QED
        BY <1>0, <2>3, <2>4 DEF UiEvent, UiTyped, Stacks
<1>13. TasksTyped'
    <2>1. DetachCall(s, "ui") \in Task
        BY DEF DetachCall, Task
    <2> QED
        BY <1>0, <2>1 DEF UiEvent, TasksTyped
<1>14. /\ IdentityTyped' /\ RegistryTyped' /\ WorkTyped'
       /\ TimersTyped' /\ DrainTyped' /\ ScopeTyped'
    BY <1>0 DEF UiEvent, identity, registry, work, uiVars, IdentityTyped,
           RegistryTyped, WorkTyped, TimersTyped, DrainTyped, ScopeTyped
<1> QED
    BY <1>11, <1>12, <1>13, <1>14, TypesJoin

LEMMA DetachUnlinkTyped ==
    ASSUME Inv, NEW k \in tasks, DetachUnlink(k)
    PROVE  Types'
<1>0. Types /\ IdentityTyped /\ RegistryTyped /\ UiTyped /\ InboxTyped
      /\ WorkTyped /\ TimersTyped /\ TasksTyped /\ DrainTyped /\ ScopeTyped
    BY TypesSplit DEF Inv
<1>1. k \in Task
    BY <1>0 DEF TasksTyped
<1>11. TasksTyped'
    <2>1. [k EXCEPT !.step = "state"] \in Task
        BY <1>1 DEF Task
    <2> QED
        BY <1>0, <2>1, BecomeTyped DEF DetachUnlink
<1>12. ScopeTyped'
    BY <1>0 DEF DetachUnlink, ScopeTyped
<1>13. /\ IdentityTyped' /\ RegistryTyped' /\ UiTyped' /\ InboxTyped'
       /\ WorkTyped' /\ TimersTyped' /\ DrainTyped'
    BY <1>0 DEF DetachUnlink, identity, registry, uiVars, work, IdentityTyped,
           RegistryTyped, UiTyped, InboxTyped, WorkTyped, TimersTyped, DrainTyped,
           Stacks
<1> QED
    BY <1>11, <1>12, <1>13, TypesJoin

LEMMA DetachStateTyped ==
    ASSUME Inv, NEW k \in tasks, DetachState(k)
    PROVE  Types'
<1>0. Types /\ IdentityTyped /\ RegistryTyped /\ UiTyped /\ InboxTyped
      /\ WorkTyped /\ TimersTyped /\ TasksTyped /\ DrainTyped /\ ScopeTyped
    BY TypesSplit DEF Inv
<1>1. k \in Task
    BY <1>0 DEF TasksTyped
<1>11. TasksTyped'
    <2> DEFINE mine == OfSession(k.sess)
               todo == {e \in mine : /\ executions[e].control = NoExec
                                     /\ bind[e].onControl = "cancel"
                                     /\ executions[e].cancellable}
               late == {e \in mine : executions[e].deferred}
    <2>1. todo \in SUBSET Execs /\ late \in SUBSET Execs
        BY DEF OfSession
    <2>2. Become(k, [k EXCEPT !.step = "stops", !.todo = todo, !.deferred = late])
        BY DEF DetachState
    <2> HIDE DEF todo, late
    <2>3. [k EXCEPT !.step = "stops", !.todo = todo, !.deferred = late] \in Task
        BY <1>1, <2>1 DEF Task
    <2> QED
        BY <1>0, <2>2, <2>3, BecomeTyped
<1>12. RegistryTyped'
    <2>1. ASSUME NEW e \in Execs, executions[e] \in Record
          PROVE  [executions[e] EXCEPT !.awaiting = FALSE, !.session = None] \in Record
        BY <2>1 DEF Record
    <2>2. executions' \in [Execs -> Record \cup {NoExec}]
        BY <1>0, <2>1 DEF DetachState, RegistryTyped, OfSession, Known
    <2> QED
        BY <1>0, <2>2 DEF DetachState, RegistryTyped
<1>13. /\ IdentityTyped' /\ UiTyped' /\ InboxTyped' /\ WorkTyped'
       /\ TimersTyped' /\ DrainTyped' /\ ScopeTyped'
    BY <1>0 DEF DetachState, identity, uiVars, work, registry, IdentityTyped,
           UiTyped, InboxTyped, WorkTyped, TimersTyped, DrainTyped, ScopeTyped,
           Stacks
<1> QED
    BY <1>11, <1>12, <1>13, TypesJoin

LEMMA DetachStopTyped ==
    ASSUME Inv, NEW k \in tasks, NEW e \in Execs, DetachStop(k, e)
    PROVE  Types'
<1>0. Types /\ IdentityTyped /\ RegistryTyped /\ UiTyped /\ InboxTyped
      /\ WorkTyped /\ TimersTyped /\ TasksTyped /\ DrainTyped /\ ScopeTyped
    BY TypesSplit DEF Inv
<1>1. k \in Task
    BY <1>0 DEF TasksTyped
<1>11. TasksTyped'
    <2>1. [k EXCEPT !.todo = k.todo \ {e}, !.exec = e] \in Task
        BY <1>1 DEF Task
    <2> QED
        BY <1>0, <2>1, BecomeTyped DEF DetachStop
<1>12. RegistryTyped' /\ TimersTyped'
    BY <1>0, RequestStopTyped DEF DetachStop
<1>13. /\ IdentityTyped' /\ UiTyped' /\ InboxTyped'
       /\ WorkTyped' /\ DrainTyped' /\ ScopeTyped'
    BY <1>0 DEF DetachStop, identity, uiVars, work, registry, IdentityTyped,
           UiTyped, InboxTyped, WorkTyped, DrainTyped, ScopeTyped, Stacks
<1> QED
    BY <1>11, <1>12, <1>13, TypesJoin

LEMMA DetachScheduleTyped ==
    ASSUME Inv, NEW k \in tasks, NEW e \in Execs, DetachSchedule(k, e)
    PROVE  Types'
<1>0. Types /\ IdentityTyped /\ RegistryTyped /\ UiTyped /\ InboxTyped
      /\ WorkTyped /\ TimersTyped /\ TasksTyped /\ DrainTyped /\ ScopeTyped
    BY TypesSplit DEF Inv
<1>1. k \in Task
    BY <1>0 DEF TasksTyped
<1>11. TasksTyped'
    <2>1. /\ [k EXCEPT !.deferred = k.deferred \ {e}, !.step = "late", !.exec = e] \in Task
          /\ [k EXCEPT !.deferred = k.deferred \ {e}] \in Task
        BY <1>1 DEF Task
    <2> QED
        BY <1>0, <2>1, BecomeTyped DEF DetachSchedule
<1>12. RegistryTyped'
    <2>1. Known(e) => [executions[e] EXCEPT !.deferred = FALSE] \in Record
        BY <1>0 DEF RegistryTyped, Record, Known
    <2> QED
        BY <1>0, <2>1 DEF DetachSchedule, RegistryTyped
<1>13. /\ IdentityTyped' /\ UiTyped' /\ InboxTyped' /\ WorkTyped'
       /\ TimersTyped' /\ DrainTyped' /\ ScopeTyped'
    BY <1>0 DEF DetachSchedule, identity, uiVars, work, registry, IdentityTyped,
           UiTyped, InboxTyped, WorkTyped, TimersTyped, DrainTyped, ScopeTyped,
           Stacks
<1> QED
    BY <1>11, <1>12, <1>13, TypesJoin

LEMMA LateRefusedTyped ==
    ASSUME Inv, NEW k \in tasks, LateRefused(k)
    PROVE  Types'
<1>0. Types /\ IdentityTyped /\ RegistryTyped /\ UiTyped /\ InboxTyped
      /\ WorkTyped /\ TimersTyped /\ TasksTyped /\ DrainTyped /\ ScopeTyped
    BY TypesSplit DEF Inv
<1>1. k \in Task /\ k.exec \in Execs /\ Named(k.exec)
    BY <1>0 DEF TasksTyped, Inv, Agreement, TasksOk, TaskOk, LateRefused
<1>11. TasksTyped'
    <2>1. [k EXCEPT !.step = "stops", !.exec = NoExec] \in Task
        BY <1>1 DEF Task
    <2> QED
        BY <1>0, <2>1, BecomeTyped DEF LateRefused
<1>12. RegistryTyped' /\ InboxTyped'
    BY <1>0, <1>1, FinishTyped DEF LateRefused
<1>13. /\ IdentityTyped' /\ UiTyped' /\ WorkTyped'
       /\ TimersTyped' /\ DrainTyped' /\ ScopeTyped'
    BY <1>0 DEF LateRefused, identity, uiVars, work, registry, IdentityTyped,
           UiTyped, WorkTyped, TimersTyped, DrainTyped, ScopeTyped, Stacks
<1> QED
    BY <1>11, <1>12, <1>13, TypesJoin

LEMMA LateAcceptedTyped ==
    ASSUME Inv, NEW k \in tasks, LateAccepted(k)
    PROVE  Types'
<1>0. Types /\ IdentityTyped /\ RegistryTyped /\ UiTyped /\ InboxTyped
      /\ WorkTyped /\ TimersTyped /\ TasksTyped /\ DrainTyped /\ ScopeTyped
    BY TypesSplit DEF Inv
<1>1. k \in Task /\ k.exec \in Execs /\ Named(k.exec)
    BY <1>0 DEF TasksTyped, Inv, Agreement, TasksOk, TaskOk, LateAccepted
<1>11. TasksTyped'
    <2>1. [k EXCEPT !.step = "activate"] \in Task
        BY <1>1 DEF Task
    <2> QED
        BY <1>0, <2>1, BecomeTyped DEF LateAccepted
<1>12. RegistryTyped'
    BY <1>0, <1>1, UnhookTyped DEF LateAccepted
<1>13. WorkTyped'
    BY <1>0, <1>1 DEF LateAccepted, WorkTyped
<1>14. /\ IdentityTyped' /\ UiTyped' /\ InboxTyped'
       /\ TimersTyped' /\ DrainTyped' /\ ScopeTyped'
    BY <1>0 DEF LateAccepted, identity, uiVars, work, registry, IdentityTyped,
           UiTyped, InboxTyped, TimersTyped, DrainTyped, ScopeTyped, Stacks
<1> QED
    BY <1>11, <1>12, <1>13, <1>14, TypesJoin

LEMMA LateActivatedTyped ==
    ASSUME Inv, NEW k \in tasks, LateActivated(k)
    PROVE  Types'
<1>0. Types /\ IdentityTyped /\ RegistryTyped /\ UiTyped /\ InboxTyped
      /\ WorkTyped /\ TimersTyped /\ TasksTyped /\ DrainTyped /\ ScopeTyped
    BY TypesSplit DEF Inv
<1>1. k \in Task /\ k.exec \in Execs /\ Named(k.exec)
    BY <1>0 DEF TasksTyped, Inv, Agreement, TasksOk, TaskOk, LateActivated
<1>11. TasksTyped'
    <2>1. [k EXCEPT !.step = "stops", !.exec = NoExec] \in Task
        BY <1>1 DEF Task
    <2> QED
        BY <1>0, <2>1, BecomeTyped DEF LateActivated
<1>12. RegistryTyped' /\ TimersTyped'
    BY <1>0, <1>1, ActivateTyped DEF LateActivated
<1>13. /\ IdentityTyped' /\ UiTyped' /\ InboxTyped'
       /\ WorkTyped' /\ DrainTyped' /\ ScopeTyped'
    BY <1>0 DEF LateActivated, identity, uiVars, work, registry, IdentityTyped,
           UiTyped, InboxTyped, WorkTyped, DrainTyped, ScopeTyped, Stacks
<1> QED
    BY <1>11, <1>12, <1>13, TypesJoin

LEMMA DetachDoneTyped ==
    ASSUME Inv, NEW k \in tasks, DetachDone(k)
    PROVE  Types'
<1>0. Types /\ IdentityTyped /\ RegistryTyped /\ UiTyped /\ InboxTyped
      /\ WorkTyped /\ TimersTyped /\ TasksTyped /\ DrainTyped /\ ScopeTyped
    BY TypesSplit DEF Inv
<1>11. TasksTyped'
    BY <1>0 DEF DetachDone, TasksTyped
<1>12. /\ IdentityTyped' /\ RegistryTyped' /\ UiTyped' /\ InboxTyped'
       /\ WorkTyped' /\ TimersTyped' /\ DrainTyped' /\ ScopeTyped'
    BY <1>0 DEF DetachDone, identity, registry, uiVars, work, IdentityTyped,
           RegistryTyped, UiTyped, InboxTyped, WorkTyped, TimersTyped, DrainTyped,
           ScopeTyped, Stacks
<1> QED
    BY <1>11, <1>12, TypesJoin

LEMMA SessionLostTyped ==
    ASSUME Inv, NEW s \in Uis, SessionLost(s)
    PROVE  Types'
<1>0. Types /\ IdentityTyped /\ RegistryTyped /\ UiTyped /\ InboxTyped
      /\ WorkTyped /\ TimersTyped /\ TasksTyped /\ DrainTyped /\ ScopeTyped
    BY TypesSplit DEF Inv
<1>11. TasksTyped'
    <2>1. DetachCall(s, "loss") \in Task
        BY DEF DetachCall, Task
    <2> QED
        BY <1>0, <2>1 DEF SessionLost, TasksTyped
<1>12. InboxTyped'
    <2>1. inbox[s] \in Seq(Event) /\ Len(inbox[s]) \in Nat
        BY <1>0 DEF InboxTyped
    <2>2. PICK n \in {Len(inbox[s]) - 1, Len(inbox[s])} :
              n >= 0 /\ inbox' = [inbox EXCEPT ![s] = SubSeq(inbox[s], 1, n)]
        BY DEF SessionLost
    <2>3. n \in Nat /\ n <= Len(inbox[s])
        BY <2>1, <2>2
    <2>4. SubSeq(inbox[s], 1, n) \in Seq(Event)
        BY <2>1, <2>3, PrefixTyped
    <2> QED
        BY <1>0, <2>2, <2>4 DEF InboxTyped
<1>13. ScopeTyped'
    <2>0. bounds.losses > 0 /\ bounds \in Budget
        BY <1>0 DEF SessionLost, ScopeTyped
    <2>1. bounds.losses \in Nat /\ bounds.losses - 1 \in Nat
        BY <2>0 DEF Budget
    <2> QED
        BY <1>0, <2>1 DEF SessionLost, ScopeTyped, Budget
<1>14. /\ IdentityTyped' /\ RegistryTyped' /\ UiTyped'
       /\ WorkTyped' /\ TimersTyped' /\ DrainTyped'
    BY <1>0 DEF SessionLost, identity, registry, uiVars, work, IdentityTyped,
           RegistryTyped, UiTyped, WorkTyped, TimersTyped, DrainTyped, Stacks
<1> QED
    BY <1>11, <1>12, <1>13, <1>14, TypesJoin

LEMMA ScopeUnhealthyTyped ==
    ASSUME Inv, NEW s \in Uis, ScopeUnhealthy(s)
    PROVE  Types'
<1>0. Types /\ IdentityTyped /\ RegistryTyped /\ UiTyped /\ InboxTyped
      /\ WorkTyped /\ TimersTyped /\ TasksTyped /\ DrainTyped /\ ScopeTyped
    BY TypesSplit DEF Inv
<1>11. TasksTyped'
    <2> DEFINE mine == {e \in OfSession(s) : ~Generic(e) /\ executions[e].control = NoExec}
    <2>1. tasks' = tasks \cup {[DetachCall(s, "loss") EXCEPT !.step = "fail", !.todo = mine]}
        BY DEF ScopeUnhealthy
    <2>2. mine \in SUBSET Execs
        BY DEF OfSession
    <2> HIDE DEF mine
    <2>3. [DetachCall(s, "loss") EXCEPT !.step = "fail", !.todo = mine] \in Task
        BY <2>2 DEF DetachCall, Task
    <2> QED
        BY <1>0, <2>1, <2>3 DEF TasksTyped
<1>12. ScopeTyped'
    <2>0. bounds.losses > 0 /\ bounds \in Budget
        BY <1>0 DEF ScopeUnhealthy, ScopeTyped
    <2>1. bounds.losses \in Nat /\ bounds.losses - 1 \in Nat
        BY <2>0 DEF Budget
    <2> QED
        BY <1>0, <2>1 DEF ScopeUnhealthy, ScopeTyped, Budget
<1>13. /\ IdentityTyped' /\ RegistryTyped' /\ UiTyped' /\ InboxTyped'
       /\ WorkTyped' /\ TimersTyped' /\ DrainTyped'
    BY <1>0 DEF ScopeUnhealthy, identity, registry, uiVars, work, IdentityTyped,
           RegistryTyped, UiTyped, InboxTyped, WorkTyped, TimersTyped, DrainTyped,
           Stacks
<1> QED
    BY <1>11, <1>12, <1>13, TypesJoin

LEMMA ScopeFailTyped ==
    ASSUME Inv, NEW k \in tasks, NEW e \in Execs, ScopeFail(k, e)
    PROVE  Types'
<1>0. Types /\ IdentityTyped /\ RegistryTyped /\ UiTyped /\ InboxTyped
      /\ WorkTyped /\ TimersTyped /\ TasksTyped /\ DrainTyped /\ ScopeTyped
    BY TypesSplit DEF Inv
<1>1. k \in Task
    BY <1>0 DEF TasksTyped
<1>11. TasksTyped'
    <2>1. [k EXCEPT !.todo = k.todo \ {e}] \in Task
        BY <1>1 DEF Task
    <2> QED
        BY <1>0, <2>1, BecomeTyped DEF ScopeFail
<1>12. InboxTyped'
    <2>1. k.sess \in Uis /\ [exec |-> e, ok |-> FALSE] \in Event
        BY <1>1 DEF Task, Event
    <2> QED
        BY <1>0, <2>1, DeliverTyped DEF ScopeFail
<1>13. /\ IdentityTyped' /\ RegistryTyped' /\ UiTyped' /\ WorkTyped'
       /\ TimersTyped' /\ DrainTyped' /\ ScopeTyped'
    BY <1>0 DEF ScopeFail, identity, registry, uiVars, work, IdentityTyped,
           RegistryTyped, UiTyped, WorkTyped, TimersTyped, DrainTyped, ScopeTyped,
           Stacks
<1> QED
    BY <1>11, <1>12, <1>13, TypesJoin

LEMMA ScopeFailedTyped ==
    ASSUME Inv, NEW k \in tasks, ScopeFailed(k)
    PROVE  Types'
<1>0. Types /\ IdentityTyped /\ RegistryTyped /\ UiTyped /\ InboxTyped
      /\ WorkTyped /\ TimersTyped /\ TasksTyped /\ DrainTyped /\ ScopeTyped
    BY TypesSplit DEF Inv
<1>1. k \in Task
    BY <1>0 DEF TasksTyped
<1>11. TasksTyped'
    <2>1. [k EXCEPT !.step = "unlink"] \in Task
        BY <1>1 DEF Task
    <2> QED
        BY <1>0, <2>1, BecomeTyped DEF ScopeFailed
<1>12. /\ IdentityTyped' /\ RegistryTyped' /\ UiTyped' /\ InboxTyped'
       /\ WorkTyped' /\ TimersTyped' /\ DrainTyped' /\ ScopeTyped'
    BY <1>0 DEF ScopeFailed, identity, registry, uiVars, work, IdentityTyped,
           RegistryTyped, UiTyped, InboxTyped, WorkTyped, TimersTyped, DrainTyped,
           ScopeTyped, Stacks
<1> QED
    BY <1>11, <1>12, TypesJoin

LEMMA DrainSealTyped ==
    ASSUME Inv, DrainSeal
    PROVE  Types'
<1>0. Types /\ IdentityTyped /\ RegistryTyped /\ UiTyped /\ InboxTyped
      /\ WorkTyped /\ TimersTyped /\ TasksTyped /\ DrainTyped /\ ScopeTyped
    BY TypesSplit DEF Inv
<1>11. DrainTyped'
    BY <1>0 DEF DrainSeal, DrainTyped, NoDrain
<1>12. ScopeTyped'
    <2>1. bounds.drains \in Nat /\ bounds.drains - 1 \in Nat
        BY <1>0 DEF DrainSeal, ScopeTyped, Budget
    <2> QED
        BY <1>0, <2>1 DEF DrainSeal, ScopeTyped, Budget
<1>13. /\ IdentityTyped' /\ RegistryTyped' /\ UiTyped' /\ InboxTyped'
       /\ WorkTyped' /\ TimersTyped' /\ TasksTyped'
    BY <1>0 DEF DrainSeal, identity, registry, uiVars, work, IdentityTyped,
           RegistryTyped, UiTyped, InboxTyped, WorkTyped, TimersTyped, TasksTyped,
           Stacks
<1> QED
    BY <1>11, <1>12, <1>13, TypesJoin

LEMMA DrainStopTyped ==
    ASSUME Inv, NEW e \in Execs, DrainStop(e)
    PROVE  Types'
<1>0. Types /\ IdentityTyped /\ RegistryTyped /\ UiTyped /\ InboxTyped
      /\ WorkTyped /\ TimersTyped /\ TasksTyped /\ DrainTyped /\ ScopeTyped
    BY TypesSplit DEF Inv
<1>11. DrainTyped'
    BY <1>0 DEF DrainStop, DrainTyped, NoDrain
<1>12. RegistryTyped' /\ TimersTyped'
    BY <1>0, RequestStopTyped DEF DrainStop
<1>13. /\ IdentityTyped' /\ UiTyped' /\ InboxTyped'
       /\ WorkTyped' /\ TasksTyped' /\ ScopeTyped'
    BY <1>0 DEF DrainStop, identity, uiVars, work, registry, IdentityTyped, UiTyped,
           InboxTyped, WorkTyped, TasksTyped, ScopeTyped, Stacks
<1> QED
    BY <1>11, <1>12, <1>13, TypesJoin

LEMMA DrainLateTyped ==
    ASSUME Inv, NEW e \in Execs, DrainLate(e)
    PROVE  Types'
<1>0. Types /\ IdentityTyped /\ RegistryTyped /\ UiTyped /\ InboxTyped
      /\ WorkTyped /\ TimersTyped /\ TasksTyped /\ DrainTyped /\ ScopeTyped
    BY TypesSplit DEF Inv
<1>11. DrainTyped'
    BY <1>0 DEF DrainLate, DrainTyped, NoDrain
<1>12. RegistryTyped' /\ TimersTyped'
    BY <1>0, RequestStopTyped DEF DrainLate
<1>13. /\ IdentityTyped' /\ UiTyped' /\ InboxTyped'
       /\ WorkTyped' /\ TasksTyped' /\ ScopeTyped'
    BY <1>0 DEF DrainLate, identity, uiVars, work, registry, IdentityTyped, UiTyped,
           InboxTyped, WorkTyped, TasksTyped, ScopeTyped, Stacks
<1> QED
    BY <1>11, <1>12, <1>13, TypesJoin

LEMMA DrainSessionTyped ==
    ASSUME Inv, NEW s \in Uis, DrainSession(s)
    PROVE  Types'
<1>0. Types /\ IdentityTyped /\ RegistryTyped /\ UiTyped /\ InboxTyped
      /\ WorkTyped /\ TimersTyped /\ TasksTyped /\ DrainTyped /\ ScopeTyped
    BY TypesSplit DEF Inv
<1>11. DrainTyped'
    BY <1>0 DEF DrainSession, DrainTyped, NoDrain
<1>12. TasksTyped'
    <2>1. DetachCall(s, "drain") \in Task
        BY DEF DetachCall, Task
    <2> QED
        BY <1>0, <2>1 DEF DrainSession, TasksTyped
<1>13. InboxTyped'
    <2>1. Retiring \in Event
        BY DEF Retiring, Event
    <2> QED
        BY <1>0, <2>1, DeliverTyped DEF DrainSession
<1>14. /\ IdentityTyped' /\ RegistryTyped' /\ UiTyped'
       /\ WorkTyped' /\ TimersTyped' /\ ScopeTyped'
    BY <1>0 DEF DrainSession, identity, registry, uiVars, work, IdentityTyped,
           RegistryTyped, UiTyped, WorkTyped, TimersTyped, ScopeTyped, Stacks
<1> QED
    BY <1>11, <1>12, <1>13, <1>14, TypesJoin

LEMMA DrainOnlyTyped ==
    ASSUME Inv, DrainSettled \/ DrainCheck \/ DrainStopped \/ DrainDetached \/ DrainDone \/ Reopen
    PROVE  Types'
<1>0. Types /\ IdentityTyped /\ RegistryTyped /\ UiTyped /\ InboxTyped
      /\ WorkTyped /\ TimersTyped /\ TasksTyped /\ DrainTyped /\ ScopeTyped
    BY TypesSplit DEF Inv
<1>11. DrainTyped'
    <2>1. AtHost \in SUBSET Execs /\ attached \in SUBSET Uis
        BY <1>0 DEF AtHost, ScopeTyped
    <2>2. CASE DrainSettled
        BY <1>0, <2>2 DEF DrainSettled, DrainTyped
    <2>3. CASE DrainCheck
        <3> DEFINE late == {e \in Execs : Known(e) /\ executions[e].deferred}
        <3>1. \/ drain' = NoDrain /\ sealed' = FALSE
              \/ /\ drain' = [drain EXCEPT !.pc = "stop", !.execs = AtHost, !.wait = AtHost,
                                           !.late = late]
                 /\ sealed' = sealed
            BY <2>3 DEF DrainCheck
        <3>2. late \in SUBSET Execs
            OBVIOUS
        <3> HIDE DEF late
        <3>3. sealed' \in BOOLEAN
            BY <1>0, <3>1 DEF DrainTyped
        <3>4. CASE drain' = NoDrain
            BY <3>3, <3>4 DEF DrainTyped, NoDrain
        <3>5. CASE drain' # NoDrain
            <4>1. drain' = [drain EXCEPT !.pc = "stop", !.execs = AtHost, !.wait = AtHost,
                                         !.late = late]
                BY <3>1, <3>5
            <4> QED
                BY <1>0, <2>1, <3>2, <3>3, <4>1 DEF DrainTyped
        <3> QED
            BY <3>4, <3>5
    <2>4. CASE DrainStopped
        BY <1>0, <2>1, <2>4 DEF DrainStopped, DrainTyped
    <2>5. CASE DrainDetached
        BY <1>0, <2>5 DEF DrainDetached, DrainTyped
    <2>6. CASE DrainDone
        BY <1>0, <2>6 DEF DrainDone, DrainTyped
    <2>7. CASE Reopen
        BY <1>0, <2>7 DEF Reopen, DrainTyped, NoDrain
    <2> QED
        BY <2>2, <2>3, <2>4, <2>5, <2>6, <2>7
<1>12. /\ IdentityTyped' /\ RegistryTyped' /\ UiTyped' /\ InboxTyped'
       /\ WorkTyped' /\ TimersTyped' /\ TasksTyped' /\ ScopeTyped'
    BY <1>0 DEF DrainSettled, DrainCheck, DrainStopped, DrainDetached, DrainDone,
           Reopen, identity, registry, uiVars, work, IdentityTyped, RegistryTyped,
           UiTyped, InboxTyped, WorkTyped, TimersTyped, TasksTyped, ScopeTyped,
           Stacks
<1> QED
    BY <1>11, <1>12, TypesJoin

-----------------------------------------------------------------------------
(* What the steps may do to each part of the state.                         *)

(* Only a reservation adds a record; every other step takes it away, or    *)
(* takes something away from it, or moves its phase on.                    *)
RecordMove(e) == Known(e)' =>
    /\ Known(e)
    /\ executions'[e].session \in {executions[e].session, None}
    /\ executions'[e].awaiting =>
          executions[e].awaiting /\ executions'[e].session = executions[e].session
    /\ \/ executions'[e].phase = executions[e].phase
       \/ /\ executions'[e].phase # "Reserved" /\ ~executions[e].deferred
          /\ executions'[e].phase = "Adapter" => ~Generic(e)
    /\ executions'[e].deferred => executions[e].deferred
    /\ executions'[e].stopping => executions[e].stopping \/ ~Generic(e) \/ Cancels(e)

RegistryMove ==
    /\ \A e \in Execs : RecordMove(e)
    /\ \A s \in Uis : awaiting'[s] \in {awaiting[s], NoExec}
    /\ IndexedIsAwaited'

(* A queue holds an event.                                                 *)
Holds(q, event) == \E i \in DOMAIN q : q[i] = event

InboxMove == \A s \in Uis : \A event \in Event : Holds(inbox'[s], event) =>
    \/ event = Retiring
    \/ Holds(inbox[s], event)
    \/ ReportOk(s, event.exec)' /\ ~Untouched(event.exec)

(* The records of a session that is torn down are let go before the detach *)
(* that does it goes on.                                                   *)
TearDownMove == \A s \in Uis : TearingDown(s) =>
    \/ TearingDown(s)'
    \/ \A e \in Execs : home[e] = s /\ Known(e)' => ~executions'[e].awaiting

TasksMove == \A k \in tasks' :
    \/ k \in tasks
    \/ TaskOk(k)' /\ (\A e \in Execs : Mentions(k, e) => ~Untouched(e))

StopMove(e) == stops'[e] # "none" =>
    \/ StopOk(e)' /\ Known(e)
    \/ /\ stops'[e] = stops[e]
       /\ Known(e)' => executions'[e].stopping = executions[e].stopping
       /\ stops[e] = "control" => handler'[home[e]] = handler[home[e]]

StopsMove == \A e \in Execs : StopMove(e)

ProcsMove == \A e \in procs' : e \in procs \/ Known(e)

HandlersMove == \A s \in Uis : handler'[s].pc = "reserve" => handler'[s] = handler[s]

LEMMA RecordsKept ==
    ASSUME Inv, UNCHANGED identity, RegistryMove
    PROVE  RecordsOk'
<1> SUFFICES ASSUME NEW e \in Execs, Known(e)'
             PROVE  RecordOk(e)'
    BY DEF RecordsOk
<1>1. RecordMove(e) /\ Known(e) /\ bind' = bind /\ home' = home
    BY DEF RegistryMove, RecordMove, identity
<1>2. RecordOk(e)
    BY <1>1 DEF Inv, Agreement, RecordsOk
<1>3. Named(e)' /\ (Generic(e)' <=> Generic(e)) /\ (Cancels(e)' <=> Cancels(e))
    BY <1>1, <1>2 DEF Named, Generic, Cancels, RecordOk
<1>4. executions'[e].session \in {home[e], None}
    BY <1>1, <1>2 DEF RecordMove, RecordOk
<1>5. executions'[e].awaiting => executions'[e].session = home[e]
    BY <1>1, <1>2 DEF RecordMove, RecordOk
<1>6. executions'[e].phase = "Adapter" => ~Generic(e)
    BY <1>1, <1>2 DEF RecordMove, RecordOk
<1>7. executions'[e].deferred => bind[e].kind = "deferred" /\ executions'[e].phase = "Reserved"
    BY <1>1, <1>2 DEF RecordMove, RecordOk
<1>8. executions'[e].stopping /\ Generic(e) => Cancels(e)
    BY <1>1, <1>2 DEF RecordMove, RecordOk
<1> QED
    BY <1>1, <1>3, <1>4, <1>5, <1>6, <1>7, <1>8 DEF RecordOk

LEMMA NamedHomeKept ==
    ASSUME Inv, UNCHANGED identity
    PROVE  NamedHome'
BY DEF Inv, Agreement, NamedHome, Named, identity

LEMMA ReportsKept ==
    ASSUME Inv, Types', UNCHANGED identity, RegistryMove, InboxMove, TearDownMove
    PROVE  ReportsOk'
<1> SUFFICES ASSUME NEW s \in Uis, NEW i \in DOMAIN inbox'[s], inbox'[s][i] # Retiring
             PROVE  ReportOk(s, inbox[s][i].exec)'
    BY DEF ReportsOk
<1>1. inbox'[s] \in Seq(Event)
    BY DEF Types, TypeOK
<1>2. inbox'[s][i] \in Event
    BY <1>1
<1>3. PICK event \in Event : event = inbox'[s][i]
    BY <1>2
<1>4. Holds(inbox'[s], event) /\ event # Retiring
    BY <1>3 DEF Holds
<1>5. CASE ReportOk(s, event.exec)'
    BY <1>3, <1>5 DEF ReportOk
<1>6. CASE Holds(inbox[s], event)
    <2> DEFINE e == event.exec
    <2>1. ReportOk(s, e)
        BY <1>4, <1>6 DEF Holds, Inv, Agreement, ReportsOk
    <2>2. e \in Execs /\ Named(e)' /\ home'[e] = s /\ home[e] = s
        BY <2>1 DEF ReportOk, Named, identity
    <2>3. ASSUME Known(e)', executions'[e].awaiting PROVE TearingDown(s)'
        <3>1. Known(e) /\ executions[e].awaiting
            BY <2>2, <2>3 DEF RegistryMove, RecordMove
        <3>2. TearingDown(s)
            BY <2>1, <3>1 DEF ReportOk
        <3> QED
            BY <2>2, <2>3, <3>2 DEF TearDownMove
    <2> HIDE DEF e
    <2>4. ReportOk(s, e)'
        BY <2>2, <2>3 DEF ReportOk
    <2>5. ReportOk(s, event.exec)'
        BY <2>4 DEF e
    <2> QED
        BY <1>3, <2>5 DEF ReportOk
<1> QED
    BY <1>4, <1>5, <1>6 DEF InboxMove

LEMMA TasksKept ==
    ASSUME Inv, UNCHANGED identity, RegistryMove, TasksMove
    PROVE  TasksOk'
<1> SUFFICES ASSUME NEW k \in tasks' PROVE TaskOk(k)'
    BY DEF TasksOk
<1>1. CASE k \in tasks
    <2>1. TaskOk(k) /\ bind' = bind /\ home' = home
        BY <1>1 DEF Inv, Agreement, TasksOk, identity
    <2>2. k.step \in {"late", "activate"} => (Known(k.exec)' => ~executions'[k.exec].deferred)
        BY <2>1 DEF TaskOk, RegistryMove, RecordMove
    <2> QED
        BY <2>1, <2>2 DEF TaskOk, Named
<1>2. CASE k \notin tasks
    BY <1>2 DEF TasksMove
<1> QED
    BY <1>1, <1>2

LEMMA StopsKept ==
    ASSUME Inv, UNCHANGED identity, RegistryMove, StopsMove
    PROVE  StopsOk'
<1> SUFFICES ASSUME NEW e \in Execs, stops'[e] # "none" PROVE StopOk(e)'
    BY DEF StopsOk
<1>1. CASE StopOk(e)'
    BY <1>1
<1>2. CASE ~StopOk(e)'
    <2>1. /\ stops'[e] = stops[e] /\ bind' = bind /\ home' = home
          /\ Known(e)' => executions'[e].stopping = executions[e].stopping
          /\ stops[e] = "control" => handler'[home[e]] = handler[home[e]]
        BY <1>2 DEF StopsMove, StopMove, identity
    <2>2. StopOk(e)
        BY <2>1 DEF Inv, Agreement, StopsOk
    <2>3. Known(e)' => executions'[e].stopping
        BY <2>1, <2>2 DEF StopOk, RegistryMove, RecordMove
    <2> QED
        BY <2>1, <2>2, <2>3 DEF StopOk, Named, Generic, Cancels, At
<1> QED
    BY <1>1, <1>2

LEMMA UntouchedKept ==
    ASSUME Inv, Types', UNCHANGED identity, RegistryMove, InboxMove, TasksMove, StopsMove,
           ProcsMove, HandlersMove
    PROVE  UntouchedUntilReserved'
<1>1. ASSUME NEW e \in Execs, Untouched(e) PROVE Untouched(e)'
    <2>1. ~Known(e)'
        BY <1>1 DEF Untouched, RegistryMove, RecordMove
    <2>2. stops'[e] = "none"
        BY <1>1 DEF Untouched, StopsMove, StopMove
    <2>3. e \notin procs'
        BY <1>1 DEF Untouched, ProcsMove
    <2>4. ASSUME NEW s \in Uis, NEW i \in DOMAIN inbox'[s] PROVE inbox'[s][i].exec # e
        <3>1. inbox'[s] \in Seq(Event)
            BY DEF Types, TypeOK
        <3>2. inbox'[s][i] \in Event
            BY <2>4, <3>1
        <3>3. PICK event \in Event : event = inbox'[s][i]
            BY <3>2
        <3>4. Holds(inbox'[s], event)
            BY <2>4, <3>3 DEF Holds
        <3>5. event.exec # e
            <4>1. CASE event = Retiring
                BY <4>1, MenuAssumption DEF Retiring
            <4>2. CASE Holds(inbox[s], event)
                BY <1>1, <2>4, <4>2 DEF Holds, Untouched
            <4>3. CASE ~Untouched(event.exec)
                BY <1>1, <4>3
            <4> QED
                BY <2>4, <3>4, <4>1, <4>2, <4>3 DEF InboxMove
        <3> QED
            BY <3>3, <3>5
    <2>5. ASSUME NEW k \in tasks' PROVE ~Mentions(k, e)
        BY <1>1, <2>5 DEF TasksMove, Untouched
    <2> QED
        BY <2>1, <2>2, <2>3, <2>4, <2>5 DEF Untouched
<1>2. ASSUME NEW e \in Execs, ~Named(e)' PROVE Untouched(e)'
    BY <1>1, <1>2 DEF Named, identity, Inv, Agreement, UntouchedUntilReserved
<1>3. ASSUME NEW s \in Uis, handler'[s].pc = "reserve" PROVE Untouched(handler[s].exec)'
    <2>1. handler'[s] = handler[s] /\ handler[s].pc = "reserve"
        BY <1>3 DEF HandlersMove
    <2>2. PICK e \in Execs : e = handler[s].exec
        BY <2>1, Served
    <2>3. Untouched(e)
        BY <2>1, <2>2 DEF Inv, Agreement, UntouchedUntilReserved
    <2>4. Untouched(e)' /\ handler'[s].exec = e
        BY <1>1, <2>1, <2>2, <2>3
    <2> QED
        BY <2>4 DEF Untouched, Known
<1> QED
    BY <1>2, <1>3 DEF UntouchedUntilReserved

(* The order of commands, their children and their handlers.               *)
CommandsKept == \A e \in Execs : Known(e) /\ Generic(e) => Known(e)'

PhasesMove == \A e \in Execs :
    Known(e)' /\ executions'[e].phase = "Generic" => executions[e].phase = "Generic" \/ e \in procs

OwnedMove(e) == Known(e)' /\ executions'[e].phase = "Reserved" =>
    /\ At(e, Dispatching) => At(e, Dispatching)'
    /\ Late(e) => Late(e)'
    /\ executions[e].deferred => executions'[e].deferred \/ Late(e)'

DeferMove(e) == Known(e)' /\ executions'[e].deferred =>
    /\ executions'[e].session = executions[e].session \/ Waiting(e)'
    /\ Waiting(e) => Waiting(e)'

LeftMove(s) ==
    /\ online'[s] # "up" =>
          /\ handler'[s].pc = "idle"
          /\ \/ Detaching(s)' \/ Released(s)'
             \/ online[s] # "up" /\ (Detaching(s) => Detaching(s)')
    /\ online'[s] = "gone" => \A k \in tasks' : ~(k.sess = s /\ k.by = "ui")

LEMMA OwnedKept ==
    ASSUME Inv, UNCHANGED identity, RegistryMove, \A e \in Execs : OwnedMove(e)
    PROVE  Owned'
<1> SUFFICES ASSUME NEW e \in Execs, Known(e)', executions'[e].phase = "Reserved"
             PROVE  (At(e, Dispatching) \/ Late(e) \/ executions[e].deferred)'
    BY DEF Owned
<1>1. Known(e) /\ executions[e].phase = "Reserved"
    BY DEF RegistryMove, RecordMove
<1>2. At(e, Dispatching) \/ Late(e) \/ executions[e].deferred
    BY <1>1 DEF Inv, Agreement, Owned
<1> QED
    BY <1>2 DEF OwnedMove

LEMMA DeferredStays ==
    ASSUME Inv, UNCHANGED identity, RegistryMove, \A e \in Execs : DeferMove(e)
    PROVE  DeferredKept'
<1> SUFFICES ASSUME NEW e \in Execs, Known(e)', executions'[e].deferred
             PROVE  (executions[e].session = home[e] \/ Waiting(e))'
    BY DEF DeferredKept
<1>1. Known(e) /\ executions[e].deferred
    BY DEF RegistryMove, RecordMove
<1>2. executions[e].session = home[e] \/ Waiting(e)
    BY <1>1 DEF Inv, Agreement, DeferredKept
<1>3. home' = home
    BY DEF identity
<1> QED
    BY <1>2, <1>3 DEF DeferMove

LEMMA ReleasedStays ==
    ASSUME RegistryMove, NEW s \in Uis, Released(s)
    PROVE  Released(s)'
<1>1. awaiting'[s] = NoExec
    BY DEF Released, RegistryMove
<1>2. ASSUME NEW e \in Execs, Known(e)', executions'[e].session = s PROVE FALSE
    <2>1. Known(e) /\ executions[e].session = s
        BY <1>2, ExecutionAssumption DEF RegistryMove, RecordMove
    <2> QED
        BY <2>1 DEF Released, OfSession
<1> QED
    BY <1>1, <1>2 DEF Released, OfSession

LEMMA LeftKept ==
    ASSUME Inv, RegistryMove, \A s \in Uis : LeftMove(s)
    PROVE  LeftOk'
<1>1. ASSUME NEW s \in Uis, online'[s] # "up"
      PROVE  handler'[s].pc = "idle" /\ (Detaching(s) \/ Released(s))'
    <2>1. CASE Detaching(s)' \/ Released(s)'
        BY <1>1, <2>1 DEF LeftMove
    <2>2. CASE online[s] # "up" /\ (Detaching(s) => Detaching(s)')
        <3>1. Detaching(s) \/ Released(s)
            BY <2>2 DEF Inv, Agreement, LeftOk
        <3> QED
            BY <1>1, <2>2, <3>1, ReleasedStays DEF LeftMove
    <2> QED
        BY <1>1, <2>1, <2>2 DEF LeftMove
<1>2. ASSUME NEW s \in Uis, online'[s] = "gone"
      PROVE  \A k \in tasks' : ~(k.sess = s /\ k.by = "ui")
    BY <1>2 DEF LeftMove
<1> QED
    BY <1>1, <1>2 DEF LeftOk

(* The parts that concern who still names an execution, the parts that     *)
(* concern who serves it, and the rest.                                    *)
Surroundings ==
    /\ NamedHome /\ RecordsOk /\ UntouchedUntilReserved /\ DeferredKept /\ LeftOk
    /\ ReportsOk /\ TasksOk /\ StopsOk /\ IndexedIsAwaited

Service == HandlersOk /\ ChildrenOk /\ Owned

Ends == HostOk /\ ArmedOk

LEMMA AgreementJoin ==
    ASSUME Surroundings', Service', Ends'
    PROVE  Agreement'
BY DEF Surroundings, Service, Ends, Agreement

LEMMA SurroundingsKept ==
    ASSUME Inv, Types', UNCHANGED identity, RegistryMove, InboxMove, TasksMove, TearDownMove,
           StopsMove, ProcsMove, HandlersMove, \A e \in Execs : DeferMove(e),
           \A s \in Uis : LeftMove(s)
    PROVE  Surroundings'
<1>1. NamedHome' /\ RecordsOk' /\ UntouchedUntilReserved'
    BY NamedHomeKept, RecordsKept, UntouchedKept
<1>2. DeferredKept' /\ LeftOk'
    BY DeferredStays, LeftKept
<1>3. ReportsOk' /\ TasksOk' /\ StopsOk' /\ IndexedIsAwaited'
    BY ReportsKept, TasksKept, StopsKept DEF RegistryMove
<1> QED
    BY <1>1, <1>2, <1>3 DEF Surroundings

(* The handlers are left alone, and so are the children.                   *)
LEMMA ServiceKept ==
    ASSUME Inv, UNCHANGED identity, RegistryMove, handler' = handler, procs' = procs,
           CommandsKept, PhasesMove, \A e \in Execs : OwnedMove(e)
    PROVE  Service'
<1>0. bind' = bind /\ home' = home
    BY DEF identity
<1>1. HandlersOk'
    <2> SUFFICES ASSUME NEW s \in Uis PROVE HandlerOk(s)'
        BY DEF HandlersOk
    <2>1. HandlerOk(s)
        BY DEF Inv, Agreement, HandlersOk
    <2>2. handler[s].pc = "dispatch" /\ Generic(handler[s].exec) => Known(handler[s].exec)'
        BY <2>1 DEF HandlerOk, CommandsKept
    <2> QED
        BY <1>0, <2>1, <2>2 DEF HandlerOk, Known, Generic, Named
<1>2. ChildrenOk'
    <2> SUFFICES ASSUME NEW e \in Execs PROVE ChildOk(e)'
        BY DEF ChildrenOk
    <2>1. ChildOk(e) /\ (Known(e)' => Known(e))
        BY DEF Inv, Agreement, ChildrenOk, RegistryMove, RecordMove
    <2>2. e \in procs => Named(e)' /\ Generic(e)' /\ Known(e)'
        BY <1>0, <2>1 DEF ChildOk, CommandsKept, Named, Generic
    <2>3. Known(e)' /\ executions'[e].phase = "Generic" => e \in procs
        BY <2>1 DEF ChildOk, PhasesMove
    <2>4. Known(e)' /\ Generic(e)' /\ e \notin procs => At(e, {"dispatch"})'
        BY <1>0, <2>1 DEF ChildOk, Generic, At
    <2> QED
        BY <2>2, <2>3, <2>4 DEF ChildOk
<1> QED
    BY <1>1, <1>2, OwnedKept DEF Service

-----------------------------------------------------------------------------
(* The moves of the operators the steps are made of.                        *)

LEMMA AppendHolds ==
    ASSUME NEW S, NEW q \in Seq(S), NEW x \in S, NEW y, Holds(Append(q, x), y)
    PROVE  Holds(q, y) \/ y = x
BY DEF Holds

LEMMA TailHolds ==
    ASSUME NEW S, NEW q \in Seq(S), q # <<>>, NEW y, Holds(Tail(q), y)
    PROVE  Holds(q, y)
<1>1. PICK i \in DOMAIN Tail(q) : Tail(q)[i] = y
    BY DEF Holds
<1>2. Tail(q)[i] = q[i + 1] /\ i + 1 \in DOMAIN q
    BY <1>1
<1> QED
    BY <1>1, <1>2 DEF Holds

LEMMA PrefixHolds ==
    ASSUME NEW S, NEW q \in Seq(S), NEW n \in Nat, n <= Len(q), NEW y, Holds(SubSeq(q, 1, n), y)
    PROVE  Holds(q, y)
<1>1. PICK i \in DOMAIN SubSeq(q, 1, n) : SubSeq(q, 1, n)[i] = y
    BY DEF Holds
<1>2. SubSeq(q, 1, n)[i] = q[i] /\ i \in DOMAIN q
    BY <1>1
<1> QED
    BY <1>1, <1>2 DEF Holds

LEMMA InboxSame ==
    ASSUME inbox' = inbox
    PROVE  InboxMove
BY DEF InboxMove

LEMMA DeliverMoves ==
    ASSUME Types, NEW s \in Uis, NEW event \in Event, Deliver(s, event),
           event = Retiring \/ (ReportOk(s, event.exec)' /\ ~Untouched(event.exec))
    PROVE  InboxMove
<1> SUFFICES ASSUME NEW u \in Uis, NEW x \in Event, Holds(inbox'[u], x), ~Holds(inbox[u], x)
             PROVE  x = Retiring \/ (ReportOk(u, x.exec)' /\ ~Untouched(x.exec))
    BY DEF InboxMove
<1>1. inbox \in [Uis -> Seq(Event)]
    BY DEF Types, TypeOK
<1>2. inbox'[u] = inbox[u] \/ (u = s /\ inbox'[u] = Append(inbox[s], event))
    BY <1>1 DEF Deliver
<1>3. u = s /\ x = event
    BY <1>1, <1>2, AppendHolds
<1> QED
    BY <1>3

LEMMA TasksSame ==
    ASSUME tasks' = tasks
    PROVE  /\ TasksMove /\ TearDownMove
           /\ \A e \in Execs : (Late(e)' <=> Late(e)) /\ (Waiting(e)' <=> Waiting(e))
           /\ \A s \in Uis : Detaching(s)' <=> Detaching(s)
BY DEF TasksMove, TearDownMove, Late, Waiting, Detaching, TearingDown

LEMMA StopsSame ==
    ASSUME stops' = stops, UNCHANGED identity,
           \A e \in Execs : Known(e)' => executions'[e].stopping = executions[e].stopping,
           \A e \in Execs : stops[e] = "control" => handler'[home[e]] = handler[home[e]]
    PROVE  StopsMove
BY DEF StopsMove, StopMove

(* Nobody leaves.                                                          *)
LEMMA LeftSame ==
    ASSUME Inv, online' = online, handler' = handler, tasks' = tasks
    PROVE  \A s \in Uis : LeftMove(s)
<1> SUFFICES ASSUME NEW s \in Uis PROVE LeftMove(s)
    OBVIOUS
<1>1. /\ online[s] # "up" => handler[s].pc = "idle"
      /\ online[s] = "gone" => \A k \in tasks : ~(k.sess = s /\ k.by = "ui")
    BY DEF Inv, Agreement, LeftOk
<1> QED
    BY <1>1, TasksSame DEF LeftMove

(* The registry is left alone.                                             *)
LEMMA RegistrySame ==
    ASSUME Inv, UNCHANGED registry
    PROVE  RegistryMove /\ \A e \in Execs : executions'[e] = executions[e]
<1>1. executions' = executions /\ awaiting' = awaiting
    BY DEF registry
<1>2. IndexedIsAwaited'
    BY <1>1 DEF Inv, Agreement, IndexedIsAwaited, Known
<1>3. \A e \in Execs : RecordMove(e)
    BY <1>1 DEF RecordMove, Known
<1> QED
    BY <1>1, <1>2, <1>3 DEF RegistryMove

(* The flags of one record change, and not the session it is attached to.  *)
FlagsMove(e, r) ==
    /\ r # NoExec /\ r.session = executions[e].session /\ r.awaiting = executions[e].awaiting
    /\ \/ r.phase = executions[e].phase
       \/ /\ r.phase # "Reserved" /\ ~executions[e].deferred
          /\ r.phase = "Adapter" => ~Generic(e)
    /\ r.deferred => executions[e].deferred
    /\ r.stopping => executions[e].stopping \/ ~Generic(e) \/ Cancels(e)

LEMMA FlagsMoves ==
    ASSUME Inv, NEW e \in Execs, Known(e), NEW r, FlagsMove(e, r),
           executions' = [executions EXCEPT ![e] = r], awaiting' = awaiting
    PROVE  /\ RegistryMove /\ executions'[e] = r
           /\ \A x \in Execs : x # e => executions'[x] = executions[x]
<1>1. executions'[e] = r /\ \A x \in Execs : x # e => executions'[x] = executions[x]
    BY DEF Inv, Types, TypeOK
<1>2. RecordMove(e)
    BY <1>1 DEF RecordMove, FlagsMove
<1>3. \A x \in Execs : RecordMove(x)
    BY <1>1, <1>2 DEF RecordMove, Known
<1>4. IndexedIsAwaited'
    <2> SUFFICES ASSUME NEW s \in Uis, awaiting[s] # NoExec
                 PROVE  /\ executions'[awaiting[s]] # NoExec
                        /\ executions'[awaiting[s]].awaiting
                        /\ executions'[awaiting[s]].session = s
        BY DEF IndexedIsAwaited, Known
    <2>1. /\ awaiting[s] \in Execs /\ executions[awaiting[s]] # NoExec
          /\ executions[awaiting[s]].awaiting /\ executions[awaiting[s]].session = s
        BY DEF Inv, Types, TypeOK, Agreement, IndexedIsAwaited, Known
    <2>2. CASE awaiting[s] = e
        BY <1>1, <2>1, <2>2 DEF FlagsMove
    <2>3. CASE awaiting[s] # e
        BY <1>1, <2>1, <2>3
    <2> QED
        BY <2>2, <2>3
<1> QED
    BY <1>1, <1>3, <1>4 DEF RegistryMove

(* A record is taken away, or detached from its UI, and its index entry    *)
(* with it; whoever else is cleared from the index does not matter.        *)
LEMMA DropMoves ==
    ASSUME Inv, NEW e \in Execs,
           \A x \in Execs : x # e => executions'[x] = executions[x],
           RecordMove(e),
           \A s \in Uis : awaiting'[s] \in {awaiting[s], NoExec},
           \A s \in Uis : awaiting[s] = e => awaiting'[s] = NoExec
    PROVE  RegistryMove
<1>1. \A x \in Execs : RecordMove(x)
    BY DEF RecordMove, Known
<1>2. IndexedIsAwaited'
    <2> SUFFICES ASSUME NEW s \in Uis, awaiting'[s] # NoExec
                 PROVE  /\ executions'[awaiting'[s]] # NoExec
                        /\ executions'[awaiting'[s]].awaiting
                        /\ executions'[awaiting'[s]].session = s
        BY DEF IndexedIsAwaited, Known
    <2>1. awaiting'[s] = awaiting[s] /\ awaiting[s] # e
        OBVIOUS
    <2>2. /\ awaiting[s] \in Execs /\ executions[awaiting[s]] # NoExec
          /\ executions[awaiting[s]].awaiting /\ executions[awaiting[s]].session = s
        BY <2>1 DEF Inv, Types, TypeOK, Agreement, IndexedIsAwaited, Known
    <2> QED
        BY <2>1, <2>2
<1> QED
    BY <1>1, <1>2 DEF RegistryMove

LEMMA IndexedRecord ==
    ASSUME Inv, NEW e \in Execs, NEW s \in Uis, awaiting[s] = e
    PROVE  Known(e) /\ executions[e].awaiting /\ executions[e].session = s
BY MenuAssumption DEF Inv, Agreement, IndexedIsAwaited

LEMMA RemoveMoves ==
    ASSUME Inv, NEW e \in Execs, Remove(e)
    PROVE  /\ RegistryMove /\ ~Known(e)'
           /\ \A x \in Execs : x # e => executions'[x] = executions[x]
<1>1. executions'[e] = NoExec /\ \A x \in Execs : x # e => executions'[x] = executions[x]
    BY DEF Remove, Inv, Types, TypeOK
<1>2. RecordMove(e) /\ ~Known(e)'
    BY <1>1 DEF RecordMove, Known
<1>3. ASSUME NEW s \in Uis
      PROVE  awaiting'[s] \in {awaiting[s], NoExec} /\ (awaiting[s] = e => awaiting'[s] = NoExec)
    BY IndexedRecord DEF Remove
<1> QED
    BY <1>1, <1>2, <1>3, DropMoves

LEMMA FinishMoves ==
    ASSUME Inv, UNCHANGED identity, NEW e \in Execs, NEW ok \in BOOLEAN, Finish(e, ok)
    PROVE  /\ RegistryMove /\ ~Known(e)' /\ InboxMove
           /\ \A x \in Execs : x # e => executions'[x] = executions[x]
<1>1. CASE ~Known(e)
    <2>1. UNCHANGED registry /\ inbox' = inbox
        BY <1>1 DEF Finish
    <2> QED
        BY <1>1, <2>1, RegistrySame, InboxSame DEF registry, Known
<1>2. CASE Known(e)
    <2>1. Remove(e)
        BY <1>2 DEF Finish
    <2>2. RegistryMove /\ ~Known(e)' /\ \A x \in Execs : x # e => executions'[x] = executions[x]
        BY <2>1, RemoveMoves
    <2>3. InboxMove
        <3>1. CASE executions[e].awaiting /\ executions[e].session # None
                   /\ executions[e].control = NoExec
            <4> DEFINE s == executions[e].session
                       event == [exec |-> e, ok |-> ok]
            <4>1. Deliver(s, event) /\ event \in Event /\ event.exec = e
                BY <1>2, <3>1 DEF Finish, Event
            <4>2. RecordOk(e)
                BY <1>2 DEF Inv, Agreement, RecordsOk
            <4>3. Named(e) /\ home[e] = s /\ s \in Uis
                BY <3>1, <4>2 DEF RecordOk, Inv, Agreement, NamedHome
            <4>4. PICK u \in Uis : u = s
                BY <4>3
            <4>5. ReportOk(u, e)'
                BY <2>2, <4>3, <4>4 DEF ReportOk, Named, identity
            <4>6. ~Untouched(e)
                BY <1>2 DEF Untouched
            <4> HIDE DEF event
            <4> QED
                BY <4>1, <4>4, <4>5, <4>6, DeliverMoves DEF Inv
        <3>2. CASE ~(executions[e].awaiting /\ executions[e].session # None
                     /\ executions[e].control = NoExec)
            BY <1>2, <3>2, InboxSame DEF Finish
        <3> QED
            BY <3>1, <3>2
    <2> QED
        BY <2>2, <2>3
<1> QED
    BY <1>1, <1>2

(* The record that a detached execution leaves behind.                     *)
LEMMA UnhookMoves ==
    ASSUME Inv, NEW e \in Execs, Unhook(e)
    PROVE  /\ RegistryMove
           /\ \A x \in Execs : x # e => executions'[x] = executions[x]
           /\ Known(e)' <=> Known(e)
           /\ Known(e) => /\ executions'[e].phase = executions[e].phase
                          /\ executions'[e].deferred = executions[e].deferred
                          /\ executions'[e].stopping = executions[e].stopping
<1>1. CASE ~Known(e)
    BY <1>1, RegistrySame DEF Unhook, registry, Known
<1>2. CASE Known(e)
    <2> DEFINE r == [[executions[e] EXCEPT !.awaiting = FALSE] EXCEPT !.session = None]
    <2>1. executions[e] \in Record
        BY <1>2 DEF Known, Inv, Types, TypeOK
    <2>2. /\ r \in Record /\ r.awaiting = FALSE /\ r.session = None
          /\ r.phase = executions[e].phase /\ r.deferred = executions[e].deferred
          /\ r.stopping = executions[e].stopping
        BY <2>1 DEF Record
    <2>3. executions'[e] = r /\ \A x \in Execs : x # e => executions'[x] = executions[x]
        BY <1>2 DEF Unhook, Inv, Types, TypeOK
    <2> HIDE DEF r
    <2>4. RecordMove(e)
        BY <1>2, <2>2, <2>3 DEF RecordMove
    <2>5. ASSUME NEW s \in Uis
          PROVE  awaiting'[s] \in {awaiting[s], NoExec} /\ (awaiting[s] = e => awaiting'[s] = NoExec)
        BY <1>2, IndexedRecord DEF Unhook
    <2>6. RegistryMove
        BY <2>3, <2>4, <2>5, DropMoves
    <2>7. Known(e)'
        BY <2>2, <2>3, RecordAssumption DEF Known
    <2> QED
        BY <1>2, <2>2, <2>3, <2>6, <2>7
<1> QED
    BY <1>1, <1>2

LEMMA ActivateMoves ==
    ASSUME Inv, NEW e \in Execs, Known(e) => ~executions[e].deferred, Activate(e)
    PROVE  /\ RegistryMove
           /\ \A x \in Execs : x # e => executions'[x] = executions[x]
           /\ Known(e)' <=> Known(e)
           /\ Known(e) => /\ executions'[e].session = executions[e].session
                          /\ executions'[e].deferred = executions[e].deferred
                          /\ executions'[e].stopping = executions[e].stopping
                          /\ executions'[e].phase = IF Generic(e) THEN "Generic" ELSE "Adapter"
<1>1. CASE ~Known(e)
    BY <1>1, RegistrySame DEF Activate, registry, Known
<1>2. CASE Known(e)
    <2> DEFINE r == [[executions[e] EXCEPT !.phase = IF Generic(e) THEN "Generic" ELSE "Adapter"]
                        EXCEPT !.cancellable = bind[e].cancellable]
    <2>1. executions[e] \in Record /\ Named(e)
        BY <1>2 DEF Known, Inv, Types, TypeOK, Agreement, RecordsOk, RecordOk
    <2>2. /\ r.session = executions[e].session /\ r.awaiting = executions[e].awaiting
          /\ r.phase = (IF Generic(e) THEN "Generic" ELSE "Adapter")
          /\ r.deferred = executions[e].deferred /\ r.stopping = executions[e].stopping
        BY <2>1 DEF Record
    <2>3. r \in Record
        BY <2>1, BindingTyped DEF Record, Inv
    <2>4. executions' = [executions EXCEPT ![e] = r] /\ awaiting' = awaiting
        BY <1>2 DEF Activate
    <2> HIDE DEF r
    <2>5. FlagsMove(e, r)
        BY <1>2, <2>2, <2>3, RecordAssumption DEF FlagsMove
    <2>6. /\ RegistryMove /\ executions'[e] = r
          /\ \A x \in Execs : x # e => executions'[x] = executions[x]
        BY <1>2, <2>4, <2>5, FlagsMoves
    <2> QED
        BY <1>2, <2>2, <2>3, <2>6, RecordAssumption DEF Known
<1> QED
    BY <1>1, <1>2

(* The record keeps its place: it is gone, or only its flags have changed. *)
Keeps(e) == Known(e)' =>
    /\ executions'[e].session = executions[e].session
    /\ executions'[e].phase = executions[e].phase
    /\ executions'[e].deferred = executions[e].deferred

(* A stop is requested of host work, or where the binding allows it.       *)
LEMMA RequestStopMoves ==
    ASSUME Inv, UNCHANGED identity, NEW e \in Execs, Named(e), Generic(e) => Cancels(e),
           NEW who \in {"detach", "drain"}, RequestStop(e, who), awaiting' = awaiting,
           handler' = handler
    PROVE  /\ RegistryMove /\ StopsMove /\ \A x \in Execs : Keeps(x)
           /\ \A x \in Execs : Known(x)' <=> Known(x)
<1>1. CASE ~StopNeeded(e)
    <2>1. UNCHANGED registry /\ stops' = stops
        BY <1>1 DEF RequestStop, registry
    <2> QED
        BY <2>1, RegistrySame, StopsSame DEF Keeps, Known
<1>2. CASE StopNeeded(e)
    <2> DEFINE r == [executions[e] EXCEPT !.stopping = TRUE]
    <2>1. executions[e] \in Record /\ Known(e)
        BY <1>2 DEF StopNeeded, Known, Inv, Types, TypeOK
    <2>2. /\ r \in Record /\ r.session = executions[e].session /\ r.phase = executions[e].phase
          /\ r.awaiting = executions[e].awaiting /\ r.deferred = executions[e].deferred
          /\ r.stopping = TRUE
        BY <2>1 DEF Record
    <2>3. executions' = [executions EXCEPT ![e] = r] /\ stops' = [stops EXCEPT ![e] = who]
        BY <1>2 DEF RequestStop
    <2> HIDE DEF r
    <2>4. FlagsMove(e, r)
        BY <2>2, RecordAssumption DEF FlagsMove
    <2>5. /\ RegistryMove /\ executions'[e] = r
          /\ \A x \in Execs : x # e => executions'[x] = executions[x]
        BY <2>1, <2>3, <2>4, FlagsMoves
    <2>6. \A x \in Execs : Keeps(x) /\ (Known(x)' <=> Known(x))
        BY <2>1, <2>2, <2>5, RecordAssumption DEF Keeps, Known
    <2>7. ASSUME NEW x \in Execs PROVE StopMove(x)
        <3>1. CASE x = e
            <4>1. stops'[e] = who
                BY <2>3 DEF Inv, Types, TypeOK
            <4>2. StopOk(e)'
                BY <2>2, <2>5, <4>1 DEF StopOk, Named, Generic, Cancels, identity
            <4> QED
                BY <2>1, <3>1, <4>2 DEF StopMove
        <3>2. CASE x # e
            BY <2>3, <2>5, <3>2 DEF StopMove, Inv, Types, TypeOK
        <3> QED
            BY <3>1, <3>2
    <2> QED
        BY <2>5, <2>6, <2>7 DEF StopsMove
<1> QED
    BY <1>1, <1>2

(* Steps that leave handlers, UIs and detaches alone.                      *)
LEMMA QuietSurroundings ==
    ASSUME Inv, Types', UNCHANGED <<identity, handler, online, tasks>>, RegistryMove, InboxMove,
           StopsMove, ProcsMove,
           \A e \in Execs : Known(e)' /\ executions'[e].deferred =>
                                executions'[e].session = executions[e].session
    PROVE  Surroundings'
<1>1. HandlersMove
    BY DEF HandlersMove
<1>2. TasksMove /\ TearDownMove
    BY TasksSame
<1>3. \A e \in Execs : DeferMove(e)
    BY TasksSame DEF DeferMove
<1>4. \A s \in Uis : LeftMove(s)
    BY LeftSame
<1> QED
    BY <1>1, <1>2, <1>3, <1>4, SurroundingsKept

LEMMA QuietService ==
    ASSUME Inv, UNCHANGED <<identity, handler, procs, tasks>>, RegistryMove, CommandsKept,
           \A e \in Execs : Known(e)' => /\ executions'[e].phase = executions[e].phase
                                         /\ executions'[e].deferred = executions[e].deferred
    PROVE  Service'
<1>1. \A e \in Execs : OwnedMove(e)
    BY TasksSame DEF OwnedMove, At, identity
<1>2. PhasesMove
    BY DEF PhasesMove
<1> QED
    BY <1>1, <1>2, ServiceKept

(* A step that concerns neither the registry nor its users.                *)
LEMMA ElsewhereKept ==
    ASSUME Inv, Types', UNCHANGED <<identity, registry, handler, online, inbox, procs, stops, tasks>>,
           Ends'
    PROVE  Agreement'
<1>1. RegistryMove /\ \A e \in Execs : executions'[e] = executions[e]
    BY RegistrySame
<1>2. InboxMove /\ StopsMove /\ ProcsMove /\ CommandsKept
    BY <1>1, InboxSame, StopsSame DEF ProcsMove, CommandsKept, Known
<1>3. Surroundings'
    BY <1>1, <1>2, QuietSurroundings
<1>4. Service'
    BY <1>1, <1>2, QuietService
<1> QED
    BY <1>3, <1>4, AgreementJoin

-----------------------------------------------------------------------------
(* The steps: ends of executions.                                           *)

LEMMA EndsSame ==
    ASSUME Inv, UNCHANGED identity, armed' = armed, \A e \in Execs : HostWork(e)' => HostWork(e)
    PROVE  Ends'
BY DEF Inv, Agreement, Ends, HostOk, ArmedOk, Named, Generic, identity

LEMMA HostEnd ==
    ASSUME Inv, Types', UNCHANGED <<identity, handler, online, tasks, stops, procs>>,
           NEW e \in Execs, ~Generic(e), NEW ok \in BOOLEAN, Finish(e, ok), Ends'
    PROVE  Agreement'
<1>1. /\ RegistryMove /\ ~Known(e)' /\ InboxMove
      /\ \A x \in Execs : x # e => executions'[x] = executions[x]
    BY FinishMoves
<1>2. \A x \in Execs : Known(x)' => executions'[x] = executions[x]
    BY <1>1
<1>3. StopsMove /\ ProcsMove /\ CommandsKept
    BY <1>1, <1>2, StopsSame DEF ProcsMove, CommandsKept, Known
<1>4. Surroundings'
    BY <1>1, <1>2, <1>3, QuietSurroundings
<1>5. Service'
    BY <1>1, <1>2, <1>3, QuietService
<1> QED
    BY <1>4, <1>5, AgreementJoin

LEMMA HostCompletesAgrees ==
    ASSUME Inv, Types', NEW e \in Execs, HostCompletes(e)
    PROVE  Agreement'
<1>1. ~Generic(e)
    BY DEF HostCompletes, Inv, Agreement, HostOk, HostWork
<1>2. PICK ok \in BOOLEAN : Finish(e, ok)
    BY DEF HostCompletes
<1>3. UNCHANGED <<identity, handler, online, tasks, stops, procs, armed>>
    BY DEF HostCompletes, uiVars
<1>4. ASSUME NEW x \in Execs, HostWork(x)' PROVE HostWork(x)
    BY <1>4 DEF HostWork, HostCompletes, Inv, Types, TypeOK
<1> QED
    BY <1>1, <1>2, <1>3, <1>4, HostEnd, EndsSame

LEMMA FailLostAgrees ==
    ASSUME Inv, Types', NEW e \in Execs, FailLost(e)
    PROVE  Agreement'
<1>1. ~Generic(e)
    BY DEF FailLost, Inv, Agreement, HostOk, HostWork
<1>2. UNCHANGED <<identity, handler, online, tasks, stops, procs, armed>>
    BY DEF FailLost, uiVars, work
<1>3. ASSUME NEW x \in Execs, HostWork(x)' PROVE HostWork(x)
    BY <1>3 DEF HostWork, FailLost, work
<1>4. Finish(e, FALSE)
    BY DEF FailLost
<1> QED
    BY <1>1, <1>2, <1>3, <1>4, HostEnd, EndsSame

LEMMA ChildExitsAgrees ==
    ASSUME Inv, Types', NEW e \in Execs, ChildExits(e)
    PROVE  Agreement'
<1>0. UNCHANGED <<identity, handler, online, tasks, stops, armed, host, lost, drain>>
      /\ procs' = procs \ {e} /\ e \in procs /\ bind' = bind /\ home' = home
    BY DEF ChildExits, uiVars, identity
<1>1. PICK ok \in BOOLEAN : Finish(e, ok)
    BY DEF ChildExits
<1>2. /\ RegistryMove /\ ~Known(e)' /\ InboxMove
      /\ \A x \in Execs : x # e => executions'[x] = executions[x]
    BY <1>0, <1>1, FinishMoves
<1>3. \A x \in Execs : Known(x)' => executions'[x] = executions[x]
    BY <1>2
<1>4. StopsMove /\ ProcsMove
    BY <1>0, <1>3, StopsSame DEF ProcsMove
<1>5. Surroundings'
    BY <1>0, <1>2, <1>3, <1>4, QuietSurroundings
<1>6. \A x \in Execs : OwnedMove(x)
    BY <1>0, <1>3, TasksSame DEF OwnedMove, At
<1>7. HandlersOk'
    <2> SUFFICES ASSUME NEW s \in Uis PROVE HandlerOk(s)'
        BY DEF HandlersOk
    <2>1. HandlerOk(s)
        BY DEF Inv, Agreement, HandlersOk
    <2>2. handler[s].pc = "dispatch" => handler[s].exec \in Execs /\ handler[s].exec # e
        BY <1>0, <2>1 DEF HandlerOk
    <2> QED
        BY <1>0, <1>2, <2>1, <2>2 DEF HandlerOk, Known, Generic, Named
<1>8. ChildrenOk'
    <2> SUFFICES ASSUME NEW x \in Execs PROVE ChildOk(x)'
        BY DEF ChildrenOk
    <2>1. CASE x = e
        BY <1>0, <1>2, <2>1 DEF ChildOk
    <2>2. CASE x # e
        <3>1. ChildOk(x) /\ executions'[x] = executions[x]
            BY <1>2, <2>2 DEF Inv, Agreement, ChildrenOk
        <3> QED
            BY <1>0, <2>2, <3>1 DEF ChildOk, Known, Generic, Named, At
    <2> QED
        BY <2>1, <2>2
<1>9. Ends'
    BY <1>0, EndsSame DEF HostWork
<1> QED
    BY <1>0, <1>2, <1>5, <1>6, <1>7, <1>8, <1>9, OwnedKept, AgreementJoin DEF Service

LEMMA DeadlineFiresAgrees ==
    ASSUME Inv, Types', NEW e \in Execs, DeadlineFires(e)
    PROVE  Agreement'
<1> DEFINE r == executions[e]
<1>0. /\ UNCHANGED <<identity, handler, online, tasks, host, lost, drain, procs>>
      /\ bind' = bind /\ home' = home /\ armed[e] # "none"
    BY DEF DeadlineFires, uiVars, identity, work
<1>1. armed' = [armed EXCEPT ![e] = "none"] /\ armed[e] = bind[e].onTimeout
    BY DEF DeadlineFires, Inv, Agreement, ArmedOk
<1>2. Ends'
    <2>1. \A x \in Execs : armed'[x] # "none" => armed'[x] = armed[x]
        BY <1>1 DEF Inv, Types, TypeOK
    <2> QED
        BY <1>0, <2>1 DEF Inv, Agreement, Ends, HostOk, HostWork, ArmedOk, Named, Generic
<1>3. CASE ~Known(e) \/ r.phase = "Reserved" \/ r.stopping
    BY <1>0, <1>2, <1>3, ElsewhereKept DEF DeadlineFires
<1>4. CASE ~(~Known(e) \/ r.phase = "Reserved" \/ r.stopping)
    <2> DEFINE q == [[[r EXCEPT !.session = None] EXCEPT !.awaiting = FALSE]
                        EXCEPT !.stopping = (armed[e] = "cancel")]
    <2>1. r \in Record /\ Known(e)
        BY <1>4 DEF Known, Inv, Types, TypeOK
    <2>2. /\ q \in Record /\ q.session = None /\ q.awaiting = FALSE /\ q.phase = r.phase
          /\ q.deferred = r.deferred /\ q.stopping = (armed[e] = "cancel")
        BY <2>1 DEF Record
    <2>3. executions'[e] = q /\ \A x \in Execs : x # e => executions'[x] = executions[x]
        BY <1>4 DEF DeadlineFires, Inv, Types, TypeOK
    <2> HIDE DEF q
    <2>4. armed[e] = "cancel" => Cancels(e)
        BY <1>1 DEF Cancels
    <2>5. RecordMove(e) /\ Known(e)'
        BY <2>1, <2>2, <2>3, <2>4, RecordAssumption DEF RecordMove, Known
    <2>6. ASSUME NEW s \in Uis
          PROVE  awaiting'[s] \in {awaiting[s], NoExec} /\ (awaiting[s] = e => awaiting'[s] = NoExec)
        BY <1>4, IndexedRecord DEF DeadlineFires
    <2>7. RegistryMove
        BY <2>3, <2>5, <2>6, DropMoves
    <2>8. RecordOk(e) /\ ~r.deferred /\ Named(e)
        BY <1>4, <2>1 DEF Inv, Agreement, RecordsOk, RecordOk
    <2>9. InboxMove
        <3>1. CASE r.session # None
            <4> DEFINE event == [exec |-> e, ok |-> FALSE]
            <4>1. Deliver(r.session, event) /\ event \in Event /\ event.exec = e
                BY <1>4, <3>1 DEF DeadlineFires, Event
            <4>2. PICK s \in Uis : s = r.session /\ home[e] = s
                BY <2>8, <3>1 DEF RecordOk, Inv, Agreement, NamedHome
            <4>3. ReportOk(s, e)'
                BY <1>0, <2>2, <2>3, <2>8, <4>2 DEF ReportOk, Named
            <4>4. ~Untouched(e)
                BY <2>1 DEF Untouched
            <4> HIDE DEF event
            <4> QED
                BY <4>1, <4>2, <4>3, <4>4, DeliverMoves DEF Inv
        <3>2. CASE r.session = None
            BY <1>4, <3>2, InboxSame DEF DeadlineFires
        <3> QED
            BY <3>1, <3>2
    <2>10. StopsMove
        <3> SUFFICES ASSUME NEW x \in Execs, stops'[x] # "none" PROVE StopMove(x)
            BY DEF StopsMove, StopMove
        <3>1. stops' = [stops EXCEPT ![e] = IF armed[e] = "cancel" THEN "deadline" ELSE stops[e]]
            BY <1>4 DEF DeadlineFires
        <3>2. stops[e] = "none"
            BY <1>4, <2>1 DEF Inv, Agreement, StopsOk, StopOk
        <3>3. CASE x = e
            <4>1. stops'[e] = "deadline" /\ armed[e] = "cancel"
                BY <3>1, <3>2, <3>3 DEF Inv, Types, TypeOK
            <4>2. StopOk(e)'
                BY <1>0, <2>2, <2>3, <2>4, <2>8, <4>1 DEF StopOk, Named, Generic, Cancels
            <4> QED
                BY <2>1, <3>3, <4>2 DEF StopMove
        <3>4. CASE x # e
            BY <1>0, <2>3, <3>1, <3>4 DEF StopMove, Inv, Types, TypeOK
        <3> QED
            BY <3>3, <3>4
    <2>11. ProcsMove /\ CommandsKept
        BY <1>0, <2>3, <2>5 DEF ProcsMove, CommandsKept, Known
    <2>12. Surroundings'
        BY <1>0, <2>2, <2>3, <2>7, <2>8, <2>9, <2>10, <2>11, QuietSurroundings
    <2>13. Service'
        BY <1>0, <2>2, <2>3, <2>7, <2>11, QuietService
    <2> QED
        BY <1>2, <2>12, <2>13, AgreementJoin
<1> QED
    BY <1>3, <1>4

-----------------------------------------------------------------------------
(* The steps: the host, the drain, and menus that need no broker.           *)

LEMMA MenuOnlyAgrees ==
    ASSUME Inv, Types', NEW s \in Uis,
           \/ \E c \in Controls : LocalControl(s, c)
           \/ \E x \in Menus : OpenMenu(s, x)
    PROVE  Agreement'
<1>1. UNCHANGED <<identity, registry, handler, online, inbox, procs, stops, tasks, armed, host,
                  lost, drain>>
    BY DEF LocalControl, OpenMenu, work
<1>2. Ends'
    BY <1>1, EndsSame DEF HostWork
<1> QED
    BY <1>1, <1>2, ElsewhereKept

LEMMA HostLostAgrees ==
    ASSUME Inv, Types', HostLost
    PROVE  Agreement'
<1>1. /\ UNCHANGED <<identity, registry, handler, online, inbox, procs, stops, tasks, armed, host,
                     drain>>
      /\ bind' = bind
    BY DEF HostLost, uiVars, work, identity
<1>2. \A e \in lost' : Named(e) /\ ~Generic(e)
    BY DEF HostLost, Inv, Agreement, RecordsOk, RecordOk
<1>3. Ends'
    BY <1>1, <1>2 DEF Inv, Agreement, Ends, HostOk, ArmedOk, HostWork, Named, Generic
<1> QED
    BY <1>1, <1>3, ElsewhereKept

LEMMA DrainOnlyAgrees ==
    ASSUME Inv, Types', DrainSeal \/ DrainSettled \/ DrainStopped \/ DrainDetached \/ DrainDone
                        \/ Reopen \/ DrainCheck
    PROVE  Agreement'
<1>1. UNCHANGED <<identity, registry, handler, online, inbox, procs, stops, tasks, armed, host,
                  lost>>
    BY DEF DrainSeal, DrainSettled, DrainStopped, DrainDetached, DrainDone, Reopen, DrainCheck,
           uiVars, work
<1>2. CASE ~DrainCheck
    <2>1. drain \in [pc : {"idle", "seal", "check", "stop", "sessions", "late", "done"},
                     execs : SUBSET Execs, wait : SUBSET Execs, sess : SUBSET Uis,
                     late : SUBSET Execs]
        BY DEF Inv, Types, TypeOK
    <2>2. drain'.execs \subseteq drain.execs /\ drain'.late \subseteq drain.late
        <3>1. CASE DrainSeal
            BY <2>1, <3>1 DEF DrainSeal
        <3>2. CASE DrainSettled
            BY <2>1, <3>2 DEF DrainSettled
        <3>3. CASE DrainStopped
            BY <2>1, <3>3 DEF DrainStopped
        <3>4. CASE DrainDetached
            BY <2>1, <3>4 DEF DrainDetached
        <3>5. CASE DrainDone
            BY <2>1, <3>5 DEF DrainDone
        <3>6. CASE Reopen
            BY <3>6 DEF Reopen, NoDrain
        <3> QED
            BY <1>2, <3>1, <3>2, <3>3, <3>4, <3>5, <3>6
    <2>3. Ends'
        BY <1>1, <2>2, EndsSame DEF HostWork
    <2> QED
        BY <1>1, <2>3, ElsewhereKept
<1>3. CASE DrainCheck
    <2>1. drain \in [pc : {"idle", "seal", "check", "stop", "sessions", "late", "done"},
                     execs : SUBSET Execs, wait : SUBSET Execs, sess : SUBSET Uis,
                     late : SUBSET Execs]
        BY DEF Inv, Types, TypeOK
    <2> DEFINE late == {e \in Execs : Known(e) /\ executions[e].deferred}
    <2>2. drain' = NoDrain \/ drain' = [drain EXCEPT !.pc = "stop", !.execs = AtHost,
                                                     !.wait = AtHost, !.late = late]
        BY <1>3 DEF DrainCheck
    <2>3. \A e \in AtHost : e \in Execs /\ Named(e) /\ ~Generic(e)
        BY DEF AtHost, Inv, Agreement, RecordsOk, RecordOk
    <2>4. \A e \in late : Named(e) /\ ~Generic(e)
        BY DEF Inv, Agreement, RecordsOk, RecordOk, Generic
    <2> HIDE DEF late
    <2>5. /\ drain'.execs = {} \/ drain'.execs = AtHost
          /\ drain'.late = {} \/ drain'.late = late
        <3>1. CASE drain' = NoDrain
            BY <3>1 DEF NoDrain
        <3>2. CASE drain' # NoDrain
            <4>1. drain' = [drain EXCEPT !.pc = "stop", !.execs = AtHost,
                                         !.wait = AtHost, !.late = late]
                BY <2>2, <3>2
            <4> QED
                BY <2>1, <4>1
        <3> QED
            BY <3>1, <3>2
    <2>6. \A e \in Execs : HostWork(e)' => Named(e) /\ ~Generic(e)
        BY <1>1, <2>3, <2>4, <2>5 DEF HostWork, Inv, Agreement, HostOk
    <2>7. Ends'
        BY <1>1, <2>6 DEF Ends, HostOk, ArmedOk, Inv, Agreement, Named, Generic, identity
    <2> QED
        BY <1>1, <2>7, ElsewhereKept
<1> QED
    BY <1>2, <1>3

(* A drain stops host work, and deferred work, only.                       *)
LEMMA DrainStopAgrees ==
    ASSUME Inv, Types', NEW e \in Execs, DrainStop(e) \/ DrainLate(e)
    PROVE  Agreement'
<1>1. UNCHANGED <<identity, awaiting, handler, online, inbox, procs, tasks, armed, host, lost>>
    BY DEF DrainStop, DrainLate, uiVars, work
<1>2. Named(e) /\ ~Generic(e) /\ RequestStop(e, "drain")
    BY DEF DrainStop, DrainLate, Inv, Agreement, HostOk, HostWork
<1>3. /\ RegistryMove /\ StopsMove /\ \A x \in Execs : Keeps(x)
      /\ \A x \in Execs : Known(x)' <=> Known(x)
    BY <1>1, <1>2, RequestStopMoves
<1>4. InboxMove /\ ProcsMove /\ CommandsKept
    BY <1>1, <1>3, InboxSame DEF ProcsMove, CommandsKept
<1>5. Surroundings'
    BY <1>1, <1>3, <1>4, QuietSurroundings DEF Keeps
<1>6. Service'
    BY <1>1, <1>3, <1>4, QuietService DEF Keeps
<1>7. drain'.execs \subseteq drain.execs /\ drain'.late \subseteq drain.late
    <2>1. drain \in [pc : {"idle", "seal", "check", "stop", "sessions", "late", "done"},
                     execs : SUBSET Execs, wait : SUBSET Execs, sess : SUBSET Uis,
                     late : SUBSET Execs]
        BY DEF Inv, Types, TypeOK
    <2> QED
        BY <2>1 DEF DrainStop, DrainLate
<1>8. Ends'
    BY <1>1, <1>7, EndsSame DEF HostWork
<1> QED
    BY <1>5, <1>6, <1>8, AgreementJoin

-----------------------------------------------------------------------------
(* The steps: the handler of an invocation.                                 *)

(* The handler of s serves an execution that was reserved.                 *)
Serving(s) == handler[s].pc \notin {"idle", "reserve", "control"}

OnlyHandler(s) ==
    /\ \A u \in Uis : u # s => handler'[u] = handler[u]
    /\ \/ handler'[s].pc = "idle"
       \/ /\ handler'[s].exec = handler[s].exec
          /\ handler'[s].pc \notin {"idle", "reserve", "control", "dispatch"}

LEMMA ServingSurroundings ==
    ASSUME Inv, Types', UNCHANGED <<identity, inbox, tasks, stops, online>>, RegistryMove,
           ProcsMove, NEW s \in Uis, Serving(s), OnlyHandler(s),
           \A e \in Execs : Known(e)' => executions'[e].stopping = executions[e].stopping,
           \A e \in Execs : Known(e)' /\ executions'[e].deferred =>
                                executions'[e].session = executions[e].session
    PROVE  Surroundings'
<1>1. HandlersMove
    BY DEF HandlersMove, OnlyHandler
<1>2. TasksMove /\ TearDownMove /\ InboxMove
    BY TasksSame, InboxSame
<1>3. \A e \in Execs : DeferMove(e)
    BY TasksSame DEF DeferMove
<1>4. ASSUME NEW u \in Uis PROVE LeftMove(u)
    <2>1. /\ online[u] # "up" => handler[u].pc = "idle"
          /\ online[u] = "gone" => \A k \in tasks : ~(k.sess = u /\ k.by = "ui")
        BY DEF Inv, Agreement, LeftOk
    <2>2. online[u] # "up" => handler'[u].pc = "idle"
        BY <2>1 DEF OnlyHandler, Serving
    <2> QED
        BY <2>1, <2>2, TasksSame DEF LeftMove
<1>5. StopsMove
    <2>1. ASSUME NEW e \in Execs, stops[e] = "control" PROVE handler'[home[e]] = handler[home[e]]
        <3>1. StopOk(e) /\ home[e] \in Uis
            BY <2>1 DEF Inv, Agreement, StopsOk, StopOk, NamedHome
        <3>2. home[e] # s
            BY <2>1, <3>1 DEF StopOk, At, Serving
        <3> QED
            BY <3>1, <3>2 DEF OnlyHandler
    <2> QED
        BY <2>1, StopsSame
<1> QED
    BY <1>1, <1>2, <1>3, <1>4, <1>5, SurroundingsKept

LEMMA ServingService ==
    ASSUME Inv, UNCHANGED <<identity, tasks>>, RegistryMove, NEW s \in Uis, Serving(s),
           OnlyHandler(s), NEW e, e = handler[s].exec,
           \A x \in Execs : x # e => executions'[x] = executions[x] /\ (x \in procs' <=> x \in procs),
           ChildOk(e)',
           Known(e)' /\ executions'[e].phase = "Reserved" =>
               handler'[s].exec = e /\ handler'[s].pc \in Dispatching
    PROVE  Service'
<1>0. bind' = bind /\ home' = home /\ e \in Execs /\ home[e] = s
    BY Served DEF identity, Serving
<1>1. ASSUME NEW u \in Uis PROVE HandlerOk(u)'
    <2>1. HandlerOk(u) /\ HandlerOk(s)
        BY DEF Inv, Agreement, HandlersOk
    <2>2. CASE u # s
        <3>1. handler'[u] = handler[u]
            BY <2>2 DEF OnlyHandler
        <3>2. handler[u].pc # "idle" => handler[u].exec \in Execs /\ handler[u].exec # e
            BY <1>0, <2>1, <2>2 DEF HandlerOk
        <3> QED
            BY <1>0, <2>1, <3>1, <3>2 DEF HandlerOk, Known, Generic, Named
    <2>3. CASE u = s
        BY <1>0, <2>1, <2>3 DEF HandlerOk, OnlyHandler, Serving, Named
    <2> QED
        BY <2>2, <2>3
<1>2. ASSUME NEW x \in Execs PROVE ChildOk(x)'
    <2>1. CASE x # e
        <3>1. /\ ChildOk(x) /\ executions'[x] = executions[x] /\ (x \in procs' <=> x \in procs)
            BY <2>1 DEF Inv, Agreement, ChildrenOk
        <3>2. Known(x) /\ Generic(x) /\ x \notin procs => At(x, {"dispatch"})'
            <4> SUFFICES ASSUME Known(x), Generic(x), x \notin procs PROVE At(x, {"dispatch"})'
                OBVIOUS
            <4>1. At(x, {"dispatch"}) /\ home[x] \in Uis
                BY <3>1 DEF ChildOk, Inv, Agreement, RecordsOk, RecordOk, NamedHome
            <4>2. home[x] # s
                BY <2>1, <4>1 DEF At
            <4> QED
                BY <1>0, <4>1, <4>2 DEF At, OnlyHandler
        <3> QED
            BY <1>0, <3>1, <3>2 DEF ChildOk, Known, Generic, Named
    <2> QED
        BY <2>1
<1>3. ASSUME NEW x \in Execs PROVE OwnedMove(x)
    <2>1. CASE x = e
        <3>1. Known(x)' /\ executions'[x].phase = "Reserved" => At(x, Dispatching)'
            BY <1>0, <2>1 DEF At
        <3>2. Known(x)' => Known(x)
            BY DEF RegistryMove, RecordMove
        <3>3. Known(x) => ~executions[x].deferred
            <4>1. bind[x].kind # "deferred"
                BY <1>0, <2>1 DEF Serving, Inv, Agreement, HandlersOk, HandlerOk
            <4> QED
                BY <4>1 DEF Inv, Agreement, RecordsOk, RecordOk
        <3> QED
            BY <3>1, <3>2, <3>3, TasksSame DEF OwnedMove
    <2>2. CASE x # e
        <3>1. executions'[x] = executions[x]
            BY <2>2
        <3>2. Known(x) /\ At(x, Dispatching) => At(x, Dispatching)'
            <4> SUFFICES ASSUME Known(x), At(x, Dispatching) PROVE At(x, Dispatching)'
                OBVIOUS
            <4>1. home[x] \in Uis /\ home[x] # s
                BY <2>2 DEF At, Inv, Agreement, RecordsOk, RecordOk, NamedHome
            <4> QED
                BY <1>0, <4>1 DEF At, OnlyHandler
        <3>3. Known(x)' <=> Known(x)
            BY <3>1 DEF Known
        <3> QED
            BY <3>1, <3>2, <3>3, TasksSame DEF OwnedMove
    <2> QED
        BY <2>1, <2>2
<1> QED
    BY <1>1, <1>2, <1>3, OwnedKept DEF Service, HandlersOk, ChildrenOk

(* A command that has left its dispatch has its child as long as it has    *)
(* its record.                                                             *)
LEMMA ServedChild ==
    ASSUME Inv, NEW s \in Uis, handler[s].pc # "idle", NEW e, e = handler[s].exec
    PROVE  /\ e \in procs => Generic(e) /\ Known(e)
           /\ Known(e) /\ executions[e].phase = "Generic" => e \in procs
           /\ Known(e) /\ Generic(e) /\ handler[s].pc # "dispatch" => e \in procs
<1>1. e \in Execs /\ home[e] = s
    BY Served
<1>2. ChildOk(e)
    BY <1>1 DEF Inv, Agreement, ChildrenOk
<1> QED
    BY <1>1, <1>2 DEF ChildOk, At

LEMMA ServedNotDeferred ==
    ASSUME Inv, NEW s \in Uis, Serving(s), Known(handler[s].exec)
    PROVE  ~executions[handler[s].exec].deferred
<1>1. handler[s].exec \in Execs /\ bind[handler[s].exec].kind # "deferred"
    BY DEF Serving, Inv, Agreement, HandlersOk, HandlerOk
<1> QED
    BY <1>1 DEF Inv, Agreement, RecordsOk, RecordOk

LEMMA AnswerOnly ==
    ASSUME Inv, NEW s \in Uis, handler' = [handler EXCEPT ![s] = Idle]
    PROVE  OnlyHandler(s) /\ handler'[s].pc = "idle"
BY DEF Inv, Types, TypeOK, OnlyHandler, Idle

LEMMA HandlerTyped ==
    ASSUME Inv, NEW s \in Uis
    PROVE  handler \in [Uis -> Handler] /\ handler[s] \in Handler
BY DEF Inv, Types, TypeOK

LEMMA DispatchRefusedAgrees ==
    ASSUME Inv, Types', NEW s \in Uis, DispatchRefused(s)
    PROVE  Agreement'
<1>0. /\ UNCHANGED <<identity, inbox, tasks, stops, online, procs, armed, host, lost, drain>>
      /\ Serving(s) /\ handler[s].pc = "dispatch"
    BY DEF DispatchRefused, work, Serving, Refuse, Answer
<1>1. PICK e \in Execs : e = handler[s].exec /\ e \notin procs /\ Remove(e)
    BY <1>0, Served DEF DispatchRefused, Inv, Agreement, HandlersOk, HandlerOk
<1>2. /\ RegistryMove /\ ~Known(e)'
      /\ \A x \in Execs : x # e => executions'[x] = executions[x]
    BY <1>1, RemoveMoves
<1>3. OnlyHandler(s)
    BY AnswerOnly DEF DispatchRefused, Refuse, Answer
<1>4. \A x \in Execs : Known(x)' => executions'[x] = executions[x]
    BY <1>2
<1>5. Surroundings'
    BY <1>0, <1>2, <1>3, <1>4, ServingSurroundings DEF ProcsMove
<1>6. ChildOk(e)'
    BY <1>0, <1>1, <1>2 DEF ChildOk
<1>7. Service'
    BY <1>0, <1>1, <1>2, <1>3, <1>6, ServingService
<1>8. Ends'
    BY <1>0, EndsSame DEF HostWork
<1> QED
    BY <1>5, <1>7, <1>8, AgreementJoin

LEMMA HostStartsAgrees ==
    ASSUME Inv, Types', NEW s \in Uis, HostStarts(s)
    PROVE  Agreement'
<1>0. /\ UNCHANGED <<identity, registry, inbox, tasks, stops, online, procs, armed, lost, drain>>
      /\ Serving(s) /\ bind' = bind /\ home' = home /\ handler[s].pc = "dispatch"
    BY DEF HostStarts, Serving, identity
<1>1. PICK e \in Execs : e = handler[s].exec /\ Named(e) /\ ~Generic(e) /\ home[e] = s
    BY <1>0, Served DEF HostStarts
<1>2. RegistryMove /\ \A x \in Execs : executions'[x] = executions[x]
    BY <1>0, RegistrySame
<1>3. OnlyHandler(s) /\ handler'[s].pc = "accepting" /\ handler'[s].exec = e
    <2>1. handler' = [handler EXCEPT ![s].pc = "accepting"]
        BY DEF HostStarts, GoHandler
    <2> QED
        BY <1>1, <2>1, HandlerTyped DEF OnlyHandler, Handler
<1>4. Surroundings'
    BY <1>0, <1>2, <1>3, ServingSurroundings DEF ProcsMove
<1>5. ChildOk(e)'
    BY <1>0, <1>1, <1>2, ServedChild DEF ChildOk, Known, Generic
<1>6. Service'
    BY <1>0, <1>1, <1>2, <1>3, <1>5, ServingService DEF Dispatching
<1>7. \A x \in Execs : HostWork(x)' => HostWork(x) \/ x = e
    BY <1>0, <1>1 DEF HostWork, HostStarts, Inv, Types, TypeOK
<1>8. Ends'
    BY <1>0, <1>1, <1>7 DEF Ends, HostOk, ArmedOk, Inv, Agreement, Named, Generic
<1> QED
    BY <1>4, <1>6, <1>8, AgreementJoin

LEMMA HostAcceptsAgrees ==
    ASSUME Inv, Types', NEW s \in Uis, HostAccepts(s)
    PROVE  Agreement'
<1>0. /\ UNCHANGED <<identity, inbox, tasks, stops, online, procs, armed, host, lost, drain>>
      /\ Serving(s) /\ bind' = bind /\ home' = home /\ handler[s].pc = "accepting"
    BY DEF HostAccepts, Serving, identity, work
<1>1. PICK e \in Execs : e = handler[s].exec /\ Named(e) /\ home[e] = s
    BY <1>0, Served
<1>2. /\ RegistryMove
      /\ \A x \in Execs : x # e => executions'[x] = executions[x]
      /\ Known(e)' <=> Known(e)
      /\ Known(e) => /\ executions'[e].phase = executions[e].phase
                     /\ executions'[e].deferred = executions[e].deferred
                     /\ executions'[e].stopping = executions[e].stopping
    <2>1. UNCHANGED registry \/ Unhook(e)
        BY <1>1 DEF HostAccepts
    <2>2. CASE UNCHANGED registry
        BY <2>2, RegistrySame DEF registry, Known
    <2>3. CASE Unhook(e)
        BY <2>3, UnhookMoves
    <2> QED
        BY <2>1, <2>2, <2>3
<1>3. OnlyHandler(s) /\ handler'[s].pc = "activate" /\ handler'[s].exec = e
    <2>1. PICK a \in BOOLEAN :
              handler' = [handler EXCEPT ![s].pc = "activate",
                                         ![s].awaited = (a /\ bind[e].mode = "await")]
        BY <1>1 DEF HostAccepts
    <2> QED
        BY <1>1, <2>1, HandlerTyped DEF OnlyHandler, Handler
<1>4. Known(e) => ~executions[e].deferred
    BY <1>0, <1>1, ServedNotDeferred
<1>5. Surroundings'
    <2>1. \A x \in Execs : Known(x)' => executions'[x].stopping = executions[x].stopping
        BY <1>2
    <2>2. \A x \in Execs : Known(x)' /\ executions'[x].deferred =>
                               executions'[x].session = executions[x].session
        BY <1>2, <1>4
    <2> QED
        BY <1>0, <1>2, <1>3, <2>1, <2>2, ServingSurroundings DEF ProcsMove
<1>6. ChildOk(e)'
    BY <1>0, <1>1, <1>2, ServedChild DEF ChildOk, Generic, Named
<1>7. Service'
    BY <1>0, <1>1, <1>2, <1>3, <1>6, ServingService DEF Dispatching
<1>8. Ends'
    BY <1>0, EndsSame DEF HostWork
<1> QED
    BY <1>5, <1>7, <1>8, AgreementJoin

LEMMA SpawnAgrees ==
    ASSUME Inv, Types', NEW s \in Uis, Spawn(s)
    PROVE  Agreement'
<1>0. /\ UNCHANGED <<identity, registry, inbox, tasks, stops, online, host, armed, lost, drain>>
      /\ Serving(s) /\ bind' = bind /\ home' = home /\ handler[s].pc = "dispatch"
    BY DEF Spawn, Serving, identity
<1>1. PICK e \in Execs : /\ e = handler[s].exec /\ Named(e) /\ Generic(e) /\ Known(e)
                         /\ home[e] = s /\ procs' = procs \cup {e}
    BY <1>0, Served DEF Spawn, Inv, Agreement, HandlersOk, HandlerOk
<1>2. RegistryMove /\ \A x \in Execs : executions'[x] = executions[x]
    BY <1>0, RegistrySame
<1>3. OnlyHandler(s) /\ handler'[s].pc = "supervised" /\ handler'[s].exec = e
    <2>1. handler' = [handler EXCEPT ![s].pc = "supervised"]
        BY DEF Spawn, GoHandler
    <2> QED
        BY <1>1, <2>1, HandlerTyped DEF OnlyHandler, Handler
<1>4. ProcsMove
    BY <1>1 DEF ProcsMove
<1>5. Surroundings'
    BY <1>0, <1>2, <1>3, <1>4, ServingSurroundings
<1>6. ChildOk(e)'
    BY <1>0, <1>1, <1>2 DEF ChildOk, Known, Generic, Named
<1>7. Service'
    BY <1>0, <1>1, <1>2, <1>3, <1>6, ServingService DEF Dispatching
<1>8. Ends'
    BY <1>0, EndsSame DEF HostWork
<1> QED
    BY <1>5, <1>7, <1>8, AgreementJoin

LEMMA SupervisedAgrees ==
    ASSUME Inv, Types', NEW s \in Uis, Supervised(s)
    PROVE  Agreement'
<1>0. /\ UNCHANGED <<identity, registry, inbox, tasks, stops, online, host, procs, armed, lost, drain>>
      /\ Serving(s) /\ bind' = bind /\ home' = home /\ handler[s].pc = "supervised"
    BY DEF Supervised, Serving, identity
<1>1. PICK e \in Execs : e = handler[s].exec /\ Named(e) /\ home[e] = s
    BY <1>0, Served
<1>2. RegistryMove /\ \A x \in Execs : executions'[x] = executions[x]
    BY <1>0, RegistrySame
<1>3. OnlyHandler(s) /\ handler'[s].pc = "activate" /\ handler'[s].exec = e
    <2>1. handler' = [handler EXCEPT ![s].pc = "activate",
                                     ![s].awaited = (bind[e].mode = "await")]
        BY <1>1 DEF Supervised
    <2> QED
        BY <1>1, <2>1, HandlerTyped DEF OnlyHandler, Handler
<1>4. Surroundings'
    BY <1>0, <1>2, <1>3, ServingSurroundings DEF ProcsMove
<1>5. ChildOk(e)'
    BY <1>0, <1>1, <1>2, ServedChild DEF ChildOk, Known, Generic, Named
<1>6. Service'
    BY <1>0, <1>1, <1>2, <1>3, <1>5, ServingService DEF Dispatching
<1>7. Ends'
    BY <1>0, EndsSame DEF HostWork
<1> QED
    BY <1>4, <1>6, <1>7, AgreementJoin

LEMMA ActivationAgrees ==
    ASSUME Inv, Types', NEW s \in Uis, Activation(s)
    PROVE  Agreement'
<1>0. /\ UNCHANGED <<identity, inbox, tasks, stops, online, host, procs, lost, drain>>
      /\ Serving(s) /\ bind' = bind /\ home' = home /\ handler[s].pc = "activate"
    BY DEF Activation, Serving, identity, Accept, Refuse, Answer
<1>1. PICK e \in Execs : e = handler[s].exec /\ Named(e) /\ home[e] = s /\ Activate(e)
    BY <1>0, Served DEF Activation
<1>2. Known(e) => ~executions[e].deferred
    BY <1>0, <1>1, ServedNotDeferred
<1>3. /\ RegistryMove
      /\ \A x \in Execs : x # e => executions'[x] = executions[x]
      /\ Known(e)' <=> Known(e)
      /\ Known(e) => /\ executions'[e].session = executions[e].session
                     /\ executions'[e].deferred = executions[e].deferred
                     /\ executions'[e].stopping = executions[e].stopping
                     /\ executions'[e].phase = IF Generic(e) THEN "Generic" ELSE "Adapter"
    BY <1>1, <1>2, ActivateMoves
<1>4. OnlyHandler(s)
    <2>1. \/ handler' = [handler EXCEPT ![s] = Idle]
          \/ handler' = [handler EXCEPT ![s].pc = "abandon"]
          \/ handler' = [handler EXCEPT ![s].pc = "unhook"]
        BY DEF Activation, Accept, Refuse, Answer, GoHandler
    <2> QED
        BY <2>1, AnswerOnly, HandlerTyped DEF OnlyHandler, Handler
<1>5. Surroundings'
    <2>1. \A x \in Execs : Known(x)' => executions'[x].stopping = executions[x].stopping
        BY <1>3
    <2>2. \A x \in Execs : Known(x)' /\ executions'[x].deferred =>
                               executions'[x].session = executions[x].session
        BY <1>3
    <2> QED
        BY <1>0, <1>3, <1>4, <2>1, <2>2, ServingSurroundings DEF ProcsMove
<1>6. ChildOk(e)'
    BY <1>0, <1>1, <1>3, ServedChild DEF ChildOk, Generic, Named
<1>7. Known(e)' => executions'[e].phase # "Reserved"
    BY <1>3
<1>8. Service'
    BY <1>0, <1>1, <1>3, <1>4, <1>6, <1>7, ServingService
<1>9. Ends'
    <2>1. \A x \in Execs : armed'[x] # "none" =>
              armed'[x] = armed[x] \/ (x = e /\ armed'[x] = bind[e].onTimeout)
        BY <1>1 DEF Activate, Inv, Types, TypeOK
    <2> QED
        BY <1>0, <1>1, <2>1 DEF Ends, HostOk, HostWork, ArmedOk, Inv, Agreement, Named, Generic
<1> QED
    BY <1>5, <1>8, <1>9, AgreementJoin

LEMMA CommandDetachedAgrees ==
    ASSUME Inv, Types', NEW s \in Uis, CommandDetached(s)
    PROVE  Agreement'
<1>0. /\ UNCHANGED <<identity, inbox, tasks, stops, online, host, procs, armed, lost, drain>>
      /\ Serving(s) /\ bind' = bind /\ home' = home /\ handler[s].pc = "unhook"
    BY DEF CommandDetached, Serving, identity, Accept, Answer, work
<1>1. PICK e \in Execs : e = handler[s].exec /\ Named(e) /\ home[e] = s /\ Unhook(e)
    BY <1>0, Served DEF CommandDetached
<1>2. Known(e) => ~executions[e].deferred
    BY <1>0, <1>1, ServedNotDeferred
<1>3. /\ RegistryMove
      /\ \A x \in Execs : x # e => executions'[x] = executions[x]
      /\ Known(e)' <=> Known(e)
      /\ Known(e) => /\ executions'[e].phase = executions[e].phase
                     /\ executions'[e].deferred = executions[e].deferred
                     /\ executions'[e].stopping = executions[e].stopping
    BY <1>1, UnhookMoves
<1>4. OnlyHandler(s)
    BY AnswerOnly DEF CommandDetached, Accept, Answer
<1>5. Surroundings'
    <2>1. \A x \in Execs : Known(x)' => executions'[x].stopping = executions[x].stopping
        BY <1>3
    <2>2. \A x \in Execs : Known(x)' /\ executions'[x].deferred =>
                               executions'[x].session = executions[x].session
        BY <1>2, <1>3
    <2> QED
        BY <1>0, <1>3, <1>4, <2>1, <2>2, ServingSurroundings DEF ProcsMove
<1>6. ChildOk(e)'
    BY <1>0, <1>1, <1>3, ServedChild DEF ChildOk, Generic, Named
<1>7. Known(e)' => executions'[e].phase # "Reserved"
    <2>1. Known(e) /\ executions[e].phase = "Reserved" => Late(e)
        BY <1>0, <1>1, <1>2 DEF Inv, Agreement, Owned, At, Dispatching
    <2>2. ~Late(e)
        <3>1. bind[e].kind # "deferred"
            BY <1>0, <1>1 DEF Serving, Inv, Agreement, HandlersOk, HandlerOk
        <3> QED
            BY <3>1 DEF Late, Inv, Agreement, TasksOk, TaskOk
    <2> QED
        BY <1>3, <2>1, <2>2
<1>8. Service'
    BY <1>0, <1>1, <1>3, <1>4, <1>6, <1>7, ServingService
<1>9. Ends'
    BY <1>0, EndsSame DEF HostWork
<1> QED
    BY <1>5, <1>8, <1>9, AgreementJoin

LEMMA AbandonedAgrees ==
    ASSUME Inv, Types', NEW s \in Uis, Abandoned(s)
    PROVE  Agreement'
<1>0. /\ UNCHANGED <<identity, inbox, tasks, stops, online, host, procs, armed, lost, drain>>
      /\ Serving(s) /\ bind' = bind /\ home' = home /\ handler[s].pc = "abandon"
    BY DEF Abandoned, Serving, identity, Refuse, Answer, work
<1>1. PICK e \in Execs : e = handler[s].exec /\ Named(e) /\ home[e] = s /\ e \notin procs
    BY <1>0, Served DEF Abandoned
<1>2. executions'[e] = NoExec /\ \A x \in Execs : x # e => executions'[x] = executions[x]
    BY <1>1 DEF Abandoned, Inv, Types, TypeOK
<1>3. ASSUME NEW u \in Uis
      PROVE  awaiting'[u] \in {awaiting[u], NoExec} /\ (awaiting[u] = e => awaiting'[u] = NoExec)
    <2>1. awaiting'[u] = awaiting[u] \/ (u = s /\ awaiting'[u] = NoExec)
        BY DEF Abandoned, Inv, Types, TypeOK
    <2>2. awaiting[u] = e => u = s
        <3> SUFFICES ASSUME awaiting[u] = e PROVE u = s
            OBVIOUS
        <3>1. Known(e) /\ executions[e].session = u
            BY IndexedRecord
        <3>2. executions[e].session \in {home[e], None}
            BY <3>1 DEF Inv, Agreement, RecordsOk, RecordOk
        <3> QED
            BY <1>1, <3>1, <3>2, ExecutionAssumption
    <2>3. s \in Uis => awaiting'[s] = NoExec
        BY DEF Abandoned, Inv, Types, TypeOK
    <2> QED
        BY <2>1, <2>2, <2>3
<1>4. RecordMove(e) /\ ~Known(e)'
    BY <1>2 DEF RecordMove, Known
<1>5. RegistryMove
    BY <1>2, <1>3, <1>4, DropMoves
<1>6. OnlyHandler(s)
    BY AnswerOnly DEF Abandoned, Refuse, Answer
<1>7. \A x \in Execs : Known(x)' => executions'[x] = executions[x]
    BY <1>2, <1>4
<1>8. Surroundings'
    BY <1>0, <1>5, <1>6, <1>7, ServingSurroundings DEF ProcsMove
<1>9. ChildOk(e)'
    BY <1>0, <1>1, <1>4 DEF ChildOk
<1>10. Service'
    BY <1>0, <1>1, <1>2, <1>4, <1>5, <1>6, <1>9, ServingService
<1>11. Ends'
    BY <1>0, EndsSame DEF HostWork
<1> QED
    BY <1>8, <1>10, <1>11, AgreementJoin

-----------------------------------------------------------------------------
(* The steps: UIs come to their end, and sessions are detached.             *)

(* Nothing happens to the registry.                                        *)
LEMMA AsideKept ==
    ASSUME Inv, Types', UNCHANGED <<identity, registry, handler, procs, stops>>, InboxMove,
           TasksMove, TearDownMove,
           \A e \in Execs : (Late(e) => Late(e)') /\ (Waiting(e) => Waiting(e)'),
           \A s \in Uis : LeftMove(s), Ends'
    PROVE  Agreement'
<1>1. /\ RegistryMove /\ \A e \in Execs : executions'[e] = executions[e]
      /\ bind' = bind /\ home' = home
    BY RegistrySame DEF identity
<1>2. StopsMove /\ ProcsMove /\ CommandsKept /\ PhasesMove /\ HandlersMove
    BY <1>1, StopsSame DEF ProcsMove, CommandsKept, PhasesMove, HandlersMove, Known
<1>3. \A e \in Execs : DeferMove(e)
    BY <1>1 DEF DeferMove
<1>4. \A e \in Execs : OwnedMove(e)
    BY <1>1 DEF OwnedMove, At
<1>5. Surroundings'
    BY <1>1, <1>2, <1>3, SurroundingsKept
<1>6. Service'
    BY <1>1, <1>2, <1>4, ServiceKept
<1> QED
    BY <1>5, <1>6, AgreementJoin

LEMMA TaskAdded ==
    ASSUME NEW k, tasks' = tasks \cup {k}, TaskOk(k)', \A e \in Execs : ~Mentions(k, e) \/ ~Untouched(e)
    PROVE  /\ TasksMove /\ TearDownMove
           /\ \A e \in Execs : (Late(e) => Late(e)') /\ (Waiting(e) => Waiting(e)')
           /\ \A s \in Uis : Detaching(s) => Detaching(s)'
<1>1. TasksMove
    BY DEF TasksMove
<1>2. TearDownMove
    BY DEF TearDownMove, TearingDown
<1> QED
    BY <1>1, <1>2 DEF Late, Waiting, Detaching

(* A detach that starts knows its session and no execution.                *)
LEMMA DetachCallFresh ==
    ASSUME NEW s \in Uis, NEW who
    PROVE  /\ TaskOk(DetachCall(s, who))'
           /\ \A e \in Execs : ~Mentions(DetachCall(s, who), e)
           /\ DetachCall(s, who).sess = s /\ DetachCall(s, who).by = who
           /\ DetachCall(s, who).step = "unlink"
BY MenuAssumption DEF DetachCall, TaskOk, Mentions

(* A detach that no UI asked for.                                          *)
LEMMA OtherDetach ==
    ASSUME Inv, UNCHANGED <<handler, online>>, NEW k, tasks' = tasks \cup {k}, k.by # "ui"
    PROVE  \A u \in Uis : LeftMove(u)
<1> SUFFICES ASSUME NEW u \in Uis PROVE LeftMove(u)
    OBVIOUS
<1>1. /\ online[u] # "up" => handler[u].pc = "idle"
      /\ online[u] = "gone" => \A l \in tasks : ~(l.sess = u /\ l.by = "ui")
    BY DEF Inv, Agreement, LeftOk
<1>2. Detaching(u) => Detaching(u)'
    BY DEF Detaching
<1> QED
    BY <1>1, <1>2 DEF LeftMove

(* A UI leaves: its detach starts.                                         *)
LEMMA Leaving ==
    ASSUME Inv, NEW s \in Uis, handler' = handler, handler[s].pc = "idle",
           online' = [online EXCEPT ![s] = "leaving"],
           tasks' = tasks \cup {DetachCall(s, "ui")}
    PROVE  \A u \in Uis : LeftMove(u)
<1> SUFFICES ASSUME NEW u \in Uis PROVE LeftMove(u)
    OBVIOUS
<1>1. /\ online[u] # "up" => handler[u].pc = "idle"
      /\ online[u] = "gone" => \A l \in tasks : ~(l.sess = u /\ l.by = "ui")
    BY DEF Inv, Agreement, LeftOk
<1>2. Detaching(u) => Detaching(u)'
    BY DEF Detaching
<1>3. online'[s] = "leaving" /\ (u # s => online'[u] = online[u])
    BY DEF Inv, Types, TypeOK
<1>4. CASE u = s
    <2>1. Detaching(s)'
        BY DetachCallFresh DEF Detaching
    <2> QED
        BY <1>3, <1>4, <2>1 DEF LeftMove
<1>5. CASE u # s
    <2>1. DetachCall(s, "ui").sess # u
        BY <1>5, DetachCallFresh
    <2> QED
        BY <1>1, <1>2, <1>3, <1>5, <2>1 DEF LeftMove
<1> QED
    BY <1>4, <1>5

LEMMA LeaveAgrees ==
    ASSUME Inv, Types', NEW s \in Uis, UiDismissed(s) \/ UiInterrupted(s)
    PROVE  Agreement'
<1>1. /\ UNCHANGED <<identity, registry, handler, procs, stops, inbox, armed, host, lost, drain>>
      /\ handler[s].pc = "idle" /\ online' = [online EXCEPT ![s] = "leaving"]
      /\ tasks' = tasks \cup {DetachCall(s, "ui")}
    BY DEF UiDismissed, UiInterrupted, Leave, work
<1>2. /\ TasksMove /\ TearDownMove
      /\ \A e \in Execs : (Late(e) => Late(e)') /\ (Waiting(e) => Waiting(e)')
    BY <1>1, DetachCallFresh, TaskAdded
<1>3. InboxMove
    BY <1>1, InboxSame
<1>4. \A u \in Uis : LeftMove(u)
    BY <1>1, Leaving
<1>5. Ends'
    BY <1>1, EndsSame DEF HostWork
<1> QED
    BY <1>1, <1>2, <1>3, <1>4, <1>5, AsideKept

LEMMA UiEventAgrees ==
    ASSUME Inv, Types', NEW s \in Uis, UiEvent(s)
    PROVE  Agreement'
<1>1. /\ UNCHANGED <<identity, registry, handler, procs, stops, armed, host, lost, drain>>
      /\ handler[s].pc = "idle" /\ inbox' = [inbox EXCEPT ![s] = Tail(inbox[s])]
      /\ inbox[s] # <<>>
    BY DEF UiEvent, work, Ready
<1>2. InboxMove
    <2> SUFFICES ASSUME NEW u \in Uis, NEW x \in Event, Holds(inbox'[u], x)
                 PROVE  Holds(inbox[u], x)
        BY DEF InboxMove
    <2>1. inbox \in [Uis -> Seq(Event)]
        BY DEF Inv, Types, TypeOK
    <2>2. CASE u = s
        <3>1. inbox'[u] = Tail(inbox[u]) /\ inbox[u] # <<>> /\ inbox[u] \in Seq(Event)
            BY <1>1, <2>1, <2>2
        <3> QED
            BY <3>1, TailHolds
    <2>3. CASE u # s
        BY <1>1, <2>1, <2>3
    <2> QED
        BY <2>2, <2>3
<1>3. Ends'
    BY <1>1, EndsSame DEF HostWork
<1>4. CASE Head(inbox[s]) = Retiring
    <2>1. /\ online' = [online EXCEPT ![s] = "leaving"]
          /\ tasks' = tasks \cup {DetachCall(s, "ui")}
        BY <1>4 DEF UiEvent
    <2>2. /\ TasksMove /\ TearDownMove
          /\ \A e \in Execs : (Late(e) => Late(e)') /\ (Waiting(e) => Waiting(e)')
        BY <2>1, DetachCallFresh, TaskAdded
    <2>3. \A u \in Uis : LeftMove(u)
        BY <1>1, <2>1, Leaving
    <2> QED
        BY <1>1, <1>2, <1>3, <2>2, <2>3, AsideKept
<1>5. CASE Head(inbox[s]) # Retiring
    <2>1. online' = online /\ tasks' = tasks
        BY <1>5 DEF UiEvent
    <2>2. /\ TasksMove /\ TearDownMove
          /\ \A e \in Execs : (Late(e) => Late(e)') /\ (Waiting(e) => Waiting(e)')
        BY <2>1, TasksSame
    <2>3. \A u \in Uis : LeftMove(u)
        BY <1>1, <2>1, LeftSame
    <2> QED
        BY <1>1, <1>2, <1>3, <2>2, <2>3, AsideKept
<1> QED
    BY <1>4, <1>5

LEMMA UiGoneAgrees ==
    ASSUME Inv, Types', NEW s \in Uis, UiGone(s)
    PROVE  Agreement'
<1>1. /\ UNCHANGED <<identity, registry, handler, procs, stops, inbox, armed, host, lost, drain, tasks>>
      /\ online[s] = "leaving" /\ online' = [online EXCEPT ![s] = "gone"]
      /\ \A k \in tasks : ~(k.sess = s /\ k.by = "ui")
    BY DEF UiGone, work
<1>2. /\ TasksMove /\ TearDownMove
      /\ \A e \in Execs : (Late(e) => Late(e)') /\ (Waiting(e) => Waiting(e)')
      /\ \A u \in Uis : Detaching(u)' <=> Detaching(u)
    BY <1>1, TasksSame
<1>3. InboxMove
    BY <1>1, InboxSame
<1>4. ASSUME NEW u \in Uis PROVE LeftMove(u)
    <2>1. /\ online[u] # "up" => handler[u].pc = "idle"
          /\ online[u] = "gone" => \A l \in tasks : ~(l.sess = u /\ l.by = "ui")
        BY DEF Inv, Agreement, LeftOk
    <2>2. online'[s] = "gone" /\ (u # s => online'[u] = online[u])
        BY <1>1 DEF Inv, Types, TypeOK
    <2> QED
        BY <1>1, <1>2, <2>1, <2>2 DEF LeftMove
<1>5. Ends'
    BY <1>1, EndsSame DEF HostWork
<1> QED
    BY <1>1, <1>2, <1>3, <1>4, <1>5, AsideKept

LEMMA SessionLostAgrees ==
    ASSUME Inv, Types', NEW s \in Uis, SessionLost(s)
    PROVE  Agreement'
<1>1. /\ UNCHANGED <<identity, registry, handler, online, procs, stops, armed, host, lost, drain>>
      /\ tasks' = tasks \cup {DetachCall(s, "loss")}
    BY DEF SessionLost, uiVars, work
<1>2. /\ TasksMove /\ TearDownMove
      /\ \A e \in Execs : (Late(e) => Late(e)') /\ (Waiting(e) => Waiting(e)')
    BY <1>1, DetachCallFresh, TaskAdded
<1>3. InboxMove
    <2> SUFFICES ASSUME NEW u \in Uis, NEW x \in Event, Holds(inbox'[u], x)
                 PROVE  Holds(inbox[u], x)
        BY DEF InboxMove
    <2>1. inbox \in [Uis -> Seq(Event)] /\ inbox[s] \in Seq(Event) /\ Len(inbox[s]) \in Nat
        BY DEF Inv, Types, TypeOK
    <2>2. PICK n \in {Len(inbox[s]) - 1, Len(inbox[s])} :
              n >= 0 /\ inbox' = [inbox EXCEPT ![s] = SubSeq(inbox[s], 1, n)]
        BY DEF SessionLost
    <2>3. n \in Nat /\ n <= Len(inbox[s])
        BY <2>1, <2>2
    <2>4. CASE u = s
        BY <2>1, <2>2, <2>3, <2>4, PrefixHolds
    <2>5. CASE u # s
        BY <2>1, <2>2, <2>5
    <2> QED
        BY <2>4, <2>5
<1>4. \A u \in Uis : LeftMove(u)
    BY <1>1, DetachCallFresh, OtherDetach
<1>5. Ends'
    BY <1>1, EndsSame DEF HostWork
<1> QED
    BY <1>1, <1>2, <1>3, <1>4, <1>5, AsideKept

LEMMA DrainSessionAgrees ==
    ASSUME Inv, Types', NEW s \in Uis, DrainSession(s)
    PROVE  Agreement'
<1>1. /\ UNCHANGED <<identity, registry, handler, online, procs, stops, armed, host, lost>>
      /\ tasks' = tasks \cup {DetachCall(s, "drain")} /\ Deliver(s, Retiring)
    BY DEF DrainSession, uiVars, work
<1>2. /\ TasksMove /\ TearDownMove
      /\ \A e \in Execs : (Late(e) => Late(e)') /\ (Waiting(e) => Waiting(e)')
    BY <1>1, DetachCallFresh, TaskAdded
<1>3. InboxMove
    BY <1>1, DeliverMoves DEF Inv, Retiring, Event
<1>4. \A u \in Uis : LeftMove(u)
    BY <1>1, DetachCallFresh, OtherDetach
<1>5. drain'.execs \subseteq drain.execs /\ drain'.late \subseteq drain.late
    <2>1. drain \in [pc : {"idle", "seal", "check", "stop", "sessions", "late", "done"},
                     execs : SUBSET Execs, wait : SUBSET Execs, sess : SUBSET Uis,
                     late : SUBSET Execs]
        BY DEF Inv, Types, TypeOK
    <2> QED
        BY <2>1 DEF DrainSession
<1>6. Ends'
    BY <1>1, <1>5, EndsSame DEF HostWork
<1> QED
    BY <1>1, <1>2, <1>3, <1>4, <1>6, AsideKept

(* scope_unhealthy names the host work that is attached to the session.    *)
LEMMA ScopeUnhealthyAgrees ==
    ASSUME Inv, Types', NEW s \in Uis, ScopeUnhealthy(s)
    PROVE  Agreement'
<1>1. /\ UNCHANGED <<identity, registry, handler, online, inbox, procs, stops, armed, host, lost, drain>>
      /\ bind' = bind /\ home' = home
    BY DEF ScopeUnhealthy, uiVars, work, identity
<1>2. PICK todo : /\ todo = {e \in OfSession(s) : ~Generic(e) /\ executions[e].control = NoExec}
                  /\ tasks' = tasks \cup {[DetachCall(s, "loss") EXCEPT !.step = "fail", !.todo = todo]}
    BY DEF ScopeUnhealthy
<1>3. \A e \in todo : e \in Execs /\ Known(e) /\ Named(e) /\ home[e] = s
    BY <1>2, ExecutionAssumption DEF OfSession, Inv, Agreement, RecordsOk, RecordOk
<1>4. PICK k : k = [DetachCall(s, "loss") EXCEPT !.step = "fail", !.todo = todo]
    OBVIOUS
<1>5. /\ k.step = "fail" /\ k.by = "loss" /\ k.sess = s /\ k.todo = todo /\ k.deferred = {}
      /\ k.exec = NoExec /\ tasks' = tasks \cup {k}
    BY <1>2, <1>4 DEF DetachCall
<1>6. TaskOk(k)' /\ \A e \in Execs : ~Mentions(k, e) \/ ~Untouched(e)
    BY <1>1, <1>3, <1>5, MenuAssumption DEF TaskOk, Mentions, Untouched, Named
<1>7. /\ TasksMove /\ TearDownMove
      /\ \A e \in Execs : (Late(e) => Late(e)') /\ (Waiting(e) => Waiting(e)')
    BY <1>5, <1>6, TaskAdded
<1>8. InboxMove
    BY <1>1, InboxSame
<1>9. \A u \in Uis : LeftMove(u)
    BY <1>1, <1>5, OtherDetach
<1>10. Ends'
    BY <1>1, EndsSame DEF HostWork
<1> QED
    BY <1>1, <1>7, <1>8, <1>9, <1>10, AsideKept

-----------------------------------------------------------------------------
(* The steps of a detach.                                                   *)

LEMMA TaskKept ==
    ASSUME Inv, NEW k \in tasks
    PROVE  k \in Task /\ TaskOk(k)
BY DEF Inv, Types, TypeOK, Agreement, TasksOk

(* The detach k goes on as l.                                              *)
LEMMA DetachGoesOn ==
    ASSUME Inv, Types', UNCHANGED <<identity, handler, online, procs>>, RegistryMove, InboxMove,
           StopsMove, CommandsKept, PhasesMove, TearDownMove,
           NEW k \in tasks, NEW l, Become(k, l), l.sess = k.sess, l.by = k.by, TaskOk(l)',
           \A e \in Execs : Mentions(l, e) => Mentions(k, e) \/ ~Untouched(e),
           k.step \in {"unlink", "state"} => l.step \in {"unlink", "state"} \/ Released(k.sess)',
           \A e \in Execs : OwnedMove(e), \A e \in Execs : DeferMove(e), Ends'
    PROVE  Agreement'
<1>1. l \in tasks' /\ (\A m \in tasks : m # k => m \in tasks') /\ (\A m \in tasks' : m \in tasks \/ m = l)
    BY DEF Become
<1>2. TasksMove
    BY <1>1 DEF TasksMove, Untouched
<1>3. ASSUME NEW u \in Uis PROVE LeftMove(u)
    <2>1. /\ online[u] # "up" => handler[u].pc = "idle"
          /\ online[u] = "gone" => \A m \in tasks : ~(m.sess = u /\ m.by = "ui")
        BY DEF Inv, Agreement, LeftOk
    <2>2. online[u] = "gone" => \A m \in tasks' : ~(m.sess = u /\ m.by = "ui")
        BY <1>1, <2>1
    <2>3. Detaching(u) => Detaching(u)' \/ Released(u)'
        <3> SUFFICES ASSUME NEW m \in tasks, m.sess = u, m.by = "ui", m.step \in {"unlink", "state"}
                     PROVE  Detaching(u)' \/ Released(u)'
            BY DEF Detaching
        <3>1. CASE m # k
            BY <1>1, <3>1 DEF Detaching
        <3>2. CASE m = k /\ l.step \in {"unlink", "state"}
            BY <1>1, <3>2 DEF Detaching
        <3>3. CASE m = k /\ Released(k.sess)'
            BY <3>3 DEF Released, OfSession, Known
        <3> QED
            BY <3>1, <3>2, <3>3
    <2> QED
        BY <2>1, <2>2, <2>3 DEF LeftMove
<1>4. ProcsMove /\ HandlersMove
    BY DEF ProcsMove, HandlersMove
<1>5. Surroundings'
    BY <1>2, <1>3, <1>4, SurroundingsKept
<1>6. Service'
    BY ServiceKept
<1> QED
    BY <1>5, <1>6, AgreementJoin

(* Nothing of the registry changes, and nothing the detach still holds is  *)
(* dropped.                                                                *)
LEMMA DetachStepsAside ==
    ASSUME Inv, Types', UNCHANGED <<identity, registry, handler, online, procs, stops, armed, host,
                                    lost, drain>>,
           InboxMove, NEW k \in tasks, NEW l, Become(k, l), l.sess = k.sess, l.by = k.by, TaskOk(l)',
           \A e \in Execs : Mentions(l, e) => Mentions(k, e),
           k.step \notin {"late", "activate"},
           k.deferred \subseteq l.deferred,
           k.step \in {"unlink", "state"} => l.step \in {"unlink", "state"},
           k.step \in {"fail", "unlink", "state"} => l.step \in {"fail", "unlink", "state"}
    PROVE  Agreement'
<1>1. /\ RegistryMove /\ \A e \in Execs : executions'[e] = executions[e]
      /\ bind' = bind /\ home' = home
    BY RegistrySame DEF identity
<1>2. StopsMove /\ CommandsKept /\ PhasesMove
    BY <1>1, StopsSame DEF CommandsKept, PhasesMove, Known
<1>3. l \in tasks' /\ (\A m \in tasks : m # k => m \in tasks')
    BY DEF Become
<1>4. TearDownMove
    BY <1>3 DEF TearDownMove, TearingDown
<1>5. \A e \in Execs : (Late(e) => Late(e)') /\ (Waiting(e) => Waiting(e)')
    BY <1>3 DEF Late, Waiting
<1>6. \A e \in Execs : OwnedMove(e)
    BY <1>1, <1>5 DEF OwnedMove, At
<1>7. \A e \in Execs : DeferMove(e)
    BY <1>1, <1>5 DEF DeferMove
<1>8. Ends'
    BY EndsSame DEF HostWork
<1> QED
    BY <1>1, <1>2, <1>4, <1>6, <1>7, <1>8, DetachGoesOn

LEMMA DetachUnlinkAgrees ==
    ASSUME Inv, Types', NEW k \in tasks, DetachUnlink(k)
    PROVE  Agreement'
<1>1. /\ UNCHANGED <<identity, registry, handler, online, procs, stops, armed, host, lost, drain>>
      /\ inbox' = inbox /\ k.step = "unlink" /\ bind' = bind
    BY DEF DetachUnlink, uiVars, work, identity
<1>2. PICK l : l = [k EXCEPT !.step = "state"] /\ Become(k, l)
    BY DEF DetachUnlink
<1>3. /\ l.sess = k.sess /\ l.by = k.by /\ l.step = "state" /\ l.todo = k.todo
      /\ l.deferred = k.deferred /\ l.exec = k.exec
    BY <1>2, TaskKept DEF Task
<1>4. TaskOk(l)' /\ \A e \in Execs : Mentions(l, e) => Mentions(k, e)
    BY <1>1, <1>3, TaskKept DEF TaskOk, Mentions, Named
<1>5. InboxMove
    BY <1>1, InboxSame
<1> QED
    BY <1>1, <1>2, <1>3, <1>4, <1>5, DetachStepsAside

LEMMA ScopeFailedAgrees ==
    ASSUME Inv, Types', NEW k \in tasks, ScopeFailed(k)
    PROVE  Agreement'
<1>1. /\ UNCHANGED <<identity, registry, handler, online, procs, stops, armed, host, lost, drain>>
      /\ inbox' = inbox /\ k.step = "fail" /\ k.todo = {} /\ bind' = bind
    BY DEF ScopeFailed, uiVars, work, identity
<1>2. PICK l : l = [k EXCEPT !.step = "unlink"] /\ Become(k, l)
    BY DEF ScopeFailed
<1>3. /\ l.sess = k.sess /\ l.by = k.by /\ l.step = "unlink" /\ l.todo = k.todo
      /\ l.deferred = k.deferred /\ l.exec = k.exec
    BY <1>2, TaskKept DEF Task
<1>4. TaskOk(l)' /\ \A e \in Execs : Mentions(l, e) => Mentions(k, e)
    BY <1>1, <1>3, TaskKept DEF TaskOk, Mentions, Named
<1>5. InboxMove
    BY <1>1, InboxSame
<1> QED
    BY <1>1, <1>2, <1>3, <1>4, <1>5, DetachStepsAside

(* A session whose scope is unhealthy is told of work that stays           *)
(* registered: it is being torn down.                                      *)
LEMMA ScopeFailAgrees ==
    ASSUME Inv, Types', NEW k \in tasks, NEW e \in Execs, ScopeFail(k, e)
    PROVE  Agreement'
<1>1. /\ UNCHANGED <<identity, registry, handler, online, procs, stops, armed, host, lost, drain>>
      /\ k.step = "fail" /\ e \in k.todo /\ bind' = bind /\ home' = home
    BY DEF ScopeFail, uiVars, work, identity
<1>2. PICK l : l = [k EXCEPT !.todo = k.todo \ {e}] /\ Become(k, l)
    BY DEF ScopeFail
<1>3. /\ l.sess = k.sess /\ l.by = k.by /\ l.step = "fail" /\ l.todo = k.todo \ {e}
      /\ l.deferred = k.deferred /\ l.exec = k.exec
    BY <1>1, <1>2, TaskKept DEF Task
<1>4. TaskOk(l)' /\ \A x \in Execs : Mentions(l, x) => Mentions(k, x)
    BY <1>1, <1>3, TaskKept DEF TaskOk, Mentions, Named
<1>5. InboxMove
    <2> DEFINE event == [exec |-> e, ok |-> FALSE]
    <2>1. event \in Event /\ event.exec = e /\ Deliver(k.sess, event)
        BY DEF Event, ScopeFail
    <2>2. PICK s \in Uis : s = k.sess /\ k.by = "loss" /\ Named(e) /\ home[e] = s
        BY <1>1, TaskKept DEF Task, TaskOk
    <2>3. TearingDown(s)'
        BY <1>2, <1>3, <2>2 DEF TearingDown, Become
    <2>4. ReportOk(s, e)'
        BY <1>1, <2>2, <2>3 DEF ReportOk, Named
    <2>5. ~Untouched(e)
        BY <1>1 DEF Untouched, Mentions
    <2> HIDE DEF event
    <2> QED
        BY <2>1, <2>2, <2>4, <2>5, DeliverMoves DEF Inv
<1> QED
    BY <1>1, <1>2, <1>3, <1>4, <1>5, DetachStepsAside

LEMMA DetachDoneAgrees ==
    ASSUME Inv, Types', NEW k \in tasks, DetachDone(k)
    PROVE  Agreement'
<1>1. /\ UNCHANGED <<identity, registry, handler, online, inbox, procs, stops, armed, host, lost, drain>>
      /\ k.step = "stops" /\ k.deferred = {} /\ tasks' = tasks \ {k}
    BY DEF DetachDone, uiVars, work
<1>2. (\A m \in tasks : m # k => m \in tasks') /\ \A m \in tasks' : m \in tasks
    BY <1>1
<1>3. TasksMove /\ TearDownMove
    BY <1>1, <1>2 DEF TasksMove, TearDownMove, TearingDown
<1>4. \A e \in Execs : (Late(e) => Late(e)') /\ (Waiting(e) => Waiting(e)')
    BY <1>1, <1>2 DEF Late, Waiting
<1>5. ASSUME NEW u \in Uis PROVE LeftMove(u)
    <2>1. /\ online[u] # "up" => handler[u].pc = "idle"
          /\ online[u] = "gone" => \A m \in tasks : ~(m.sess = u /\ m.by = "ui")
        BY DEF Inv, Agreement, LeftOk
    <2>2. Detaching(u) => Detaching(u)'
        BY <1>1, <1>2 DEF Detaching
    <2> QED
        BY <1>1, <1>2, <2>1, <2>2 DEF LeftMove
<1>6. InboxMove
    BY <1>1, InboxSame
<1>7. Ends'
    BY <1>1, EndsSame DEF HostWork
<1> QED
    BY <1>1, <1>3, <1>4, <1>5, <1>6, <1>7, AsideKept

LEMMA DetachStateAgrees ==
    ASSUME Inv, Types', NEW k \in tasks, DetachState(k)
    PROVE  Agreement'
<1>1. /\ UNCHANGED <<identity, handler, online, inbox, procs, stops, armed, host, lost, drain>>
      /\ k.step = "state" /\ bind' = bind /\ home' = home
    BY DEF DetachState, uiVars, work, identity
<1>2. PICK s \in Uis : s = k.sess
    BY TaskKept DEF Task
<1>3. ASSUME NEW e \in Execs, e \in OfSession(s)
      PROVE  /\ Known(e) /\ executions[e].session = s /\ home[e] = s /\ RecordOk(e)
             /\ Known(e)' /\ executions'[e].awaiting = FALSE /\ executions'[e].session = None
             /\ executions'[e].phase = executions[e].phase
             /\ executions'[e].deferred = executions[e].deferred
             /\ executions'[e].stopping = executions[e].stopping
    <2> DEFINE r == [executions[e] EXCEPT !.awaiting = FALSE, !.session = None]
    <2>1. executions[e] \in Record /\ Known(e) /\ executions[e].session = s
        BY <1>3 DEF OfSession, Known, Inv, Types, TypeOK
    <2>2. /\ r \in Record /\ r.awaiting = FALSE /\ r.session = None
          /\ r.phase = executions[e].phase /\ r.deferred = executions[e].deferred
          /\ r.stopping = executions[e].stopping
        BY <2>1 DEF Record
    <2>3. executions'[e] = r
        BY <1>2, <1>3 DEF DetachState
    <2>4. RecordOk(e)
        BY <2>1 DEF Inv, Agreement, RecordsOk
    <2>5. home[e] = s
        BY <2>1, <2>4, ExecutionAssumption DEF RecordOk
    <2> HIDE DEF r
    <2> QED
        BY <2>1, <2>2, <2>3, <2>4, <2>5, RecordAssumption DEF Known
<1>4. ASSUME NEW e \in Execs, e \notin OfSession(s)
      PROVE  executions'[e] = executions[e] /\ (Known(e)' <=> Known(e))
    BY <1>2, <1>4 DEF DetachState, Known
<1>5. awaiting'[s] = NoExec /\ \A u \in Uis : u # s => awaiting'[u] = awaiting[u]
    <2>1. awaiting' = [awaiting EXCEPT ![s] = NoExec] /\ awaiting \in [Uis -> Execs \cup {NoExec}]
        BY <1>2 DEF DetachState, Inv, Types, TypeOK
    <2> QED
        BY <2>1
<1>6. RegistryMove
    <2>1. ASSUME NEW e \in Execs PROVE RecordMove(e)
        <3>1. CASE e \in OfSession(s)
            BY <1>3, <3>1 DEF RecordMove
        <3>2. CASE e \notin OfSession(s)
            BY <1>4, <3>2 DEF RecordMove
        <3> QED
            BY <3>1, <3>2
    <2>2. IndexedIsAwaited'
        <3> SUFFICES ASSUME NEW u \in Uis, awaiting'[u] # NoExec
                     PROVE  /\ executions'[awaiting'[u]] # NoExec
                            /\ executions'[awaiting'[u]].awaiting
                            /\ executions'[awaiting'[u]].session = u
            BY DEF IndexedIsAwaited, Known
        <3>1. u # s /\ awaiting'[u] = awaiting[u]
            BY <1>5
        <3>2. PICK e \in Execs : e = awaiting[u]
            BY <3>1 DEF Inv, Types, TypeOK
        <3>3. Known(e) /\ executions[e].awaiting /\ executions[e].session = u
            BY <3>2, IndexedRecord
        <3>4. e \notin OfSession(s)
            BY <3>1, <3>3 DEF OfSession
        <3> QED
            BY <1>4, <3>1, <3>2, <3>3, <3>4 DEF Known
    <2> QED
        BY <1>5, <2>1, <2>2 DEF RegistryMove
<1>7. \A e \in Execs : /\ Known(e)' <=> Known(e)
                       /\ Known(e) => /\ executions'[e].phase = executions[e].phase
                                      /\ executions'[e].deferred = executions[e].deferred
                                      /\ executions'[e].stopping = executions[e].stopping
    BY <1>3, <1>4
<1>8. PICK todo, deferred :
          /\ todo = {e \in OfSession(s) : /\ executions[e].control = NoExec
                                          /\ bind[e].onControl = "cancel"
                                          /\ executions[e].cancellable}
          /\ deferred = {e \in OfSession(s) : executions[e].deferred}
          /\ Become(k, [k EXCEPT !.step = "stops", !.todo = todo, !.deferred = deferred])
    BY <1>2 DEF DetachState
<1>9. PICK l : l = [k EXCEPT !.step = "stops", !.todo = todo, !.deferred = deferred] /\ Become(k, l)
    BY <1>8
<1>10. /\ l.sess = k.sess /\ l.by = k.by /\ l.step = "stops" /\ l.todo = todo
       /\ l.deferred = deferred /\ l.exec = k.exec
    BY <1>9, TaskKept DEF Task
<1>11. /\ \A e \in todo : e \in Execs /\ Known(e) /\ Named(e) /\ bind[e].onControl = "cancel"
       /\ \A e \in deferred : e \in Execs /\ Known(e) /\ Named(e) /\ bind[e].kind = "deferred"
    BY <1>8 DEF OfSession, Inv, Agreement, RecordsOk, RecordOk
<1>12. TaskOk(l)' /\ \A e \in Execs : Mentions(l, e) => Mentions(k, e) \/ ~Untouched(e)
    BY <1>1, <1>10, <1>11 DEF TaskOk, Mentions, Named, Untouched
<1>13. l \in tasks' /\ (\A m \in tasks : m # k => m \in tasks') /\ k.deferred = {}
    BY <1>1, <1>9, TaskKept DEF Become, TaskOk
<1>14. TearDownMove
    <2> SUFFICES ASSUME NEW u \in Uis, TearingDown(u), ~TearingDown(u)', NEW e \in Execs, home[e] = u,
                        Known(e)', executions'[e].awaiting
                 PROVE  FALSE
        BY DEF TearDownMove
    <2>1. u = s
        BY <1>2, <1>13 DEF TearingDown
    <2>2. executions[e].awaiting /\ Known(e)
        BY <1>6 DEF RegistryMove, RecordMove
    <2>3. e \in OfSession(s)
        BY <2>1, <2>2 DEF OfSession, Inv, Agreement, RecordsOk, RecordOk
    <2> QED
        BY <1>3, <2>3
<1>15. \A e \in Execs : (Late(e) => Late(e)') /\ (Waiting(e) => Waiting(e)')
    BY <1>1, <1>13 DEF Late, Waiting
<1>16. \A e \in Execs : OwnedMove(e)
    BY <1>1, <1>7, <1>15 DEF OwnedMove, At
<1>17. ASSUME NEW e \in Execs PROVE DeferMove(e)
    <2>1. CASE e \in OfSession(s)
        <3>1. executions'[e].deferred => Waiting(e)'
            BY <1>3, <1>8, <1>10, <1>13, <2>1 DEF Waiting
        <3> QED
            BY <3>1 DEF DeferMove
    <2>2. CASE e \notin OfSession(s)
        BY <1>4, <1>15, <2>2 DEF DeferMove
    <2> QED
        BY <2>1, <2>2
<1>18. Released(k.sess)'
    <2>1. OfSession(s)' = {}
        <3> SUFFICES ASSUME NEW e \in Execs, Known(e)', executions'[e].session = s PROVE FALSE
            BY DEF OfSession
        <3>1. CASE e \in OfSession(s)
            BY <1>3, <3>1, ExecutionAssumption
        <3>2. CASE e \notin OfSession(s)
            BY <1>4, <3>2 DEF OfSession
        <3> QED
            BY <3>1, <3>2
    <2> QED
        BY <1>2, <1>5, <2>1 DEF Released, OfSession, Known
<1>19. InboxMove /\ StopsMove /\ CommandsKept /\ PhasesMove
    BY <1>1, <1>7, InboxSame, StopsSame DEF CommandsKept, PhasesMove
<1>20. Ends'
    BY <1>1, EndsSame DEF HostWork
<1> QED
    BY <1>1, <1>6, <1>9, <1>10, <1>12, <1>14, <1>16, <1>17, <1>18, <1>19, <1>20, DetachGoesOn

LEMMA DetachStopAgrees ==
    ASSUME Inv, Types', NEW k \in tasks, NEW e \in Execs, DetachStop(k, e)
    PROVE  Agreement'
<1>1. /\ UNCHANGED <<identity, awaiting, handler, online, inbox, procs, armed, host, lost, drain>>
      /\ k.step = "stops" /\ e \in k.todo /\ bind' = bind /\ home' = home /\ RequestStop(e, "detach")
    BY DEF DetachStop, uiVars, work, identity
<1>2. Named(e) /\ bind[e].onControl = "cancel" /\ Cancels(e)
    BY <1>1, TaskKept DEF TaskOk, Cancels
<1>3. /\ RegistryMove /\ StopsMove /\ \A x \in Execs : Keeps(x)
      /\ \A x \in Execs : Known(x)' <=> Known(x)
    BY <1>1, <1>2, RequestStopMoves
<1>4. PICK l : l = [k EXCEPT !.todo = k.todo \ {e}, !.exec = e] /\ Become(k, l)
    BY DEF DetachStop
<1>5. /\ l.sess = k.sess /\ l.by = k.by /\ l.step = "stops" /\ l.todo = k.todo \ {e}
      /\ l.deferred = k.deferred /\ l.exec = e
    BY <1>1, <1>4, TaskKept DEF Task
<1>6. TaskOk(l)' /\ \A x \in Execs : Mentions(l, x) => Mentions(k, x)
    BY <1>1, <1>5, TaskKept DEF TaskOk, Mentions, Named
<1>7. l \in tasks' /\ (\A m \in tasks : m # k => m \in tasks')
    BY <1>4 DEF Become
<1>8. TearDownMove
    BY <1>1, <1>7 DEF TearDownMove, TearingDown
<1>9. \A x \in Execs : (Late(x) => Late(x)') /\ (Waiting(x) => Waiting(x)')
    BY <1>1, <1>5, <1>7 DEF Late, Waiting
<1>10. \A x \in Execs : OwnedMove(x)
    BY <1>1, <1>3, <1>9 DEF OwnedMove, At, Keeps
<1>11. \A x \in Execs : DeferMove(x)
    BY <1>3, <1>9 DEF DeferMove, Keeps
<1>12. InboxMove /\ CommandsKept /\ PhasesMove
    BY <1>1, <1>3, InboxSame DEF CommandsKept, PhasesMove, Keeps
<1>13. Ends'
    BY <1>1, EndsSame DEF HostWork
<1> QED
    BY <1>1, <1>3, <1>4, <1>5, <1>6, <1>8, <1>10, <1>11, <1>12, <1>13, DetachGoesOn

(* The deferred action is taken by this detach, which now owns it.         *)
LEMMA DetachScheduleAgrees ==
    ASSUME Inv, Types', NEW k \in tasks, NEW e \in Execs, DetachSchedule(k, e)
    PROVE  Agreement'
<1>1. /\ UNCHANGED <<identity, awaiting, handler, online, inbox, procs, stops, armed, host, lost, drain>>
      /\ k.step = "stops" /\ k.todo = {} /\ e \in k.deferred /\ bind' = bind /\ home' = home
    BY DEF DetachSchedule, uiVars, work, identity
<1>2. Named(e) /\ bind[e].kind = "deferred"
    BY <1>1, TaskKept DEF TaskOk
<1>3. /\ RegistryMove /\ (\A x \in Execs : x # e => executions'[x] = executions[x])
      /\ Known(e)' <=> Known(e)
      /\ Known(e) => /\ ~executions'[e].deferred
                     /\ executions'[e].phase = executions[e].phase
                     /\ executions'[e].stopping = executions[e].stopping
    <2>1. CASE Known(e) /\ executions[e].deferred
        <3> DEFINE r == [executions[e] EXCEPT !.deferred = FALSE]
        <3>1. executions[e] \in Record
            BY <2>1 DEF Known, Inv, Types, TypeOK
        <3>2. /\ r \in Record /\ r.session = executions[e].session /\ r.phase = executions[e].phase
              /\ r.awaiting = executions[e].awaiting /\ r.deferred = FALSE
              /\ r.stopping = executions[e].stopping
            BY <3>1 DEF Record
        <3>3. executions' = [executions EXCEPT ![e] = r]
            BY <2>1 DEF DetachSchedule
        <3> HIDE DEF r
        <3>4. FlagsMove(e, r)
            BY <3>2, RecordAssumption DEF FlagsMove
        <3>5. /\ RegistryMove /\ executions'[e] = r
              /\ \A x \in Execs : x # e => executions'[x] = executions[x]
            BY <1>1, <2>1, <3>3, <3>4, FlagsMoves
        <3> QED
            BY <2>1, <3>2, <3>5, RecordAssumption DEF Known
    <2>2. CASE ~(Known(e) /\ executions[e].deferred)
        <3>1. UNCHANGED registry
            BY <1>1, <2>2 DEF DetachSchedule, registry
        <3> QED
            BY <2>2, <3>1, RegistrySame DEF Known
    <2> QED
        BY <2>1, <2>2
<1>4. PICK l : /\ Become(k, l) /\ l.sess = k.sess /\ l.by = k.by /\ l.todo = {}
               /\ l.deferred = k.deferred \ {e}
               /\ \/ l.step = "late" /\ l.exec = e
                  \/ l.step = "stops" /\ l.exec = k.exec /\ ~(Known(e) /\ executions[e].deferred)
    <2>1. CASE Known(e) /\ executions[e].deferred
        <3>1. PICK l : l = [k EXCEPT !.deferred = k.deferred \ {e}, !.step = "late", !.exec = e]
                       /\ Become(k, l)
            BY <2>1 DEF DetachSchedule
        <3>2. /\ l.sess = k.sess /\ l.by = k.by /\ l.todo = {} /\ l.deferred = k.deferred \ {e}
              /\ l.step = "late" /\ l.exec = e
            BY <1>1, <3>1, TaskKept DEF Task
        <3> QED
            BY <3>1, <3>2
    <2>2. CASE ~(Known(e) /\ executions[e].deferred)
        <3>1. PICK l : l = [k EXCEPT !.deferred = k.deferred \ {e}] /\ Become(k, l)
            BY <2>2 DEF DetachSchedule
        <3>2. /\ l.sess = k.sess /\ l.by = k.by /\ l.todo = {} /\ l.deferred = k.deferred \ {e}
              /\ l.step = "stops" /\ l.exec = k.exec
            BY <1>1, <3>1, TaskKept DEF Task
        <3> QED
            BY <2>2, <3>1, <3>2
    <2> QED
        BY <2>1, <2>2
<1>5. \A x \in Execs : Mentions(l, x) => Mentions(k, x)
    BY <1>1, <1>4 DEF Mentions
<1>6. TaskOk(l)'
    BY <1>1, <1>2, <1>3, <1>4, TaskKept DEF TaskOk, Named
<1>7. l \in tasks' /\ (\A m \in tasks : m # k => m \in tasks')
    BY <1>4 DEF Become
<1>8. TearDownMove
    BY <1>1, <1>7 DEF TearDownMove, TearingDown
<1>9. \A x \in Execs : (Late(x) => Late(x)') /\ (x # e => (Waiting(x) => Waiting(x)'))
    BY <1>1, <1>4, <1>7 DEF Late, Waiting
<1>10. ASSUME NEW x \in Execs PROVE OwnedMove(x)
    <2>1. CASE x # e
        BY <1>1, <1>3, <1>9, <2>1 DEF OwnedMove, At
    <2>2. CASE x = e
        <3>1. Known(e) /\ executions[e].deferred => Late(e)'
            BY <1>4, <1>7 DEF Late
        <3> QED
            BY <1>1, <1>3, <1>9, <2>2, <3>1 DEF OwnedMove, At
    <2> QED
        BY <2>1, <2>2
<1>11. \A x \in Execs : DeferMove(x)
    BY <1>3, <1>9 DEF DeferMove
<1>12. InboxMove /\ StopsMove /\ CommandsKept /\ PhasesMove
    <2>1. \A x \in Execs : Known(x)' => executions'[x].stopping = executions[x].stopping
        BY <1>3
    <2>2. CommandsKept /\ PhasesMove
        BY <1>3 DEF CommandsKept, PhasesMove, Known
    <2> QED
        BY <1>1, <2>1, <2>2, InboxSame, StopsSame
<1>13. Ends'
    BY <1>1, EndsSame DEF HostWork
<1> QED
    BY <1>1, <1>3, <1>4, <1>5, <1>6, <1>8, <1>10, <1>11, <1>12, <1>13, DetachGoesOn

(* The action that a detach dispatches late is deferred work at the host.  *)
LEMMA LateWork ==
    ASSUME Inv, NEW k \in tasks, k.step \in {"late", "activate"}, NEW e, e = k.exec
    PROVE  /\ e \in Execs /\ Named(e) /\ ~Generic(e)
           /\ Known(e) => ~executions[e].deferred
BY TaskKept DEF TaskOk, Generic

(* The detach comes back to its list.                                      *)
LEMMA LateOver ==
    ASSUME Inv, bind' = bind, home' = home, NEW k \in tasks, k.step \in {"late", "activate"}, NEW l,
           l = [k EXCEPT !.step = "stops", !.exec = NoExec], Become(k, l)
    PROVE  /\ l.sess = k.sess /\ l.by = k.by /\ l.step = "stops" /\ l.deferred = k.deferred
           /\ TaskOk(l)' /\ TearDownMove
           /\ \A e \in Execs : Mentions(l, e) => Mentions(k, e)
           /\ \A e \in Execs : (e # k.exec /\ Late(e) => Late(e)') /\ (Waiting(e) => Waiting(e)')
<1>1. /\ l.sess = k.sess /\ l.by = k.by /\ l.step = "stops" /\ l.todo = k.todo
      /\ l.deferred = k.deferred /\ l.exec = NoExec
    BY TaskKept DEF Task
<1>2. TaskOk(l)' /\ \A e \in Execs : Mentions(l, e) => Mentions(k, e)
    BY <1>1, TaskKept, MenuAssumption DEF TaskOk, Mentions, Named
<1>3. l \in tasks' /\ (\A m \in tasks : m # k => m \in tasks')
    BY DEF Become
<1>4. TearDownMove
    BY <1>3 DEF TearDownMove, TearingDown
<1>5. \A e \in Execs : (e # k.exec /\ Late(e) => Late(e)') /\ (Waiting(e) => Waiting(e)')
    BY <1>1, <1>3 DEF Late, Waiting
<1> QED
    BY <1>1, <1>2, <1>4, <1>5

LEMMA LateRefusedAgrees ==
    ASSUME Inv, Types', NEW k \in tasks, LateRefused(k)
    PROVE  Agreement'
<1>1. /\ UNCHANGED <<identity, handler, online, procs, stops, armed, host, lost, drain>>
      /\ k.step = "late" /\ bind' = bind /\ home' = home
    BY DEF LateRefused, uiVars, work, identity
<1>2. PICK e \in Execs : e = k.exec /\ Named(e) /\ ~Generic(e) /\ Finish(e, FALSE)
    BY <1>1, LateWork DEF LateRefused
<1>3. /\ RegistryMove /\ ~Known(e)' /\ InboxMove
      /\ \A x \in Execs : x # e => executions'[x] = executions[x]
    BY <1>1, <1>2, FinishMoves
<1>4. \A x \in Execs : Known(x)' => x # e /\ executions'[x] = executions[x]
    BY <1>3
<1>5. StopsMove /\ CommandsKept /\ PhasesMove
    BY <1>1, <1>2, <1>3, <1>4, StopsSame DEF CommandsKept, PhasesMove, Known
<1>6. PICK l : l = [k EXCEPT !.step = "stops", !.exec = NoExec] /\ Become(k, l)
    BY DEF LateRefused
<1>7. /\ l.sess = k.sess /\ l.by = k.by /\ TaskOk(l)' /\ TearDownMove
      /\ \A x \in Execs : Mentions(l, x) => Mentions(k, x)
      /\ \A x \in Execs : (x # e /\ Late(x) => Late(x)') /\ (Waiting(x) => Waiting(x)')
    <2>1. k.step \in {"late", "activate"} /\ bind' = bind /\ home' = home
        BY <1>1
    <2>2. /\ l.sess = k.sess /\ l.by = k.by /\ TaskOk(l)' /\ TearDownMove
          /\ \A x \in Execs : Mentions(l, x) => Mentions(k, x)
          /\ \A x \in Execs : (x # k.exec /\ Late(x) => Late(x)') /\ (Waiting(x) => Waiting(x)')
        BY <2>1, <1>6, LateOver, ZenonT(40)
    <2> QED
        BY <2>2, <1>2
<1>8. \A x \in Execs : OwnedMove(x)
    BY <1>1, <1>4, <1>7 DEF OwnedMove, At
<1>9. \A x \in Execs : DeferMove(x)
    BY <1>4, <1>7 DEF DeferMove
<1>10. Ends'
    BY <1>1, EndsSame DEF HostWork
<1> QED
    BY <1>1, <1>3, <1>5, <1>6, <1>7, <1>8, <1>9, <1>10, DetachGoesOn

LEMMA LateAcceptedAgrees ==
    ASSUME Inv, Types', NEW k \in tasks, LateAccepted(k)
    PROVE  Agreement'
<1>1. /\ UNCHANGED <<identity, handler, online, inbox, procs, stops, armed, lost, drain>>
      /\ k.step = "late" /\ bind' = bind /\ home' = home
    BY DEF LateAccepted, uiVars, identity
<1>2. PICK e \in Execs : /\ e = k.exec /\ Named(e) /\ ~Generic(e) /\ Unhook(e)
                         /\ Known(e) => ~executions[e].deferred
                         /\ host' = [host EXCEPT ![e] = "running"]
    BY <1>1, LateWork DEF LateAccepted
<1>3. /\ RegistryMove
      /\ \A x \in Execs : x # e => executions'[x] = executions[x]
      /\ Known(e)' <=> Known(e)
      /\ Known(e) => /\ executions'[e].phase = executions[e].phase
                     /\ executions'[e].deferred = executions[e].deferred
                     /\ executions'[e].stopping = executions[e].stopping
    BY <1>2, UnhookMoves
<1>4. \A x \in Execs : /\ Known(x)' <=> Known(x)
                       /\ Known(x) => /\ executions'[x].phase = executions[x].phase
                                      /\ executions'[x].deferred = executions[x].deferred
                                      /\ executions'[x].stopping = executions[x].stopping
    BY <1>3 DEF Known
<1>5. InboxMove /\ StopsMove /\ CommandsKept /\ PhasesMove
    BY <1>1, <1>4, InboxSame, StopsSame DEF CommandsKept, PhasesMove
<1>6. PICK l : l = [k EXCEPT !.step = "activate"] /\ Become(k, l)
    BY DEF LateAccepted
<1>7. /\ l.sess = k.sess /\ l.by = k.by /\ l.step = "activate" /\ l.todo = k.todo
      /\ l.deferred = k.deferred /\ l.exec = e
    BY <1>2, <1>6, TaskKept DEF Task
<1>8. \A x \in Execs : Mentions(l, x) => Mentions(k, x)
    BY <1>2, <1>7 DEF Mentions
<1>9. TaskOk(l)'
    BY <1>1, <1>2, <1>3, <1>7, TaskKept DEF TaskOk, Named
<1>10. l \in tasks' /\ (\A m \in tasks : m # k => m \in tasks')
    BY <1>6 DEF Become
<1>11. TearDownMove
    BY <1>1, <1>10 DEF TearDownMove, TearingDown
<1>12. \A x \in Execs : (Late(x) => Late(x)') /\ (Waiting(x) => Waiting(x)')
    BY <1>2, <1>7, <1>10 DEF Late, Waiting
<1>13. \A x \in Execs : OwnedMove(x)
    BY <1>1, <1>4, <1>12 DEF OwnedMove, At
<1>14. \A x \in Execs : DeferMove(x)
    BY <1>2, <1>3, <1>4, <1>12 DEF DeferMove
<1>15. Ends'
    <2>1. \A x \in Execs : HostWork(x)' => HostWork(x) \/ x = e
        BY <1>1, <1>2 DEF HostWork, Inv, Types, TypeOK
    <2> QED
        BY <1>1, <1>2, <2>1 DEF Ends, HostOk, ArmedOk, Inv, Agreement, Named, Generic
<1> QED
    BY <1>1, <1>3, <1>5, <1>6, <1>7, <1>8, <1>9, <1>11, <1>13, <1>14, <1>15, DetachGoesOn

LEMMA LateActivatedAgrees ==
    ASSUME Inv, Types', NEW k \in tasks, LateActivated(k)
    PROVE  Agreement'
<1>1. /\ UNCHANGED <<identity, handler, online, inbox, procs, stops, host, lost, drain>>
      /\ k.step = "activate" /\ bind' = bind /\ home' = home
    BY DEF LateActivated, uiVars, work, identity
<1>2. PICK e \in Execs : /\ e = k.exec /\ Named(e) /\ ~Generic(e) /\ Activate(e)
                         /\ Known(e) => ~executions[e].deferred
    BY <1>1, LateWork DEF LateActivated
<1>3. /\ RegistryMove
      /\ \A x \in Execs : x # e => executions'[x] = executions[x]
      /\ Known(e)' <=> Known(e)
      /\ Known(e) => /\ executions'[e].session = executions[e].session
                     /\ executions'[e].deferred = executions[e].deferred
                     /\ executions'[e].stopping = executions[e].stopping
                     /\ executions'[e].phase = "Adapter"
    BY <1>2, ActivateMoves
<1>4. \A x \in Execs : /\ Known(x)' <=> Known(x)
                       /\ Known(x) => /\ executions'[x].session = executions[x].session
                                      /\ executions'[x].deferred = executions[x].deferred
                                      /\ executions'[x].stopping = executions[x].stopping
                                      /\ x # e => executions'[x].phase = executions[x].phase
    BY <1>3 DEF Known
<1>5. InboxMove /\ StopsMove /\ CommandsKept
    BY <1>1, <1>4, InboxSame, StopsSame DEF CommandsKept
<1>6. PhasesMove
    BY <1>3, <1>4 DEF PhasesMove
<1>7. PICK l : l = [k EXCEPT !.step = "stops", !.exec = NoExec] /\ Become(k, l)
    BY DEF LateActivated
<1>8. /\ l.sess = k.sess /\ l.by = k.by /\ TaskOk(l)' /\ TearDownMove
      /\ \A x \in Execs : Mentions(l, x) => Mentions(k, x)
      /\ \A x \in Execs : (x # e /\ Late(x) => Late(x)') /\ (Waiting(x) => Waiting(x)')
    <2>1. k.step \in {"late", "activate"} /\ bind' = bind /\ home' = home
        BY <1>1
    <2>2. /\ l.sess = k.sess /\ l.by = k.by /\ TaskOk(l)' /\ TearDownMove
          /\ \A x \in Execs : Mentions(l, x) => Mentions(k, x)
          /\ \A x \in Execs : (x # k.exec /\ Late(x) => Late(x)') /\ (Waiting(x) => Waiting(x)')
        BY <2>1, <1>7, LateOver, ZenonT(40)
    <2> QED
        BY <2>2, <1>2
<1>9. \A x \in Execs : OwnedMove(x)
    BY <1>1, <1>3, <1>4, <1>8 DEF OwnedMove, At
<1>10. \A x \in Execs : DeferMove(x)
    BY <1>4, <1>8 DEF DeferMove
<1>11. Ends'
    <2>1. \A x \in Execs : armed'[x] # "none" =>
              armed'[x] = armed[x] \/ (x = e /\ armed'[x] = bind[e].onTimeout)
        BY <1>2 DEF Activate, Inv, Types, TypeOK
    <2> QED
        BY <1>1, <1>2, <2>1 DEF Ends, HostOk, HostWork, ArmedOk, Inv, Agreement, Named, Generic
<1> QED
    BY <1>1, <1>3, <1>5, <1>6, <1>7, <1>8, <1>9, <1>10, <1>11, DetachGoesOn

-----------------------------------------------------------------------------
(* The steps: menu controls and the stops they ask for.                     *)

(* The handler of s takes up a control, or answers one.                    *)
Asking(s) ==
    /\ \A u \in Uis : u # s => handler'[u] = handler[u]
    /\ handler[s].pc \in {"idle", "reserve", "control"}
    /\ \/ handler'[s].pc = "idle"
       \/ /\ handler'[s].pc = "control" /\ online[s] = "up" /\ handler'[s].exec \in Execs
          /\ Named(handler'[s].exec) /\ home[handler'[s].exec] = s

LEMMA AskingSurroundings ==
    ASSUME Inv, Types', UNCHANGED <<identity, inbox, tasks, online, procs>>, RegistryMove, StopsMove,
           NEW s \in Uis, Asking(s),
           \A e \in Execs : Known(e)' /\ executions'[e].deferred =>
                                executions'[e].session = executions[e].session
    PROVE  Surroundings'
<1>1. HandlersMove /\ ProcsMove
    BY DEF HandlersMove, Asking, ProcsMove
<1>2. TasksMove /\ TearDownMove /\ InboxMove
    BY TasksSame, InboxSame
<1>3. \A e \in Execs : DeferMove(e)
    BY TasksSame DEF DeferMove
<1>4. ASSUME NEW u \in Uis PROVE LeftMove(u)
    <2>1. /\ online[u] # "up" => handler[u].pc = "idle"
          /\ online[u] = "gone" => \A k \in tasks : ~(k.sess = u /\ k.by = "ui")
        BY DEF Inv, Agreement, LeftOk
    <2>2. online[u] # "up" => handler'[u].pc = "idle"
        BY <2>1 DEF Asking
    <2> QED
        BY <2>1, <2>2, TasksSame DEF LeftMove
<1> QED
    BY <1>1, <1>2, <1>3, <1>4, SurroundingsKept

LEMMA AskingService ==
    ASSUME Inv, UNCHANGED <<identity, tasks, procs>>, RegistryMove, NEW s \in Uis, Asking(s),
           \A e \in Execs : Known(e)' <=> Known(e),
           \A e \in Execs : Known(e)' => /\ executions'[e].phase = executions[e].phase
                                         /\ executions'[e].deferred = executions[e].deferred
    PROVE  Service'
<1>0. bind' = bind /\ home' = home
    BY DEF identity
<1>1. ASSUME NEW u \in Uis PROVE HandlerOk(u)'
    <2>1. HandlerOk(u)
        BY DEF Inv, Agreement, HandlersOk
    <2>2. CASE u # s
        <3>1. handler'[u] = handler[u]
            BY <2>2 DEF Asking
        <3>2. handler[u].pc = "dispatch" /\ Generic(handler[u].exec) =>
                  Known(handler[u].exec) /\ executions'[handler[u].exec] # NoExec
            BY <2>1 DEF HandlerOk, Known
        <3> QED
            BY <1>0, <2>1, <3>1, <3>2 DEF HandlerOk, Known, Generic, Named
    <2>3. CASE u = s
        BY <1>0, <2>3 DEF HandlerOk, Asking, Named
    <2> QED
        BY <2>2, <2>3
<1>2. ASSUME NEW x \in Execs, NEW pcs, pcs \cap {"idle", "reserve", "control"} = {},
             Known(x), At(x, pcs)
      PROVE  At(x, pcs)'
    <2>1. home[x] \in Uis
        BY <1>2 DEF Inv, Agreement, RecordsOk, RecordOk, NamedHome
    <2>2. home[x] # s
        BY <1>2 DEF At, Asking
    <2> QED
        BY <1>0, <1>2, <2>1, <2>2 DEF At, Asking
<1>3. ASSUME NEW x \in Execs PROVE ChildOk(x)'
    <2>1. ChildOk(x)
        BY DEF Inv, Agreement, ChildrenOk
    <2>2. Known(x) /\ Generic(x) /\ x \notin procs => At(x, {"dispatch"})'
        BY <1>2, <2>1 DEF ChildOk
    <2> QED
        BY <1>0, <2>1, <2>2 DEF ChildOk, Generic, Named
<1>4. ASSUME NEW x \in Execs PROVE OwnedMove(x)
    <2>1. Known(x) /\ At(x, Dispatching) => At(x, Dispatching)'
        BY <1>2 DEF Dispatching
    <2> QED
        BY <2>1, TasksSame DEF OwnedMove
<1> QED
    BY <1>1, <1>3, <1>4, OwnedKept DEF Service, HandlersOk, ChildrenOk

(* Who waits for the answer to a stop that a control asked for.            *)
LEMMA ControlServed ==
    ASSUME Inv, NEW e \in Execs, stops[e] = "control"
    PROVE  home[e] \in Uis /\ handler[home[e]].pc = "control" /\ handler[home[e]].exec = e
BY DEF Inv, Agreement, StopsOk, StopOk, At, NamedHome

(* A stop is answered.                                                     *)
LEMMA StopAnswered ==
    ASSUME Inv, UNCHANGED identity, NEW e \in Execs, stops' = [stops EXCEPT ![e] = "none"],
           NEW s \in Uis, \A u \in Uis : u # s => handler'[u] = handler[u],
           handler' = handler \/ handler[s].exec = e,
           \A x \in Execs : x # e => executions'[x] = executions[x]
    PROVE  StopsMove
<1> SUFFICES ASSUME NEW x \in Execs, stops'[x] # "none" PROVE StopMove(x)
    BY DEF StopsMove, StopMove
<1>1. x # e /\ stops'[x] = stops[x]
    BY DEF Inv, Types, TypeOK
<1>2. stops[x] = "control" => handler'[home[x]] = handler[home[x]]
    BY <1>1, ControlServed
<1> QED
    BY <1>1, <1>2 DEF StopMove

LEMMA StopAcceptedAgrees ==
    ASSUME Inv, Types', NEW e \in Execs, StopAccepted(e)
    PROVE  Agreement'
<1>1. /\ UNCHANGED <<identity, registry, online, inbox, host, procs, armed, tasks, lost, drain>>
      /\ stops' = [stops EXCEPT ![e] = "none"]
    BY DEF StopAccepted, uiVars, Confirmed, Answer
<1>2. RegistryMove /\ \A x \in Execs : executions'[x] = executions[x] /\ (Known(x)' <=> Known(x))
    BY <1>1, RegistrySame DEF Known
<1>3. Ends'
    BY <1>1, EndsSame DEF HostWork
<1>4. StopOk(e) /\ home[e] \in Uis
    BY DEF StopAccepted, Inv, Agreement, StopsOk, StopOk, NamedHome
<1>5. PICK s \in Uis : s = home[e]
    BY <1>4
<1>6. CASE stops[e] = "control"
    <2>1. handler[s].pc = "control" /\ handler[s].exec = e
        BY <1>5, <1>6, ControlServed
    <2>2. handler' = [handler EXCEPT ![s] = Idle]
        BY <1>5, <1>6 DEF StopAccepted, Confirmed, Answer
    <2>3. handler'[s].pc = "idle" /\ \A u \in Uis : u # s => handler'[u] = handler[u]
        BY <2>2 DEF Idle, Inv, Types, TypeOK
    <2>4. Asking(s)
        BY <2>1, <2>3 DEF Asking
    <2>5. StopsMove
        BY <1>1, <1>2, <2>1, <2>3, StopAnswered
    <2>6. Surroundings'
        BY <1>1, <1>2, <2>4, <2>5, AskingSurroundings
    <2>7. Service'
        BY <1>1, <1>2, <2>4, AskingService
    <2> QED
        BY <1>3, <2>6, <2>7, AgreementJoin
<1>7. CASE stops[e] # "control"
    <2>1. handler' = handler
        BY <1>7 DEF StopAccepted, uiVars
    <2>2. StopsMove
        BY <1>1, <1>2, <1>5, <2>1, StopAnswered
    <2>3. InboxMove /\ ProcsMove /\ CommandsKept
        BY <1>1, <1>2, InboxSame DEF ProcsMove, CommandsKept
    <2>4. Surroundings'
        BY <1>1, <1>2, <2>1, <2>2, <2>3, QuietSurroundings
    <2>5. Service'
        BY <1>1, <1>2, <2>1, <2>3, QuietService
    <2> QED
        BY <1>3, <2>4, <2>5, AgreementJoin
<1> QED
    BY <1>6, <1>7

LEMMA StopRefusedAgrees ==
    ASSUME Inv, Types', NEW e \in Execs, StopRefused(e)
    PROVE  Agreement'
<1>1. /\ UNCHANGED <<identity, awaiting, online, inbox, host, procs, armed, tasks, lost>>
      /\ stops' = [stops EXCEPT ![e] = "none"]
    BY DEF StopRefused, uiVars, Confirmed, Refuse, Answer, work
<1>2. /\ RegistryMove /\ (\A x \in Execs : x # e => executions'[x] = executions[x])
      /\ Known(e)' <=> Known(e)
      /\ Known(e) => /\ executions'[e].session = executions[e].session
                     /\ executions'[e].phase = executions[e].phase
                     /\ executions'[e].deferred = executions[e].deferred
    <2>1. CASE ~Known(e) \/ stops[e] = "deadline"
        <3>1. executions' = executions
            <4>1. executions' = [executions EXCEPT ![e] = executions[e]]
                BY <2>1 DEF StopRefused
            <4> QED
                BY <4>1 DEF Inv, Types, TypeOK
        <3>2. UNCHANGED registry
            BY <1>1, <3>1 DEF registry
        <3> QED
            BY <3>1, <3>2, RegistrySame DEF Known
    <2>2. CASE ~(~Known(e) \/ stops[e] = "deadline")
        <3> DEFINE still == stops[e] = "control" /\ awaiting[home[e]] = e
                   c == IF still THEN NoExec ELSE executions[e].control
                   r == [[executions[e] EXCEPT !.stopping = FALSE] EXCEPT !.control = c]
        <3>1. executions[e] \in Record /\ Known(e)
            BY <2>2 DEF Known, Inv, Types, TypeOK
        <3>2. c \in Controls \cup {NoExec}
            BY <3>1 DEF Record
        <3>3. executions' = [executions EXCEPT ![e] = r]
            BY <2>2, <3>1 DEF StopRefused, Record
        <3> HIDE DEF c
        <3>4. /\ r \in Record /\ r.session = executions[e].session /\ r.phase = executions[e].phase
              /\ r.awaiting = executions[e].awaiting /\ r.deferred = executions[e].deferred
              /\ r.stopping = FALSE
            BY <3>1, <3>2 DEF Record
        <3> HIDE DEF r
        <3>5. FlagsMove(e, r)
            BY <3>4, RecordAssumption DEF FlagsMove
        <3>6. /\ RegistryMove /\ executions'[e] = r
              /\ \A x \in Execs : x # e => executions'[x] = executions[x]
            BY <1>1, <3>1, <3>3, <3>5, FlagsMoves
        <3> QED
            BY <3>1, <3>4, <3>6, RecordAssumption DEF Known
    <2> QED
        BY <2>1, <2>2
<1>3. \A x \in Execs : /\ Known(x)' <=> Known(x)
                       /\ Known(x)' => /\ executions'[x].session = executions[x].session
                                       /\ executions'[x].phase = executions[x].phase
                                       /\ executions'[x].deferred = executions[x].deferred
    BY <1>2 DEF Known
<1>4. Ends'
    <2>1. drain' = drain \/ drain' = NoDrain
        BY DEF StopRefused
    <2>2. drain'.execs \subseteq drain.execs /\ drain'.late \subseteq drain.late
        <3>1. CASE drain' = drain
            BY <3>1
        <3>2. CASE drain' = NoDrain
            BY <3>2 DEF NoDrain
        <3> QED
            BY <2>1, <3>1, <3>2
    <2> QED
        BY <1>1, <2>2, EndsSame DEF HostWork
<1>5. StopOk(e) /\ home[e] \in Uis
    BY DEF StopRefused, Inv, Agreement, StopsOk, StopOk, NamedHome
<1>6. PICK s \in Uis : s = home[e]
    BY <1>5
<1>7. CASE stops[e] = "control"
    <2>1. handler[s].pc = "control" /\ handler[s].exec = e
        BY <1>6, <1>7, ControlServed
    <2>2. handler' = [handler EXCEPT ![s] = Idle]
        BY <1>6, <1>7 DEF StopRefused, Confirmed, Refuse, Answer
    <2>3. handler'[s].pc = "idle" /\ \A u \in Uis : u # s => handler'[u] = handler[u]
        BY <2>2 DEF Idle, Inv, Types, TypeOK
    <2>4. Asking(s)
        BY <2>1, <2>3 DEF Asking
    <2>5. StopsMove
        BY <1>1, <1>2, <2>1, <2>3, StopAnswered
    <2>6. Surroundings'
        BY <1>1, <1>2, <1>3, <2>4, <2>5, AskingSurroundings
    <2>7. Service'
        BY <1>1, <1>2, <1>3, <2>4, AskingService
    <2> QED
        BY <1>4, <2>6, <2>7, AgreementJoin
<1>8. CASE stops[e] # "control"
    <2>1. handler' = handler
        BY <1>8 DEF StopRefused, uiVars
    <2>2. StopsMove
        BY <1>1, <1>2, <1>6, <2>1, StopAnswered
    <2>3. InboxMove /\ ProcsMove /\ CommandsKept
        BY <1>1, <1>3, InboxSame DEF ProcsMove, CommandsKept
    <2>4. Surroundings'
        BY <1>1, <1>2, <1>3, <2>1, <2>2, <2>3, QuietSurroundings
    <2>5. Service'
        BY <1>1, <1>2, <1>3, <2>1, <2>3, QuietService
    <2> QED
        BY <1>4, <2>4, <2>5, AgreementJoin
<1> QED
    BY <1>7, <1>8

(* A control that needs no stop of its own.                                *)
LEMMA ControlAtOnce ==
    ASSUME Inv, Types', UNCHANGED <<identity, awaiting, online, inbox, host, procs, armed, tasks, lost,
                                    drain, stops>>,
           NEW s \in Uis, handler[s].pc = "idle", handler'[s].pc = "idle",
           \A u \in Uis : u # s => handler'[u] = handler[u],
           RegistryMove, \A x \in Execs : Keeps(x) /\ (Known(x)' <=> Known(x)),
           \A x \in Execs : Known(x)' => executions'[x].stopping = executions[x].stopping
    PROVE  Agreement'
<1>1. Asking(s)
    BY DEF Asking
<1>2. \A x \in Execs : stops[x] = "control" => handler'[home[x]] = handler[home[x]]
    BY ControlServed
<1>3. StopsMove
    BY <1>2, StopsSame
<1>4. Surroundings'
    BY <1>1, <1>3, AskingSurroundings DEF Keeps
<1>5. Service'
    BY <1>1, AskingService DEF Keeps
<1>6. Ends'
    BY EndsSame DEF HostWork
<1> QED
    BY <1>4, <1>5, <1>6, AgreementJoin

LEMMA ControlAgrees ==
    ASSUME Inv, Types', NEW s \in Uis, NEW c \in Controls, Control(s, c)
    PROVE  Agreement'
<1>1. /\ UNCHANGED <<identity, awaiting, online, inbox, host, procs, armed, tasks, lost, drain>>
      /\ bind' = bind /\ home' = home /\ handler[s].pc = "idle" /\ online[s] = "up"
      /\ awaiting \in [Uis -> Execs \cup {NoExec}] /\ handler \in [Uis -> Handler]
    BY DEF Control, Ready, Answer, work, identity, Inv, Types, TypeOK
<1>2. Ends'
    BY <1>1, EndsSame DEF HostWork
<1>3. ASSUME handler' = [handler EXCEPT ![s] = Idle]
      PROVE  handler'[s].pc = "idle" /\ \A u \in Uis : u # s => handler'[u] = handler[u]
    BY <1>1, <1>3 DEF Idle
<1>4. CASE executions' = executions
    <2>1. stops' = stops /\ handler' = [handler EXCEPT ![s] = Idle]
        <3>1. CASE stops' = stops /\ handler' = [handler EXCEPT ![s] = Idle]
            BY <3>1
        <3>2. CASE ~(stops' = stops /\ handler' = [handler EXCEPT ![s] = Idle])
            <4>1. PICK e \in Execs : /\ e = awaiting[s]
                                     /\ executions' = [executions EXCEPT ![e].control = c,
                                                                         ![e].stopping = TRUE]
                                     /\ executions[e].control = NoExec
                BY <1>1, <3>2 DEF Control, Answer
            <4>2. executions[e] \in Record /\ executions[e].control = NoExec
                BY <4>1, IndexedRecord DEF Known, Inv, Types, TypeOK
            <4>3. executions'[e] = [[executions[e] EXCEPT !.control = c] EXCEPT !.stopping = TRUE]
                BY <4>1 DEF Inv, Types, TypeOK
            <4>4. executions'[e].control = c
                BY <4>2, <4>3 DEF Record
            <4> QED
                BY <1>4, <4>2, <4>4, MenuAssumption
        <3> QED
            BY <3>1, <3>2
    <2>2. UNCHANGED registry
        BY <1>1, <1>4 DEF registry
    <2>3. RegistryMove /\ \A x \in Execs : executions'[x] = executions[x]
        BY <2>2, RegistrySame
    <2>4. \A x \in Execs : Keeps(x) /\ (Known(x)' <=> Known(x))
        BY <1>4 DEF Keeps, Known
    <2> QED
        BY <1>1, <1>3, <2>1, <2>3, <2>4, ControlAtOnce
<1>5. CASE executions' # executions
    <2>1. PICK e \in Execs : e = awaiting[s] /\ executions[e].control = NoExec
        BY <1>1, <1>5 DEF Control
    <2>2. /\ Known(e) /\ executions[e].awaiting /\ executions[e].session = s
          /\ executions[e] \in Record /\ RecordOk(e) /\ Named(e) /\ home[e] = s
        BY <2>1, IndexedRecord DEF Known, Inv, Types, TypeOK, Agreement, RecordsOk, RecordOk
    <2>3. CASE bind[e].onControl = "detach"
        <3> DEFINE r == [executions[e] EXCEPT !.control = c]
        <3>1. /\ executions' = [executions EXCEPT ![e] = r] /\ stops' = stops
              /\ handler' = [handler EXCEPT ![s] = Idle]
            BY <1>5, <2>1, <2>3, MenuAssumption DEF Control, Answer
        <3>2. /\ r \in Record /\ r.session = executions[e].session /\ r.phase = executions[e].phase
              /\ r.awaiting = executions[e].awaiting /\ r.deferred = executions[e].deferred
              /\ r.stopping = executions[e].stopping
            BY <2>2 DEF Record
        <3> HIDE DEF r
        <3>3. FlagsMove(e, r)
            BY <3>2, RecordAssumption DEF FlagsMove
        <3>4. /\ RegistryMove /\ executions'[e] = r
              /\ \A x \in Execs : x # e => executions'[x] = executions[x]
            BY <1>1, <2>2, <3>1, <3>3, FlagsMoves
        <3>5. \A x \in Execs : /\ Keeps(x) /\ (Known(x)' <=> Known(x))
                               /\ Known(x)' => executions'[x].stopping = executions[x].stopping
            BY <2>2, <3>2, <3>4, RecordAssumption DEF Keeps, Known
        <3> QED
            BY <1>1, <1>3, <3>1, <3>4, <3>5, ControlAtOnce
    <2>4. CASE bind[e].onControl # "detach"
        <3> DEFINE r == [[executions[e] EXCEPT !.control = c] EXCEPT !.stopping = TRUE]
        <3>1. executions' = [executions EXCEPT ![e] = r]
            BY <1>5, <2>1, <2>4, MenuAssumption DEF Control
        <3>2. /\ r \in Record /\ r.session = executions[e].session /\ r.phase = executions[e].phase
              /\ r.awaiting = executions[e].awaiting /\ r.deferred = executions[e].deferred
              /\ r.stopping = TRUE
            BY <2>2 DEF Record
        <3>3. Cancels(e)
            BY <2>2, <2>4, BindingTyped DEF Inv, Cancels, Binding
        <3> HIDE DEF r
        <3>4. FlagsMove(e, r)
            BY <3>2, <3>3, RecordAssumption DEF FlagsMove
        <3>5. /\ RegistryMove /\ executions'[e] = r
              /\ \A x \in Execs : x # e => executions'[x] = executions[x]
            BY <1>1, <2>2, <3>1, <3>4, FlagsMoves
        <3>6. \A x \in Execs : Keeps(x) /\ (Known(x)' <=> Known(x))
            BY <2>2, <3>2, <3>5, RecordAssumption DEF Keeps, Known
        <3>7. CASE ~StopNeeded(e)
            <4>1. stops' = stops /\ handler' = handler /\ executions[e].stopping
                BY <1>5, <2>1, <2>2, <2>4, <3>7, MenuAssumption DEF Control, StopNeeded
            <4>2. \A x \in Execs : Known(x)' => executions'[x].stopping = executions[x].stopping
                BY <2>2, <3>2, <3>5, <4>1 DEF Record
            <4> QED
                BY <1>1, <3>5, <3>6, <4>1, <4>2, ControlAtOnce
        <3>8. CASE StopNeeded(e)
            <4>1. /\ stops' = [stops EXCEPT ![e] = "control"]
                  /\ handler' = [handler EXCEPT ![s] = [pc |-> "control", exec |-> e,
                                                        awaited |-> TRUE]]
                BY <1>5, <2>1, <2>4, <3>8, MenuAssumption DEF Control
            <4>2. /\ handler'[s].pc = "control" /\ handler'[s].exec = e
                  /\ \A u \in Uis : u # s => handler'[u] = handler[u]
                BY <1>1, <4>1
            <4>3. Asking(s)
                BY <1>1, <2>2, <4>2 DEF Asking
            <4>4. ASSUME NEW x \in Execs PROVE StopMove(x)
                <5>1. CASE x = e
                    <6>1. StopOk(e)'
                        BY <1>1, <2>2, <3>2, <3>3, <3>5, <4>2 DEF StopOk, Named, Generic, Cancels, At
                    <6> QED
                        BY <2>2, <5>1, <6>1 DEF StopMove
                <5>2. CASE x # e
                    <6>1. stops'[x] = stops[x] /\ executions'[x] = executions[x]
                        BY <3>5, <4>1, <5>2 DEF Inv, Types, TypeOK
                    <6>2. stops[x] = "control" => handler'[home[x]] = handler[home[x]]
                        BY <1>1, <4>2, ControlServed
                    <6> QED
                        BY <6>1, <6>2 DEF StopMove
                <5> QED
                    BY <5>1, <5>2
            <4>5. StopsMove
                BY <4>4 DEF StopsMove
            <4>6. Surroundings'
                BY <1>1, <3>5, <3>6, <4>3, <4>5, AskingSurroundings DEF Keeps
            <4>7. Service'
                BY <1>1, <3>5, <3>6, <4>3, AskingService DEF Keeps
            <4> QED
                BY <1>2, <4>6, <4>7, AgreementJoin
        <3> QED
            BY <3>7, <3>8
    <2> QED
        BY <2>3, <2>4
<1> QED
    BY <1>4, <1>5

-----------------------------------------------------------------------------
(* The steps: an invocation starts.                                         *)

(* reserve_execution adds the record of an execution that nothing else     *)
(* knows of yet.                                                           *)
LEMMA Reserved ==
    ASSUME Inv, UNCHANGED <<identity, inbox, tasks, stops, online, procs, host, armed, lost, drain>>,
           NEW s \in Uis, handler[s].pc = "reserve", NEW e \in Execs, e = handler[s].exec,
           NEW r \in Record, r = NewRecord(s, bind[e]),
           executions' = [executions EXCEPT ![e] = r],
           awaiting' = [awaiting EXCEPT ![s] = IF bind[e].mode = "await" THEN e ELSE awaiting[s]],
           \A u \in Uis : u # s => handler'[u] = handler[u],
           \/ bind[e].kind = "deferred" /\ handler'[s].pc = "idle"
           \/ /\ bind[e].kind # "deferred" /\ handler'[s].pc = "dispatch"
              /\ handler'[s].exec = e
    PROVE  Agreement'
<1>1. /\ Untouched(e) /\ Named(e) /\ home[e] = s /\ bind' = bind /\ home' = home
      /\ e \notin procs /\ stops[e] = "none" /\ ~Known(e)
    BY Served DEF Inv, Agreement, UntouchedUntilReserved, Untouched, identity
<1>2. /\ executions'[e] = r /\ Known(e)'
      /\ \A x \in Execs : x # e => executions'[x] = executions[x] /\ (Known(x)' <=> Known(x))
    BY RecordAssumption DEF Known, Inv, Types, TypeOK
<1>3. /\ r.session = s /\ r.awaiting = (bind[e].mode = "await") /\ r.phase = "Reserved"
      /\ r.deferred = (bind[e].kind = "deferred") /\ r.stopping = FALSE
    BY DEF NewRecord
<1>4. online[s] = "up"
    BY DEF Inv, Agreement, LeftOk
<1>5. NamedHome'
    BY <1>1 DEF Inv, Agreement, NamedHome, Named
<1>6. ASSUME NEW x \in Execs, Known(x)' PROVE RecordOk(x)'
    <2>1. CASE x = e
        BY <1>1, <1>2, <1>3, <2>1 DEF RecordOk, Named, Generic
    <2>2. CASE x # e
        <3>1. RecordOk(x) /\ executions'[x] = executions[x]
            BY <1>2, <1>6, <2>2 DEF Inv, Agreement, RecordsOk
        <3> QED
            BY <1>1, <3>1 DEF RecordOk, Named, Generic, Cancels
    <2> QED
        BY <2>1, <2>2
<1>7. ASSUME NEW x \in Execs, x # e, Untouched(x) PROVE Untouched(x)'
    BY <1>2, <1>7 DEF Untouched
<1>8. UntouchedUntilReserved'
    <2>1. ASSUME NEW x \in Execs, ~Named(x)' PROVE Untouched(x)'
        BY <1>1, <1>7, <2>1 DEF Inv, Agreement, UntouchedUntilReserved, Named
    <2>2. ASSUME NEW u \in Uis, handler'[u].pc = "reserve" PROVE Untouched(handler[u].exec)'
        <3>1. u # s /\ handler'[u] = handler[u] /\ handler[u].pc = "reserve"
            BY <2>2
        <3>2. PICK x \in Execs : x = handler[u].exec /\ home[x] = u
            BY <3>1, Served
        <3>3. Untouched(x) /\ x # e
            BY <1>1, <3>1, <3>2 DEF Inv, Agreement, UntouchedUntilReserved
        <3>4. Untouched(x)' /\ handler'[u].exec = x
            BY <1>7, <3>1, <3>2, <3>3
        <3> QED
            BY <3>4 DEF Untouched, Known
    <2> QED
        BY <2>1, <2>2 DEF UntouchedUntilReserved
<1>9. DeferredKept'
    <2> SUFFICES ASSUME NEW x \in Execs, Known(x)', executions'[x].deferred
                 PROVE  executions'[x].session = home[x] \/ Waiting(x)'
        BY <1>1 DEF DeferredKept
    <2>1. CASE x = e
        BY <1>1, <1>2, <1>3, <2>1
    <2>2. CASE x # e
        BY <1>2, <2>2, TasksSame DEF Inv, Agreement, DeferredKept
    <2> QED
        BY <2>1, <2>2
<1>10. LeftOk'
    <2> SUFFICES ASSUME NEW u \in Uis, online[u] # "up"
                 PROVE  /\ handler'[u].pc = "idle" /\ (Detaching(u)' \/ Released(u)')
                        /\ online[u] = "gone" => \A k \in tasks : ~(k.sess = u /\ k.by = "ui")
        BY DEF LeftOk
    <2>1. /\ handler[u].pc = "idle" /\ (Detaching(u) \/ Released(u)) /\ u # s
          /\ online[u] = "gone" => \A k \in tasks : ~(k.sess = u /\ k.by = "ui")
        BY <1>4 DEF Inv, Agreement, LeftOk
    <2>2. Released(u) => Released(u)'
        <3> SUFFICES ASSUME Released(u) PROVE Released(u)'
            OBVIOUS
        <3>1. awaiting'[u] = NoExec
            BY <2>1 DEF Released, Inv, Types, TypeOK
        <3>2. ASSUME NEW x \in Execs, Known(x)', executions'[x].session = u PROVE FALSE
            BY <1>2, <1>3, <2>1, <3>2 DEF Released, OfSession
        <3> QED
            BY <3>1, <3>2 DEF Released, OfSession
    <2> QED
        BY <2>1, <2>2, TasksSame
<1>11. ReportsOk'
    <2> SUFFICES ASSUME NEW u \in Uis, NEW i \in DOMAIN inbox[u], inbox[u][i] # Retiring
                 PROVE  ReportOk(u, inbox[u][i].exec)'
        BY DEF ReportsOk
    <2>1. PICK x \in Execs : x = inbox[u][i].exec /\ ReportOk(u, x) /\ x # e
        BY <1>1 DEF Inv, Agreement, ReportsOk, ReportOk, Untouched
    <2>2. TearingDown(u)' <=> TearingDown(u)
        BY DEF TearingDown
    <2>3. ReportOk(u, x)'
        BY <1>1, <1>2, <2>1, <2>2 DEF ReportOk, Named
    <2>4. inbox'[u][i].exec = x
        BY <2>1
    <2> QED
        BY <2>3, <2>4 DEF ReportOk, Known, Named
<1>12. TasksOk'
    <2> SUFFICES ASSUME NEW k \in tasks PROVE TaskOk(k)'
        BY DEF TasksOk
    <2>1. TaskOk(k) /\ k.exec # e
        BY <1>1 DEF Inv, Agreement, TasksOk, Untouched, Mentions
    <2>2. k.step \in {"late", "activate"} => (Known(k.exec)' => ~executions'[k.exec].deferred)
        BY <1>2, <2>1 DEF TaskOk
    <2> QED
        BY <1>1, <2>1, <2>2 DEF TaskOk, Named
<1>13. StopsOk'
    <2> SUFFICES ASSUME NEW x \in Execs, stops[x] # "none" PROVE StopOk(x)'
        BY DEF StopsOk
    <2>1. StopOk(x) /\ x # e /\ executions'[x] = executions[x] /\ (Known(x)' <=> Known(x))
        BY <1>1, <1>2 DEF Inv, Agreement, StopsOk
    <2>2. stops[x] = "control" => At(x, {"control"})'
        <3> SUFFICES ASSUME stops[x] = "control" PROVE At(x, {"control"})'
            OBVIOUS
        <3>1. home[x] \in Uis /\ home[x] # s
            BY ControlServed
        <3> QED
            BY <1>1, <2>1, <3>1 DEF StopOk, At
    <2> QED
        BY <1>1, <2>1, <2>2 DEF StopOk, Named, Generic, Cancels
<1>14. IndexedIsAwaited'
    <2> SUFFICES ASSUME NEW u \in Uis, awaiting'[u] # NoExec
                 PROVE  /\ executions'[awaiting'[u]] # NoExec
                        /\ executions'[awaiting'[u]].awaiting
                        /\ executions'[awaiting'[u]].session = u
        BY DEF IndexedIsAwaited, Known
    <2>1. awaiting \in [Uis -> Execs \cup {NoExec}]
        BY DEF Inv, Types, TypeOK
    <2>2. CASE u = s /\ bind[e].mode = "await"
        <3>1. awaiting'[u] = e
            BY <2>1, <2>2
        <3>2. executions'[e] = r
            BY <1>2
        <3>3. r # NoExec /\ r.awaiting /\ r.session = u
            BY <1>2, <1>3, <2>2 DEF Known
        <3> QED
            BY <3>1, <3>2, <3>3
    <2>3. CASE ~(u = s /\ bind[e].mode = "await")
        <3>1. awaiting'[u] = awaiting[u]
            BY <2>1, <2>3
        <3>2. PICK x \in Execs : x = awaiting[u]
            BY <2>1, <3>1
        <3>3. Known(x) /\ executions[x].awaiting /\ executions[x].session = u
            BY <3>2, IndexedRecord
        <3> QED
            BY <1>1, <1>2, <3>1, <3>2, <3>3 DEF Known
    <2> QED
        BY <2>2, <2>3
<1>15. ASSUME NEW x \in Execs, NEW pcs, "reserve" \notin pcs, Known(x), At(x, pcs)
       PROVE  At(x, pcs)'
    <2>1. home[x] \in Uis /\ home[x] # s
        BY <1>15 DEF At, Inv, Agreement, RecordsOk, RecordOk, NamedHome
    <2> QED
        BY <1>1, <1>15, <2>1 DEF At
<1>16. ASSUME NEW u \in Uis PROVE HandlerOk(u)'
    <2>1. CASE u = s
        BY <1>1, <1>2, <2>1 DEF HandlerOk, Named
    <2>2. CASE u # s
        <3>1. HandlerOk(u) /\ handler'[u] = handler[u]
            BY <2>2 DEF Inv, Agreement, HandlersOk
        <3>2. handler[u].pc # "idle" => handler[u].exec \in Execs /\ handler[u].exec # e
            BY <1>1, <2>2, <3>1 DEF HandlerOk
        <3> QED
            BY <1>1, <1>2, <3>1, <3>2 DEF HandlerOk, Known, Generic, Named
    <2> QED
        BY <2>1, <2>2
<1>17. ASSUME NEW x \in Execs PROVE ChildOk(x)'
    <2>1. CASE x = e
        <3>1. bind[e].kind = "command" => handler'[s].pc = "dispatch" /\ handler'[s].exec = e
            OBVIOUS
        <3> QED
            BY <1>1, <1>2, <1>3, <2>1, <3>1 DEF ChildOk, Generic, At
    <2>2. CASE x # e
        <3>1. ChildOk(x) /\ executions'[x] = executions[x] /\ (Known(x)' <=> Known(x))
            BY <1>2, <2>2 DEF Inv, Agreement, ChildrenOk
        <3>2. Known(x) /\ Generic(x) /\ x \notin procs => At(x, {"dispatch"})'
            BY <1>15, <3>1 DEF ChildOk
        <3> QED
            BY <1>1, <3>1, <3>2 DEF ChildOk, Generic, Named
    <2> QED
        BY <2>1, <2>2
<1>18. ASSUME NEW x \in Execs, Known(x)', executions'[x].phase = "Reserved"
       PROVE  At(x, Dispatching)' \/ Late(x)' \/ executions'[x].deferred
    <2>1. CASE x = e
        <3>1. CASE bind[e].kind = "deferred"
            <4>1. executions'[e].deferred
                BY <1>2, <1>3, <3>1
            <4> QED
                BY <2>1, <4>1
        <3>2. CASE bind[e].kind # "deferred"
            <4>1. home'[e] = s /\ handler'[s].pc \in Dispatching /\ handler'[s].exec = e
                BY <1>1, <3>2 DEF Dispatching
            <4>2. At(e, Dispatching)'
                BY <4>1 DEF At, Dispatching
            <4> QED
                BY <2>1, <4>2
        <3> QED
            BY <3>1, <3>2
    <2>2. CASE x # e
        <3>1. At(x, Dispatching) \/ Late(x) \/ executions[x].deferred
            BY <1>2, <1>18, <2>2 DEF Inv, Agreement, Owned
        <3>2. At(x, Dispatching) => At(x, Dispatching)'
            BY <1>2, <1>15, <1>18, <2>2 DEF Dispatching
        <3> QED
            BY <1>2, <2>2, <3>1, <3>2, TasksSame
    <2> QED
        BY <2>1, <2>2
<1>19. Ends'
    BY EndsSame DEF HostWork
<1>20. Surroundings'
    BY <1>5, <1>6, <1>8, <1>9, <1>10, <1>11, <1>12, <1>13, <1>14 DEF Surroundings, RecordsOk
<1>21. Service'
    BY <1>16, <1>17, <1>18 DEF Service, HandlersOk, ChildrenOk, Owned
<1> QED
    BY <1>19, <1>20, <1>21, AgreementJoin

LEMMA ReserveAgrees ==
    ASSUME Inv, Types', NEW s \in Uis, Reserve(s)
    PROVE  Agreement'
<1>1. /\ UNCHANGED <<identity, inbox, tasks, stops, online, procs, host, armed, lost, drain>>
      /\ handler[s].pc = "reserve"
    BY DEF Reserve, work, Refuse, Answer
<1>2. PICK e \in Execs : e = handler[s].exec /\ Named(e)
    BY <1>1, Served
<1>3. CASE sealed \/ (bind[e].mode = "await" /\ awaiting[s] # NoExec)
    <2>1. UNCHANGED registry /\ handler' = [handler EXCEPT ![s] = Idle]
        BY <1>2, <1>3 DEF Reserve, Refuse, Answer
    <2>2. handler'[s].pc = "idle" /\ \A u \in Uis : u # s => handler'[u] = handler[u]
        BY <2>1, HandlerTyped DEF Idle
    <2>3. RegistryMove /\ \A x \in Execs : executions'[x] = executions[x] /\ (Known(x)' <=> Known(x))
        BY <2>1, RegistrySame DEF Known
    <2>4. Asking(s)
        BY <1>1, <2>2 DEF Asking
    <2>5. StopsMove
        <3>1. \A x \in Execs : stops[x] = "control" => handler'[home[x]] = handler[home[x]]
            BY <1>1, <2>2, ControlServed
        <3> QED
            BY <1>1, <2>3, <3>1, StopsSame
    <2>6. Surroundings'
        BY <1>1, <2>3, <2>4, <2>5, AskingSurroundings
    <2>7. Service'
        BY <1>1, <2>3, <2>4, AskingService
    <2>8. Ends'
        BY <1>1, EndsSame DEF HostWork
    <2> QED
        BY <2>6, <2>7, <2>8, AgreementJoin
<1>4. CASE ~(sealed \/ (bind[e].mode = "await" /\ awaiting[s] # NoExec))
    <2>1. PICK r : r = NewRecord(s, bind[e])
        OBVIOUS
    <2>2. r \in Record
        BY <2>1 DEF NewRecord, Record
    <2>3. /\ executions' = [executions EXCEPT ![e] = r]
          /\ awaiting' = [awaiting EXCEPT ![s] = IF bind[e].mode = "await" THEN e ELSE awaiting[s]]
        BY <1>2, <1>4, <2>1 DEF Reserve
    <2>4. CASE bind[e].kind = "deferred"
        <3>1. handler' = [handler EXCEPT ![s] = Idle]
            BY <1>2, <1>4, <2>4 DEF Reserve, Answer
        <3>2. handler'[s].pc = "idle" /\ \A u \in Uis : u # s => handler'[u] = handler[u]
            BY <3>1, HandlerTyped DEF Idle
        <3> QED
            BY <1>1, <1>2, <2>1, <2>2, <2>3, <2>4, <3>2, Reserved
    <2>5. CASE bind[e].kind # "deferred"
        <3>1. handler' = [handler EXCEPT ![s].pc = "dispatch"]
            BY <1>2, <1>4, <2>5 DEF Reserve, GoHandler
        <3>2. /\ handler'[s].pc = "dispatch" /\ handler'[s].exec = e
              /\ \A u \in Uis : u # s => handler'[u] = handler[u]
            BY <1>2, <3>1, HandlerTyped DEF Handler
        <3> QED
            BY <1>1, <1>2, <2>1, <2>2, <2>3, <2>5, <3>2, Reserved
    <2> QED
        BY <2>4, <2>5
<1> QED
    BY <1>3, <1>4

(* A fresh execution id gets its binding and its UI: nothing that is known *)
(* of the others changes.                                                  *)
LEMMA Drawn ==
    ASSUME Inv, Types', UNCHANGED <<registry, tasks, stops, online, procs, host, armed, lost, drain>>,
           NEW s \in Uis, handler[s].pc = "idle", online[s] = "up",
           NEW b \in Bindings, NEW e \in Execs, bind[e] = NoExec,
           bind' = [bind EXCEPT ![e] = b], home' = [home EXCEPT ![e] = s],
           \A u \in Uis : u # s => handler'[u] = handler[u],
           handler'[s].pc = "idle" \/ (handler'[s].pc = "reserve" /\ handler'[s].exec = e),
           \A u \in Uis : \A event \in Event : Holds(inbox'[u], event) =>
               Holds(inbox[u], event) \/ (u = s /\ event.exec = e /\ handler'[s].pc = "idle")
    PROVE  Agreement'
<1>1. Untouched(e) /\ ~Known(e) /\ e \notin procs /\ stops[e] = "none" /\ ~Named(e)
    BY DEF Inv, Agreement, UntouchedUntilReserved, Untouched, Named
<1>2. /\ Named(e)' /\ home'[e] = s
      /\ \A x \in Execs : x # e => bind'[x] = bind[x] /\ home'[x] = home[x]
    BY ExecutionAssumption DEF Named, Inv, Types, TypeOK
<1>3. executions' = executions /\ awaiting' = awaiting /\ \A x \in Execs : Known(x)' <=> Known(x)
    BY DEF registry, Known
<1>4. ASSUME NEW x \in Execs, Named(x)
      PROVE  x # e /\ bind'[x] = bind[x] /\ home'[x] = home[x] /\ home[x] \in Uis
    BY <1>1, <1>2, <1>4 DEF Inv, Agreement, NamedHome
<1>5. ASSUME NEW x \in Execs, x # e
      PROVE  /\ Named(x)' <=> Named(x)
             /\ Generic(x)' <=> Generic(x)
             /\ Cancels(x)' <=> Cancels(x)
    BY <1>2, <1>5 DEF Named, Generic, Cancels
<1>6. ASSUME NEW x \in Execs, Known(x) PROVE Named(x) /\ RecordOk(x)
    BY <1>6 DEF Inv, Agreement, RecordsOk, RecordOk
<1>7. NamedHome'
    BY <1>2, <1>5 DEF Inv, Agreement, NamedHome
<1>8. RecordsOk'
    <2> SUFFICES ASSUME NEW x \in Execs, Known(x)' PROVE RecordOk(x)'
        BY DEF RecordsOk
    <2>1. Known(x) /\ Named(x) /\ RecordOk(x)
        BY <1>3, <1>6
    <2> QED
        BY <1>3, <1>4, <1>5, <2>1 DEF RecordOk
<1>9. ASSUME NEW x \in Execs, Untouched(x), x # e \/ handler'[s].pc = "reserve"
      PROVE  Untouched(x)'
    <2>1. ASSUME NEW u \in Uis, NEW i \in DOMAIN inbox'[u] PROVE inbox'[u][i].exec # x
        <3>1. inbox'[u] \in Seq(Event)
            BY DEF Types, TypeOK
        <3>2. inbox'[u][i] \in Event
            BY <2>1, <3>1
        <3>3. PICK event \in Event : event = inbox'[u][i]
            BY <3>2
        <3>4. Holds(inbox'[u], event)
            BY <2>1, <3>3 DEF Holds
        <3>5. Holds(inbox[u], event) \/ (event.exec = e /\ handler'[s].pc = "idle")
            BY <2>1, <3>4
        <3> QED
            BY <1>9, <2>1, <3>3, <3>5 DEF Holds, Untouched
    <2> QED
        BY <1>3, <1>9, <2>1 DEF Untouched
<1>10. UntouchedUntilReserved'
    <2>1. ASSUME NEW x \in Execs, ~Named(x)' PROVE Untouched(x)'
        BY <1>2, <1>5, <1>9, <2>1 DEF Inv, Agreement, UntouchedUntilReserved
    <2>2. ASSUME NEW u \in Uis, handler'[u].pc = "reserve" PROVE Untouched(handler[u].exec)'
        <3>1. PICK x \in Execs : x = handler'[u].exec /\ Untouched(x) /\ (x # e \/ handler'[s].pc = "reserve")
            <4>1. CASE u = s
                BY <1>1, <2>2, <4>1
            <4>2. CASE u # s
                <5>1. handler'[u] = handler[u] /\ handler[u].pc = "reserve"
                    BY <2>2, <4>2
                <5>2. PICK x \in Execs : x = handler[u].exec /\ Named(x)
                    BY <5>1, Served
                <5> QED
                    BY <1>1, <5>1, <5>2 DEF Inv, Agreement, UntouchedUntilReserved
            <4> QED
                BY <4>1, <4>2
        <3>2. Untouched(x)'
            BY <1>9, <3>1
        <3> QED
            BY <3>1, <3>2 DEF Untouched, Known
    <2> QED
        BY <2>1, <2>2 DEF UntouchedUntilReserved
<1>11. DeferredKept'
    BY <1>3, <1>4, <1>6, TasksSame DEF Inv, Agreement, DeferredKept
<1>12. LeftOk'
    <2> SUFFICES ASSUME NEW u \in Uis, online[u] # "up"
                 PROVE  /\ handler'[u].pc = "idle" /\ (Detaching(u)' \/ Released(u)')
                        /\ online[u] = "gone" => \A k \in tasks : ~(k.sess = u /\ k.by = "ui")
        BY DEF LeftOk
    <2>1. /\ handler[u].pc = "idle" /\ (Detaching(u) \/ Released(u)) /\ u # s
          /\ online[u] = "gone" => \A k \in tasks : ~(k.sess = u /\ k.by = "ui")
        BY DEF Inv, Agreement, LeftOk
    <2>2. Released(u) => Released(u)'
        BY <1>3 DEF Released, OfSession
    <2> QED
        BY <2>1, <2>2, TasksSame
<1>13. ReportsOk'
    <2> SUFFICES ASSUME NEW u \in Uis, NEW i \in DOMAIN inbox'[u], inbox'[u][i] # Retiring
                 PROVE  ReportOk(u, inbox[u][i].exec)'
        BY DEF ReportsOk
    <2>1. inbox'[u] \in Seq(Event)
        BY DEF Types, TypeOK
    <2>2. inbox'[u][i] \in Event
        BY <2>1
    <2>3. PICK event \in Event : event = inbox'[u][i]
        BY <2>2
    <2>4. Holds(inbox'[u], event)
        BY <2>3 DEF Holds
    <2>5. TearingDown(u)' <=> TearingDown(u)
        BY DEF TearingDown
    <2>6. CASE Holds(inbox[u], event)
        <3>1. PICK x \in Execs : x = event.exec /\ ReportOk(u, x)
            BY <2>3, <2>6 DEF Holds, Inv, Agreement, ReportsOk, ReportOk
        <3>2. ReportOk(u, x)'
            BY <1>3, <1>4, <1>5, <2>5, <3>1 DEF ReportOk
        <3> QED
            BY <2>3, <3>1, <3>2 DEF ReportOk, Known, Named
    <2>7. CASE u = s /\ event.exec = e
        <3>1. ReportOk(s, e)'
            BY <1>1, <1>2, <1>3 DEF ReportOk
        <3> QED
            BY <2>3, <2>7, <3>1 DEF ReportOk, Known, Named
    <2> QED
        BY <2>4, <2>6, <2>7
<1>14. TasksOk'
    <2> SUFFICES ASSUME NEW k \in tasks PROVE TaskOk(k)'
        BY DEF TasksOk
    <2>1. TaskOk(k) /\ k \in Task
        BY TaskKept
    <2>2. ASSUME NEW x \in Execs, Named(x)
          PROVE  Named(x)' /\ bind'[x] = bind[x] /\ home'[x] = home[x]
        BY <1>4, <1>5, <2>2
    <2>3. k.step = "fail" => k.by = "loss" /\ \A x \in k.todo : Named(x)' /\ home'[x] = k.sess
        BY <2>1, <2>2 DEF TaskOk, Task
    <2>4. k.step # "fail" => \A x \in k.todo : Named(x)' /\ bind'[x].onControl = "cancel"
        BY <2>1, <2>2 DEF TaskOk, Task
    <2>5. \A x \in k.deferred : Named(x)' /\ bind'[x].kind = "deferred"
        BY <2>1, <2>2 DEF TaskOk, Task
    <2>6. k.step \in {"late", "activate"} =>
             /\ k.exec \in Execs /\ Named(k.exec)' /\ bind'[k.exec].kind = "deferred"
             /\ Known(k.exec)' => ~executions'[k.exec].deferred
        BY <1>3, <2>1, <2>2 DEF TaskOk
    <2> QED
        BY <2>1, <2>3, <2>4, <2>5, <2>6 DEF TaskOk
<1>15. ASSUME NEW x \in Execs, Named(x), NEW pcs, "idle" \notin pcs, At(x, pcs)
       PROVE  At(x, pcs)'
    <2>1. home[x] # s
        BY <1>15 DEF At
    <2> QED
        BY <1>4, <1>15, <2>1 DEF At
<1>16. StopsOk'
    <2> SUFFICES ASSUME NEW x \in Execs, stops[x] # "none" PROVE StopOk(x)'
        BY DEF StopsOk
    <2>1. StopOk(x) /\ Named(x)
        BY DEF Inv, Agreement, StopsOk, StopOk
    <2>2. stops[x] = "control" => At(x, {"control"})'
        BY <1>15, <2>1 DEF StopOk
    <2> QED
        BY <1>3, <1>4, <1>5, <2>1, <2>2 DEF StopOk
<1>17. IndexedIsAwaited'
    BY <1>3 DEF Inv, Agreement, IndexedIsAwaited, Known
<1>18. ASSUME NEW u \in Uis PROVE HandlerOk(u)'
    <2>1. CASE u = s
        BY <1>2, <2>1 DEF HandlerOk
    <2>2. CASE u # s
        <3>1. HandlerOk(u) /\ handler'[u] = handler[u]
            BY <2>2 DEF Inv, Agreement, HandlersOk
        <3>2. CASE handler[u].pc = "idle"
            BY <3>1, <3>2 DEF HandlerOk
        <3>3. CASE handler[u].pc # "idle"
            <4>1. PICK x \in Execs : x = handler[u].exec /\ Named(x)
                BY <3>3, Served
            <4>2. /\ Named(x)' /\ bind'[x] = bind[x] /\ home'[x] = home[x]
                  /\ handler'[u].exec = x
                BY <1>4, <1>5, <3>1, <4>1
            <4> QED
                BY <1>3, <3>1, <4>1, <4>2 DEF HandlerOk, Generic, Named, Known
        <3> QED
            BY <3>2, <3>3
    <2> QED
        BY <2>1, <2>2
<1>19. ASSUME NEW x \in Execs PROVE ChildOk(x)'
    <2>1. CASE x = e
        BY <1>1, <1>3, <2>1 DEF ChildOk
    <2>2. CASE x # e
        <3>1. ChildOk(x)
            BY DEF Inv, Agreement, ChildrenOk
        <3>2. Known(x) /\ Generic(x) /\ x \notin procs => At(x, {"dispatch"})'
            BY <1>6, <1>15, <3>1 DEF ChildOk
        <3> QED
            BY <1>3, <1>5, <2>2, <3>1, <3>2 DEF ChildOk
    <2> QED
        BY <2>1, <2>2
<1>20. ASSUME NEW x \in Execs, Known(x)', executions'[x].phase = "Reserved"
       PROVE  At(x, Dispatching)' \/ Late(x)' \/ executions'[x].deferred
    <2>1. Known(x) /\ Named(x)
        BY <1>3, <1>6, <1>20
    <2>2. At(x, Dispatching) \/ Late(x) \/ executions[x].deferred
        BY <1>3, <1>20, <2>1 DEF Inv, Agreement, Owned
    <2>3. At(x, Dispatching) => At(x, Dispatching)'
        BY <1>15, <2>1 DEF Dispatching
    <2> QED
        BY <1>3, <2>2, <2>3, TasksSame
<1>21. Ends'
    <2>1. ASSUME NEW x \in Execs, HostWork(x)' PROVE Named(x)' /\ ~Generic(x)'
        <3>1. Named(x) /\ ~Generic(x)
            BY <2>1 DEF HostWork, Inv, Agreement, HostOk
        <3> QED
            BY <1>4, <1>5, <3>1
    <2>2. ASSUME NEW x \in Execs, armed'[x] # "none" PROVE Named(x)' /\ armed'[x] = bind'[x].onTimeout
        <3>1. Named(x) /\ armed[x] = bind[x].onTimeout
            BY <2>2 DEF Inv, Agreement, ArmedOk
        <3> QED
            BY <1>4, <1>5, <3>1
    <2> QED
        BY <2>1, <2>2 DEF Ends, HostOk, ArmedOk
<1>22. Surroundings'
    BY <1>7, <1>8, <1>10, <1>11, <1>12, <1>13, <1>14, <1>16, <1>17 DEF Surroundings
<1>23. Service'
    BY <1>18, <1>19, <1>20 DEF Service, HandlersOk, ChildrenOk, Owned
<1> QED
    BY <1>21, <1>22, <1>23, AgreementJoin

LEMMA InvokeAgrees ==
    ASSUME Inv, Types', NEW s \in Uis, NEW b \in Bindings, NEW e \in Execs, Invoke(s, b, e)
    PROVE  Agreement'
<1>1. /\ UNCHANGED <<registry, tasks, stops, online, procs, host, armed, lost, drain>>
      /\ handler[s].pc = "idle" /\ online[s] = "up" /\ bind[e] = NoExec /\ inbox' = inbox
      /\ bind' = [bind EXCEPT ![e] = b] /\ home' = [home EXCEPT ![e] = s]
      /\ handler' = [handler EXCEPT ![s] = [pc |-> "reserve", exec |-> e, awaited |-> FALSE]]
    BY DEF Invoke, work, Ready
<1>2. /\ handler'[s].pc = "reserve" /\ handler'[s].exec = e
      /\ \A u \in Uis : u # s => handler'[u] = handler[u]
    BY <1>1, HandlerTyped
<1> QED
    BY <1>1, <1>2, Drawn

LEMMA InvokeReloadAgrees ==
    ASSUME Inv, Types', NEW s \in Uis, NEW b \in Bindings, NEW e \in Execs, InvokeReload(s, b, e)
    PROVE  Agreement'
<1>1. /\ UNCHANGED <<registry, tasks, stops, online, procs, host, armed, lost, drain>>
      /\ handler[s].pc = "idle" /\ online[s] = "up" /\ bind[e] = NoExec
      /\ bind' = [bind EXCEPT ![e] = b] /\ home' = [home EXCEPT ![e] = s]
      /\ handler' = [handler EXCEPT ![s] = Idle]
    BY DEF InvokeReload, work, Ready, Answer
<1>2. handler'[s].pc = "idle" /\ \A u \in Uis : u # s => handler'[u] = handler[u]
    BY <1>1, HandlerTyped DEF Idle
<1>3. ASSUME NEW u \in Uis, NEW event \in Event, Holds(inbox'[u], event)
      PROVE  Holds(inbox[u], event) \/ (u = s /\ event.exec = e)
    <2> DEFINE done == [exec |-> e, ok |-> TRUE]
    <2>1. inbox \in [Uis -> Seq(Event)] /\ done \in Event /\ done.exec = e
        BY DEF Inv, Types, TypeOK, Event
    <2>2. inbox' = inbox \/ Deliver(s, done)
        BY DEF InvokeReload
    <2> HIDE DEF done
    <2>3. inbox'[u] = inbox[u] \/ (u = s /\ inbox'[u] = Append(inbox[u], done))
        BY <2>1, <2>2 DEF Deliver
    <2>4. CASE inbox'[u] = inbox[u]
        BY <1>3, <2>4
    <2>5. CASE u = s /\ inbox'[u] = Append(inbox[u], done)
        <3>1. inbox[u] \in Seq(Event) /\ Holds(Append(inbox[u], done), event)
            BY <1>3, <2>1, <2>5
        <3>2. Holds(inbox[u], event) \/ event = done
            BY <2>1, <3>1, AppendHolds
        <3> QED
            BY <2>1, <2>5, <3>2
    <2> QED
        BY <2>3, <2>4, <2>5
<1>4. \A u \in Uis : \A event \in Event : Holds(inbox'[u], event) =>
          Holds(inbox[u], event) \/ (u = s /\ event.exec = e /\ handler'[s].pc = "idle")
    BY <1>2, <1>3
<1> QED
    BY <1>1, <1>2, <1>4, Drawn

-----------------------------------------------------------------------------
(* The invariant is inductive.                                              *)

LEMMA InitAgrees == Init => Inv
<1> SUFFICES ASSUME Init PROVE Agreement
    BY InitTyped DEF Inv
<1>1. /\ \A e \in Execs : /\ bind[e] = NoExec /\ executions[e] = NoExec /\ host[e] = "none"
                          /\ armed[e] = "none" /\ stops[e] = "none"
      /\ \A s \in Uis : /\ awaiting[s] = NoExec /\ handler[s].pc = "idle" /\ online[s] = "up"
                        /\ inbox[s] = <<>>
      /\ procs = {} /\ tasks = {} /\ lost = {} /\ drain.execs = {} /\ drain.late = {}
    BY DEF Init, Idle, NoDrain
<1>2. \A e \in Execs : ~Named(e) /\ ~Known(e) /\ Untouched(e) /\ ~HostWork(e)
    BY <1>1 DEF Named, Known, Untouched, HostWork
<1>3. NamedHome /\ HandlersOk /\ RecordsOk /\ Owned /\ DeferredKept
    BY <1>1, <1>2 DEF NamedHome, HandlersOk, HandlerOk, RecordsOk, Owned, DeferredKept
<1>4. ChildrenOk /\ UntouchedUntilReserved
    BY <1>1, <1>2 DEF ChildrenOk, ChildOk, UntouchedUntilReserved
<1>5. LeftOk /\ ReportsOk /\ TasksOk /\ StopsOk
    BY <1>1 DEF LeftOk, ReportsOk, TasksOk, StopsOk
<1>6. HostOk /\ ArmedOk /\ IndexedIsAwaited
    BY <1>1, <1>2 DEF HostOk, ArmedOk, IndexedIsAwaited
<1> QED
    BY <1>3, <1>4, <1>5, <1>6 DEF Agreement

LEMMA InvokeNextKept ==
    ASSUME Inv, NEW s \in Uis, InvokeNext(s)
    PROVE  Inv'
<1>1. Types'
    BY ReserveTyped, DispatchRefusedTyped, HostStartsTyped, HostAcceptsTyped, SpawnTyped,
       SupervisedTyped, ActivationTyped, CommandDetachedTyped, AbandonedTyped DEF InvokeNext
<1>2. Agreement'
    BY <1>1, ReserveAgrees, DispatchRefusedAgrees, HostStartsAgrees, HostAcceptsAgrees, SpawnAgrees,
       SupervisedAgrees, ActivationAgrees, CommandDetachedAgrees, AbandonedAgrees DEF InvokeNext
<1> QED
    BY <1>1, <1>2 DEF Inv

LEMMA UiNextKept ==
    ASSUME Inv, NEW s \in Uis,
           \/ \E b \in Bindings, e \in Execs : Invoke(s, b, e) \/ InvokeReload(s, b, e)
           \/ \E c \in Controls : Control(s, c) \/ LocalControl(s, c)
           \/ \E x \in Menus : OpenMenu(s, x)
           \/ UiEvent(s) \/ UiDismissed(s) \/ UiInterrupted(s) \/ UiGone(s)
           \/ SessionLost(s) \/ ScopeUnhealthy(s)
    PROVE  Inv'
<1>1. CASE \E b \in Bindings, e \in Execs : Invoke(s, b, e) \/ InvokeReload(s, b, e)
    <2>1. PICK b \in Bindings, e \in Execs : Invoke(s, b, e) \/ InvokeReload(s, b, e)
        BY <1>1
    <2>2. Types'
        BY <2>1, InvokeTyped, InvokeReloadTyped
    <2> QED
        BY <2>1, <2>2, InvokeAgrees, InvokeReloadAgrees DEF Inv
<1>2. CASE \E c \in Controls : Control(s, c) \/ LocalControl(s, c)
    <2>1. PICK c \in Controls : Control(s, c) \/ LocalControl(s, c)
        BY <1>2
    <2>2. Types'
        BY <2>1, ControlTyped, LocalControlTyped
    <2> QED
        BY <2>1, <2>2, ControlAgrees, MenuOnlyAgrees DEF Inv
<1>3. CASE \E x \in Menus : OpenMenu(s, x)
    <2>1. Types'
        BY <1>3, OpenMenuTyped
    <2> QED
        BY <1>3, <2>1, MenuOnlyAgrees DEF Inv
<1>4. CASE UiEvent(s) \/ UiDismissed(s) \/ UiInterrupted(s) \/ UiGone(s)
    <2>1. Types'
        BY <1>4, UiEventTyped, LeaveTyped, UiGoneTyped DEF UiDismissed, UiInterrupted
    <2> QED
        BY <1>4, <2>1, UiEventAgrees, LeaveAgrees, UiGoneAgrees DEF Inv
<1>5. CASE SessionLost(s) \/ ScopeUnhealthy(s)
    <2>1. Types'
        BY <1>5, SessionLostTyped, ScopeUnhealthyTyped
    <2> QED
        BY <1>5, <2>1, SessionLostAgrees, ScopeUnhealthyAgrees DEF Inv
<1> QED
    BY <1>1, <1>2, <1>3, <1>4, <1>5

LEMMA ExecNextKept ==
    ASSUME Inv, NEW e \in Execs, ExecNext(e)
    PROVE  Inv'
<1>1. Types'
    BY HostCompletesTyped, ChildExitsTyped, DeadlineTyped, FailLostTyped, StopAcceptedTyped,
       StopRefusedTyped DEF ExecNext
<1>2. Agreement'
    BY <1>1, HostCompletesAgrees, ChildExitsAgrees, DeadlineFiresAgrees, FailLostAgrees,
       StopAcceptedAgrees, StopRefusedAgrees DEF ExecNext
<1> QED
    BY <1>1, <1>2 DEF Inv

LEMMA DetachNextKept ==
    ASSUME Inv, NEW k \in tasks, DetachNext(k)
    PROVE  Inv'
<1>1. CASE \E e \in Execs : DetachStop(k, e) \/ DetachSchedule(k, e) \/ ScopeFail(k, e)
    <2>1. PICK e \in Execs : DetachStop(k, e) \/ DetachSchedule(k, e) \/ ScopeFail(k, e)
        BY <1>1
    <2>2. Types'
        BY <2>1, DetachStopTyped, DetachScheduleTyped, ScopeFailTyped
    <2> QED
        BY <2>1, <2>2, DetachStopAgrees, DetachScheduleAgrees, ScopeFailAgrees DEF Inv
<1>2. CASE \/ DetachUnlink(k) \/ DetachState(k) \/ LateRefused(k) \/ LateAccepted(k)
           \/ LateActivated(k) \/ DetachDone(k) \/ ScopeFailed(k)
    <2>1. Types'
        BY <1>2, DetachUnlinkTyped, DetachStateTyped, LateRefusedTyped, LateAcceptedTyped,
           LateActivatedTyped, DetachDoneTyped, ScopeFailedTyped
    <2> QED
        BY <1>2, <2>1, DetachUnlinkAgrees, DetachStateAgrees, LateRefusedAgrees, LateAcceptedAgrees,
           LateActivatedAgrees, DetachDoneAgrees, ScopeFailedAgrees DEF Inv
<1> QED
    BY <1>1, <1>2 DEF DetachNext

LEMMA DrainNextKept ==
    ASSUME Inv, DrainSeal \/ DrainNext \/ Reopen
    PROVE  Inv'
<1>1. CASE \E e \in Execs : DrainStop(e) \/ DrainLate(e)
    <2>1. PICK e \in Execs : DrainStop(e) \/ DrainLate(e)
        BY <1>1
    <2>2. Types'
        BY <2>1, DrainStopTyped, DrainLateTyped
    <2> QED
        BY <2>1, <2>2, DrainStopAgrees DEF Inv
<1>2. CASE \E s \in Uis : DrainSession(s)
    <2>1. PICK s \in Uis : DrainSession(s)
        BY <1>2
    <2>2. Types'
        BY <2>1, DrainSessionTyped
    <2> QED
        BY <2>1, <2>2, DrainSessionAgrees DEF Inv
<1>3. CASE \/ DrainSeal \/ DrainSettled \/ DrainCheck \/ DrainStopped \/ DrainDetached \/ DrainDone
           \/ Reopen
    <2>1. Types'
        BY <1>3, DrainSealTyped, DrainOnlyTyped
    <2> QED
        BY <1>3, <2>1, DrainOnlyAgrees DEF Inv
<1> QED
    BY <1>1, <1>2, <1>3 DEF DrainNext

LEMMA StutterKept ==
    ASSUME Inv, UNCHANGED vars
    PROVE  Inv'
<1>1. /\ UNCHANGED <<identity, registry, handler, online, inbox, procs, stops, tasks, armed, host,
                     lost, drain>>
      /\ UNCHANGED <<menus, sealed, attached, killed, bounds, bind, home, executions, awaiting>>
    BY DEF vars, uiVars, work, identity, registry
<1>2. Types'
    BY <1>1 DEF Inv, Types, TypeOK, Stacks
<1>3. Ends'
    BY <1>1, EndsSame DEF HostWork
<1> QED
    BY <1>1, <1>2, <1>3, ElsewhereKept DEF Inv

LEMMA InvInductive == Inv /\ [Next]_vars => Inv'
<1> SUFFICES ASSUME Inv, [Next]_vars PROVE Inv'
    OBVIOUS
<1>1. CASE \E s \in Uis :
              \/ \E b \in Bindings, e \in Execs : Invoke(s, b, e) \/ InvokeReload(s, b, e)
              \/ \E c \in Controls : Control(s, c) \/ LocalControl(s, c)
              \/ \E x \in Menus : OpenMenu(s, x)
              \/ InvokeNext(s) \/ UiEvent(s) \/ UiDismissed(s) \/ UiInterrupted(s) \/ UiGone(s)
              \/ SessionLost(s) \/ ScopeUnhealthy(s)
    BY <1>1, UiNextKept, InvokeNextKept
<1>2. CASE \E e \in Execs : ExecNext(e)
    BY <1>2, ExecNextKept
<1>3. CASE \E k \in tasks : DetachNext(k)
    BY <1>3, DetachNextKept
<1>4. CASE HostLost
    BY <1>4, HostLostTyped, HostLostAgrees DEF Inv
<1>5. CASE DrainSeal \/ DrainNext \/ Reopen
    BY <1>5, DrainNextKept
<1>6. CASE UNCHANGED vars
    BY <1>6, StutterKept
<1> QED
    BY <1>1, <1>2, <1>3, <1>4, <1>5, <1>6 DEF Next

LEMMA InvAlways == Spec => []Inv
BY InitAgrees, InvInductive, PTL DEF Spec

-----------------------------------------------------------------------------
(* The theorems.                                                            *)

(* Every variable of the registry and of the menus keeps its type.         *)
THEOREM UiExecutionTypes == Spec => []TypeOK
<1>1. Inv => TypeOK
    BY DEF Inv, Types
<1> QED
    BY <1>1, InvAlways, PTL

(* BrokerState.awaiting never names an execution that is gone, detached    *)
(* from its UI or another session's, so that reserve_execution refuses an  *)
(* awaited action only while one is really awaited.                        *)
THEOREM IndexAlwaysAwaited == Spec => []IndexedIsAwaited
<1>1. Inv => IndexedIsAwaited
    BY DEF Inv, Agreement
<1> QED
    BY <1>1, InvAlways, PTL

(* A reservation is always in the hands of the handler or the detach that  *)
(* dispatches it, or it is deferred and its UI, or a detach, has still to  *)
(* let it go: what drain_for_activation waits for has an owner.            *)
THEOREM ReservationAlwaysOwned == Spec => []ReservationHasOwner
<1>1. Inv => ReservationHasOwner
    <2> SUFFICES ASSUME Inv, NEW e \in Execs, Known(e), executions[e].phase = "Reserved",
                        ~At(e, Dispatching), ~Late(e)
                 PROVE  executions[e].deferred /\ (online[home[e]] # "gone" \/ Waiting(e))
        BY DEF ReservationHasOwner, At, Dispatching, Late, Waiting
    <2>1. executions[e].deferred /\ home[e] \in Uis
        BY DEF Inv, Agreement, Owned, RecordsOk, RecordOk, NamedHome
    <2>2. CASE Waiting(e)
        BY <2>1, <2>2
    <2>3. CASE ~Waiting(e)
        <3>1. executions[e].session = home[e]
            BY <2>1, <2>3 DEF Inv, Agreement, DeferredKept
        <3>2. ASSUME online[home[e]] = "gone" PROVE FALSE
            <4>1. Released(home[e])
                BY <2>1, <3>2 DEF Inv, Agreement, LeftOk, Detaching
            <4> QED
                BY <3>1, <4>1 DEF Released, OfSession
        <3> QED
            BY <2>1, <3>2
    <2> QED
        BY <2>2, <2>3
<1> QED
    BY <1>1, InvAlways, PTL

(* After the detach of its UI the broker keeps nothing for a session: no   *)
(* index entry, no attached execution, and no deferred action that nobody  *)
(* is going to dispatch.                                                   *)
THEOREM GoneUiAlwaysReleased == Spec => []GoneUiReleased
<1>1. Inv => GoneUiReleased
    <2> SUFFICES ASSUME Inv, NEW s \in Uis, online[s] = "gone"
                 PROVE  /\ awaiting[s] = NoExec /\ OfSession(s) = {}
                        /\ \A e \in Execs : home[e] = s /\ Known(e) /\ executions[e].deferred =>
                              \E k \in tasks : e \in k.deferred
        BY DEF GoneUiReleased
    <2>1. Released(s)
        BY DEF Inv, Agreement, LeftOk, Detaching
    <2>2. ASSUME NEW e \in Execs, home[e] = s, Known(e), executions[e].deferred
          PROVE  Waiting(e)
        BY <2>1, <2>2 DEF Inv, Agreement, DeferredKept, Released, OfSession
    <2> QED
        BY <2>1, <2>2 DEF Released, Waiting
<1> QED
    BY <1>1, InvAlways, PTL

(* GenericSupervisor and the execution registry agree: no supervised child *)
(* without a record, and no activated command without a child.             *)
THEOREM ChildrenAlwaysRegistered == Spec => []ChildrenRegistered
<1>1. Inv => ChildrenRegistered
    BY DEF Inv, Agreement, ChildrenOk, ChildOk, ChildrenRegistered
<1> QED
    BY <1>1, InvAlways, PTL

(* Once ExecutionCompleted is on its way the broker no longer counts the   *)
(* UI as waiting, except for a session that scope_unhealthy tears down.    *)
THEOREM ReportAlwaysFinal == Spec => []ReportIsFinal
<1>1. Inv => ReportIsFinal
    <2> SUFFICES ASSUME Inv, NEW s \in Uis, NEW i \in DOMAIN inbox[s], inbox[s][i] # Retiring
                 PROVE  \/ ~Known(inbox[s][i].exec)
                        \/ ~executions[inbox[s][i].exec].awaiting
                        \/ \E k \in tasks : k.sess = s /\ k.by = "loss"
        BY DEF ReportIsFinal
    <2>1. ReportOk(s, inbox[s][i].exec)
        BY DEF Inv, Agreement, ReportsOk
    <2> QED
        BY <2>1 DEF ReportOk, TearingDown
<1> QED
    BY <1>1, InvAlways, PTL

(* Only the steps that cancel a child change the set of cancelled ones.    *)
LEMMA KilledBy ==
    ASSUME Next, NEW x \in killed' \ killed
    PROVE  \/ \E s \in Uis : Supervised(s) \/ Activation(s)
           \/ \E e \in Execs : StopAccepted(e)
<1> SUFFICES ASSUME ~\E s \in Uis : Supervised(s) \/ Activation(s),
                    ~\E e \in Execs : StopAccepted(e)
             PROVE  killed' = killed
    BY ZenonT(40)
<1>1. ASSUME NEW s \in Uis,
             \/ \E b \in Bindings, e \in Execs : Invoke(s, b, e) \/ InvokeReload(s, b, e)
             \/ \E c \in Controls : Control(s, c) \/ LocalControl(s, c)
             \/ \E y \in Menus : OpenMenu(s, y)
             \/ UiEvent(s) \/ UiDismissed(s) \/ UiInterrupted(s) \/ UiGone(s)
             \/ SessionLost(s) \/ ScopeUnhealthy(s)
      PROVE  killed' = killed
    BY <1>1 DEF Invoke, InvokeReload, Control, LocalControl, OpenMenu, UiEvent, UiDismissed,
                UiInterrupted, Leave, UiGone, SessionLost, ScopeUnhealthy, work
<1>2. ASSUME NEW s \in Uis, InvokeNext(s) PROVE killed' = killed
    BY <1>2 DEF InvokeNext, Reserve, DispatchRefused, HostStarts, HostAccepts, Spawn,
                CommandDetached, Abandoned, work
<1>3. ASSUME NEW e \in Execs, ExecNext(e) PROVE killed' = killed
    BY <1>3 DEF ExecNext, HostCompletes, ChildExits, DeadlineFires, FailLost, StopRefused, work
<1>4. ASSUME NEW k \in tasks, DetachNext(k) PROVE killed' = killed
    BY <1>4 DEF DetachNext, DetachUnlink, DetachState, LateRefused, LateAccepted, LateActivated,
                DetachDone, ScopeFailed, DetachStop, DetachSchedule, ScopeFail, work
<1>5. ASSUME HostLost \/ DrainSeal \/ DrainNext \/ Reopen PROVE killed' = killed
    BY <1>5 DEF HostLost, DrainSeal, DrainNext, Reopen, DrainSettled, DrainCheck, DrainStopped,
                DrainDetached, DrainDone, DrainStop, DrainLate, DrainSession, work
<1> QED
    BY <1>1, <1>2, <1>3, <1>4, <1>5 DEF Next

(* A child is cancelled only where a policy of its binding says so, or     *)
(* when its invocation is refused under the seal: a dismissal, a lost      *)
(* session or a drain leaves detach-policy work its child.                 *)
THEOREM CancelAlwaysFollowsPolicy == Spec => CancelFollowsPolicy
<1>1. ASSUME Inv, [Next]_vars
      PROVE  [\A e \in killed' \ killed :
                 \/ "cancel" \in {bind[e].onControl, bind[e].onTimeout}
                 \/ sealed /\ handler[home[e]].pc = "activate" /\ handler[home[e]].exec = e]_vars
    <2> SUFFICES ASSUME Next, NEW x \in killed' \ killed
                 PROVE  Cancels(x) \/ (sealed /\ At(x, {"activate"}))
        BY <1>1 DEF Cancels, At
    <2>1. CASE \E s \in Uis : Supervised(s)
        <3>1. PICK s \in Uis : Supervised(s)
            BY <2>1
        <3>2. /\ x = handler[s].exec /\ x \in procs /\ Known(x) /\ executions[x].stopping
            BY <3>1 DEF Supervised
        <3>3. x \in Execs /\ Generic(x)
            BY <1>1, <3>2 DEF Inv, Types, TypeOK, Agreement, ChildrenOk, ChildOk
        <3> QED
            BY <1>1, <3>2, <3>3 DEF Inv, Agreement, RecordsOk, RecordOk
    <2>2. CASE \E s \in Uis : Activation(s)
        <3>1. PICK s \in Uis : Activation(s)
            BY <2>2
        <3>2. x = handler[s].exec /\ sealed /\ handler[s].pc = "activate"
            BY <3>1 DEF Activation
        <3>3. home[x] = s
            BY <1>1, <3>2, Served
        <3> QED
            BY <3>2, <3>3 DEF At
    <2>3. CASE \E e \in Execs : StopAccepted(e)
        <3>1. PICK e \in Execs : StopAccepted(e)
            BY <2>3
        <3>2. x = e /\ Generic(e) /\ stops[e] # "none"
            BY <3>1 DEF StopAccepted
        <3> QED
            BY <1>1, <3>2 DEF Inv, Agreement, StopsOk, StopOk
    <2> QED
        BY <2>1, <2>2, <2>3, KilledBy
<1> QED
    BY <1>1, InvAlways, PTL DEF Spec, CancelFollowsPolicy
=============================================================================
