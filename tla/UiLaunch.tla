------------------------------ MODULE UiLaunch ------------------------------
(***************************************************************************)
(* The broker side of opening, attaching and tearing down a menu UI        *)
(* (crates/muxe-broker/src/broker.rs and service.rs).  Launcher and UI     *)
(* connections, the expiry tick, the adapter health monitor and an         *)
(* activation drain run concurrently; each critical section of a handler   *)
(* is one action and the awaits between them are where they interleave.    *)
(*                                                                         *)
(* A handler is never cancelled by its own connection going away: frames   *)
(* of one connection are served one after the other, and the loss of the   *)
(* connection is only seen by the next read.  A request the broker answers *)
(* with an error, changing nothing, is not a step.                         *)
(***************************************************************************)
EXTENDS LaunchGate, Naturals, FiniteSets

CONSTANTS
    Uis,                \* UI connections
    SupportsCapture,    \* capabilities().supports_capture of the adapter
    SlowConsumers,      \* whether a session's bounded outbox may be full
    MaxDrains,          \* bound: activation drains started
    MaxScopeFailures    \* bound: Unhealthy events that name a scope

ASSUME LaunchAssumption ==
    /\ SupportsCapture \in BOOLEAN
    /\ SlowConsumers \in BOOLEAN
    /\ MaxDrains \in Nat
    /\ MaxScopeFailures \in Nat

VARIABLES
    pendingSessions,    \* BrokerState.pending_sessions : token -> session
    gated,              \* BrokerState.gated_sessions : token -> GatedSession
    sealed,             \* BrokerState.activation_sealed
    minted,             \* session ids handed out by new_session_id
    records,            \* Broker.sessions : session -> SessionRecord
    readiness,          \* the readiness watch channel of each session
    launcher,           \* the handler state of each token's launcher connection
    ui,                 \* the handler and attachment state of each UI connection
    tail,               \* begin_capture .. attached_response of each session
    tasks,              \* running detach calls, with what follows each
    monitor,            \* Broker::monitor
    drain,              \* Broker::drain_for_activation
    paneLease,          \* the adapter's pending-pane lease of each launch
    captureLease        \* the adapter's capture lease of each session

book == <<pendingSessions, gated, minted>>
sessionVars == <<records, readiness>>
hostVars == <<paneLease, captureLease>>
handlers == <<launcher, ui, tail>>
daemons == <<monitor, drain, sealed>>
vars == <<gateVars, book, sessionVars, handlers, tasks, daemons, hostVars>>

-----------------------------------------------------------------------------
(* State.                                                                   *)

Record == [scope : Scopes, captured : BOOLEAN]

Gated == [session : Sessions, lease : BOOLEAN]

ASSUME NoneAssumption == None \notin Record \cup Gated

LauncherPc == {"none", "replacing", "prepared", "register", "bind", "registered",
               "commit", "committed", "failed", "done"}

UiPc == {"idle", "placing", "origin", "insert", "finalize", "withdraw",
         "waiting", "capture", "confirm", "attached", "closed"}

(* The local variables of attach: the token and session it works for, the  *)
(* modal scope of its pane and the registration it must close on failure.  *)
UiConn == [pc : UiPc, token : Tokens \cup {None}, session : Sessions \cup {None},
           scope : Scopes \cup {None}, reg : Tokens \cup {None}, waited : BOOLEAN]

TailPc == {"none", "lookup", "host", "store", "respond", "announce", "failing"}

(* One detach call: who awaits it, the session, how far it is, whether the *)
(* unlinked record existed and held a capture, and the pending pane the    *)
(* caller closes after it (named by the launch token).                     *)
Actor == Tokens \cup Uis \cup {"expiry", "slow", "monitor", "drain"}

Task == [by : Actor, sess : Sessions, step : {"unlink", "state", "finish"},
         had : BOOLEAN, captured : BOOLEAN, reg : Tokens \cup {None}]

LeaseState == {"none", "held", "closing", "closed", "confirmed"}

TypeOK ==
    /\ GateTypeOK
    /\ pendingSessions \in [Tokens -> Sessions \cup {None}]
    /\ gated \in [Tokens -> Gated \cup {None}]
    /\ sealed \in BOOLEAN
    /\ minted \subseteq Sessions
    /\ records \in [Sessions -> Record \cup {None}]
    /\ readiness \in [Sessions -> {"none", "pending", "ready", "failed"}]
    /\ launcher \in [Tokens -> [pc : LauncherPc, session : Sessions \cup {None}]]
    /\ ui \in [Uis -> UiConn]
    /\ tail \in [Sessions -> TailPc]
    /\ tasks \subseteq Task
    /\ monitor \in [pc : {"idle", "lost", "sessions", "tokens"},
                    scope : Scopes \cup {None},
                    left : SUBSET (Sessions \cup Tokens), failures : 0..MaxScopeFailures]
    /\ drain \in [pc : {"idle", "sealed", "emptied", "sessions", "cleanup", "drained"},
                  left : SUBSET Sessions, started : 0..MaxDrains]
    /\ paneLease \in [Tokens -> LeaseState]
    /\ captureLease \in [Sessions -> LeaseState \ {"confirmed"}]

Init ==
    /\ GateInit
    /\ pendingSessions = [t \in Tokens |-> None]
    /\ gated = [t \in Tokens |-> None]
    /\ sealed = FALSE
    /\ minted = {}
    /\ records = [u \in Sessions |-> None]
    /\ readiness = [u \in Sessions |-> "none"]
    /\ launcher = [t \in Tokens |-> [pc |-> "none", session |-> None]]
    /\ ui = [c \in Uis |-> [pc |-> "idle", token |-> None, session |-> None,
                            scope |-> None, reg |-> None, waited |-> FALSE]]
    /\ tail = [u \in Sessions |-> "none"]
    /\ tasks = {}
    /\ monitor = [pc |-> "idle", scope |-> None, left |-> {}, failures |-> 0]
    /\ drain = [pc |-> "idle", left |-> {}, started |-> 0]
    /\ paneLease = [t \in Tokens |-> "none"]
    /\ captureLease = [u \in Sessions |-> "none"]

-----------------------------------------------------------------------------
(* Teardown: detach, then the close of the launch's registered pane.        *)

(* The registered pane of a pending launch, if the adapter leased it:      *)
(* insert_pending_pane_cleanup_locked ignores a registration with no lease.*)
LeasedPane(t) == IF Live(t) /\ pending[t].lease THEN t ELSE None

Teardown(who, u, t) == [by |-> who, sess |-> u, step |-> "unlink",
                        had |-> FALSE, captured |-> FALSE, reg |-> t]

(* close_registered alone, for a caller that does not detach.              *)
CloseOnly(who, u, t) == [Teardown(who, u, t) EXCEPT !.step = "finish"]

Busy(who) == \E k \in tasks : k.by = who

(* A cleanup entry is inserted whatever became of the lease before.        *)
EnqueuePanes(T) == paneLease' = [t \in Tokens |-> IF t \in T THEN "closing"
                                                  ELSE paneLease[t]]

(* Faulty variant: the capture of the unlinked record is not carried over. *)
DetachForgetsCapture(k) ==
    /\ k \in tasks /\ k.step = "unlink"
    /\ records' = [records EXCEPT ![k.sess] = None]
    /\ tasks' = (tasks \ {k}) \cup {[k EXCEPT !.step = "state", !.had = records[k.sess] # None]}
    /\ UNCHANGED <<gateVars, book, readiness, handlers, daemons, hostVars>>

(* detach, first critical section: the record leaves the sessions map.     *)
DetachUnlink(k) ==
    /\ k \in tasks /\ k.step = "unlink"
    /\ records' = [records EXCEPT ![k.sess] = None]
    /\ tasks' = (tasks \ {k}) \cup
                  {[k EXCEPT !.step = "state", !.had = records[k.sess] # None,
                             !.captured = records[k.sess] # None
                                          /\ records[k.sess].captured]}
    /\ UNCHANGED <<gateVars, book, readiness, handlers, daemons, hostVars>>

GatedTo(u) == {t \in Tokens : gated[t] # None /\ gated[t].session = u}

(* Faulty variants: the gated pane is not queued for closing; the gate is  *)
(* not told.                                                               *)
DetachForgetsPane(k) ==
    /\ k \in tasks /\ k.step = "state"
    /\ GDetach(k.sess)
    /\ gated' = [t \in Tokens |-> IF t \in GatedTo(k.sess) THEN None ELSE gated[t]]
    /\ captureLease' = [captureLease EXCEPT ![k.sess] = IF k.captured THEN "closing" ELSE @]
    /\ tasks' = (tasks \ {k}) \cup {[k EXCEPT !.step = "finish"]}
    /\ UNCHANGED <<pendingSessions, minted, sessionVars, handlers, daemons, paneLease>>

DetachForgetsGate(k) ==
    /\ k \in tasks /\ k.step = "state"
    /\ gated' = [t \in Tokens |-> IF t \in GatedTo(k.sess) THEN None ELSE gated[t]]
    /\ EnqueuePanes({t \in GatedTo(k.sess) : gated[t].lease})
    /\ captureLease' = [captureLease EXCEPT ![k.sess] = IF k.captured THEN "closing" ELSE @]
    /\ tasks' = (tasks \ {k}) \cup {[k EXCEPT !.step = "finish"]}
    /\ UNCHANGED <<gateVars, pendingSessions, minted, sessionVars, handlers, daemons>>

(* Faulty variant: the scope is cleared although a launch has taken it.    *)
DetachClearsScope(k) ==
    /\ k \in tasks /\ k.step = "state"
    /\ scopes' = [sc \in Scopes |-> IF sc = gateSessions[k.sess] THEN None ELSE scopes[sc]]
    /\ gateSessions' = [gateSessions EXCEPT ![k.sess] = None]
    /\ gated' = [t \in Tokens |-> IF t \in GatedTo(k.sess) THEN None ELSE gated[t]]
    /\ EnqueuePanes({t \in GatedTo(k.sess) : gated[t].lease})
    /\ captureLease' = [captureLease EXCEPT ![k.sess] = IF k.captured THEN "closing" ELSE @]
    /\ tasks' = (tasks \ {k}) \cup {[k EXCEPT !.step = "finish"]}
    /\ UNCHANGED <<pending, pendingSessions, minted, sessionVars, handlers, daemons>>

(* detach, second critical section: gate, gated registrations and the      *)
(* cleanup entries for them and for the capture, under the state lock.     *)
DetachState(k) ==
    /\ k \in tasks /\ k.step = "state"
    /\ GDetach(k.sess)
    /\ gated' = [t \in Tokens |-> IF t \in GatedTo(k.sess) THEN None ELSE gated[t]]
    /\ EnqueuePanes({t \in GatedTo(k.sess) : gated[t].lease})
    /\ captureLease' = [captureLease EXCEPT ![k.sess] = IF k.captured THEN "closing" ELSE @]
    /\ tasks' = (tasks \ {k}) \cup {[k EXCEPT !.step = "finish"]}
    /\ UNCHANGED <<pendingSessions, minted, sessionVars, handlers, daemons>>

(* Faulty variant: readiness keeps its value.                              *)
DetachSilently(k) ==
    /\ k \in tasks /\ k.step = "finish"
    /\ EnqueuePanes({k.reg} \cap Tokens)
    /\ tasks' = tasks \ {k}
    /\ UNCHANGED <<gateVars, book, sessionVars, handlers, daemons, captureLease>>

(* The rest of detach: readiness fails, and the caller closes its pane.    *)
DetachFinish(k) ==
    /\ k \in tasks /\ k.step = "finish"
    /\ readiness' = [readiness EXCEPT ![k.sess] = IF k.had THEN "failed" ELSE @]
    /\ EnqueuePanes({k.reg} \cap Tokens)
    /\ tasks' = tasks \ {k}
    /\ UNCHANGED <<gateVars, book, records, handlers, daemons, captureLease>>

(* External: the cleanup supervisor's close or release is confirmed by the *)
(* adapter; its retries are one eventual step here.                        *)
PaneClosed(t) ==
    /\ paneLease[t] = "closing"
    /\ paneLease' = [paneLease EXCEPT ![t] = "closed"]
    /\ UNCHANGED <<gateVars, book, sessionVars, handlers, tasks, daemons, captureLease>>

CaptureReleased(u) ==
    /\ captureLease[u] = "closing"
    /\ captureLease' = [captureLease EXCEPT ![u] = "closed"]
    /\ UNCHANGED <<gateVars, book, sessionVars, handlers, tasks, daemons, paneLease>>

-----------------------------------------------------------------------------
(* Launcher connection.  One launcher prepares one token, registers the    *)
(* pane it created, commits the placement, and aborts after any failure    *)
(* (herdr_open_ui_pane, commit_herdr_ui_pane).                             *)

GoLauncher(t, pc) == launcher' = [launcher EXCEPT ![t].pc = pc]

(* Faulty variant: a replaced ready owner is not detached.                 *)
PrepareKeepsReady(t, sc) ==
    /\ launcher[t].pc = "none"
    /\ ~sealed
    /\ GPrepare(t, sc)
    /\ \E u \in Sessions \ minted :
          /\ minted' = minted \cup {u}
          /\ pendingSessions' = [x \in Tokens |-> IF x = t THEN u
                                                  ELSE IF x = scopes[sc] THEN None
                                                  ELSE pendingSessions[x]]
    /\ tasks' = tasks \cup {Teardown(t, pendingSessions[x], LeasedPane(x)) :
                              x \in {scopes[sc]} \cap Tokens}
    /\ GoLauncher(t, "replacing")
    /\ UNCHANGED <<gated, sessionVars, ui, tail, daemons, hostVars>>

(* PrepareUiLaunch: gate and pending_sessions change under one lock with   *)
(* the seal check; the replaced owner is torn down before the token is     *)
(* returned.                                                               *)
Prepare(t, sc) ==
    /\ launcher[t].pc = "none"
    /\ ~sealed
    /\ GPrepare(t, sc)
    /\ \E u \in Sessions \ minted :
          /\ minted' = minted \cup {u}
          /\ pendingSessions' = [x \in Tokens |-> IF x = t THEN u
                                                  ELSE IF x = scopes[sc] THEN None
                                                  ELSE pendingSessions[x]]
    /\ tasks' = tasks \cup
          (IF scopes[sc] \in Tokens
           THEN {Teardown(t, pendingSessions[scopes[sc]], LeasedPane(scopes[sc]))}
           ELSE {Teardown(t, u, None) : u \in {scopes[sc]} \cap Sessions})
    /\ GoLauncher(t, "replacing")
    /\ UNCHANGED <<gated, sessionVars, ui, tail, daemons, hostVars>>

LaunchPrepared(t) ==
    /\ launcher[t].pc = "replacing"
    /\ ~Busy(t)
    /\ GoLauncher(t, "prepared")
    /\ UNCHANGED <<gateVars, book, sessionVars, ui, tail, tasks, daemons, hostVars>>

(* The host refuses the pane or its placement, or the broker refuses the   *)
(* registration or the commit.                                             *)
LauncherFails(t) ==
    /\ launcher[t].pc \in {"prepared", "registered"}
    /\ GoLauncher(t, "failed")
    /\ UNCHANGED <<gateVars, book, sessionVars, ui, tail, tasks, daemons, hostVars>>

(* RegisterPendingPane up to the adapter call.                             *)
Register(t, p) ==
    /\ launcher[t].pc = "prepared"
    /\ ~sealed
    /\ pendingSessions[t] # None
    /\ GRegister(t, p)
    /\ GoLauncher(t, "register")
    /\ UNCHANGED <<book, sessionVars, ui, tail, tasks, daemons, hostVars>>

(* adapter.register_pending_pane fails, or grants a lease.                 *)
RegisterHost(t) ==
    /\ launcher[t].pc = "register"
    /\ \/ GoLauncher(t, "failed") /\ UNCHANGED paneLease
       \/ /\ GoLauncher(t, "bind")
          /\ paneLease' = [paneLease EXCEPT ![t] = "held"]
    /\ UNCHANGED <<gateVars, book, sessionVars, ui, tail, tasks, daemons, captureLease>>

(* The rest of register: the lease is bound if the launch is still the one *)
(* that asked for it, and closed otherwise.                                *)
RegisterBind(t) ==
    /\ launcher[t].pc = "bind"
    /\ IF ~sealed /\ pendingSessions[t] # None /\ Live(t)
       THEN GBindLease(t) /\ GoLauncher(t, "registered") /\ UNCHANGED paneLease
       ELSE EnqueuePanes({t}) /\ GoLauncher(t, "failed") /\ UNCHANGED gateVars
    /\ UNCHANGED <<book, sessionVars, ui, tail, tasks, daemons, captureLease>>

Promoted(t) == pending'[t] = None

(* Faulty variant: the promoted token keeps its reserved session.          *)
BookKeepsPending(t) ==
    IF Promoted(t)
    THEN /\ gated' = [gated EXCEPT ![t] = [session |-> pending[t].ui,
                                           lease |-> pending[t].lease]]
         /\ UNCHANGED pendingSessions
    ELSE UNCHANGED <<pendingSessions, gated>>

(* The bookkeeping of a promotion: the token moves from pending_sessions   *)
(* to gated_sessions, which keeps the pane until the UI has its answer.    *)
BookPromotion(t) ==
    IF Promoted(t)
    THEN /\ pendingSessions' = [pendingSessions EXCEPT ![t] = None]
         /\ gated' = [gated EXCEPT ![t] = [session |-> pending[t].ui,
                                           lease |-> pending[t].lease]]
    ELSE UNCHANGED <<pendingSessions, gated>>

(* CommitUiLaunch up to begin_capture.  The seal is not consulted.         *)
Commit(t, p) ==
    /\ launcher[t].pc = "registered"
    /\ GCommit(t, p)
    /\ BookPromotion(t)
    /\ IF Promoted(t)
       THEN /\ launcher' = [launcher EXCEPT ![t] = [pc |-> "commit",
                                                    session |-> pending[t].ui]]
            /\ tail' = [tail EXCEPT ![pending[t].ui] = "lookup"]
       ELSE GoLauncher(t, "committed") /\ UNCHANGED tail
    /\ UNCHANGED <<minted, sessionVars, ui, tasks, daemons, hostVars>>

(* The removal of a pending launch from gate and pending_sessions, shared  *)
(* by every abort path, and the teardown that follows it.                  *)
AbortLaunch(t, who) ==
    /\ GAbort(t)
    /\ pendingSessions[t] # None
    /\ pendingSessions' = [pendingSessions EXCEPT ![t] = None]
    /\ tasks' = tasks \cup {Teardown(who, pendingSessions[t], LeasedPane(t))}
    /\ UNCHANGED <<gated, minted>>

(* AbortUiLaunch; a launch that is gone already is an error to the client. *)
Abort(t) ==
    /\ launcher[t].pc = "failed"
    /\ GoLauncher(t, "done")
    /\ IF Live(t) THEN AbortLaunch(t, t) ELSE UNCHANGED <<gateVars, book, tasks>>
    /\ UNCHANGED <<sessionVars, ui, tail, daemons, hostVars>>

(* abort_on_launcher_disconnect: a committed placement survives.           *)
LauncherDisconnect(t) ==
    /\ launcher[t].pc \in {"prepared", "registered", "committed", "failed"}
    /\ GoLauncher(t, "done")
    /\ IF Live(t) /\ ~pending[t].committed
       THEN AbortLaunch(t, t)
       ELSE UNCHANGED <<gateVars, book, tasks>>
    /\ UNCHANGED <<sessionVars, ui, tail, daemons, hostVars>>

(* expire_pending: any set of launches may be due at a tick; the ticks are *)
(* served by the run loop, which first finishes the previous one.          *)
Expire(T) ==
    /\ ~Busy("expiry")
    /\ GExpire(T)
    /\ pendingSessions' = [t \in Tokens |-> IF t \in T THEN None ELSE pendingSessions[t]]
    /\ tasks' = tasks \cup {Teardown("expiry", pendingSessions[t], LeasedPane(t)) :
                              t \in {x \in T : pendingSessions[x] # None}}
    /\ UNCHANGED <<gated, minted, sessionVars, handlers, daemons, hostVars>>

-----------------------------------------------------------------------------
(* UI connection.                                                           *)

GoUi(c, pc) == ui' = [ui EXCEPT ![c].pc = pc]

(* The launcher passes the token in the environment of the one UI process  *)
(* it starts, after LaunchPrepared.                                        *)
Handed(t, c) ==
    /\ launcher[t].pc \notin {"none", "replacing"}
    /\ \A d \in Uis \ {c} : ui[d].token # t

(* WaitUiPlacement, at most once and only before attachment.               *)
WaitPlacement(c, t) ==
    /\ ui[c].pc = "idle" /\ ~ui[c].waited
    /\ Handed(t, c)
    /\ ui' = [ui EXCEPT ![c].pc = "placing", ![c].token = t, ![c].waited = TRUE]
    /\ UNCHANGED <<gateVars, book, sessionVars, launcher, tail, tasks, daemons, hostVars>>

(* The waiter rereads the gate at every wake-up and at the lease's end,    *)
(* where the launch may be due though the tick has not removed it yet.     *)
PlacementAnswer(c) ==
    /\ ui[c].pc = "placing"
    /\ \/ ~sealed /\ Live(ui[c].token) /\ pending[ui[c].token].committed
          /\ GoUi(c, "idle")
       \/ GoUi(c, "closed")
    /\ UNCHANGED <<gateVars, book, sessionVars, launcher, tail, tasks, daemons, hostVars>>

StartAttach(c, u, t, sc) ==
    ui' = [ui EXCEPT ![c].pc = "origin", ![c].session = u, ![c].token = t,
                     ![c].scope = sc, ![c].reg = None]

(* AttachUi with a launch token, up to capture_origin: the session id was  *)
(* minted with the token.                                                  *)
Attach(c, t, p, sc) ==
    /\ ui[c].pc = "idle"
    /\ ui[c].waited => ui[c].token = t
    /\ Handed(t, c)
    /\ ~sealed
    /\ pendingSessions[t] # None
    /\ GAttachLaunch(pendingSessions[t], sc, p, t)
    /\ StartAttach(c, pendingSessions[t], t, sc)
    /\ UNCHANGED <<book, sessionVars, launcher, tail, tasks, daemons, hostVars>>

(* AttachUi without a token.                                               *)
AttachDirect(c, sc) ==
    /\ ui[c].pc = "idle" /\ ~ui[c].waited
    /\ ~sealed
    /\ \E u \in Sessions \ minted :
          /\ minted' = minted \cup {u}
          /\ GAttachDirect(u, sc)
          /\ StartAttach(c, u, None, sc)
    /\ UNCHANGED <<pendingSessions, gated, sessionVars, launcher, tail, tasks, daemons, hostVars>>

(* capture_origin fails: the launch is aborted, or, when somebody else has *)
(* consumed it meanwhile, only the session leaves the gate.                *)
OriginFailed(c) ==
    LET t == ui[c].token  u == ui[c].session IN
    /\ ui[c].pc = "origin"
    /\ GoUi(c, "idle")
    /\ IF t # None
       THEN pendingSessions' = [pendingSessions EXCEPT ![t] = None]
       ELSE UNCHANGED pendingSessions
    /\ IF t # None /\ Live(t)
       THEN /\ GAbort(t)
            /\ tasks' = tasks \cup {CloseOnly(c, u, x) : x \in {LeasedPane(t)} \cap Tokens}
       ELSE GDetach(u) /\ UNCHANGED tasks
    /\ UNCHANGED <<gated, minted, sessionVars, launcher, tail, daemons, hostVars>>

(* capture_origin answers, and the launch is checked again under the lock. *)
OriginCaptured(c) ==
    LET t == ui[c].token  u == ui[c].session IN
    /\ ui[c].pc = "origin"
    /\ GoUi(c, IF t = None \/ (Live(t) /\ pending[t].ui = u /\ pendingSessions[t] = u)
               THEN "insert" ELSE "idle")
    /\ UNCHANGED <<gateVars, book, sessionVars, launcher, tail, tasks, daemons, hostVars>>

(* The session record becomes visible, before the launch is published.     *)
InsertRecord(c) ==
    /\ ui[c].pc = "insert"
    /\ records' = [records EXCEPT ![ui[c].session] = [scope |-> ui[c].scope,
                                                      captured |-> FALSE]]
    /\ readiness' = [readiness EXCEPT ![ui[c].session] = "pending"]
    /\ GoUi(c, "finalize")
    /\ UNCHANGED <<gateVars, book, launcher, tail, tasks, daemons, hostVars>>

StartCapture(c) ==
    /\ GoUi(c, "capture")
    /\ tail' = [tail EXCEPT ![ui[c].session] = "lookup"]

(* Finalization of a gated attachment.                                     *)
FinalizeGated(c) ==
    LET t == ui[c].token  u == ui[c].session IN
    /\ ui[c].pc = "finalize" /\ t # None
    /\ IF ~sealed /\ PublishOk(t, u)
       THEN /\ GPublish(t, u)
            /\ BookPromotion(t)
            /\ IF Promoted(t) THEN StartCapture(c)
                              ELSE GoUi(c, "waiting") /\ UNCHANGED tail
       ELSE /\ IF Live(t) THEN GAbort(t) ELSE UNCHANGED gateVars
            /\ pendingSessions' = [pendingSessions EXCEPT ![t] = None]
            /\ ui' = [ui EXCEPT ![c].pc = "withdraw", ![c].reg = LeasedPane(t)]
            /\ UNCHANGED <<gated, tail>>
    /\ UNCHANGED <<minted, sessionVars, launcher, tasks, daemons, hostVars>>

(* Finalization of an attachment without a token: the gate is only read.   *)
FinalizeDirect(c) ==
    /\ ui[c].pc = "finalize" /\ ui[c].token = None
    /\ IF ~sealed /\ scopes[ui[c].scope] = ui[c].session
       THEN StartCapture(c)
       ELSE GoUi(c, "withdraw") /\ UNCHANGED tail
    /\ UNCHANGED <<gateVars, book, sessionVars, launcher, tasks, daemons, hostVars>>

(* The finalization error path: record out, registered pane to cleanup.    *)
Withdraw(c) ==
    /\ ui[c].pc = "withdraw"
    /\ records' = [records EXCEPT ![ui[c].session] = None]
    /\ readiness' = [readiness EXCEPT ![ui[c].session] = "failed"]
    /\ EnqueuePanes({ui[c].reg} \cap Tokens)
    /\ GoUi(c, "idle")
    /\ UNCHANGED <<gateVars, book, launcher, tail, tasks, daemons, captureLease>>

(* The readiness waiter of a gated attachment.                             *)
Waiter(c) ==
    /\ ui[c].pc = "waiting"
    /\ \/ readiness[ui[c].session] = "ready" /\ GoUi(c, "confirm")
       \/ readiness[ui[c].session] = "failed" /\ GoUi(c, "closed")
    /\ UNCHANGED <<gateVars, book, sessionVars, launcher, tail, tasks, daemons, hostVars>>

(* Faulty variant: the gated entry outlives the confirmation.              *)
ConfirmKeepsGated(c) ==
    LET t == ui[c].token IN
    /\ ui[c].pc = "confirm"
    /\ GoUi(c, "attached")
    /\ paneLease' = [x \in Tokens |->
                        IF x = t /\ t \in GatedTo(ui[c].session) /\ gated[t].lease
                        THEN "confirmed" ELSE paneLease[x]]
    /\ UNCHANGED <<gateVars, book, sessionVars, launcher, tail, tasks, daemons, captureLease>>

(* The UiAttached response is on its way: confirm_gated_attachment gives   *)
(* the pane to the UI unless a teardown has claimed it.                    *)
Confirm(c) ==
    LET t == ui[c].token IN
    /\ ui[c].pc = "confirm"
    /\ GoUi(c, "attached")
    /\ IF t # None /\ t \in GatedTo(ui[c].session)
       THEN /\ gated' = [gated EXCEPT ![t] = None]
            /\ paneLease' = [paneLease EXCEPT ![t] = IF gated[t].lease THEN "confirmed" ELSE @]
       ELSE UNCHANGED <<gated, paneLease>>
    /\ UNCHANGED <<gateVars, pendingSessions, minted, sessionVars, launcher, tail,
                   tasks, daemons, captureLease>>

(* DetachUi, or the end of the connection (disconnect_resources): a waiting*)
(* attachment goes through disconnect_gated, an attached one through       *)
(* detach.                                                                 *)
UiLeaves(c) ==
    LET t == ui[c].token  u == ui[c].session IN
    /\ ui[c].pc \in {"idle", "placing", "waiting", "confirm", "attached"}
    /\ GoUi(c, "closed")
    /\ \/ /\ ui[c].pc \in {"idle", "placing"}
          /\ UNCHANGED <<gateVars, book, tasks>>
       \/ /\ ui[c].pc \in {"confirm", "attached"}
          /\ tasks' = tasks \cup {Teardown(c, u, None)}
          /\ UNCHANGED <<gateVars, book>>
       \/ /\ ui[c].pc = "waiting"
          /\ IF pendingSessions[t] = u /\ Live(t) /\ pending[t].ui = u
             THEN AbortLaunch(t, c)
             ELSE /\ gated' = [gated EXCEPT ![t] = IF t \in GatedTo(u) THEN None ELSE @]
                  /\ tasks' = tasks \cup
                       {Teardown(c, u, IF gated[t].lease THEN t ELSE None) :
                          x \in {t} \cap GatedTo(u)}
                  /\ UNCHANGED <<gateVars, pendingSessions, minted>>
    /\ UNCHANGED <<sessionVars, launcher, tail, daemons, hostVars>>

-----------------------------------------------------------------------------
(* begin_capture and attached_response, run by commit or by attach.        *)

GoTail(u, pc) == tail' = [tail EXCEPT ![u] = pc]

AttachRuns(c, u) == ui[c].pc = "capture" /\ ui[c].session = u

CommitRuns(t, u) == launcher[t].pc = "commit" /\ launcher[t].session = u

Runner(u) == {c \in Uis : AttachRuns(c, u)} \cup {t \in Tokens : CommitRuns(t, u)}

(* The handler fails and detaches the session before it answers.           *)
TailFails(u) ==
    /\ GoTail(u, "failing")
    /\ tasks' = tasks \cup {Teardown(who, u, None) : who \in Runner(u)}

CaptureLookup(u) ==
    /\ tail[u] = "lookup"
    /\ \/ GoTail(u, "respond") /\ ~SupportsCapture /\ UNCHANGED tasks
       \/ GoTail(u, "host") /\ SupportsCapture /\ records[u] # None /\ UNCHANGED tasks
       \/ TailFails(u)      \* capabilities() fails, or the session is gone
    /\ UNCHANGED <<gateVars, book, sessionVars, launcher, ui, daemons, hostVars>>

(* adapter.begin_capture *)
CaptureHost(u) ==
    /\ tail[u] = "host"
    /\ \/ TailFails(u) /\ UNCHANGED captureLease
       \/ /\ GoTail(u, "store")
          /\ captureLease' = [captureLease EXCEPT ![u] = "held"]
          /\ UNCHANGED tasks
    /\ UNCHANGED <<gateVars, book, sessionVars, launcher, ui, daemons, paneLease>>

(* The lease is stored in the record, or, when a concurrent detach took    *)
(* the record, goes to cleanup.                                            *)
CaptureStore(u) ==
    /\ tail[u] = "store"
    /\ IF records[u] # None
       THEN /\ records' = [records EXCEPT ![u].captured = TRUE]
            /\ GoTail(u, "respond")
            /\ UNCHANGED <<tasks, captureLease>>
       ELSE /\ captureLease' = [captureLease EXCEPT ![u] = "closing"]
            /\ TailFails(u)
            /\ UNCHANGED records
    /\ UNCHANGED <<gateVars, book, readiness, launcher, ui, daemons, paneLease>>

(* attached_response: attach answers its connection, commit announces the  *)
(* response on the readiness channel.                                      *)
AttachedResponse(u) ==
    /\ tail[u] = "respond"
    /\ IF records[u] = None
       THEN TailFails(u) /\ UNCHANGED ui
       ELSE /\ UNCHANGED tasks
            /\ IF \E c \in Uis : AttachRuns(c, u)
               THEN /\ GoTail(u, "none")
                    /\ ui' = [c \in Uis |-> IF AttachRuns(c, u)
                                            THEN [ui[c] EXCEPT !.pc = "confirm"] ELSE ui[c]]
               ELSE GoTail(u, "announce") /\ UNCHANGED ui
    /\ UNCHANGED <<gateVars, book, sessionVars, launcher, daemons, hostVars>>

CommitEnds(u, outcome) ==
    launcher' = [t \in Tokens |-> IF CommitRuns(t, u)
                                  THEN [pc |-> outcome, session |-> None] ELSE launcher[t]]

AnnounceReady(u) ==
    /\ tail[u] = "announce"
    /\ GoTail(u, "none")
    /\ readiness' = [readiness EXCEPT ![u] = IF records[u] # None THEN "ready" ELSE @]
    /\ CommitEnds(u, "committed")
    /\ UNCHANGED <<gateVars, book, records, ui, tasks, daemons, hostVars>>

TailFailed(u) ==
    /\ tail[u] = "failing"
    /\ \A who \in Runner(u) : ~Busy(who)
    /\ GoTail(u, "none")
    /\ CommitEnds(u, "failed")
    /\ ui' = [c \in Uis |-> IF AttachRuns(c, u) THEN [ui[c] EXCEPT !.pc = "idle"] ELSE ui[c]]
    /\ UNCHANGED <<gateVars, book, sessionVars, tasks, daemons, hostVars>>

-----------------------------------------------------------------------------
(* A full outbox: the session is detached by a task of its own.            *)

SlowConsumer(u) ==
    /\ SlowConsumers
    /\ records[u] # None
    /\ tasks' = tasks \cup {Teardown("slow", u, None)}
    /\ UNCHANGED <<gateVars, book, sessionVars, handlers, daemons, hostVars>>

(* The adapter monitor handles one event at a time.                        *)

CaptureLost(u) ==
    /\ monitor.pc = "idle"
    /\ records[u] # None /\ records[u].captured
    /\ monitor' = [monitor EXCEPT !.pc = "lost"]
    /\ tasks' = tasks \cup {Teardown("monitor", u, None)}
    /\ UNCHANGED <<gateVars, book, sessionVars, handlers, drain, sealed, hostVars>>

CaptureLostHandled ==
    /\ monitor.pc = "lost" /\ ~Busy("monitor")
    /\ monitor' = [monitor EXCEPT !.pc = "idle"]
    /\ UNCHANGED <<gateVars, book, sessionVars, handlers, tasks, drain, sealed, hostVars>>

(* scope_unhealthy: first every session seen in the scope is detached,     *)
(* then every launch still pending in it is aborted.                       *)
ScopeUnhealthy(sc) ==
    /\ monitor.pc = "idle" /\ monitor.failures < MaxScopeFailures
    /\ monitor' = [pc |-> "sessions", scope |-> sc, failures |-> monitor.failures + 1,
                   left |-> {u \in Sessions : records[u] # None /\ records[u].scope = sc}]
    /\ UNCHANGED <<gateVars, book, sessionVars, handlers, tasks, drain, sealed, hostVars>>

UnhealthyDetach(u) ==
    /\ monitor.pc = "sessions" /\ u \in monitor.left /\ ~Busy("monitor")
    /\ monitor' = [monitor EXCEPT !.left = @ \ {u}]
    /\ tasks' = tasks \cup {Teardown("monitor", u, None)}
    /\ UNCHANGED <<gateVars, book, sessionVars, handlers, drain, sealed, hostVars>>

UnhealthyTokens ==
    /\ monitor.pc = "sessions" /\ monitor.left = {} /\ ~Busy("monitor")
    /\ monitor' = [monitor EXCEPT !.pc = "tokens", !.left = PendingIn(monitor.scope)]
    /\ UNCHANGED <<gateVars, book, sessionVars, handlers, tasks, drain, sealed, hostVars>>

UnhealthyAbort(t) ==
    /\ monitor.pc = "tokens" /\ t \in monitor.left /\ ~Busy("monitor")
    /\ monitor' = [monitor EXCEPT !.left = @ \ {t}]
    /\ IF Live(t) THEN AbortLaunch(t, "monitor") ELSE UNCHANGED <<gateVars, book, tasks>>
    /\ UNCHANGED <<sessionVars, handlers, drain, sealed, hostVars>>

UnhealthyRelease ==
    /\ monitor.pc = "tokens" /\ monitor.left = {} /\ ~Busy("monitor")
    /\ GReleaseDangling(monitor.scope)
    /\ monitor' = [monitor EXCEPT !.pc = "idle", !.scope = None]
    /\ UNCHANGED <<book, sessionVars, handlers, tasks, drain, sealed, hostVars>>

-----------------------------------------------------------------------------
(* drain_for_activation.  Executions are not part of this module: whether  *)
(* one refuses the drain is a choice here.                                 *)

DrainSeal ==
    /\ drain.pc = "idle" /\ drain.started < MaxDrains
    /\ sealed' = TRUE
    /\ drain' = [drain EXCEPT !.pc = "sealed", !.started = @ + 1]
    /\ UNCHANGED <<gateVars, book, sessionVars, handlers, tasks, monitor, hostVars>>

(* A non-cancellable execution, a failed cancellation, or cleanup that is  *)
(* not confirmed before the deadline: admission reopens.                   *)
DrainFails ==
    /\ drain.pc \in {"sealed", "cleanup"}
    /\ sealed' = FALSE
    /\ drain' = [drain EXCEPT !.pc = "idle"]
    /\ UNCHANGED <<gateVars, book, sessionVars, handlers, tasks, monitor, hostVars>>

DrainGate ==
    /\ drain.pc = "sealed"
    /\ GDrain
    /\ pendingSessions' = [t \in Tokens |-> None]
    /\ tasks' = tasks \cup
          {CloseOnly("drain", pendingSessions[t], t) :
             t \in {x \in Tokens : LeasedPane(x) = x /\ pendingSessions[x] # None}}
    /\ drain' = [drain EXCEPT !.pc = "emptied"]
    /\ UNCHANGED <<gated, minted, sessionVars, handlers, monitor, sealed, hostVars>>

DrainSnapshot ==
    /\ drain.pc = "emptied" /\ ~Busy("drain")
    /\ drain' = [drain EXCEPT !.pc = "sessions",
                              !.left = {u \in Sessions : records[u] # None}]
    /\ UNCHANGED <<gateVars, book, sessionVars, handlers, tasks, monitor, sealed, hostVars>>

DrainDetach(u) ==
    /\ drain.pc = "sessions" /\ u \in drain.left /\ ~Busy("drain")
    /\ drain' = [drain EXCEPT !.left = @ \ {u}]
    /\ tasks' = tasks \cup {Teardown("drain", u, None)}
    /\ UNCHANGED <<gateVars, book, sessionVars, handlers, monitor, sealed, hostVars>>

DrainCleanup ==
    /\ drain.pc = "sessions" /\ drain.left = {} /\ ~Busy("drain")
    /\ drain' = [drain EXCEPT !.pc = "cleanup"]
    /\ UNCHANGED <<gateVars, book, sessionVars, handlers, tasks, monitor, sealed, hostVars>>

(* await_cleanup_drain: the cleanup registry is empty.                     *)
DrainDone ==
    /\ drain.pc = "cleanup"
    /\ \A t \in Tokens : paneLease[t] # "closing"
    /\ \A u \in Sessions : captureLease[u] # "closing"
    /\ drain' = [drain EXCEPT !.pc = "drained"]
    /\ UNCHANGED <<gateVars, book, sessionVars, handlers, tasks, monitor, sealed, hostVars>>

(* reopen_dispatch after an aborted activation.                            *)
Reopen ==
    /\ drain.pc = "drained"
    /\ sealed' = FALSE
    /\ drain' = [drain EXCEPT !.pc = "idle"]
    /\ UNCHANGED <<gateVars, book, sessionVars, handlers, tasks, monitor, hostVars>>

-----------------------------------------------------------------------------

LauncherNext ==
    \E t \in Tokens :
        \/ \E sc \in Scopes : Prepare(t, sc)
        \/ \E p \in Panes : Register(t, p) \/ Commit(t, p)
        \/ LaunchPrepared(t) \/ LauncherFails(t) \/ RegisterHost(t) \/ RegisterBind(t)
        \/ Abort(t) \/ LauncherDisconnect(t)

UiNext ==
    \E c \in Uis :
        \/ \E t \in Tokens : WaitPlacement(c, t)
        \/ \E t \in Tokens, p \in Panes, sc \in Scopes : Attach(c, t, p, sc)
        \/ \E sc \in Scopes : AttachDirect(c, sc)
        \/ PlacementAnswer(c) \/ OriginFailed(c) \/ OriginCaptured(c)
        \/ InsertRecord(c) \/ FinalizeGated(c) \/ FinalizeDirect(c) \/ Withdraw(c)
        \/ Waiter(c) \/ Confirm(c) \/ UiLeaves(c)

SessionNext ==
    \E u \in Sessions :
        \/ CaptureLookup(u) \/ CaptureHost(u) \/ CaptureStore(u)
        \/ AttachedResponse(u) \/ AnnounceReady(u) \/ TailFailed(u)
        \/ SlowConsumer(u) \/ CaptureLost(u) \/ UnhealthyDetach(u) \/ DrainDetach(u)
        \/ CaptureReleased(u)

TaskNext == \E k \in tasks : DetachUnlink(k) \/ DetachState(k) \/ DetachFinish(k)

DaemonNext ==
    \/ \E T \in SUBSET Tokens : Expire(T)
    \/ \E t \in Tokens : PaneClosed(t) \/ UnhealthyAbort(t)
    \/ \E sc \in Scopes : ScopeUnhealthy(sc)
    \/ CaptureLostHandled \/ UnhealthyTokens \/ UnhealthyRelease
    \/ DrainSeal \/ DrainFails \/ DrainGate \/ DrainSnapshot \/ DrainCleanup
    \/ DrainDone \/ Reopen

Next == LauncherNext \/ UiNext \/ SessionNext \/ TaskNext \/ DaemonNext

Spec == Init /\ [][Next]_vars

(* Tokio polls every spawned task and every handler that can continue, the *)
(* adapter answers each call it was given, the run loop ticks every 100 ms *)
(* and a lease is 60 s.  What launchers, UIs and the host decide to do is  *)
(* not fair.                                                               *)
Fairness ==
    /\ \A t \in Tokens :
          /\ WF_vars(LaunchPrepared(t))
          /\ WF_vars(RegisterHost(t))
          /\ WF_vars(RegisterBind(t))
          /\ WF_vars(PaneClosed(t))
          /\ WF_vars(UnhealthyAbort(t))
    /\ \A c \in Uis :
          /\ WF_vars(PlacementAnswer(c))
          /\ WF_vars(OriginFailed(c) \/ OriginCaptured(c))
          /\ WF_vars(InsertRecord(c))
          /\ WF_vars(FinalizeGated(c) \/ FinalizeDirect(c))
          /\ WF_vars(Withdraw(c))
          /\ WF_vars(Waiter(c))
          /\ WF_vars(Confirm(c))
    /\ \A u \in Sessions :
          /\ WF_vars(CaptureLookup(u))
          /\ WF_vars(CaptureHost(u))
          /\ WF_vars(CaptureStore(u))
          /\ WF_vars(AttachedResponse(u))
          /\ WF_vars(AnnounceReady(u))
          /\ WF_vars(TailFailed(u))
          /\ WF_vars(CaptureReleased(u))
          /\ WF_vars(UnhealthyDetach(u))
          /\ WF_vars(DrainDetach(u))
    /\ WF_vars(TaskNext)
    /\ WF_vars(\E T \in SUBSET Tokens : Expire(T))
    /\ WF_vars(CaptureLostHandled \/ UnhealthyTokens \/ UnhealthyRelease)
    /\ WF_vars(DrainFails \/ DrainGate \/ DrainSnapshot \/ DrainCleanup \/ DrainDone)

FairSpec == Spec /\ Fairness

-----------------------------------------------------------------------------
(* Properties.                                                              *)

(* The broker's token table and the gate never disagree: a token has a     *)
(* reserved session exactly while its launch is pending, the UI attached   *)
(* to the launch is that session, and a token kept for its answer          *)
(* (gated_sessions) is no longer pending.  prepare, commit, attach, abort, *)
(* expiry, disconnect, scope failure and drain each update both maps.      *)
LaunchBookAgrees ==
    \A t \in Tokens :
        /\ Live(t) <=> pendingSessions[t] # None
        /\ Live(t) => pending[t].ui \in {None, pendingSessions[t]}
        /\ Live(t) => gated[t] = None

(* A handler or a detach call is still working on the session.             *)
InFlight(u) ==
    \/ \E k \in tasks : k.sess = u
    \/ \E c \in Uis : /\ ui[c].session = u
                      /\ ui[c].pc \in {"origin", "insert", "finalize", "withdraw"}
    \/ u \in monitor.left \cup drain.left
    \/ drain.pc \in {"sealed", "emptied"}

(* At most one pending or ready UI per modal scope: a session record that  *)
(* nothing is working on belongs to the owner of its scope, directly or    *)
(* through the launch it waits for.  So a replaced, expired, aborted or    *)
(* drained session never keeps a record behind.                            *)
RecordOwnsScope ==
    \A u \in Sessions :
        (records[u] # None /\ ~InFlight(u)) =>
            LET owner == scopes[records[u].scope] IN
            owner = u \/ (owner \in Tokens /\ pendingSessions[owner] = u)

(* The owner of a scope is never a session that is gone: otherwise an      *)
(* attachment without a token would find the scope occupied by nobody.     *)
ReadyOwnerAlive ==
    \A sc \in Scopes :
        scopes[sc] \in Sessions =>
            \/ records[scopes[sc]] # None
            \/ InFlight(scopes[sc])
            \/ tail[scopes[sc]] # "none"
            \/ monitor.scope = sc      \* release_dangling_owner is still to come

(* No pending-pane lease is forgotten: while the adapter holds one open,   *)
(* the launch, the gated entry, a running handler or a queued close still  *)
(* names it, whatever the order of commit, expiry, disconnect and drain.   *)
PaneLeaseAccounted ==
    \A t \in Tokens : paneLease[t] = "held" =>
        \/ launcher[t].pc = "bind"
        \/ LeasedPane(t) = t
        \/ gated[t] # None /\ gated[t].lease
        \/ \E k \in tasks : k.reg = t
        \/ \E c \in Uis : ui[c].pc = "withdraw" /\ ui[c].reg = t

(* No keyboard capture is forgotten: a capture held at the host belongs to *)
(* a session record, or to the handler or detach call that carries it.     *)
CaptureAccounted ==
    \A u \in Sessions : captureLease[u] = "held" =>
        \/ records[u] # None /\ records[u].captured
        \/ tail[u] = "store"
        \/ \E k \in tasks : k.sess = u /\ k.captured /\ k.step = "state"

(* Once confirm_gated_attachment has given the pane to an attached UI, no  *)
(* late abort, disconnect or drain queues that pane for closing; and a     *)
(* pane whose close was confirmed is not queued a second time.             *)
PaneSettledOnce ==
    [][\A t \in Tokens : paneLease[t] \in {"confirmed", "closed"}
                            => paneLease'[t] = paneLease[t]]_vars

(* The held AttachUi of a gated UI is always answered: committed, aborted, *)
(* expired, replaced, drained or detached, the waiter does not hang.       *)
WaiterAnswered == \A c \in Uis : ui[c].pc = "waiting" ~> ui[c].pc # "waiting"

(* Once every launcher and every UI is gone, the broker lets go of all it  *)
(* held for them: every scope becomes free, no session record stays, and   *)
(* every pane and capture lease still open at the host is closed.          *)
AbandonedScopeFreed ==
    ((\A t \in Tokens : launcher[t].pc = "done") /\ (\A c \in Uis : ui[c].pc = "closed"))
      ~> /\ \A sc \in Scopes : scopes[sc] = None
         /\ \A u \in Sessions : records[u] = None
         /\ \A t \in Tokens : paneLease[t] \notin {"held", "closing"}
         /\ \A u \in Sessions : captureLease[u] \notin {"held", "closing"}
=============================================================================
