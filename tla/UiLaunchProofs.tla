--------------------------- MODULE UiLaunchProofs ---------------------------
(***************************************************************************)
(* The launch protocol for any number of tokens, scopes, sessions, panes   *)
(* and UI connections, with drains, scope failures and slow consumers:     *)
(* the state keeps its types, the broker uses the gate only through its    *)
(* methods (so that what LaunchGateProofs shows of the gate holds of the   *)
(* broker), and the broker's token table agrees with the gate.             *)
(*                                                                         *)
(* These facts need each other, and three more: a handler in the middle of *)
(* an attachment knows its session and scope, a token nobody has prepared  *)
(* is unused, and the monitor of a failed scope knows the scope.           *)
(***************************************************************************)
EXTENDS UiLaunch, LaunchGateProofs

(* A connection past the start of AttachUi works for a session in a scope, *)
(* and a held WaitUiPlacement or gated AttachUi knows its token.           *)
UiKnows(r) ==
    /\ r.pc \notin {"idle", "placing", "closed"}
          => r.session \in Sessions /\ r.scope \in Scopes
    /\ r.pc \in {"placing", "waiting"} => r.token \in Tokens

KnownUi == {r \in UiConn : UiKnows(r)}

UisKnow == ui \in [Uis -> KnownUi]

(* A token that was never prepared is not in any table.                    *)
Unused == \A t \in Tokens :
    launcher[t].pc = "none" => ~Live(t) /\ gated[t] = None

MonitorKnows == monitor.pc \in {"sessions", "tokens"} => monitor.scope \in Scopes

BookInv ==
    /\ TypeOK
    /\ UisKnow
    /\ PendingOwnsScope
    /\ LaunchesOK
    /\ LaunchBookAgrees
    /\ Unused
    /\ MonitorKnows

-----------------------------------------------------------------------------
(* Operators.                                                               *)

LEMMA TeardownType ==
    ASSUME NEW who \in Actor, NEW u \in Sessions, NEW t \in Tokens \cup {None}
    PROVE  Teardown(who, u, t) \in Task /\ CloseOnly(who, u, t) \in Task
BY DEF Teardown, CloseOnly, Task

LEMMA LeasedPaneType == ASSUME NEW t \in Tokens PROVE LeasedPane(t) \in Tokens \cup {None}
BY DEF LeasedPane

LEMMA EnqueueType ==
    ASSUME paneLease \in [Tokens -> LeaseState], NEW T, EnqueuePanes(T)
    PROVE  paneLease' \in [Tokens -> LeaseState]
BY DEF EnqueuePanes, LeaseState

(* The moves of a UI connection that only change where its handler is.     *)
LEMMA GoUiKnows ==
    ASSUME UisKnow, NEW c \in Uis, NEW pc \in UiPc, GoUi(c, pc),
           UiKnows([ui[c] EXCEPT !.pc = pc])
    PROVE  UisKnow'
<1>1. ui[c] \in UiConn
    BY DEF UisKnow, KnownUi
<1>2. [ui[c] EXCEPT !.pc = pc] \in KnownUi
    BY <1>1 DEF KnownUi, UiConn
<1>3. ui' = [ui EXCEPT ![c] = [ui[c] EXCEPT !.pc = pc]]
    BY DEF GoUi, UisKnow
<1> QED
    BY <1>2, <1>3 DEF UisKnow

(* What a connection in the middle of an attachment knows.                 *)
LEMMA UiFacts ==
    ASSUME UisKnow, NEW c \in Uis
    PROVE  /\ ui[c] \in UiConn
           /\ ui[c].token \in Tokens \cup {None}
           /\ ui[c].session \in Sessions \cup {None}
           /\ ui[c].reg \in Tokens \cup {None}
           /\ ui[c].pc \in UiPc
           /\ ui[c].pc \notin {"idle", "placing", "closed"}
                => ui[c].session \in Sessions /\ ui[c].scope \in Scopes
           /\ ui[c].pc \in {"placing", "waiting"} => ui[c].token \in Tokens
BY DEF UisKnow, KnownUi, UiKnows, UiConn

LEMMA GoLauncherType ==
    ASSUME launcher \in [Tokens -> [pc : LauncherPc, session : Sessions \cup {None}]],
           NEW t \in Tokens, NEW pc \in LauncherPc, GoLauncher(t, pc)
    PROVE  launcher' \in [Tokens -> [pc : LauncherPc, session : Sessions \cup {None}]]
<1>1. [launcher[t] EXCEPT !.pc = pc] \in [pc : LauncherPc, session : Sessions \cup {None}]
    OBVIOUS
<1> QED
    BY <1>1 DEF GoLauncher

(* A pending launch has a session that was minted with its token.          *)
LEMMA PendingSession ==
    ASSUME BookInv, NEW t \in Tokens
    PROVE  /\ Live(t) => pendingSessions[t] \in Sessions
           /\ pendingSessions[t] # None => pendingSessions[t] \in Sessions /\ Live(t)
           /\ Live(t) => pending[t] \in Launch
           /\ Live(t) /\ pending[t].ui # None => pending[t].ui = pendingSessions[t]
BY LiveLaunch, GateAssumption DEF BookInv, TypeOK, LaunchBookAgrees

-----------------------------------------------------------------------------
(* Every step of the broker is a step of the gate, or leaves it alone.      *)

LEMMA LauncherGate == ASSUME BookInv, LauncherNext PROVE [GateNext]_gateVars
<1> USE DEF gateVars
<1>1. ASSUME NEW t \in Tokens, NEW sc \in Scopes, Prepare(t, sc) PROVE GateNext
    BY <1>1 DEF Prepare, GateNext
<1>2. ASSUME NEW t \in Tokens, NEW p \in Panes, Register(t, p) \/ Commit(t, p) PROVE GateNext
    BY <1>2 DEF Register, Commit, GateNext
<1>3. ASSUME NEW t \in Tokens, LaunchPrepared(t) \/ LauncherFails(t) \/ RegisterHost(t)
      PROVE  UNCHANGED gateVars
    BY <1>3 DEF LaunchPrepared, LauncherFails, RegisterHost
<1>4. ASSUME NEW t \in Tokens, RegisterBind(t) PROVE [GateNext]_gateVars
    BY <1>4 DEF RegisterBind, GateNext
<1>5. ASSUME NEW t \in Tokens, Abort(t) \/ LauncherDisconnect(t) PROVE [GateNext]_gateVars
    BY <1>5 DEF Abort, LauncherDisconnect, AbortLaunch, GateNext
<1> QED
    BY <1>1, <1>2, <1>3, <1>4, <1>5 DEF LauncherNext

LEMMA UiGate == ASSUME BookInv, UiNext PROVE [GateNext]_gateVars
<1> USE DEF gateVars
<1>0. UisKnow
    BY DEF BookInv
<1>1. ASSUME NEW c \in Uis, NEW t \in Tokens, NEW p \in Panes, NEW sc \in Scopes,
             Attach(c, t, p, sc)
      PROVE  GateNext
    <2>1. pendingSessions[t] \in Sessions
        BY <1>1, PendingSession DEF Attach
    <2> QED
        BY <1>1, <2>1 DEF Attach, GateNext
<1>2. ASSUME NEW c \in Uis, NEW sc \in Scopes, AttachDirect(c, sc) PROVE GateNext
    BY <1>2 DEF AttachDirect, GateNext
<1>3. ASSUME NEW c \in Uis, OriginFailed(c) PROVE GateNext
    <2>1. ui[c].session \in Sessions /\ ui[c].token \in Tokens \cup {None}
        BY <1>0, <1>3, UiFacts DEF OriginFailed
    <2> QED
        BY <1>3, <2>1 DEF OriginFailed, GateNext
<1>4. ASSUME NEW c \in Uis, FinalizeGated(c) PROVE [GateNext]_gateVars
    <2>1. ui[c].session \in Sessions /\ ui[c].token \in Tokens
        BY <1>0, <1>4, UiFacts DEF FinalizeGated
    <2> QED
        BY <1>4, <2>1 DEF FinalizeGated, GateNext
<1>5. ASSUME NEW c \in Uis, UiLeaves(c) PROVE [GateNext]_gateVars
    <2>1. ui[c].pc = "waiting" => ui[c].token \in Tokens
        BY <1>0, UiFacts
    <2> QED
        BY <1>5, <2>1 DEF UiLeaves, AbortLaunch, GateNext
<1>6. ASSUME NEW c \in Uis,
             \/ \E t \in Tokens : WaitPlacement(c, t)
             \/ PlacementAnswer(c) \/ OriginCaptured(c) \/ InsertRecord(c)
             \/ FinalizeDirect(c) \/ Withdraw(c) \/ Waiter(c) \/ Confirm(c)
      PROVE  UNCHANGED gateVars
    BY <1>6 DEF WaitPlacement, PlacementAnswer, OriginCaptured, InsertRecord,
                FinalizeDirect, Withdraw, Waiter, Confirm
<1> QED
    BY <1>1, <1>2, <1>3, <1>4, <1>5, <1>6 DEF UiNext

(* begin_capture and attached_response, and the events of a session, never *)
(* reach the gate: they tear down through a detach call.                   *)
LEMMA SessionGate == ASSUME SessionNext PROVE UNCHANGED gateVars
BY DEF SessionNext, CaptureLookup, CaptureHost, CaptureStore, AttachedResponse,
       AnnounceReady, TailFailed, SlowConsumer, CaptureLost, UnhealthyDetach,
       DrainDetach, CaptureReleased, gateVars

LEMMA TaskGate == ASSUME BookInv, TaskNext PROVE [GateNext]_gateVars
<1>1. PICK k \in tasks : DetachUnlink(k) \/ DetachState(k) \/ DetachFinish(k)
    BY DEF TaskNext
<1>2. k.sess \in Sessions
    BY DEF BookInv, TypeOK, Task
<1> QED
    BY <1>1, <1>2 DEF DetachUnlink, DetachState, DetachFinish, GateNext, gateVars

LEMMA DaemonGate == ASSUME BookInv, DaemonNext PROVE [GateNext]_gateVars
<1> USE DEF gateVars
<1>1. ASSUME NEW T \in SUBSET Tokens, Expire(T) PROVE GateNext
    BY <1>1 DEF Expire, GateNext
<1>2. ASSUME NEW t \in Tokens, UnhealthyAbort(t) PROVE [GateNext]_gateVars
    BY <1>2 DEF UnhealthyAbort, AbortLaunch, GateNext
<1>3. CASE UnhealthyRelease
    BY <1>3 DEF UnhealthyRelease, GateNext, BookInv, MonitorKnows
<1>4. CASE DrainGate
    BY <1>4 DEF DrainGate, GateNext
<1>5. ASSUME \/ \E t \in Tokens : PaneClosed(t)
             \/ \E sc \in Scopes : ScopeUnhealthy(sc)
             \/ CaptureLostHandled \/ UnhealthyTokens
             \/ DrainSeal \/ DrainFails \/ DrainSnapshot \/ DrainCleanup \/ DrainDone \/ Reopen
      PROVE  UNCHANGED gateVars
    BY <1>5 DEF PaneClosed, ScopeUnhealthy, CaptureLostHandled, UnhealthyTokens, DrainSeal,
                DrainFails, DrainSnapshot, DrainCleanup, DrainDone, Reopen
<1> QED
    BY <1>1, <1>2, <1>3, <1>4, <1>5 DEF DaemonNext

LEMMA GateStep == ASSUME BookInv, [Next]_vars PROVE [GateNext]_gateVars
BY LauncherGate, UiGate, SessionGate, TaskGate, DaemonGate DEF Next, vars, gateVars

(* What LaunchGateProofs shows of a step of the gate, for a broker step.   *)
LEMMA GatePart ==
    ASSUME BookInv, [Next]_vars
    PROVE  GateTypeOK' /\ PendingOwnsScope' /\ LaunchesOK'
BY GateStep, GateTypeStep, PendingOwnsStep, LaunchesOKStep DEF BookInv, TypeOK

-----------------------------------------------------------------------------
(* Types.                                                                   *)

(* The part of the invariant that says what the variables of the broker    *)
(* range over.                                                             *)
Typed == TypeOK /\ UisKnow /\ MonitorKnows

(* The tables a launch is recorded in.                                     *)
LEMMA TableTypes ==
    ASSUME BookInv
    PROVE  /\ pendingSessions \in [Tokens -> Sessions \cup {None}]
           /\ gated \in [Tokens -> Gated \cup {None}]
           /\ minted \subseteq Sessions
           /\ records \in [Sessions -> Record \cup {None}]
           /\ readiness \in [Sessions -> {"none", "pending", "ready", "failed"}]
           /\ launcher \in [Tokens -> [pc : LauncherPc, session : Sessions \cup {None}]]
           /\ tail \in [Sessions -> TailPc]
           /\ tasks \subseteq Task
           /\ paneLease \in [Tokens -> LeaseState]
           /\ captureLease \in [Sessions -> LeaseState \ {"confirmed"}]
BY DEF BookInv, TypeOK

(* A commit or publication that consumes the token finds the other half    *)
(* recorded, and a session to promote.                                     *)
LEMMA PromotedByCommit ==
    ASSUME BookInv, NEW t \in Tokens, NEW p \in Panes, GCommit(t, p), Promoted(t)
    PROVE  /\ Live(t) /\ pending[t].published /\ Promote(t)
           /\ pending[t].ui \in Sessions /\ pending[t].ui = pendingSessions[t]
           /\ [session |-> pending[t].ui, lease |-> pending[t].lease] \in Gated
<1>1. Live(t) /\ pending[t] \in Launch
    BY PendingSession DEF GCommit, CommitOk
<1>2. [pending[t] EXCEPT !.committed = TRUE] # None
    BY <1>1, LaunchUpdates, GateAssumption
<1>3. pending[t].published
    BY <1>2 DEF GCommit, Promoted, BookInv, TypeOK, GateTypeOK
<1>4. pending[t].ui = pendingSessions[t] /\ pending[t].ui # None
    BY <1>1, <1>3, PendingSession DEF BookInv, LaunchesOK, LaunchOK
<1>5. pending[t].lease \in BOOLEAN /\ pending[t].ui \in Sessions
    BY <1>1, <1>4 DEF Launch
<1> QED
    BY <1>1, <1>3, <1>4, <1>5 DEF GCommit, Gated

LEMMA PromotedByPublish ==
    ASSUME BookInv, NEW t \in Tokens, NEW u \in Sessions, GPublish(t, u), Promoted(t)
    PROVE  /\ Live(t) /\ pending[t].committed /\ Promote(t)
           /\ pending[t].ui = u /\ u = pendingSessions[t]
           /\ [session |-> pending[t].ui, lease |-> pending[t].lease] \in Gated
<1>1. Live(t) /\ pending[t] \in Launch /\ pending[t].ui = u
    BY PendingSession DEF GPublish, PublishOk
<1>2. [pending[t] EXCEPT !.published = TRUE] # None
    BY <1>1, LaunchUpdates, GateAssumption
<1>3. pending[t].committed
    BY <1>2 DEF GPublish, Promoted, BookInv, TypeOK, GateTypeOK
<1>4. u = pendingSessions[t]
    BY <1>1, PendingSession, GateAssumption
<1>5. pending[t].lease \in BOOLEAN
    BY <1>1 DEF Launch
<1> QED
    BY <1>1, <1>3, <1>4, <1>5 DEF GPublish, Gated

LEMMA LauncherTyped == ASSUME BookInv, GateTypeOK', LauncherNext PROVE Typed'
<1> USE TableTypes
<1> USE DEF book, sessionVars, handlers, daemons, hostVars
<1>1. ASSUME NEW t \in Tokens, NEW sc \in Scopes, Prepare(t, sc) PROVE Typed'
    <2>1. launcher' \in [Tokens -> [pc : LauncherPc, session : Sessions \cup {None}]]
        BY <1>1, GoLauncherType DEF Prepare, LauncherPc
    <2>2. minted' \subseteq Sessions /\ pendingSessions' \in [Tokens -> Sessions \cup {None}]
        BY <1>1 DEF Prepare
    <2>3. tasks' \subseteq Task
        <3>1. CASE scopes[sc] \in Tokens
            <4>1. pendingSessions[scopes[sc]] \in Sessions
                BY <3>1, PendingSession DEF BookInv, PendingOwnsScope
            <4>2. Teardown(t, pendingSessions[scopes[sc]], LeasedPane(scopes[sc])) \in Task
                BY <3>1, <4>1, TeardownType, LeasedPaneType DEF Actor
            <4> QED
                BY <1>1, <3>1, <4>2 DEF Prepare
        <3>2. CASE scopes[sc] \notin Tokens
            <4>1. \A u \in Sessions : Teardown(t, u, None) \in Task
                BY TeardownType DEF Actor
            <4> QED
                BY <1>1, <3>2, <4>1 DEF Prepare
        <3> QED
            BY <3>1, <3>2
    <2> QED
        BY <1>1, <2>1, <2>2, <2>3
        DEF Prepare, BookInv, Typed, TypeOK, UisKnow, MonitorKnows
<1>2. ASSUME NEW t \in Tokens, NEW p \in Panes, Register(t, p) PROVE Typed'
    <2>1. launcher' \in [Tokens -> [pc : LauncherPc, session : Sessions \cup {None}]]
        BY <1>2, GoLauncherType DEF Register, LauncherPc
    <2> QED
        BY <1>2, <2>1
        DEF Register, BookInv, Typed, TypeOK, UisKnow, MonitorKnows
<1>3. ASSUME NEW t \in Tokens, NEW p \in Panes, Commit(t, p) PROVE Typed'
    <2>1. CASE Promoted(t)
        <3>1. /\ pending[t].ui \in Sessions
              /\ [session |-> pending[t].ui, lease |-> pending[t].lease] \in Gated
            BY <1>3, <2>1, PromotedByCommit DEF Commit
        <3>2. /\ pendingSessions' \in [Tokens -> Sessions \cup {None}]
              /\ gated' \in [Tokens -> Gated \cup {None}]
            BY <1>3, <2>1, <3>1 DEF Commit, BookPromotion
        <3>3. [pc |-> "commit", session |-> pending[t].ui]
                 \in [pc : LauncherPc, session : Sessions \cup {None}]
            BY <3>1 DEF LauncherPc
        <3>4. launcher' \in [Tokens -> [pc : LauncherPc, session : Sessions \cup {None}]]
            BY <1>3, <2>1, <3>3 DEF Commit
        <3>5. tail' \in [Sessions -> TailPc]
            BY <1>3, <2>1 DEF Commit, TailPc
        <3> QED
            BY <1>3, <3>2, <3>4, <3>5 DEF Commit, BookInv, Typed, TypeOK, UisKnow, MonitorKnows
    <2>2. CASE ~Promoted(t)
        <3>1. launcher' \in [Tokens -> [pc : LauncherPc, session : Sessions \cup {None}]]
            BY <1>3, <2>2, GoLauncherType DEF Commit, LauncherPc
        <3> QED
            BY <1>3, <2>2, <3>1
            DEF Commit, BookPromotion, BookInv, Typed, TypeOK, UisKnow, MonitorKnows
    <2> QED
        BY <2>1, <2>2
<1>4. ASSUME NEW t \in Tokens, LaunchPrepared(t) \/ LauncherFails(t) PROVE Typed'
    <2>1. launcher' \in [Tokens -> [pc : LauncherPc, session : Sessions \cup {None}]]
        BY <1>4, GoLauncherType DEF LaunchPrepared, LauncherFails, LauncherPc
    <2> QED
        BY <1>4, <2>1
        DEF LaunchPrepared, LauncherFails, BookInv, Typed, TypeOK, UisKnow, MonitorKnows
<1>5. ASSUME NEW t \in Tokens, RegisterHost(t) PROVE Typed'
    <2>1. launcher' \in [Tokens -> [pc : LauncherPc, session : Sessions \cup {None}]]
        BY <1>5, GoLauncherType DEF RegisterHost, LauncherPc
    <2>2. paneLease' \in [Tokens -> LeaseState]
        BY <1>5 DEF RegisterHost, LeaseState
    <2> QED
        BY <1>5, <2>1, <2>2
        DEF RegisterHost, BookInv, Typed, TypeOK, UisKnow, MonitorKnows
<1>6. ASSUME NEW t \in Tokens, RegisterBind(t) PROVE Typed'
    <2>1. launcher' \in [Tokens -> [pc : LauncherPc, session : Sessions \cup {None}]]
        BY <1>6, GoLauncherType DEF RegisterBind, LauncherPc
    <2>2. paneLease' \in [Tokens -> LeaseState]
        BY <1>6, EnqueueType DEF RegisterBind
    <2> QED
        BY <1>6, <2>1, <2>2
        DEF RegisterBind, BookInv, Typed, TypeOK, UisKnow, MonitorKnows
<1>7. ASSUME NEW t \in Tokens, Abort(t) \/ LauncherDisconnect(t) PROVE Typed'
    <2>1. launcher' \in [Tokens -> [pc : LauncherPc, session : Sessions \cup {None}]]
        BY <1>7, GoLauncherType DEF Abort, LauncherDisconnect, LauncherPc
    <2>2. pendingSessions[t] # None => Teardown(t, pendingSessions[t], LeasedPane(t)) \in Task
        BY PendingSession, LeasedPaneType, TeardownType DEF Actor
    <2>3. tasks' \subseteq Task /\ pendingSessions' \in [Tokens -> Sessions \cup {None}]
        BY <1>7, <2>2 DEF Abort, LauncherDisconnect, AbortLaunch
    <2> QED
        BY <1>7, <2>1, <2>3
        DEF Abort, LauncherDisconnect, AbortLaunch, BookInv, Typed, TypeOK, UisKnow, MonitorKnows
<1> QED
    BY <1>1, <1>2, <1>3, <1>4, <1>5, <1>6, <1>7 DEF LauncherNext

(* Which of the moves keep what a connection knows.                        *)
LEMMA UiMoves ==
    ASSUME UisKnow, NEW c \in Uis, NEW pc \in UiPc, GoUi(c, pc),
           \/ pc \in {"idle", "closed"}
           \/ pc # "placing" /\ pc # "waiting" /\ ui[c].pc \notin {"idle", "placing", "closed"}
           \/ pc = "waiting" /\ ui[c].token \in Tokens /\ ui[c].pc \notin {"idle", "placing", "closed"}
    PROVE  UisKnow'
<1>1. UiKnows([ui[c] EXCEPT !.pc = pc])
    BY UiFacts DEF UiKnows, UiConn
<1> QED
    BY <1>1, GoUiKnows

LEMMA UiNextTyped == ASSUME BookInv, GateTypeOK', UiNext PROVE Typed'
<1> USE TableTypes
<1> USE DEF book, sessionVars, handlers, daemons, hostVars
<1>0. UisKnow
    BY DEF BookInv
<1>1. ASSUME NEW c \in Uis, NEW t \in Tokens, WaitPlacement(c, t) PROVE Typed'
    <2> DEFINE r == [ui[c] EXCEPT !.pc = "placing", !.token = t, !.waited = TRUE]
    <2>1. r \in KnownUi
        BY <1>0, UiFacts DEF KnownUi, UiKnows, UiConn, UiPc
    <2>2. ui' = [ui EXCEPT ![c] = r]
        BY <1>1, <1>0 DEF WaitPlacement, UisKnow
    <2>3. UisKnow'
        BY <1>0, <2>1, <2>2 DEF UisKnow
    <2>4. ui' \in [Uis -> UiConn]
        BY <2>3 DEF UisKnow, KnownUi
    <2> QED
        BY <1>1, <2>3, <2>4 DEF WaitPlacement, BookInv, Typed, TypeOK, MonitorKnows
<1>2. ASSUME NEW c \in Uis, NEW u \in Sessions, NEW t \in Tokens \cup {None}, NEW sc \in Scopes,
             StartAttach(c, u, t, sc)
      PROVE  UisKnow' /\ ui' \in [Uis -> UiConn]
    <2> DEFINE r == [ui[c] EXCEPT !.pc = "origin", !.session = u, !.token = t,
                                  !.scope = sc, !.reg = None]
    <2>1. r \in KnownUi
        BY <1>0, UiFacts, ZenonT(40) DEF KnownUi, UiKnows, UiConn, UiPc
    <2>2. ui' = [ui EXCEPT ![c] = r]
        BY <1>2, <1>0 DEF StartAttach, UisKnow
    <2>3. UisKnow'
        BY <1>0, <2>1, <2>2 DEF UisKnow
    <2> QED
        BY <2>3 DEF UisKnow, KnownUi
<1>3. ASSUME NEW c \in Uis, NEW t \in Tokens, NEW p \in Panes, NEW sc \in Scopes,
             Attach(c, t, p, sc)
      PROVE  Typed'
    <2>1. pendingSessions[t] \in Sessions
        BY <1>3, PendingSession DEF Attach
    <2>2. UisKnow' /\ ui' \in [Uis -> UiConn]
        BY <1>2, <1>3, <2>1 DEF Attach
    <2> QED
        BY <1>3, <2>2 DEF Attach, BookInv, Typed, TypeOK, MonitorKnows
<1>4. ASSUME NEW c \in Uis, NEW sc \in Scopes, AttachDirect(c, sc) PROVE Typed'
    <2>1. PICK u \in Sessions \ minted : minted' = minted \cup {u} /\ StartAttach(c, u, None, sc)
        BY <1>4 DEF AttachDirect
    <2>2. UisKnow' /\ ui' \in [Uis -> UiConn]
        BY <1>2, <2>1
    <2> QED
        BY <1>4, <2>1, <2>2 DEF AttachDirect, BookInv, Typed, TypeOK, MonitorKnows
<1>5. ASSUME NEW c \in Uis, NEW pc \in UiPc, GoUi(c, pc),
             \/ pc \in {"idle", "closed"}
             \/ pc # "placing" /\ pc # "waiting" /\ ui[c].pc \notin {"idle", "placing", "closed"}
             \/ pc = "waiting" /\ ui[c].token \in Tokens
                  /\ ui[c].pc \notin {"idle", "placing", "closed"}
      PROVE  UisKnow' /\ ui' \in [Uis -> UiConn]
    <2>1. UisKnow'
        BY <1>0, <1>5, UiMoves
    <2> QED
        BY <2>1 DEF UisKnow, KnownUi
<1>6. ASSUME NEW c \in Uis, PlacementAnswer(c) \/ OriginCaptured(c) \/ Waiter(c) PROVE Typed'
    <2>1. UisKnow' /\ ui' \in [Uis -> UiConn]
        BY <1>5, <1>6 DEF PlacementAnswer, OriginCaptured, Waiter, UiPc
    <2> QED
        BY <1>6, <2>1 DEF PlacementAnswer, OriginCaptured, Waiter, BookInv, Typed, TypeOK,
                          MonitorKnows
<1>7. ASSUME NEW c \in Uis, OriginFailed(c) PROVE Typed'
    <2>1. UisKnow' /\ ui' \in [Uis -> UiConn]
        BY <1>5, <1>7 DEF OriginFailed, UiPc
    <2>2. ui[c].session \in Sessions
        BY <1>0, <1>7, UiFacts DEF OriginFailed
    <2>3. \A x \in Tokens : CloseOnly(c, ui[c].session, x) \in Task
        BY <2>2, TeardownType DEF Actor
    <2>4. tasks' \subseteq Task
        BY <1>7, <2>3 DEF OriginFailed
    <2>5. pendingSessions' \in [Tokens -> Sessions \cup {None}]
        BY <1>7 DEF OriginFailed
    <2> QED
        BY <1>7, <2>1, <2>4, <2>5 DEF OriginFailed, BookInv, Typed, TypeOK, MonitorKnows
<1>8. ASSUME NEW c \in Uis, InsertRecord(c) PROVE Typed'
    <2>1. UisKnow' /\ ui' \in [Uis -> UiConn]
        BY <1>5, <1>8 DEF InsertRecord, UiPc
    <2>2. [scope |-> ui[c].scope, captured |-> FALSE] \in Record
        BY <1>0, <1>8, UiFacts DEF InsertRecord, Record
    <2>3. records' \in [Sessions -> Record \cup {None}]
        BY <1>8, <2>2 DEF InsertRecord
    <2>4. readiness' \in [Sessions -> {"none", "pending", "ready", "failed"}]
        BY <1>8 DEF InsertRecord
    <2> QED
        BY <1>8, <2>1, <2>3, <2>4 DEF InsertRecord, BookInv, Typed, TypeOK, MonitorKnows
<1>9. ASSUME NEW c \in Uis, FinalizeGated(c) PROVE Typed'
    <2>1. ui[c].session \in Sessions /\ ui[c].token \in Tokens
        BY <1>0, <1>9, UiFacts DEF FinalizeGated
    <2>2. CASE ~sealed /\ PublishOk(ui[c].token, ui[c].session)
        <3>1. CASE Promoted(ui[c].token)
            <4>1. [session |-> pending[ui[c].token].ui, lease |-> pending[ui[c].token].lease]
                     \in Gated
                BY <1>9, <2>1, <2>2, <3>1, PromotedByPublish DEF FinalizeGated
            <4>2. /\ pendingSessions' \in [Tokens -> Sessions \cup {None}]
                  /\ gated' \in [Tokens -> Gated \cup {None}]
                BY <1>9, <2>2, <3>1, <4>1 DEF FinalizeGated, BookPromotion
            <4>3. UisKnow' /\ ui' \in [Uis -> UiConn]
                BY <1>5, <1>9, <2>2, <3>1 DEF FinalizeGated, StartCapture, UiPc
            <4>4. tail' \in [Sessions -> TailPc]
                BY <1>9, <2>2, <3>1 DEF FinalizeGated, StartCapture, TailPc
            <4> QED
                BY <1>9, <4>2, <4>3, <4>4
                DEF FinalizeGated, BookInv, Typed, TypeOK, MonitorKnows
        <3>2. CASE ~Promoted(ui[c].token)
            <4>1. UisKnow' /\ ui' \in [Uis -> UiConn]
                BY <1>5, <1>9, <2>1, <2>2, <3>2 DEF FinalizeGated, UiPc
            <4> QED
                BY <1>9, <2>2, <3>2, <4>1
                DEF FinalizeGated, BookPromotion, BookInv, Typed, TypeOK, MonitorKnows
        <3> QED
            BY <3>1, <3>2
    <2>3. CASE ~(~sealed /\ PublishOk(ui[c].token, ui[c].session))
        <3> DEFINE r == [ui[c] EXCEPT !.pc = "withdraw", !.reg = LeasedPane(ui[c].token)]
        <3>1. r \in KnownUi
            BY <1>0, <1>9, <2>1, UiFacts, LeasedPaneType, ZenonT(40)
            DEF FinalizeGated, KnownUi, UiKnows, UiConn, UiPc
        <3>2. ui' = [ui EXCEPT ![c] = r]
            BY <1>9, <1>0, <2>3 DEF FinalizeGated, UisKnow
        <3>3. UisKnow'
            BY <1>0, <3>1, <3>2 DEF UisKnow
        <3>4. ui' \in [Uis -> UiConn]
            BY <3>3 DEF UisKnow, KnownUi
        <3>5. pendingSessions' \in [Tokens -> Sessions \cup {None}]
            BY <1>9, <2>3 DEF FinalizeGated
        <3> QED
            BY <1>9, <2>3, <3>3, <3>4, <3>5
            DEF FinalizeGated, BookInv, Typed, TypeOK, MonitorKnows
    <2> QED
        BY <2>2, <2>3
<1>10. ASSUME NEW c \in Uis, FinalizeDirect(c) PROVE Typed'
    <2>1. UisKnow' /\ ui' \in [Uis -> UiConn]
        BY <1>5, <1>10 DEF FinalizeDirect, StartCapture, UiPc
    <2>2. tail' \in [Sessions -> TailPc]
        BY <1>10 DEF FinalizeDirect, StartCapture, TailPc
    <2> QED
        BY <1>10, <2>1, <2>2 DEF FinalizeDirect, BookInv, Typed, TypeOK, MonitorKnows
<1>11. ASSUME NEW c \in Uis, Withdraw(c) PROVE Typed'
    <2>1. UisKnow' /\ ui' \in [Uis -> UiConn]
        BY <1>5, <1>11 DEF Withdraw, UiPc
    <2>2. records' \in [Sessions -> Record \cup {None}]
        BY <1>11 DEF Withdraw
    <2>3. readiness' \in [Sessions -> {"none", "pending", "ready", "failed"}]
        BY <1>11 DEF Withdraw
    <2>4. paneLease' \in [Tokens -> LeaseState]
        BY <1>11, EnqueueType DEF Withdraw
    <2> QED
        BY <1>11, <2>1, <2>2, <2>3, <2>4 DEF Withdraw, BookInv, Typed, TypeOK, MonitorKnows
<1>12. ASSUME NEW c \in Uis, Confirm(c) PROVE Typed'
    <2>1. UisKnow' /\ ui' \in [Uis -> UiConn]
        BY <1>5, <1>12 DEF Confirm, UiPc
    <2>2. gated' \in [Tokens -> Gated \cup {None}]
        BY <1>12 DEF Confirm
    <2>3. paneLease' \in [Tokens -> LeaseState]
        BY <1>12 DEF Confirm, LeaseState
    <2> QED
        BY <1>12, <2>1, <2>2, <2>3 DEF Confirm, BookInv, Typed, TypeOK, MonitorKnows
<1>13. ASSUME NEW c \in Uis, UiLeaves(c) PROVE Typed'
    <2> DEFINE t == ui[c].token  u == ui[c].session
    <2>1. UisKnow' /\ ui' \in [Uis -> UiConn]
        BY <1>5, <1>13 DEF UiLeaves, UiPc
    <2>2. ui[c].pc = "waiting" => t \in Tokens
        BY <1>0, UiFacts
    <2>3. ui[c].pc \in {"waiting", "confirm", "attached"} => u \in Sessions
        BY <1>0, UiFacts
    <2>4. t \in Tokens /\ pendingSessions[t] # None
             => Teardown(c, pendingSessions[t], LeasedPane(t)) \in Task
        BY PendingSession, LeasedPaneType, TeardownType DEF Actor
    <2>5. u \in Sessions => \A x \in Tokens \cup {None} : Teardown(c, u, x) \in Task
        BY TeardownType DEF Actor
    <2>6. tasks' \subseteq Task
        BY <1>13, <2>2, <2>3, <2>4, <2>5 DEF UiLeaves, AbortLaunch
    <2>7. gated' \in [Tokens -> Gated \cup {None}]
        BY <1>13, <2>2 DEF UiLeaves, AbortLaunch
    <2>8. pendingSessions' \in [Tokens -> Sessions \cup {None}] /\ minted' = minted
        BY <1>13, <2>2 DEF UiLeaves, AbortLaunch
    <2> QED
        BY <1>13, <2>1, <2>6, <2>7, <2>8 DEF UiLeaves, BookInv, Typed, TypeOK, MonitorKnows
<1> QED
    BY <1>1, <1>3, <1>4, <1>6, <1>7, <1>8, <1>9, <1>10, <1>11, <1>12, <1>13 DEF UiNext

(* A handler that gives up hands the session to a detach call.             *)
LEMMA TailFailsTyped ==
    ASSUME BookInv, NEW u \in Sessions, TailFails(u)
    PROVE  tail' \in [Sessions -> TailPc] /\ tasks' \subseteq Task
<1>1. \A who \in Runner(u) : Teardown(who, u, None) \in Task
    BY TeardownType DEF Runner, Actor
<1>2. tail' \in [Sessions -> TailPc]
    BY TableTypes DEF TailFails, GoTail, TailPc
<1> QED
    BY <1>1, <1>2, TableTypes DEF TailFails

LEMMA SessionTyped == ASSUME BookInv, GateTypeOK', SessionNext PROVE Typed'
<1> USE TableTypes
<1> USE DEF book, sessionVars, handlers, daemons, hostVars
<1>0. UisKnow
    BY DEF BookInv
<1>1. ASSUME NEW u \in Sessions, NEW pc \in TailPc, GoTail(u, pc)
      PROVE  tail' \in [Sessions -> TailPc]
    BY <1>1 DEF GoTail
<1>2. ASSUME NEW u \in Sessions, NEW who \in Actor, tasks' = tasks \cup {Teardown(who, u, None)}
      PROVE  tasks' \subseteq Task
    BY <1>2, TeardownType
<1>3. ASSUME NEW u \in Sessions, CaptureLookup(u) PROVE Typed'
    <2>1. tail' \in [Sessions -> TailPc] /\ tasks' \subseteq Task
        BY <1>1, <1>3, TailFailsTyped DEF CaptureLookup, TailPc
    <2> QED
        BY <1>3, <2>1 DEF CaptureLookup, BookInv, Typed, TypeOK, UisKnow, MonitorKnows
<1>4. ASSUME NEW u \in Sessions, CaptureHost(u) PROVE Typed'
    <2>1. tail' \in [Sessions -> TailPc] /\ tasks' \subseteq Task
        BY <1>1, <1>4, TailFailsTyped DEF CaptureHost, TailPc
    <2>2. captureLease' \in [Sessions -> LeaseState \ {"confirmed"}]
        BY <1>4 DEF CaptureHost, LeaseState
    <2> QED
        BY <1>4, <2>1, <2>2 DEF CaptureHost, BookInv, Typed, TypeOK, UisKnow, MonitorKnows
<1>5. ASSUME NEW u \in Sessions, CaptureStore(u) PROVE Typed'
    <2>1. tail' \in [Sessions -> TailPc] /\ tasks' \subseteq Task
        BY <1>1, <1>5, TailFailsTyped DEF CaptureStore, TailPc
    <2>2. captureLease' \in [Sessions -> LeaseState \ {"confirmed"}]
        BY <1>5 DEF CaptureStore, LeaseState
    <2>3. records[u] # None => [records[u] EXCEPT !.captured = TRUE] \in Record
        BY DEF Record
    <2>4. records' \in [Sessions -> Record \cup {None}]
        BY <1>5, <2>3 DEF CaptureStore
    <2> QED
        BY <1>5, <2>1, <2>2, <2>4 DEF CaptureStore, BookInv, Typed, TypeOK, UisKnow, MonitorKnows
<1>6. ASSUME NEW u \in Sessions, NEW pc \in {"idle", "confirm"},
             ui' = [c \in Uis |-> IF AttachRuns(c, u) THEN [ui[c] EXCEPT !.pc = pc] ELSE ui[c]]
      PROVE  UisKnow' /\ ui' \in [Uis -> UiConn]
    <2>1. ASSUME NEW c \in Uis, AttachRuns(c, u) PROVE [ui[c] EXCEPT !.pc = pc] \in KnownUi
        BY <1>0, <2>1, UiFacts DEF AttachRuns, KnownUi, UiKnows, UiConn, UiPc
    <2>2. UisKnow'
        BY <1>0, <1>6, <2>1 DEF UisKnow
    <2> QED
        BY <2>2 DEF UisKnow, KnownUi
<1>7. ASSUME NEW u \in Sessions, AttachedResponse(u) PROVE Typed'
    <2>1. tail' \in [Sessions -> TailPc] /\ tasks' \subseteq Task
        BY <1>1, <1>7, TailFailsTyped DEF AttachedResponse, TailPc
    <2>2. CASE ui' = ui
        BY <1>7, <2>1, <2>2 DEF AttachedResponse, BookInv, Typed, TypeOK, UisKnow, MonitorKnows
    <2>3. CASE ui' # ui
        <3>1. UisKnow' /\ ui' \in [Uis -> UiConn]
            BY <1>6, <1>7, <2>3 DEF AttachedResponse
        <3> QED
            BY <1>7, <2>1, <3>1 DEF AttachedResponse, BookInv, Typed, TypeOK, MonitorKnows
    <2> QED
        BY <2>2, <2>3
<1>8. ASSUME NEW u \in Sessions, NEW o \in LauncherPc, CommitEnds(u, o)
      PROVE  launcher' \in [Tokens -> [pc : LauncherPc, session : Sessions \cup {None}]]
    <2>1. [pc |-> o, session |-> None] \in [pc : LauncherPc, session : Sessions \cup {None}]
        OBVIOUS
    <2> QED
        BY <1>8, <2>1 DEF CommitEnds
<1>9. ASSUME NEW u \in Sessions, AnnounceReady(u) PROVE Typed'
    <2>1. tail' \in [Sessions -> TailPc]
        BY <1>1, <1>9 DEF AnnounceReady, TailPc
    <2>2. launcher' \in [Tokens -> [pc : LauncherPc, session : Sessions \cup {None}]]
        BY <1>8, <1>9 DEF AnnounceReady, LauncherPc
    <2>3. readiness' \in [Sessions -> {"none", "pending", "ready", "failed"}]
        BY <1>9 DEF AnnounceReady
    <2> QED
        BY <1>9, <2>1, <2>2, <2>3 DEF AnnounceReady, BookInv, Typed, TypeOK, UisKnow, MonitorKnows
<1>10. ASSUME NEW u \in Sessions, TailFailed(u) PROVE Typed'
    <2>1. tail' \in [Sessions -> TailPc]
        BY <1>1, <1>10 DEF TailFailed, TailPc
    <2>2. launcher' \in [Tokens -> [pc : LauncherPc, session : Sessions \cup {None}]]
        BY <1>8, <1>10 DEF TailFailed, LauncherPc
    <2>3. UisKnow' /\ ui' \in [Uis -> UiConn]
        BY <1>6, <1>10 DEF TailFailed
    <2> QED
        BY <1>10, <2>1, <2>2, <2>3 DEF TailFailed, BookInv, Typed, TypeOK, MonitorKnows
<1>11. ASSUME NEW u \in Sessions, SlowConsumer(u) PROVE Typed'
    <2>1. tasks' \subseteq Task
        BY <1>2, <1>11 DEF SlowConsumer, Actor
    <2> QED
        BY <1>11, <2>1 DEF SlowConsumer, BookInv, Typed, TypeOK, UisKnow, MonitorKnows
<1>12. ASSUME NEW u \in Sessions, CaptureLost(u) \/ UnhealthyDetach(u) PROVE Typed'
    <2>1. tasks' \subseteq Task
        BY <1>2, <1>12 DEF CaptureLost, UnhealthyDetach, Actor
    <2>2. /\ monitor' \in [pc : {"idle", "lost", "sessions", "tokens"},
                           scope : Scopes \cup {None},
                           left : SUBSET (Sessions \cup Tokens), failures : 0..MaxScopeFailures]
          /\ MonitorKnows'
        BY <1>12 DEF CaptureLost, UnhealthyDetach, BookInv, TypeOK, MonitorKnows
    <2> QED
        BY <1>12, <2>1, <2>2 DEF CaptureLost, UnhealthyDetach, BookInv, Typed, TypeOK, UisKnow
<1>13. ASSUME NEW u \in Sessions, DrainDetach(u) PROVE Typed'
    <2>1. tasks' \subseteq Task
        BY <1>2, <1>13 DEF DrainDetach, Actor
    <2>2. drain' \in [pc : {"idle", "sealed", "emptied", "sessions", "cleanup", "drained"},
                      left : SUBSET Sessions, started : 0..MaxDrains]
        BY <1>13 DEF DrainDetach, BookInv, TypeOK
    <2> QED
        BY <1>13, <2>1, <2>2 DEF DrainDetach, BookInv, Typed, TypeOK, UisKnow, MonitorKnows
<1>14. ASSUME NEW u \in Sessions, CaptureReleased(u) PROVE Typed'
    <2>1. captureLease' \in [Sessions -> LeaseState \ {"confirmed"}]
        BY <1>14 DEF CaptureReleased, LeaseState
    <2> QED
        BY <1>14, <2>1 DEF CaptureReleased, BookInv, Typed, TypeOK, UisKnow, MonitorKnows
<1> QED
    BY <1>3, <1>4, <1>5, <1>7, <1>9, <1>10, <1>11, <1>12, <1>13, <1>14 DEF SessionNext

LEMMA TaskTyped == ASSUME BookInv, GateTypeOK', TaskNext PROVE Typed'
<1> USE TableTypes
<1> USE DEF book, sessionVars, handlers, daemons, hostVars
<1>1. ASSUME NEW k \in tasks, DetachUnlink(k) PROVE Typed'
    <2>1. records' \in [Sessions -> Record \cup {None}]
        BY <1>1 DEF DetachUnlink
    <2>2. records[k.sess] # None => records[k.sess].captured \in BOOLEAN
        BY DEF Task, Record
    <2>3. [k EXCEPT !.step = "state", !.had = records[k.sess] # None,
                    !.captured = records[k.sess] # None /\ records[k.sess].captured] \in Task
        BY <2>2, ZenonT(40) DEF Task
    <2> QED
        BY <1>1, <2>1, <2>3 DEF DetachUnlink, BookInv, Typed, TypeOK, UisKnow, MonitorKnows
<1>2. ASSUME NEW k \in tasks, DetachState(k) PROVE Typed'
    <2>1. [k EXCEPT !.step = "finish"] \in Task
        BY DEF Task
    <2>2. gated' \in [Tokens -> Gated \cup {None}]
        BY <1>2 DEF DetachState
    <2>3. paneLease' \in [Tokens -> LeaseState]
        BY <1>2, EnqueueType DEF DetachState
    <2>4. captureLease' \in [Sessions -> LeaseState \ {"confirmed"}]
        BY <1>2 DEF DetachState, LeaseState
    <2> QED
        BY <1>2, <2>1, <2>2, <2>3, <2>4
        DEF DetachState, BookInv, Typed, TypeOK, UisKnow, MonitorKnows
<1>3. ASSUME NEW k \in tasks, DetachFinish(k) PROVE Typed'
    <2>1. readiness' \in [Sessions -> {"none", "pending", "ready", "failed"}]
        BY <1>3 DEF DetachFinish
    <2>2. paneLease' \in [Tokens -> LeaseState]
        BY <1>3, EnqueueType DEF DetachFinish
    <2> QED
        BY <1>3, <2>1, <2>2 DEF DetachFinish, BookInv, Typed, TypeOK, UisKnow, MonitorKnows
<1> QED
    BY <1>1, <1>2, <1>3 DEF TaskNext

LEMMA DaemonTyped == ASSUME BookInv, GateTypeOK', DaemonNext PROVE Typed'
<1> USE TableTypes
<1> USE DEF book, sessionVars, handlers, daemons, hostVars
<1>1. ASSUME NEW T \in SUBSET Tokens, Expire(T) PROVE Typed'
    <2>1. pendingSessions' \in [Tokens -> Sessions \cup {None}]
        BY <1>1 DEF Expire
    <2>2. \A t \in T : pendingSessions[t] # None
            => Teardown("expiry", pendingSessions[t], LeasedPane(t)) \in Task
        BY PendingSession, LeasedPaneType, TeardownType DEF Actor
    <2>3. tasks' \subseteq Task
        BY <1>1, <2>2 DEF Expire
    <2> QED
        BY <1>1, <2>1, <2>3 DEF Expire, BookInv, Typed, TypeOK, UisKnow, MonitorKnows
<1>2. ASSUME NEW t \in Tokens, PaneClosed(t) PROVE Typed'
    <2>1. paneLease' \in [Tokens -> LeaseState]
        BY <1>2 DEF PaneClosed, LeaseState
    <2> QED
        BY <1>2, <2>1 DEF PaneClosed, BookInv, Typed, TypeOK, UisKnow, MonitorKnows
<1>3. ASSUME NEW t \in Tokens, UnhealthyAbort(t) PROVE Typed'
    <2>1. pendingSessions[t] # None
            => Teardown("monitor", pendingSessions[t], LeasedPane(t)) \in Task
        BY PendingSession, LeasedPaneType, TeardownType DEF Actor
    <2>2. tasks' \subseteq Task /\ pendingSessions' \in [Tokens -> Sessions \cup {None}]
        BY <1>3, <2>1 DEF UnhealthyAbort, AbortLaunch
    <2>3. /\ monitor' \in [pc : {"idle", "lost", "sessions", "tokens"},
                           scope : Scopes \cup {None},
                           left : SUBSET (Sessions \cup Tokens), failures : 0..MaxScopeFailures]
          /\ MonitorKnows'
        BY <1>3 DEF UnhealthyAbort, BookInv, TypeOK, MonitorKnows
    <2> QED
        BY <1>3, <2>2, <2>3
        DEF UnhealthyAbort, AbortLaunch, BookInv, Typed, TypeOK, UisKnow
<1>4. ASSUME \/ \E sc \in Scopes : ScopeUnhealthy(sc)
             \/ CaptureLostHandled \/ UnhealthyTokens \/ UnhealthyRelease
      PROVE  Typed'
    <2>1. /\ monitor' \in [pc : {"idle", "lost", "sessions", "tokens"},
                           scope : Scopes \cup {None},
                           left : SUBSET (Sessions \cup Tokens), failures : 0..MaxScopeFailures]
          /\ MonitorKnows'
        <3>1. CASE \E sc \in Scopes : ScopeUnhealthy(sc)
            BY <3>1, LaunchAssumption DEF ScopeUnhealthy, BookInv, TypeOK, MonitorKnows
        <3>2. CASE CaptureLostHandled \/ UnhealthyRelease
            BY <3>2 DEF CaptureLostHandled, UnhealthyRelease, BookInv, TypeOK, MonitorKnows
        <3>3. CASE UnhealthyTokens
            BY <3>3 DEF UnhealthyTokens, PendingIn, BookInv, TypeOK, MonitorKnows
        <3> QED
            BY <1>4, <3>1, <3>2, <3>3
    <2> QED
        BY <1>4, <2>1 DEF ScopeUnhealthy, CaptureLostHandled, UnhealthyTokens, UnhealthyRelease,
                          BookInv, Typed, TypeOK, UisKnow
<1>5. CASE DrainGate
    <2>1. \A t \in Tokens : pendingSessions[t] # None
            => CloseOnly("drain", pendingSessions[t], t) \in Task
        BY PendingSession, TeardownType DEF Actor
    <2>2. tasks' \subseteq Task
        BY <1>5, <2>1 DEF DrainGate
    <2>3. drain' \in [pc : {"idle", "sealed", "emptied", "sessions", "cleanup", "drained"},
                      left : SUBSET Sessions, started : 0..MaxDrains]
        BY <1>5 DEF DrainGate, BookInv, TypeOK
    <2>4. pendingSessions' \in [Tokens -> Sessions \cup {None}]
        BY <1>5 DEF DrainGate
    <2> QED
        BY <1>5, <2>2, <2>3, <2>4
        DEF DrainGate, BookInv, Typed, TypeOK, UisKnow, MonitorKnows
<1>6. CASE DrainSeal \/ DrainFails \/ DrainSnapshot \/ DrainCleanup \/ DrainDone \/ Reopen
    <2>1. drain' \in [pc : {"idle", "sealed", "emptied", "sessions", "cleanup", "drained"},
                      left : SUBSET Sessions, started : 0..MaxDrains]
        <3>1. drain \in [pc : {"idle", "sealed", "emptied", "sessions", "cleanup", "drained"},
                         left : SUBSET Sessions, started : 0..MaxDrains]
            BY DEF BookInv, TypeOK
        <3>2. CASE DrainSeal
            <4>1. drain.started + 1 \in 0..MaxDrains
                BY <3>1, <3>2, LaunchAssumption DEF DrainSeal
            <4>2. drain' = [drain EXCEPT !.pc = "sealed", !.started = drain.started + 1]
                BY <3>2 DEF DrainSeal
            <4> QED
                BY <3>1, <4>1, <4>2
        <3>3. CASE DrainSnapshot
            BY <3>1, <3>3 DEF DrainSnapshot
        <3>4. CASE DrainFails \/ DrainCleanup \/ DrainDone \/ Reopen
            BY <3>1, <3>4 DEF DrainFails, DrainCleanup, DrainDone, Reopen
        <3> QED
            BY <1>6, <3>2, <3>3, <3>4
    <2>2. sealed' \in BOOLEAN
        BY <1>6 DEF DrainSeal, DrainFails, DrainSnapshot, DrainCleanup, DrainDone, Reopen,
                    BookInv, TypeOK
    <2> QED
        BY <1>6, <2>1, <2>2
        DEF DrainSeal, DrainFails, DrainSnapshot, DrainCleanup, DrainDone, Reopen,
            BookInv, Typed, TypeOK, UisKnow, MonitorKnows
<1> QED
    BY <1>1, <1>2, <1>3, <1>4, <1>5, <1>6 DEF DaemonNext

LEMMA TypedStep == ASSUME BookInv, [Next]_vars PROVE Typed'
<1>1. GateTypeOK'
    BY GatePart
<1>2. CASE UNCHANGED vars
    BY <1>1, <1>2 DEF vars, book, sessionVars, handlers, daemons, hostVars, BookInv, Typed,
                      TypeOK, UisKnow, MonitorKnows
<1> QED
    BY <1>1, <1>2, LauncherTyped, UiNextTyped, SessionTyped, TaskTyped, DaemonTyped DEF Next

-----------------------------------------------------------------------------
(* The token table and the gate.                                            *)

(* What a step may do to one token other than preparing it: it is consumed *)
(* by both tables, or stays in both, with the UI of its reserved session;  *)
(* and only a pending launch gives the token a gated entry.                *)
BookMove(t) ==
    /\ \/ pending'[t] = None /\ pendingSessions'[t] = None
       \/ /\ pendingSessions'[t] = pendingSessions[t]
          /\ Live(t)' <=> Live(t)
          /\ Live(t) => pending'[t].ui \in {pending[t].ui, pendingSessions[t]}
          /\ gated'[t] \in {None, gated[t]}
    /\ ~Live(t) => ~Live(t)' /\ gated'[t] \in {None, gated[t]}
    /\ launcher'[t].pc = "none" => launcher[t].pc = "none"

LEMMA BookMovesKeep ==
    ASSUME BookInv, \A t \in Tokens : BookMove(t)
    PROVE  LaunchBookAgrees' /\ Unused'
BY DEF BookInv, BookMove, LaunchBookAgrees, Unused, Live

(* Removing launches from both tables, as abort, expiry and drain do.      *)
LEMMA RemoveMoves ==
    ASSUME BookInv, NEW T \in SUBSET Tokens, GRemove(T), gated' = gated,
           \A t \in Tokens : pendingSessions'[t] = IF t \in T THEN None ELSE pendingSessions[t],
           \A t \in Tokens : launcher'[t].pc = "none" => launcher[t].pc = "none"
    PROVE  \A t \in Tokens : BookMove(t)
BY DEF GRemove, BookMove, Live

LEMMA AbortMoves ==
    ASSUME BookInv, NEW t \in Tokens, NEW who, AbortLaunch(t, who),
           \A x \in Tokens : launcher'[x].pc = "none" => launcher[x].pc = "none"
    PROVE  \A x \in Tokens : BookMove(x)
<1>1. GRemove({t}) /\ gated' = gated
    BY DEF AbortLaunch, GAbort
<1>2. \A x \in Tokens : pendingSessions'[x] = IF x \in {t} THEN None ELSE pendingSessions[x]
    BY TableTypes DEF AbortLaunch
<1> QED
    BY <1>1, <1>2, RemoveMoves

(* A step that leaves both tables alone, or only drops gated entries.      *)
LEMMA StillMoves ==
    ASSUME pending' = pending, pendingSessions' = pendingSessions,
           \A t \in Tokens : gated'[t] \in {None, gated[t]},
           \A t \in Tokens : launcher'[t].pc = "none" => launcher[t].pc = "none"
    PROVE  \A t \in Tokens : BookMove(t)
BY DEF BookMove, Live

(* Replacing the launch of one token by another record of it.              *)
LEMMA ReplaceMoves ==
    ASSUME BookInv, NEW t \in Tokens, Live(t), NEW r \in Launch,
           r.ui \in {pending[t].ui, pendingSessions[t]},
           pending' = [pending EXCEPT ![t] = r], pendingSessions' = pendingSessions,
           \A x \in Tokens : gated'[x] \in {None, gated[x]},
           \A x \in Tokens : launcher'[x].pc = "none" => launcher[x].pc = "none"
    PROVE  \A x \in Tokens : BookMove(x)
<1>1. r # None
    BY GateAssumption
<1>2. pending \in [Tokens -> Launch \cup {None}]
    BY DEF BookInv, TypeOK, GateTypeOK
<1> QED
    BY <1>1, <1>2 DEF BookMove, Live

(* A promotion moves the token from pending_sessions to gated_sessions.    *)
LEMMA PromoteMoves ==
    ASSUME BookInv, NEW t \in Tokens, Live(t), Promote(t), Promoted(t), BookPromotion(t),
           \A x \in Tokens : launcher'[x].pc = "none" => launcher[x].pc = "none"
    PROVE  \A x \in Tokens : BookMove(x)
<1>1. /\ pending \in [Tokens -> Launch \cup {None}]
      /\ pendingSessions \in [Tokens -> Sessions \cup {None}]
      /\ gated \in [Tokens -> Gated \cup {None}]
    BY DEF BookInv, TypeOK, GateTypeOK
<1>2. pending' = [pending EXCEPT ![t] = None] /\ pendingSessions' = [pendingSessions EXCEPT ![t] = None]
    BY DEF Promote, BookPromotion
<1>3. \A x \in Tokens \ {t} : gated'[x] = gated[x]
    BY <1>1 DEF BookPromotion
<1> QED
    BY <1>1, <1>2, <1>3 DEF BookMove, Live

LEMMA LauncherBook == ASSUME BookInv, LauncherNext PROVE LaunchBookAgrees' /\ Unused'
<1> USE DEF book, sessionVars, handlers, gateVars
<1>0. /\ launcher \in [Tokens -> [pc : LauncherPc, session : Sessions \cup {None}]]
      /\ pending \in [Tokens -> Launch \cup {None}]
      /\ pendingSessions \in [Tokens -> Sessions \cup {None}]
    BY DEF BookInv, TypeOK, GateTypeOK
<1>1. ASSUME NEW t \in Tokens, NEW pc \in LauncherPc \ {"none"}, GoLauncher(t, pc)
      PROVE  \A x \in Tokens : launcher'[x].pc = "none" => launcher[x].pc = "none"
    BY <1>0, <1>1 DEF GoLauncher
<1>2. ASSUME NEW t \in Tokens, NEW sc \in Scopes, Prepare(t, sc)
      PROVE  LaunchBookAgrees' /\ Unused'
    <2>1. gated[t] = None /\ gated' = gated
        BY <1>2 DEF Prepare, BookInv, Unused
    <2>2. PICK u \in Sessions \ minted :
              pendingSessions' = [x \in Tokens |-> IF x = t THEN u
                                                   ELSE IF x = scopes[sc] THEN None
                                                   ELSE pendingSessions[x]]
        BY <1>2 DEF Prepare
    <2>3. pending' = [x \in Tokens |-> IF x = t THEN NewLaunch(sc)
                                       ELSE IF x = scopes[sc] THEN None ELSE pending[x]]
        BY <1>2 DEF Prepare, GPrepare
    <2>4. NewLaunch(sc) # None /\ NewLaunch(sc).ui = None
        BY NewLaunchType, GateAssumption DEF NewLaunch
    <2>5. launcher'[t].pc # "none"
            /\ \A x \in Tokens : launcher'[x].pc = "none" => launcher[x].pc = "none"
        BY <1>0, <1>2 DEF Prepare, GoLauncher
    <2>6. u # None
        BY GateAssumption
    <2>7. LaunchBookAgrees'
        BY <2>1, <2>2, <2>3, <2>4, <2>6 DEF BookInv, LaunchBookAgrees, Live
    <2>8. Unused'
        BY <2>1, <2>3, <2>5 DEF BookInv, Unused, Live
    <2> QED
        BY <2>7, <2>8
<1>3. ASSUME NEW t \in Tokens, NEW p \in Panes, Register(t, p)
      PROVE  \A x \in Tokens : BookMove(x)
    <2>1. Live(t) /\ pending[t] \in Launch
        BY <1>3, PendingSession DEF Register, GRegister
    <2>2. [pending[t] EXCEPT !.pane = p] \in Launch
        BY <2>1, LaunchUpdates
    <2>3. [pending[t] EXCEPT !.pane = p].ui = pending[t].ui
        BY <2>1 DEF Launch
    <2>4. pending' = [pending EXCEPT ![t] = [pending[t] EXCEPT !.pane = p]]
        BY <1>0, <1>3 DEF Register, GRegister
    <2>5. \A x \in Tokens : launcher'[x].pc = "none" => launcher[x].pc = "none"
        BY <1>1, <1>3 DEF Register, LauncherPc
    <2> QED
        BY <1>3, <2>1, <2>2, <2>3, <2>4, <2>5, ReplaceMoves DEF Register
<1>4. ASSUME NEW t \in Tokens, NEW p \in Panes, Commit(t, p)
      PROVE  \A x \in Tokens : BookMove(x)
    <2>0. GCommit(t, p) /\ BookPromotion(t)
        BY <1>4 DEF Commit
    <2>1. CASE Promoted(t)
        <3>1. \A x \in Tokens : launcher'[x].pc = "none" => launcher[x].pc = "none"
            BY <1>0, <1>4, <2>1 DEF Commit
        <3> QED
            BY <2>0, <2>1, <3>1, PromotedByCommit, PromoteMoves
    <2>2. CASE ~Promoted(t)
        <3>1. \A x \in Tokens : launcher'[x].pc = "none" => launcher[x].pc = "none"
            BY <1>1, <1>4, <2>2 DEF Commit, LauncherPc
        <3>2. Live(t) /\ pending[t] \in Launch
            BY <2>0, PendingSession DEF GCommit, CommitOk
        <3>3. pending' = [pending EXCEPT ![t] = [pending[t] EXCEPT !.committed = TRUE]]
            BY <1>0, <2>0, <2>2 DEF GCommit, Promote, Promoted
        <3>4. [pending[t] EXCEPT !.committed = TRUE] \in Launch
            BY <3>2, LaunchUpdates
        <3>5. [pending[t] EXCEPT !.committed = TRUE].ui = pending[t].ui
            BY <3>2 DEF Launch
        <3>6. pendingSessions' = pendingSessions /\ gated' = gated
            BY <2>0, <2>2 DEF BookPromotion
        <3> QED
            BY <3>1, <3>2, <3>3, <3>4, <3>5, <3>6, ReplaceMoves
    <2> QED
        BY <2>1, <2>2
<1>5. ASSUME NEW t \in Tokens, LaunchPrepared(t) \/ LauncherFails(t) \/ RegisterHost(t)
      PROVE  \A x \in Tokens : BookMove(x)
    <2>1. \A x \in Tokens : launcher'[x].pc = "none" => launcher[x].pc = "none"
        BY <1>1, <1>5 DEF LaunchPrepared, LauncherFails, RegisterHost, LauncherPc
    <2> QED
        BY <1>5, <2>1, StillMoves DEF LaunchPrepared, LauncherFails, RegisterHost
<1>6. ASSUME NEW t \in Tokens, RegisterBind(t) PROVE \A x \in Tokens : BookMove(x)
    <2>1. \A x \in Tokens : launcher'[x].pc = "none" => launcher[x].pc = "none"
        BY <1>1, <1>6 DEF RegisterBind, LauncherPc
    <2>2. CASE ~sealed /\ pendingSessions[t] # None /\ Live(t)
        <3>1. pending[t] \in Launch
            BY <2>2, PendingSession
        <3>2. [pending[t] EXCEPT !.lease = TRUE] \in Launch
            BY <3>1, LaunchUpdates
        <3>3. [pending[t] EXCEPT !.lease = TRUE].ui = pending[t].ui
            BY <3>1 DEF Launch
        <3>4. pending' = [pending EXCEPT ![t] = [pending[t] EXCEPT !.lease = TRUE]]
            BY <1>0, <1>6, <2>2 DEF RegisterBind, GBindLease
        <3> QED
            BY <1>6, <2>1, <2>2, <3>2, <3>3, <3>4, ReplaceMoves DEF RegisterBind
    <2>3. CASE ~(~sealed /\ pendingSessions[t] # None /\ Live(t))
        BY <1>6, <2>1, <2>3, StillMoves DEF RegisterBind
    <2> QED
        BY <2>2, <2>3
<1>7. ASSUME NEW t \in Tokens, Abort(t) \/ LauncherDisconnect(t)
      PROVE  \A x \in Tokens : BookMove(x)
    <2>1. \A x \in Tokens : launcher'[x].pc = "none" => launcher[x].pc = "none"
        BY <1>1, <1>7 DEF Abort, LauncherDisconnect, LauncherPc
    <2>2. AbortLaunch(t, t) \/ UNCHANGED <<gateVars, book, tasks>>
        BY <1>7 DEF Abort, LauncherDisconnect
    <2> QED
        BY <2>1, <2>2, AbortMoves, StillMoves
<1> QED
    BY <1>2, <1>3, <1>4, <1>5, <1>6, <1>7, BookMovesKeep DEF LauncherNext

LEMMA UiBook == ASSUME BookInv, UiNext PROVE LaunchBookAgrees' /\ Unused'
<1> USE DEF book, sessionVars, handlers, gateVars
<1>0. UisKnow
    BY DEF BookInv
<1>1. /\ pending \in [Tokens -> Launch \cup {None}]
      /\ pendingSessions \in [Tokens -> Sessions \cup {None}]
      /\ gated \in [Tokens -> Gated \cup {None}]
    BY DEF BookInv, TypeOK, GateTypeOK
<1>2. ASSUME NEW c \in Uis, NEW t \in Tokens, NEW p \in Panes, NEW sc \in Scopes,
             Attach(c, t, p, sc)
      PROVE  \A x \in Tokens : BookMove(x)
    <2> DEFINE u == pendingSessions[t]
               r == [pending[t] EXCEPT !.ui = u, !.uiPane = p]
    <2>1. Live(t) /\ pending[t] \in Launch /\ u \in Sessions
        BY <1>2, PendingSession DEF Attach
    <2>2. r \in Launch
        BY <2>1, LaunchUpdates
    <2>3. r.ui = u
        BY <2>1 DEF Launch
    <2>4. pending' = [pending EXCEPT ![t] = r]
        BY <1>1, <1>2 DEF Attach, GAttachLaunch
    <2> HIDE DEF r
    <2> QED
        BY <1>2, <2>1, <2>2, <2>3, <2>4, ReplaceMoves DEF Attach
<1>3. ASSUME NEW c \in Uis, NEW sc \in Scopes, AttachDirect(c, sc)
      PROVE  \A x \in Tokens : BookMove(x)
    BY <1>3, StillMoves DEF AttachDirect, GAttachDirect
<1>4. ASSUME NEW c \in Uis, OriginFailed(c) PROVE \A x \in Tokens : BookMove(x)
    <2> DEFINE t == ui[c].token
    <2>1. t \in Tokens \cup {None}
        BY <1>0, UiFacts
    <2>2. CASE t # None /\ Live(t)
        <3>1. GRemove({t}) /\ gated' = gated /\ launcher' = launcher
            BY <1>4, <2>2 DEF OriginFailed, GAbort
        <3>2. \A x \in Tokens : pendingSessions'[x] = IF x \in {t} THEN None ELSE pendingSessions[x]
            BY <1>1, <1>4, <2>2 DEF OriginFailed
        <3> QED
            BY <2>1, <2>2, <3>1, <3>2, RemoveMoves
    <2>3. CASE ~(t # None /\ Live(t))
        <3>1. t # None => pendingSessions[t] = None
            BY <2>1, <2>3, PendingSession
        <3>2. pendingSessions' = pendingSessions
            BY <1>1, <1>4, <2>1, <3>1 DEF OriginFailed
        <3>3. pending' = pending /\ gated' = gated /\ launcher' = launcher
            BY <1>4, <2>3 DEF OriginFailed, GDetach
        <3> QED
            BY <3>2, <3>3, StillMoves
    <2> QED
        BY <2>2, <2>3
<1>5. ASSUME NEW c \in Uis, FinalizeGated(c) PROVE \A x \in Tokens : BookMove(x)
    <2> DEFINE t == ui[c].token  u == ui[c].session
    <2>1. t \in Tokens /\ u \in Sessions /\ launcher' = launcher
        BY <1>0, <1>5, UiFacts DEF FinalizeGated
    <2>2. CASE ~sealed /\ PublishOk(t, u)
        <3>0. GPublish(t, u) /\ BookPromotion(t)
            BY <1>5, <2>2 DEF FinalizeGated
        <3>1. CASE Promoted(t)
            BY <2>1, <3>0, <3>1, PromotedByPublish, PromoteMoves
        <3>2. CASE ~Promoted(t)
            <4>1. Live(t) /\ pending[t] \in Launch
                BY <2>1, <2>2, PendingSession DEF PublishOk
            <4>2. pending' = [pending EXCEPT ![t] = [pending[t] EXCEPT !.published = TRUE]]
                BY <1>1, <3>0, <3>2 DEF GPublish, Promote, Promoted
            <4>3. [pending[t] EXCEPT !.published = TRUE] \in Launch
                BY <4>1, LaunchUpdates
            <4>4. [pending[t] EXCEPT !.published = TRUE].ui = pending[t].ui
                BY <4>1 DEF Launch
            <4>5. pendingSessions' = pendingSessions /\ gated' = gated
                BY <3>0, <3>2 DEF BookPromotion
            <4> QED
                BY <2>1, <4>1, <4>2, <4>3, <4>4, <4>5, ReplaceMoves
        <3> QED
            BY <3>1, <3>2
    <2>3. CASE ~(~sealed /\ PublishOk(t, u))
        <3>1. gated' = gated /\ pendingSessions' = [pendingSessions EXCEPT ![t] = None]
            BY <1>5, <2>3 DEF FinalizeGated
        <3>2. CASE Live(t)
            <4>1. GRemove({t})
                BY <1>5, <2>3, <3>2 DEF FinalizeGated, GAbort
            <4>2. \A x \in Tokens : pendingSessions'[x] = IF x \in {t} THEN None ELSE pendingSessions[x]
                BY <1>1, <3>1
            <4> QED
                BY <2>1, <3>1, <4>1, <4>2, RemoveMoves
        <3>3. CASE ~Live(t)
            <4>1. pendingSessions' = pendingSessions
                BY <1>1, <2>1, <3>1, <3>3, PendingSession
            <4>2. pending' = pending
                BY <1>5, <2>3, <3>3 DEF FinalizeGated
            <4> QED
                BY <2>1, <3>1, <4>1, <4>2, StillMoves
        <3> QED
            BY <3>2, <3>3
    <2> QED
        BY <2>2, <2>3
<1>6. ASSUME NEW c \in Uis, UiLeaves(c) PROVE \A x \in Tokens : BookMove(x)
    <2>1. ui[c].pc = "waiting" => ui[c].token \in Tokens
        BY <1>0, UiFacts
    <2>2. launcher' = launcher
        BY <1>6 DEF UiLeaves
    <2>3. CASE AbortLaunch(ui[c].token, c) /\ ui[c].pc = "waiting"
        BY <2>1, <2>2, <2>3, AbortMoves
    <2>4. CASE ~(AbortLaunch(ui[c].token, c) /\ ui[c].pc = "waiting")
        <3>1. pending' = pending /\ pendingSessions' = pendingSessions
            BY <1>6, <2>4 DEF UiLeaves
        <3>2. \A x \in Tokens : gated'[x] \in {None, gated[x]}
            BY <1>1, <1>6, <2>4 DEF UiLeaves
        <3> QED
            BY <2>2, <3>1, <3>2, StillMoves
    <2> QED
        BY <2>3, <2>4
<1>7. ASSUME NEW c \in Uis, Confirm(c) PROVE \A x \in Tokens : BookMove(x)
    <2>1. \A x \in Tokens : gated'[x] \in {None, gated[x]}
        BY <1>1, <1>7 DEF Confirm
    <2> QED
        BY <1>7, <2>1, StillMoves DEF Confirm
<1>8. ASSUME NEW c \in Uis,
             \/ \E t \in Tokens : WaitPlacement(c, t)
             \/ PlacementAnswer(c) \/ OriginCaptured(c) \/ InsertRecord(c)
             \/ FinalizeDirect(c) \/ Withdraw(c) \/ Waiter(c)
      PROVE  \A x \in Tokens : BookMove(x)
    <2>1. pending' = pending /\ pendingSessions' = pendingSessions /\ gated' = gated
             /\ launcher' = launcher
        BY <1>8 DEF WaitPlacement, PlacementAnswer, OriginCaptured, InsertRecord,
                    FinalizeDirect, Withdraw, Waiter
    <2> QED
        BY <2>1, StillMoves
<1> QED
    BY <1>2, <1>3, <1>4, <1>5, <1>6, <1>7, <1>8, BookMovesKeep DEF UiNext

LEMMA SessionBook == ASSUME BookInv, SessionNext PROVE LaunchBookAgrees' /\ Unused'
<1> USE DEF book, sessionVars, handlers
<1>1. pending' = pending
    BY SessionGate DEF gateVars
<1>2. pendingSessions' = pendingSessions /\ gated' = gated
    BY DEF SessionNext, CaptureLookup, CaptureHost, CaptureStore, AttachedResponse,
           AnnounceReady, TailFailed, SlowConsumer, CaptureLost, UnhealthyDetach,
           DrainDetach, CaptureReleased
<1>3. \A t \in Tokens : launcher'[t].pc = "none" => launcher[t].pc = "none"
    BY DEF SessionNext, CaptureLookup, CaptureHost, CaptureStore, AttachedResponse,
           AnnounceReady, TailFailed, CommitEnds, CommitRuns, SlowConsumer, CaptureLost,
           UnhealthyDetach, DrainDetach, CaptureReleased
<1> QED
    BY <1>1, <1>2, <1>3, StillMoves, BookMovesKeep

LEMMA TaskBook == ASSUME BookInv, TaskNext PROVE LaunchBookAgrees' /\ Unused'
<1> USE DEF book, handlers, gateVars
<1>1. PICK k \in tasks : DetachUnlink(k) \/ DetachState(k) \/ DetachFinish(k)
    BY DEF TaskNext
<1>2. pending' = pending /\ pendingSessions' = pendingSessions /\ launcher' = launcher
    BY <1>1 DEF DetachUnlink, DetachState, DetachFinish, GDetach
<1>3. \A t \in Tokens : gated'[t] \in {None, gated[t]}
    BY <1>1 DEF DetachUnlink, DetachState, DetachFinish
<1> QED
    BY <1>2, <1>3, StillMoves, BookMovesKeep

LEMMA DaemonBook == ASSUME BookInv, DaemonNext PROVE LaunchBookAgrees' /\ Unused'
<1> USE DEF book, handlers, gateVars
<1>1. ASSUME NEW T \in SUBSET Tokens, Expire(T) PROVE \A x \in Tokens : BookMove(x)
    <2>1. GRemove(T) /\ gated' = gated /\ launcher' = launcher
        BY <1>1 DEF Expire, GExpire
    <2>2. \A x \in Tokens : pendingSessions'[x] = IF x \in T THEN None ELSE pendingSessions[x]
        BY <1>1 DEF Expire
    <2> QED
        BY <2>1, <2>2, RemoveMoves
<1>2. ASSUME NEW t \in Tokens, UnhealthyAbort(t) PROVE \A x \in Tokens : BookMove(x)
    <2>1. AbortLaunch(t, "monitor") \/ UNCHANGED <<gateVars, book, tasks>>
        BY <1>2 DEF UnhealthyAbort
    <2>2. launcher' = launcher
        BY <1>2 DEF UnhealthyAbort
    <2> QED
        BY <2>1, <2>2, AbortMoves, StillMoves
<1>3. CASE DrainGate
    <2>1. \A t \in Tokens : BookMove(t)
        BY <1>3 DEF DrainGate, GDrain, BookMove, Live
    <2> QED
        BY <2>1, BookMovesKeep
<1>4. CASE UnhealthyRelease
    BY <1>4, StillMoves, BookMovesKeep DEF UnhealthyRelease, GReleaseDangling
<1>5. ASSUME \/ \E t \in Tokens : PaneClosed(t)
             \/ \E sc \in Scopes : ScopeUnhealthy(sc)
             \/ CaptureLostHandled \/ UnhealthyTokens
             \/ DrainSeal \/ DrainFails \/ DrainSnapshot \/ DrainCleanup \/ DrainDone \/ Reopen
      PROVE  LaunchBookAgrees' /\ Unused'
    <2>1. pending' = pending /\ pendingSessions' = pendingSessions /\ gated' = gated
             /\ launcher' = launcher
        BY <1>5 DEF PaneClosed, ScopeUnhealthy, CaptureLostHandled, UnhealthyTokens, DrainSeal,
                    DrainFails, DrainSnapshot, DrainCleanup, DrainDone, Reopen
    <2> QED
        BY <2>1, StillMoves, BookMovesKeep
<1> QED
    BY <1>1, <1>2, <1>3, <1>4, <1>5, BookMovesKeep DEF DaemonNext

-----------------------------------------------------------------------------

LEMMA BookInit == Init => BookInv
<1> SUFFICES ASSUME Init PROVE BookInv
    OBVIOUS
<1> USE GateAssumption DEF Init, GateInit
<1>1. GateTypeOK
    BY DEF GateTypeOK
<1>2. UisKnow
    <2>1. [pc |-> "idle", token |-> None, session |-> None, scope |-> None, reg |-> None,
           waited |-> FALSE] \in KnownUi
        BY DEF KnownUi, UiKnows, UiConn, UiPc
    <2> QED
        BY <2>1 DEF UisKnow
<1>3. ui \in [Uis -> UiConn]
    BY <1>2 DEF UisKnow, KnownUi
<1>4. launcher \in [Tokens -> [pc : LauncherPc, session : Sessions \cup {None}]]
    <2>1. [pc |-> "none", session |-> None] \in [pc : LauncherPc, session : Sessions \cup {None}]
        BY DEF LauncherPc
    <2> QED
        BY <2>1
<1>5. monitor \in [pc : {"idle", "lost", "sessions", "tokens"}, scope : Scopes \cup {None},
                   left : SUBSET (Sessions \cup Tokens), failures : 0..MaxScopeFailures]
    BY LaunchAssumption
<1>6. drain \in [pc : {"idle", "sealed", "emptied", "sessions", "cleanup", "drained"},
                 left : SUBSET Sessions, started : 0..MaxDrains]
    BY LaunchAssumption
<1>7. /\ pendingSessions \in [Tokens -> Sessions \cup {None}]
      /\ gated \in [Tokens -> Gated \cup {None}]
      /\ records \in [Sessions -> Record \cup {None}]
    OBVIOUS
<1>8. /\ readiness \in [Sessions -> {"none", "pending", "ready", "failed"}]
      /\ tail \in [Sessions -> TailPc]
      /\ paneLease \in [Tokens -> LeaseState]
      /\ captureLease \in [Sessions -> LeaseState \ {"confirmed"}]
    BY DEF TailPc, LeaseState
<1>9. sealed \in BOOLEAN /\ minted \subseteq Sessions /\ tasks \subseteq Task
    OBVIOUS
<1>10. TypeOK
    BY <1>1, <1>3, <1>4, <1>5, <1>6, <1>7, <1>8, <1>9 DEF TypeOK
<1>11. /\ PendingOwnsScope /\ LaunchesOK /\ LaunchBookAgrees /\ Unused /\ MonitorKnows
    BY DEF PendingOwnsScope, LaunchesOK, LaunchBookAgrees, Unused, MonitorKnows, Live
<1> QED
    BY <1>2, <1>10, <1>11 DEF BookInv

LEMMA BookStep == BookInv /\ [Next]_vars => BookInv'
<1> SUFFICES ASSUME BookInv, [Next]_vars PROVE BookInv'
    OBVIOUS
<1>1. LaunchBookAgrees' /\ Unused'
    <2>1. CASE UNCHANGED vars
        BY <2>1, StillMoves, BookMovesKeep DEF vars, book, handlers, gateVars
    <2> QED
        BY <2>1, LauncherBook, UiBook, SessionBook, TaskBook, DaemonBook DEF Next
<1> QED
    BY <1>1, GatePart, TypedStep DEF BookInv, Typed

LEMMA BookAlways == Spec => []BookInv
BY BookInit, BookStep, PTL DEF Spec

(* The broker's maps, handlers and detach calls always have their types,   *)
(* whatever the order of launcher, UI, expiry, monitor and drain steps: in *)
(* particular a detach call always has a session, and a connection past    *)
(* the start of AttachUi always knows its scope.                           *)
THEOREM LaunchTypesAlways == Spec => []TypeOK
<1>1. BookInv => TypeOK
    BY DEF BookInv
<1> QED
    BY <1>1, BookAlways, PTL

(* The broker is one client of the gate: every step of a launcher, a UI, a *)
(* detach call, the expiry tick, the monitor or a drain changes the gate's *)
(* maps by one of its methods, called when the method answers Ok, or not   *)
(* at all.                                                                 *)
THEOREM BrokerUsesGate == Spec => GateSpec
<1>1. Init => GateInit
    BY DEF Init
<1>2. BookInv /\ [Next]_vars => [GateNext]_gateVars
    BY GateStep
<1> QED
    BY <1>1, <1>2, BookAlways, PTL DEF Spec, GateSpec

(* Two launches are never pending in one scope of the broker, and no scope *)
(* is left to a token whose launch is gone.                                *)
THEOREM BrokerPendingOwnsScope == Spec => []PendingOwnsScope
BY BrokerUsesGate, PendingOwnsScopeAlways, PTL

(* pending_sessions, gated_sessions and the gate never disagree about a    *)
(* token: the handlers that prepare, register, commit, publish, abort,     *)
(* expire and drain a launch update them together.                         *)
THEOREM LaunchBookAgreesAlways == Spec => []LaunchBookAgrees
<1>1. BookInv => LaunchBookAgrees
    BY DEF BookInv
<1> QED
    BY <1>1, BookAlways, PTL

-----------------------------------------------------------------------------
(***************************************************************************)
(* The leases of pending panes the broker holds at the host, for any       *)
(* number of launches and connections: one place names each of them, and   *)
(* hands it on or settles it.                                              *)
(***************************************************************************)

(* The launcher has not asked the adapter for a lease yet.                 *)
Unleased(t) == launcher[t].pc \in {"none", "replacing", "prepared", "register"}

(* The places that can name the lease of a launch.                         *)
Binding(t) == launcher[t].pc = "bind"
InLaunch(t) == Live(t) /\ pending[t].lease
InGated(t) == gated[t] # None /\ gated[t].lease
TaskRefs(t) == {k \in tasks : k.reg = t}
UiRefs(t) == {c \in Uis : ui[c].pc = "withdraw" /\ ui[c].reg = t}

Named(t) == Binding(t) \/ InLaunch(t) \/ InGated(t) \/ TaskRefs(t) # {} \/ UiRefs(t) # {}

(* One place names the lease.                                              *)
NamedOnce(t) ==
    /\ Named(t)
    /\ Binding(t) => ~InLaunch(t) /\ ~InGated(t) /\ TaskRefs(t) = {} /\ UiRefs(t) = {}
    /\ InLaunch(t) => ~InGated(t) /\ TaskRefs(t) = {} /\ UiRefs(t) = {}
    /\ InGated(t) => TaskRefs(t) = {} /\ UiRefs(t) = {}
    /\ TaskRefs(t) # {} => UiRefs(t) = {}
    /\ \A k, l \in TaskRefs(t) : k = l
    /\ \A c, d \in UiRefs(t) : c = d

(* The lease is held exactly while a place names it, and one only; and a   *)
(* launch that has not registered a pane has no lease.                     *)
PaneHeldOnce(t) ==
    /\ Named(t) => NamedOnce(t) /\ paneLease[t] = "held"
    /\ paneLease[t] = "held" => Named(t)
    /\ Unleased(t) => paneLease[t] = "none"

(* An attachment has no registration to close before it withdraws.         *)
NothingToClose == \A c \in Uis :
    ui[c].pc \in {"origin", "insert", "finalize"} => ui[c].reg = None

PaneInv == (\A t \in Tokens : PaneHeldOnce(t)) /\ NothingToClose

(* What a step may do to the lease of one launch: nothing, or the end of a *)
(* close that was queued; grant it to a launcher that asked for the first  *)
(* time; pass it from one place to another; or settle it.                  *)
PaneMove(t) ==
    /\ Unleased(t)' => Unleased(t)
    /\ \/ /\ \/ paneLease'[t] = paneLease[t]
             \/ paneLease[t] = "closing" /\ paneLease'[t] = "closed"
          /\ Binding(t)' <=> Binding(t)
          /\ InLaunch(t)' <=> InLaunch(t)
          /\ InGated(t)' <=> InGated(t)
          /\ TaskRefs(t)' = TaskRefs(t) /\ UiRefs(t)' = UiRefs(t)
       \/ /\ Unleased(t) /\ ~Unleased(t)'
          /\ paneLease'[t] = "held" /\ NamedOnce(t)'
       \/ /\ Named(t) /\ ~Unleased(t)'
          /\ paneLease'[t] = paneLease[t] /\ NamedOnce(t)'
       \/ /\ Named(t) /\ ~Unleased(t)'
          /\ paneLease'[t] \in {"closing", "confirmed"} /\ ~Named(t)'

LEMMA PaneMoveKeeps ==
    ASSUME NEW t \in Tokens, PaneHeldOnce(t), PaneMove(t)
    PROVE  PaneHeldOnce(t)'
BY DEF PaneHeldOnce, PaneMove, NamedOnce, Named

LEMMA PaneMoveSettled ==
    ASSUME NEW t \in Tokens, PaneHeldOnce(t), PaneMove(t),
           paneLease[t] \in {"confirmed", "closed"}
    PROVE  paneLease'[t] = paneLease[t]
BY DEF PaneHeldOnce, PaneMove

(* A lease that is named is not an unregistered one.                       *)
LEMMA NamedIsHeld ==
    ASSUME NEW t \in Tokens, PaneHeldOnce(t), Named(t)
    PROVE  ~Unleased(t) /\ paneLease[t] = "held" /\ NamedOnce(t)
BY DEF PaneHeldOnce

(* The parts of a step that leave the places alone.                        *)
LEMMA TaskRefsSame ==
    ASSUME NEW t, tasks \subseteq tasks', \A k \in tasks' : k \in tasks \/ k.reg # t
    PROVE  TaskRefs(t)' = TaskRefs(t)
BY DEF TaskRefs

LEMMA UiRefsSame ==
    ASSUME NEW t, \A c \in Uis : /\ ui'[c].pc = "withdraw" <=> ui[c].pc = "withdraw"
                                 /\ ui[c].pc = "withdraw" => ui'[c].reg = ui[c].reg
    PROVE  UiRefs(t)' = UiRefs(t)
BY DEF UiRefs

LEMMA QuietPanes ==
    ASSUME NEW t \in Tokens, paneLease'[t] = paneLease[t],
           Unleased(t)' => Unleased(t), Binding(t)' <=> Binding(t),
           InLaunch(t)' <=> InLaunch(t), InGated(t)' <=> InGated(t),
           TaskRefs(t)' = TaskRefs(t), UiRefs(t)' = UiRefs(t)
    PROVE  PaneMove(t)
BY DEF PaneMove

(* LeasedPane names the launch exactly if the lease is bound.              *)
LEMMA LeasedPaneIs ==
    ASSUME NEW t \in Tokens, NEW x \in Tokens
    PROVE  LeasedPane(x) = t <=> (x = t /\ InLaunch(t))
BY GateAssumption DEF LeasedPane, InLaunch

(* Updating a launch leaves a launch, with its other fields as they were.  *)
LEMMA LaunchKept ==
    ASSUME NEW r \in Launch, NEW p \in Panes
    PROVE  /\ [r EXCEPT !.pane = p] # None
           /\ [r EXCEPT !.pane = p].lease = r.lease
           /\ [r EXCEPT !.pane = p].published = r.published
           /\ [r EXCEPT !.committed = TRUE] # None
           /\ [r EXCEPT !.committed = TRUE].lease = r.lease
           /\ [r EXCEPT !.committed = TRUE].published = r.published
           /\ \A u \in Sessions :
                 /\ [r EXCEPT !.ui = u, !.uiPane = p] # None
                 /\ [r EXCEPT !.ui = u, !.uiPane = p].lease = r.lease
                 /\ [r EXCEPT !.ui = u, !.uiPane = p].published = r.published
<1>1. /\ [r EXCEPT !.pane = p] \in Launch /\ [r EXCEPT !.committed = TRUE] \in Launch
      /\ \A u \in Sessions : [r EXCEPT !.ui = u, !.uiPane = p] \in Launch
    BY LaunchUpdates
<1>2. /\ [r EXCEPT !.pane = p] # None /\ [r EXCEPT !.committed = TRUE] # None
      /\ \A u \in Sessions : [r EXCEPT !.ui = u, !.uiPane = p] # None
    BY <1>1, GateAssumption
<1> QED
    BY <1>2 DEF Launch

LEMMA LaunchLeased ==
    ASSUME NEW r \in Launch
    PROVE  /\ [r EXCEPT !.lease = TRUE] # None
           /\ [r EXCEPT !.lease = TRUE].lease
           /\ [r EXCEPT !.lease = TRUE].published = r.published
<1>1. [r EXCEPT !.lease = TRUE] # None
    BY LaunchUpdates, GateAssumption
<1> QED
    BY <1>1 DEF Launch

LEMMA PublishedLaunch ==
    ASSUME NEW r \in Launch
    PROVE  /\ [r EXCEPT !.published = TRUE] # None
           /\ [r EXCEPT !.published = TRUE].lease = r.lease
           /\ [r EXCEPT !.published = TRUE].published
<1>1. [r EXCEPT !.published = TRUE] # None
    BY LaunchUpdates, GateAssumption
<1> QED
    BY <1>1 DEF Launch

(* Launches removed from the gate: each lease bound to one of them passes  *)
(* to one detach call.                                                     *)
LEMMA RemovePanes ==
    ASSUME PaneInv, NEW T \in SUBSET Tokens, gated' = gated, paneLease' = paneLease,
           \A t \in Tokens : IF t \in T THEN ~InLaunch(t)' ELSE InLaunch(t)' <=> InLaunch(t),
           \A t \in Tokens : (Unleased(t)' => Unleased(t)) /\ (Binding(t)' <=> Binding(t)),
           \A t \in Tokens : UiRefs(t)' = UiRefs(t),
           \A t \in Tokens : IF t \in T /\ InLaunch(t) THEN \E k : TaskRefs(t)' = {k}
                             ELSE TaskRefs(t)' = TaskRefs(t)
    PROVE  \A t \in Tokens : PaneMove(t)
<1> TAKE t \in Tokens
<1>0. PaneHeldOnce(t)
    BY DEF PaneInv
<1>1. InGated(t)' <=> InGated(t)
    BY DEF InGated
<1>2. CASE t \in T /\ InLaunch(t)
    <2>1. Named(t)
        BY <1>2 DEF Named
    <2>2. ~Unleased(t) /\ NamedOnce(t)
        BY <1>0, <2>1, NamedIsHeld
    <2>3. ~InLaunch(t)'
        BY <1>2
    <2>4. ~Binding(t) /\ ~InGated(t) /\ UiRefs(t) = {}
        BY <1>2, <2>2 DEF NamedOnce
    <2>5. PICK k : TaskRefs(t)' = {k}
        BY <1>2
    <2>6. ~Binding(t)' /\ ~InGated(t)' /\ UiRefs(t)' = {}
        BY <1>1, <2>4
    <2>7. NamedOnce(t)'
        BY <2>3, <2>5, <2>6 DEF NamedOnce, Named
    <2> QED
        BY <2>1, <2>2, <2>7 DEF PaneMove
<1>3. CASE ~(t \in T /\ InLaunch(t))
    <2>1. InLaunch(t)' <=> InLaunch(t)
        BY <1>3
    <2> QED
        BY <1>1, <1>3, <2>1, QuietPanes
<1> QED
    BY <1>2, <1>3

(* A new detach call with the registration of a launch that had no call.   *)
LEMMA OneMoreRef ==
    ASSUME NEW t \in Tokens, NEW x \in Tokens, PaneHeldOnce(t), NEW k, k.reg = LeasedPane(x),
           tasks' = tasks \cup {k}
    PROVE  IF t = x /\ InLaunch(t) THEN TaskRefs(t)' = {k} ELSE TaskRefs(t)' = TaskRefs(t)
<1>1. CASE t = x /\ InLaunch(t)
    <2>1. TaskRefs(t) = {}
        BY <1>1, NamedIsHeld DEF Named, NamedOnce
    <2>2. k.reg = t
        BY <1>1, LeasedPaneIs
    <2> QED
        BY <1>1, <2>1, <2>2 DEF TaskRefs
<1>2. CASE ~(t = x /\ InLaunch(t))
    <2>1. k.reg # t
        BY <1>2, LeasedPaneIs
    <2> QED
        BY <1>2, <2>1, TaskRefsSame
<1> QED
    BY <1>1, <1>2

LEMMA AbortPanes ==
    ASSUME BookInv, PaneInv, NEW x \in Tokens, NEW who, AbortLaunch(x, who), paneLease' = paneLease,
           \A t \in Tokens : (Unleased(t)' => Unleased(t)) /\ (Binding(t)' <=> Binding(t)),
           \A t \in Tokens : UiRefs(t)' = UiRefs(t)
    PROVE  \A t \in Tokens : PaneMove(t)
<1>1. gated' = gated /\ \A t \in Tokens : pending'[t] = IF t \in {x} THEN None ELSE pending[t]
    BY DEF AbortLaunch, GAbort, GRemove
<1>3. \A t \in Tokens : IF t \in {x} THEN ~InLaunch(t)' ELSE InLaunch(t)' <=> InLaunch(t)
    BY <1>1 DEF InLaunch, Live
<1>2. \A t \in Tokens : IF t \in {x} /\ InLaunch(t) THEN \E k : TaskRefs(t)' = {k}
                        ELSE TaskRefs(t)' = TaskRefs(t)
    <2> DEFINE k == Teardown(who, pendingSessions[x], LeasedPane(x))
    <2>1. k.reg = LeasedPane(x)
        BY DEF Teardown
    <2>2. tasks' = tasks \cup {k}
        BY DEF AbortLaunch
    <2> HIDE DEF k
    <2>3. ASSUME NEW t \in Tokens
          PROVE  IF t = x /\ InLaunch(t) THEN TaskRefs(t)' = {k} ELSE TaskRefs(t)' = TaskRefs(t)
        BY <2>1, <2>2, OneMoreRef DEF PaneInv
    <2> QED
        BY <2>3
<1> QED
    BY <1>1, <1>2, <1>3, RemovePanes

(* Promotions pass the lease of the launch to the gated entry.             *)
LEMMA PromotePanes ==
    ASSUME BookInv, PaneInv, NEW x \in Tokens, Live(x), Promote(x), Promoted(x), BookPromotion(x),
           paneLease' = paneLease, tasks' = tasks,
           [session |-> pending[x].ui, lease |-> pending[x].lease] \in Gated,
           \A t \in Tokens : (Unleased(t)' => Unleased(t)) /\ (Binding(t)' <=> Binding(t)),
           \A t \in Tokens : UiRefs(t)' = UiRefs(t)
    PROVE  \A t \in Tokens : PaneMove(t)
<1> TAKE t \in Tokens
<1>0. PaneHeldOnce(t) /\ TaskRefs(t)' = TaskRefs(t)
    BY DEF PaneInv, TaskRefs
<1>1. CASE t = x
    <2>1. pending'[t] = None /\ gated'[t] = [session |-> pending[t].ui, lease |-> pending[t].lease]
        BY <1>1, TableTypes DEF Promoted, BookPromotion
    <2>2. gated'[t] # None /\ gated'[t].lease = pending[t].lease
        BY <1>1, <2>1, NoneAssumption
    <2>3. gated[t] = None
        BY <1>1 DEF BookInv, LaunchBookAgrees
    <2>4. (InGated(t)' <=> InLaunch(t)) /\ ~InLaunch(t)' /\ ~InGated(t)
        BY <1>1, <2>1, <2>2, <2>3 DEF InGated, InLaunch, Live
    <2>5. CASE InLaunch(t)
        <3>1. ~Unleased(t) /\ NamedOnce(t) /\ Named(t)
            BY <1>0, <2>5, NamedIsHeld DEF Named
        <3>2. ~Binding(t) /\ TaskRefs(t) = {} /\ UiRefs(t) = {}
            BY <2>5, <3>1 DEF NamedOnce
        <3>3. NamedOnce(t)'
            BY <1>0, <2>4, <2>5, <3>2 DEF NamedOnce, Named
        <3> QED
            BY <3>1, <3>3 DEF PaneMove
    <2>6. CASE ~InLaunch(t)
        BY <1>0, <2>4, <2>6, QuietPanes
    <2> QED
        BY <2>5, <2>6
<1>2. CASE t # x
    <2>1. pending'[t] = pending[t] /\ gated'[t] = gated[t]
        BY <1>2, TableTypes DEF Promote, BookPromotion, BookInv, TypeOK, GateTypeOK
    <2>2. (InLaunch(t)' <=> InLaunch(t)) /\ (InGated(t)' <=> InGated(t))
        BY <2>1 DEF InLaunch, InGated, Live
    <2> QED
        BY <1>0, <2>2, QuietPanes
<1> QED
    BY <1>1, <1>2

LEMMA LauncherPanes ==
    ASSUME BookInv, PaneInv, LauncherNext
    PROVE  \A t \in Tokens : PaneMove(t)
<1> USE DEF book, sessionVars, handlers, hostVars
<1>0. /\ launcher \in [Tokens -> [pc : LauncherPc, session : Sessions \cup {None}]]
      /\ pending \in [Tokens -> Launch \cup {None}]
      /\ paneLease \in [Tokens -> LeaseState]
    BY DEF BookInv, TypeOK, GateTypeOK
<1>1. ASSUME NEW x \in Tokens, NEW pc, GoLauncher(x, pc)
      PROVE  launcher'[x].pc = pc /\ \A t \in Tokens \ {x} : launcher'[t] = launcher[t]
    BY <1>0, <1>1 DEF GoLauncher
<1>2. ASSUME UNCHANGED ui PROVE \A t \in Tokens : UiRefs(t)' = UiRefs(t)
    BY <1>2 DEF UiRefs
<1>3. ASSUME NEW x \in Tokens, NEW sc \in Scopes, Prepare(x, sc)
      PROVE  \A t \in Tokens : PaneMove(t)
    <2>1. \A t \in Tokens : (Unleased(t)' => Unleased(t)) /\ (Binding(t)' <=> Binding(t))
        BY <1>1, <1>3 DEF Prepare, Unleased, Binding
    <2>2. scopes[sc] # x
        BY <1>3 DEF Prepare, GPrepare, BookInv, PendingOwnsScope
    <2>3. pending' = [y \in Tokens |-> IF y = x THEN NewLaunch(sc)
                                       ELSE IF y = scopes[sc] THEN None ELSE pending[y]]
        BY <1>3 DEF Prepare, GPrepare
    <2>4. ~InLaunch(x)' /\ ~InLaunch(x)
        BY <1>3, <2>3 DEF Prepare, GPrepare, InLaunch, Live, NewLaunch
    <2>5. CASE scopes[sc] \in Tokens
        <3> DEFINE k == Teardown(x, pendingSessions[scopes[sc]], LeasedPane(scopes[sc]))
        <3>1. k.reg = LeasedPane(scopes[sc])
            BY DEF Teardown
        <3>2. tasks' = tasks \cup {k}
            BY <1>3, <2>5 DEF Prepare
        <3> HIDE DEF k
        <3>3. \A t \in Tokens : IF t \in {scopes[sc]} /\ InLaunch(t) THEN \E l : TaskRefs(t)' = {l}
                                ELSE TaskRefs(t)' = TaskRefs(t)
            BY <2>5, <3>1, <3>2, OneMoreRef DEF PaneInv
        <3>4. \A t \in Tokens : IF t \in {scopes[sc]} THEN ~InLaunch(t)'
                                ELSE InLaunch(t)' <=> InLaunch(t)
            BY <2>2, <2>3, <2>4 DEF InLaunch, Live
        <3>5. gated' = gated /\ paneLease' = paneLease /\ ui' = ui
            BY <1>3 DEF Prepare
        <3> QED
            BY <1>2, <2>1, <2>5, <3>3, <3>4, <3>5, RemovePanes
    <2>6. CASE scopes[sc] \notin Tokens
        <3>1. ASSUME NEW t \in Tokens PROVE TaskRefs(t)' = TaskRefs(t)
            <4>1. \A k \in tasks' : k \in tasks \/ k.reg = None
                BY <1>3, <2>6 DEF Prepare, Teardown
            <4> QED
                BY <1>3, <2>6, <4>1, TaskRefsSame, GateAssumption DEF Prepare
        <3>2. ASSUME NEW t \in Tokens PROVE InLaunch(t)' <=> InLaunch(t)
            BY <2>3, <2>4, <2>6 DEF InLaunch, Live
        <3>3. gated' = gated /\ paneLease' = paneLease /\ ui' = ui
            BY <1>3 DEF Prepare
        <3> QED
            BY <1>2, <2>1, <3>1, <3>2, <3>3, QuietPanes DEF InGated
    <2> QED
        BY <2>5, <2>6
<1>4. ASSUME NEW x \in Tokens, NEW p \in Panes, Register(x, p)
      PROVE  \A t \in Tokens : PaneMove(t)
    <2>1. \A t \in Tokens : (Unleased(t)' => Unleased(t)) /\ (Binding(t)' <=> Binding(t))
        BY <1>1, <1>4 DEF Register, Unleased, Binding
    <2>2. Live(x) /\ pending[x] \in Launch
        BY <1>4, PendingSession DEF Register
    <2>3. [pending[x] EXCEPT !.pane = p].lease = pending[x].lease /\ [pending[x] EXCEPT !.pane = p] # None
        BY <2>2, LaunchKept
    <2>4. pending' = [pending EXCEPT ![x] = [pending[x] EXCEPT !.pane = p]]
        BY <1>0, <1>4 DEF Register, GRegister
    <2>5. \A t \in Tokens : InLaunch(t)' <=> InLaunch(t)
        BY <1>0, <2>2, <2>3, <2>4 DEF InLaunch, Live
    <2>6. gated' = gated /\ paneLease' = paneLease /\ ui' = ui /\ tasks' = tasks
        BY <1>4 DEF Register
    <2> QED
        BY <1>2, <2>1, <2>5, <2>6, QuietPanes DEF InGated, TaskRefs
<1>5. ASSUME NEW x \in Tokens, NEW p \in Panes, Commit(x, p)
      PROVE  \A t \in Tokens : PaneMove(t)
    <2>0. GCommit(x, p) /\ BookPromotion(x) /\ paneLease' = paneLease /\ ui' = ui /\ tasks' = tasks
        BY <1>5 DEF Commit
    <2>1. CASE Promoted(x)
        <3>1. launcher'[x].pc = "commit" /\ \A t \in Tokens \ {x} : launcher'[t] = launcher[t]
            BY <1>0, <1>5, <2>1 DEF Commit
        <3>2. \A t \in Tokens : (Unleased(t)' => Unleased(t)) /\ (Binding(t)' <=> Binding(t))
            BY <1>5, <3>1 DEF Commit, Unleased, Binding
        <3>3. /\ Live(x) /\ Promote(x)
              /\ [session |-> pending[x].ui, lease |-> pending[x].lease] \in Gated
            BY <2>0, <2>1, PromotedByCommit
        <3> QED
            BY <1>2, <2>0, <2>1, <3>2, <3>3, PromotePanes
    <2>2. CASE ~Promoted(x)
        <3>1. \A t \in Tokens : (Unleased(t)' => Unleased(t)) /\ (Binding(t)' <=> Binding(t))
            BY <1>1, <1>5, <2>2 DEF Commit, Unleased, Binding
        <3>2. Live(x) /\ pending[x] \in Launch
            BY <2>0, PendingSession DEF GCommit, CommitOk
        <3>3. pending' = [pending EXCEPT ![x] = [pending[x] EXCEPT !.committed = TRUE]]
            BY <1>0, <2>0, <2>2 DEF GCommit, Promote, Promoted
        <3>4. [pending[x] EXCEPT !.committed = TRUE].lease = pending[x].lease
                 /\ [pending[x] EXCEPT !.committed = TRUE] # None
            BY <1>5, <3>2, LaunchKept
        <3>5. \A t \in Tokens : InLaunch(t)' <=> InLaunch(t)
            BY <1>0, <3>2, <3>3, <3>4 DEF InLaunch, Live
        <3>6. gated' = gated
            BY <2>0, <2>2 DEF BookPromotion
        <3> QED
            BY <1>2, <2>0, <3>1, <3>5, <3>6, QuietPanes DEF InGated, TaskRefs
    <2> QED
        BY <2>1, <2>2
<1>6. ASSUME NEW x \in Tokens, LaunchPrepared(x) \/ LauncherFails(x)
      PROVE  \A t \in Tokens : PaneMove(t)
    <2>1. \A t \in Tokens : (Unleased(t)' => Unleased(t)) /\ (Binding(t)' <=> Binding(t))
        BY <1>1, <1>6 DEF LaunchPrepared, LauncherFails, Unleased, Binding
    <2>2. pending' = pending /\ gated' = gated /\ paneLease' = paneLease /\ ui' = ui /\ tasks' = tasks
        BY <1>6 DEF LaunchPrepared, LauncherFails, gateVars
    <2> QED
        BY <1>2, <2>1, <2>2, QuietPanes DEF InGated, TaskRefs, InLaunch, Live
<1>7. ASSUME NEW x \in Tokens, RegisterHost(x)
      PROVE  \A t \in Tokens : PaneMove(t)
    <2>1. pending' = pending /\ gated' = gated /\ ui' = ui /\ tasks' = tasks
        BY <1>7 DEF RegisterHost, gateVars
    <2>2. \A t \in Tokens : /\ (InLaunch(t)' <=> InLaunch(t)) /\ (InGated(t)' <=> InGated(t))
                            /\ TaskRefs(t)' = TaskRefs(t) /\ UiRefs(t)' = UiRefs(t)
        BY <1>2, <2>1 DEF InLaunch, InGated, TaskRefs, Live
    <2>3. \A t \in Tokens : Unleased(t)' => Unleased(t)
        BY <1>1, <1>7 DEF RegisterHost, Unleased
    <2>4. ASSUME NEW t \in Tokens, t # x \/ paneLease' = paneLease PROVE PaneMove(t)
        <3>1. (Binding(t)' <=> Binding(t)) /\ paneLease'[t] = paneLease[t]
            BY <1>0, <1>1, <1>7, <2>4 DEF RegisterHost, Binding, PaneInv, PaneHeldOnce, Unleased
        <3> QED
            BY <2>2, <2>3, <3>1, QuietPanes
    <2>5. CASE paneLease' # paneLease
        <3>1. Unleased(x) /\ ~Unleased(x)' /\ Binding(x)' /\ paneLease'[x] = "held"
            BY <1>0, <1>1, <1>7, <2>5 DEF RegisterHost, Unleased, Binding
        <3>2. ~Named(x)
            BY <3>1, NamedIsHeld DEF PaneInv
        <3>3. NamedOnce(x)'
            BY <2>2, <3>1, <3>2 DEF Named, NamedOnce
        <3>4. PaneMove(x)
            BY <3>1, <3>3 DEF PaneMove
        <3> QED
            BY <2>4, <3>4
    <2> QED
        BY <2>4, <2>5
<1>8. ASSUME NEW x \in Tokens, RegisterBind(x)
      PROVE  \A t \in Tokens : PaneMove(t)
    <2>1. gated' = gated /\ ui' = ui /\ tasks' = tasks
        BY <1>8 DEF RegisterBind
    <2>2. \A t \in Tokens : /\ (InGated(t)' <=> InGated(t))
                            /\ TaskRefs(t)' = TaskRefs(t) /\ UiRefs(t)' = UiRefs(t)
        BY <1>2, <2>1 DEF InGated, TaskRefs
    <2>3. \A t \in Tokens : Unleased(t)' => Unleased(t)
        BY <1>1, <1>8 DEF RegisterBind, Unleased
    <2>4. ASSUME NEW t \in Tokens \ {x} PROVE PaneMove(t)
        <3>1. pending'[t] = pending[t] /\ paneLease'[t] = paneLease[t] /\ launcher'[t] = launcher[t]
            BY <1>0, <1>1, <1>8 DEF RegisterBind, GBindLease, EnqueuePanes, gateVars
        <3> QED
            BY <2>2, <2>3, <3>1, QuietPanes DEF InLaunch, Live, Binding
    <2>5. Named(x) /\ NamedOnce(x) /\ paneLease[x] = "held" /\ Binding(x)
        BY <1>8, NamedIsHeld DEF RegisterBind, Binding, Named, PaneInv
    <2>6. ~InLaunch(x) /\ ~InGated(x) /\ TaskRefs(x) = {} /\ UiRefs(x) = {}
        BY <2>5 DEF NamedOnce
    <2>7. ~Binding(x)' /\ ~Unleased(x)'
        BY <1>1, <1>8 DEF RegisterBind, Binding, Unleased
    <2>8. CASE ~sealed /\ pendingSessions[x] # None /\ Live(x)
        <3>1. pending[x] \in Launch
            BY <2>8, PendingSession
        <3>2. [pending[x] EXCEPT !.lease = TRUE] # None /\ [pending[x] EXCEPT !.lease = TRUE].lease
            BY <3>1, LaunchLeased
        <3>3. pending'[x] = [pending[x] EXCEPT !.lease = TRUE]
            BY <1>0, <1>8, <2>8 DEF RegisterBind, GBindLease
        <3>4. InLaunch(x)'
            BY <3>2, <3>3 DEF InLaunch, Live
        <3>5. NamedOnce(x)'
            BY <2>2, <2>6, <2>7, <3>4 DEF NamedOnce, Named
        <3>6. paneLease' = paneLease
            BY <1>8, <2>8 DEF RegisterBind
        <3>7. PaneMove(x)
            BY <2>5, <2>7, <3>5, <3>6 DEF PaneMove
        <3> QED
            BY <2>4, <3>7
    <2>9. CASE ~(~sealed /\ pendingSessions[x] # None /\ Live(x))
        <3>1. paneLease'[x] = "closing" /\ pending' = pending
            BY <1>8, <2>9 DEF RegisterBind, EnqueuePanes, gateVars
        <3>2. ~Named(x)'
            BY <2>2, <2>6, <2>7, <3>1 DEF Named, InLaunch, Live
        <3>3. PaneMove(x)
            BY <2>5, <2>7, <3>1, <3>2 DEF PaneMove
        <3> QED
            BY <2>4, <3>3
    <2> QED
        BY <2>8, <2>9
<1>9. ASSUME NEW x \in Tokens, Abort(x) \/ LauncherDisconnect(x)
      PROVE  \A t \in Tokens : PaneMove(t)
    <2>1. paneLease' = paneLease /\ ui' = ui
        BY <1>9 DEF Abort, LauncherDisconnect
    <2>2. \A t \in Tokens : (Unleased(t)' => Unleased(t)) /\ (Binding(t)' <=> Binding(t))
        BY <1>1, <1>9 DEF Abort, LauncherDisconnect, Unleased, Binding
    <2>3. CASE AbortLaunch(x, x)
        BY <1>2, <2>1, <2>2, <2>3, AbortPanes
    <2>4. CASE UNCHANGED <<gateVars, book, tasks>>
        BY <1>2, <2>1, <2>2, <2>4, QuietPanes DEF InGated, TaskRefs, InLaunch, Live, gateVars
    <2> QED
        BY <1>9, <2>3, <2>4 DEF Abort, LauncherDisconnect
<1> QED
    BY <1>3, <1>4, <1>5, <1>6, <1>7, <1>8, <1>9 DEF LauncherNext

(* How the moves of a UI connection change its record.                     *)
LEMMA GoUiFrame ==
    ASSUME UisKnow, NEW c \in Uis, NEW pc, GoUi(c, pc)
    PROVE  /\ ui'[c].pc = pc /\ ui'[c].token = ui[c].token /\ ui'[c].session = ui[c].session
           /\ ui'[c].scope = ui[c].scope /\ ui'[c].reg = ui[c].reg
           /\ \A d \in Uis \ {c} : ui'[d] = ui[d]
<1>1. ui[c] \in UiConn
    BY DEF UisKnow, KnownUi
<1>2. ui' = [ui EXCEPT ![c] = [ui[c] EXCEPT !.pc = pc]]
    BY DEF GoUi, UisKnow
<1> QED
    BY <1>1, <1>2 DEF UisKnow, UiConn

LEMMA StartAttachFrame ==
    ASSUME UisKnow, NEW c \in Uis, NEW u, NEW t, NEW sc, StartAttach(c, u, t, sc)
    PROVE  /\ ui'[c].pc = "origin" /\ ui'[c].token = t /\ ui'[c].session = u
           /\ ui'[c].scope = sc /\ ui'[c].reg = None
           /\ \A d \in Uis \ {c} : ui'[d] = ui[d]
<1>1. ui[c] \in UiConn
    BY DEF UisKnow, KnownUi
<1>2. ui' = [ui EXCEPT ![c] = [ui[c] EXCEPT !.pc = "origin", !.session = u, !.token = t,
                                            !.scope = sc, !.reg = None]]
    BY DEF StartAttach, UisKnow
<1> QED
    BY <1>1, <1>2 DEF UisKnow, UiConn

LEMMA WaitPlacementFrame ==
    ASSUME UisKnow, NEW c \in Uis, NEW t, WaitPlacement(c, t)
    PROVE  /\ ui'[c].pc = "placing" /\ ui'[c].token = t /\ ui'[c].session = ui[c].session
           /\ ui'[c].scope = ui[c].scope /\ ui'[c].reg = ui[c].reg
           /\ \A d \in Uis \ {c} : ui'[d] = ui[d]
<1>1. ui[c] \in UiConn
    BY DEF UisKnow, KnownUi
<1>2. ui' = [ui EXCEPT ![c] = [ui[c] EXCEPT !.pc = "placing", !.token = t, !.waited = TRUE]]
    BY DEF WaitPlacement, UisKnow
<1> QED
    BY <1>1, <1>2 DEF UisKnow, UiConn

LEMMA WithdrawFrame ==
    ASSUME UisKnow, NEW c \in Uis, NEW x,
           ui' = [ui EXCEPT ![c].pc = "withdraw", ![c].reg = x]
    PROVE  /\ ui'[c].pc = "withdraw" /\ ui'[c].token = ui[c].token
           /\ ui'[c].session = ui[c].session /\ ui'[c].scope = ui[c].scope /\ ui'[c].reg = x
           /\ \A d \in Uis \ {c} : ui'[d] = ui[d]
<1>1. ui[c] \in UiConn
    BY DEF UisKnow, KnownUi
<1>2. ui' = [ui EXCEPT ![c] = [ui[c] EXCEPT !.pc = "withdraw", !.reg = x]]
    BY DEF UisKnow
<1> QED
    BY <1>1, <1>2 DEF UisKnow, UiConn

(* A step of a connection that concerns no lease.                          *)
LEMMA QuietUi ==
    ASSUME NEW c \in Uis, \A d \in Uis \ {c} : ui'[d] = ui[d],
           ui[c].pc # "withdraw", ui'[c].pc = "withdraw" => ui'[c].reg = None,
           pending' = pending, gated' = gated, launcher' = launcher, paneLease' = paneLease,
           tasks \subseteq tasks', \A k \in tasks' : k \in tasks \/ k.reg = None
    PROVE  \A t \in Tokens : PaneMove(t)
<1> TAKE t \in Tokens
<1>1. UiRefs(t)' = UiRefs(t)
    BY GateAssumption DEF UiRefs
<1>2. TaskRefs(t)' = TaskRefs(t)
    BY TaskRefsSame, GateAssumption
<1> QED
    BY <1>1, <1>2, QuietPanes DEF Unleased, Binding, InLaunch, InGated, Live

LEMMA UiPanes ==
    ASSUME BookInv, PaneInv, UiNext
    PROVE  (\A t \in Tokens : PaneMove(t)) /\ NothingToClose'
<1> USE DEF book, sessionVars, handlers, hostVars
<1>0. UisKnow /\ NothingToClose
    BY DEF BookInv, PaneInv
<1>t. /\ pending \in [Tokens -> Launch \cup {None}]
      /\ gated \in [Tokens -> Gated \cup {None}]
      /\ paneLease \in [Tokens -> LeaseState]
    BY DEF BookInv, TypeOK, GateTypeOK
<1>n. ASSUME NEW c \in Uis, \A d \in Uis \ {c} : ui'[d] = ui[d],
             ui'[c].pc \in {"origin", "insert", "finalize"} => ui'[c].reg = None
      PROVE  NothingToClose'
    BY <1>0, <1>n DEF NothingToClose
<1>l. ASSUME launcher' = launcher
      PROVE  \A t \in Tokens : (Unleased(t)' => Unleased(t)) /\ (Binding(t)' <=> Binding(t))
    BY <1>l DEF Unleased, Binding
<1>1. ASSUME NEW c \in Uis, NEW t \in Tokens, WaitPlacement(c, t)
      PROVE  (\A x \in Tokens : PaneMove(x)) /\ NothingToClose'
    BY <1>0, <1>1, <1>n, WaitPlacementFrame, QuietUi DEF WaitPlacement, gateVars
<1>2. ASSUME NEW c \in Uis, NEW t \in Tokens, NEW p \in Panes, NEW sc \in Scopes,
             Attach(c, t, p, sc)
      PROVE  (\A x \in Tokens : PaneMove(x)) /\ NothingToClose'
    <2> DEFINE r == [pending[t] EXCEPT !.ui = pendingSessions[t], !.uiPane = p]
    <2>1. /\ ui'[c].pc = "origin" /\ ui'[c].reg = None
          /\ \A d \in Uis \ {c} : ui'[d] = ui[d]
        BY <1>0, <1>2, StartAttachFrame DEF Attach
    <2>2. Live(t) /\ pending[t] \in Launch /\ pendingSessions[t] \in Sessions
        BY <1>2, PendingSession DEF Attach
    <2>3. pending' = [pending EXCEPT ![t] = r]
        BY <1>t, <1>2 DEF Attach, GAttachLaunch
    <2>4. r # None /\ r.lease = pending[t].lease
        <3>1. r \in Launch
            BY <2>2, LaunchUpdates
        <3>2. r # None
            BY <3>1, GateAssumption
        <3>3. r.lease = pending[t].lease
            BY <2>2 DEF Launch
        <3> QED
            BY <3>2, <3>3
    <2> HIDE DEF r
    <2>5. \A x \in Tokens : InLaunch(x)' <=> InLaunch(x)
        BY <1>t, <2>2, <2>3, <2>4 DEF InLaunch, Live
    <2>6. gated' = gated /\ paneLease' = paneLease /\ tasks' = tasks /\ launcher' = launcher
        BY <1>2 DEF Attach
    <2>7. \A x \in Tokens : UiRefs(x)' = UiRefs(x)
        BY <1>2, <2>1 DEF UiRefs, Attach
    <2> QED
        BY <1>l, <1>n, <2>1, <2>5, <2>6, <2>7, QuietPanes DEF InGated, TaskRefs
<1>3. ASSUME NEW c \in Uis, NEW sc \in Scopes, AttachDirect(c, sc)
      PROVE  (\A x \in Tokens : PaneMove(x)) /\ NothingToClose'
    <2>1. PICK u : StartAttach(c, u, None, sc)
        BY <1>3 DEF AttachDirect
    <2>2. /\ ui'[c].pc = "origin" /\ ui'[c].reg = None
          /\ \A d \in Uis \ {c} : ui'[d] = ui[d]
        BY <1>0, <2>1, StartAttachFrame
    <2> QED
        BY <1>3, <1>n, <2>2, QuietUi DEF AttachDirect, GAttachDirect
<1>4. ASSUME NEW c \in Uis, PlacementAnswer(c) \/ OriginCaptured(c) \/ InsertRecord(c) \/ Waiter(c)
      PROVE  (\A x \in Tokens : PaneMove(x)) /\ NothingToClose'
    <2>1. PICK pc : GoUi(c, pc) /\ pc # "withdraw"
                    /\ (pc \in {"origin", "insert", "finalize"} => ui[c].pc \in {"origin", "insert"})
        BY <1>4 DEF PlacementAnswer, OriginCaptured, InsertRecord, Waiter
    <2>2. /\ ui'[c].pc = pc /\ ui'[c].reg = ui[c].reg /\ \A d \in Uis \ {c} : ui'[d] = ui[d]
        BY <1>0, <2>1, GoUiFrame
    <2>3. /\ pending' = pending /\ gated' = gated /\ launcher' = launcher /\ paneLease' = paneLease
          /\ tasks' = tasks /\ ui[c].pc # "withdraw"
        BY <1>4 DEF PlacementAnswer, OriginCaptured, InsertRecord, Waiter, gateVars
    <2>4. pc \in {"origin", "insert", "finalize"} => ui'[c].reg = None
        BY <1>0, <2>1, <2>2 DEF NothingToClose
    <2> QED
        BY <1>n, <2>1, <2>2, <2>3, <2>4, QuietUi
<1>5. ASSUME NEW c \in Uis, FinalizeDirect(c)
      PROVE  (\A x \in Tokens : PaneMove(x)) /\ NothingToClose'
    <2>1. PICK pc \in {"capture", "withdraw"} : GoUi(c, pc)
        BY <1>5 DEF FinalizeDirect, StartCapture
    <2>2. /\ ui'[c].pc = pc /\ ui'[c].reg = ui[c].reg /\ \A d \in Uis \ {c} : ui'[d] = ui[d]
        BY <1>0, <2>1, GoUiFrame
    <2>3. ui[c].reg = None
        BY <1>0, <1>5 DEF FinalizeDirect, NothingToClose
    <2> QED
        BY <1>5, <1>n, <2>2, <2>3, QuietUi DEF FinalizeDirect, gateVars
<1>6. ASSUME NEW c \in Uis, OriginFailed(c)
      PROVE  (\A x \in Tokens : PaneMove(x)) /\ NothingToClose'
    <2> DEFINE t == ui[c].token  u == ui[c].session
    <2>1. t \in Tokens \cup {None}
        BY <1>0, UiFacts
    <2>2. /\ ui'[c].pc = "idle" /\ \A d \in Uis \ {c} : ui'[d] = ui[d]
        BY <1>0, <1>6, GoUiFrame DEF OriginFailed
    <2>3. NothingToClose'
        BY <1>n, <2>2
    <2>4. gated' = gated /\ launcher' = launcher /\ paneLease' = paneLease /\ ui[c].pc # "withdraw"
        BY <1>6 DEF OriginFailed
    <2>5. CASE t # None /\ Live(t)
        <3>1. \A x \in Tokens : pending'[x] = IF x \in {t} THEN None ELSE pending[x]
            BY <1>6, <2>5 DEF OriginFailed, GAbort, GRemove
        <3>2. \A x \in Tokens : IF x \in {t} THEN ~InLaunch(x)' ELSE InLaunch(x)' <=> InLaunch(x)
            BY <3>1 DEF InLaunch, Live
        <3>3. \A x \in Tokens : UiRefs(x)' = UiRefs(x)
            BY <2>2, <2>4 DEF UiRefs
        <3>4. tasks' = tasks \cup {CloseOnly(c, u, x) : x \in {LeasedPane(t)} \cap Tokens}
            BY <1>6, <2>5 DEF OriginFailed
        <3>5. ASSUME NEW x \in Tokens
              PROVE  IF x \in {t} /\ InLaunch(x) THEN \E k : TaskRefs(x)' = {k}
                     ELSE TaskRefs(x)' = TaskRefs(x)
            <4>1. CASE InLaunch(t)
                <5>1. LeasedPane(t) = t /\ t \in Tokens
                    BY <2>1, <2>5, <4>1 DEF LeasedPane, InLaunch
                <5>2. tasks' = tasks \cup {CloseOnly(c, u, t)} /\ CloseOnly(c, u, t).reg = LeasedPane(t)
                    BY <3>4, <5>1 DEF CloseOnly, Teardown
                <5> QED
                    BY <5>1, <5>2, OneMoreRef DEF PaneInv
            <4>2. CASE ~InLaunch(t)
                <5>1. LeasedPane(t) = None
                    BY <2>5, <4>2 DEF LeasedPane, InLaunch
                <5>2. tasks' = tasks
                    BY <3>4, <5>1, GateAssumption
                <5> QED
                    BY <4>2, <5>2 DEF TaskRefs
            <4> QED
                BY <4>1, <4>2
        <3> QED
            BY <1>l, <2>1, <2>3, <2>4, <2>5, <3>2, <3>3, <3>5, RemovePanes
    <2>6. CASE ~(t # None /\ Live(t))
        <3>1. pending' = pending /\ tasks' = tasks
            BY <1>6, <2>6 DEF OriginFailed, GDetach
        <3> QED
            BY <2>2, <2>3, <2>4, <3>1, QuietUi
    <2> QED
        BY <2>5, <2>6
<1>7. ASSUME NEW c \in Uis, FinalizeGated(c)
      PROVE  (\A x \in Tokens : PaneMove(x)) /\ NothingToClose'
    <2> DEFINE t == ui[c].token  u == ui[c].session
    <2>1. t \in Tokens /\ u \in Sessions
        BY <1>0, <1>7, UiFacts DEF FinalizeGated
    <2>2. launcher' = launcher /\ paneLease' = paneLease /\ tasks' = tasks /\ ui[c].pc = "finalize"
        BY <1>7 DEF FinalizeGated
    <2>3. CASE ~sealed /\ PublishOk(t, u)
        <3>0. GPublish(t, u) /\ BookPromotion(t)
            BY <1>7, <2>3 DEF FinalizeGated
        <3>1. PICK pc \in {"capture", "waiting"} : GoUi(c, pc)
            BY <1>7, <2>3 DEF FinalizeGated, StartCapture
        <3>2. ui'[c].pc = pc /\ \A d \in Uis \ {c} : ui'[d] = ui[d]
            BY <1>0, <3>1, GoUiFrame
        <3>3. NothingToClose'
            BY <1>n, <3>2
        <3>4. \A x \in Tokens : UiRefs(x)' = UiRefs(x)
            BY <2>2, <3>2 DEF UiRefs
        <3>5. CASE Promoted(t)
            <4>1. /\ Live(t) /\ Promote(t)
                  /\ [session |-> pending[t].ui, lease |-> pending[t].lease] \in Gated
                BY <2>1, <3>0, <3>5, PromotedByPublish
            <4> QED
                BY <1>l, <2>1, <2>2, <3>0, <3>3, <3>4, <3>5, <4>1, PromotePanes
        <3>6. CASE ~Promoted(t)
            <4>1. Live(t) /\ pending[t] \in Launch
                BY <2>1, <2>3, PendingSession DEF PublishOk
            <4>2. pending' = [pending EXCEPT ![t] = [pending[t] EXCEPT !.published = TRUE]]
                BY <1>t, <3>0, <3>6 DEF GPublish, Promote, Promoted
            <4>3. [pending[t] EXCEPT !.published = TRUE].lease = pending[t].lease
                     /\ [pending[t] EXCEPT !.published = TRUE] # None
                BY <4>1, PublishedLaunch
            <4>4. \A x \in Tokens : InLaunch(x)' <=> InLaunch(x)
                BY <1>t, <2>1, <4>1, <4>2, <4>3 DEF InLaunch, Live
            <4>5. gated' = gated
                BY <3>0, <3>6 DEF BookPromotion
            <4> QED
                BY <1>l, <2>2, <3>3, <3>4, <4>4, <4>5, QuietPanes DEF InGated, TaskRefs
        <3> QED
            BY <3>5, <3>6
    <2>4. CASE ~(~sealed /\ PublishOk(t, u))
        <3>1. gated' = gated /\ ui' = [ui EXCEPT ![c].pc = "withdraw", ![c].reg = LeasedPane(t)]
            BY <1>7, <2>4 DEF FinalizeGated
        <3>2. /\ ui'[c].pc = "withdraw" /\ ui'[c].reg = LeasedPane(t)
              /\ \A d \in Uis \ {c} : ui'[d] = ui[d]
            BY <1>0, <3>1, WithdrawFrame
        <3>3. NothingToClose'
            BY <1>n, <3>2
        <3>4. \A x \in Tokens : pending'[x] = IF x = t /\ Live(t) THEN None ELSE pending[x]
            BY <1>7, <2>4 DEF FinalizeGated, GAbort, GRemove, gateVars
        <3>5. ASSUME NEW x \in Tokens, ~(x = t /\ InLaunch(x)) PROVE PaneMove(x)
            <4>1. InLaunch(x)' <=> InLaunch(x)
                BY <3>4, <3>5 DEF InLaunch, Live
            <4>2. LeasedPane(t) # x
                BY <2>1, <3>5, LeasedPaneIs
            <4>3. UiRefs(x)' = UiRefs(x)
                BY <2>2, <3>2, <4>2 DEF UiRefs
            <4> QED
                BY <1>l, <2>2, <3>1, <4>1, <4>3, QuietPanes DEF InGated, TaskRefs
        <3>6. ASSUME NEW x \in Tokens, x = t, InLaunch(x) PROVE PaneMove(x)
            <4>1. Named(x) /\ NamedOnce(x) /\ ~Unleased(x)
                BY <2>1, <3>6, NamedIsHeld DEF Named, PaneInv
            <4>2. ~Binding(x) /\ ~InGated(x) /\ TaskRefs(x) = {} /\ UiRefs(x) = {}
                BY <3>6, <4>1 DEF NamedOnce
            <4>3. LeasedPane(x) = x /\ ~InLaunch(x)'
                BY <2>1, <3>4, <3>6, LeasedPaneIs DEF InLaunch, Live
            <4>4. UiRefs(x)' = {c}
                BY <3>2, <3>6, <4>2, <4>3 DEF UiRefs
            <4>5. ~Binding(x)' /\ ~InGated(x)' /\ TaskRefs(x)' = {} /\ ~Unleased(x)'
                BY <2>2, <3>1, <4>1, <4>2 DEF Binding, InGated, TaskRefs, Unleased
            <4>6. NamedOnce(x)'
                BY <4>3, <4>4, <4>5 DEF NamedOnce, Named
            <4> QED
                BY <2>2, <4>1, <4>5, <4>6 DEF PaneMove
        <3> QED
            BY <3>3, <3>5, <3>6
    <2> QED
        BY <2>3, <2>4
<1>8. ASSUME NEW c \in Uis, Withdraw(c)
      PROVE  (\A x \in Tokens : PaneMove(x)) /\ NothingToClose'
    <2>1. /\ ui'[c].pc = "idle" /\ \A d \in Uis \ {c} : ui'[d] = ui[d]
        BY <1>0, <1>8, GoUiFrame DEF Withdraw
    <2>2. NothingToClose'
        BY <1>n, <2>1
    <2>3. pending' = pending /\ gated' = gated /\ launcher' = launcher /\ tasks' = tasks
        BY <1>8 DEF Withdraw, gateVars
    <2>4. \A x \in Tokens : /\ (Unleased(x)' <=> Unleased(x)) /\ (Binding(x)' <=> Binding(x))
                            /\ (InLaunch(x)' <=> InLaunch(x)) /\ (InGated(x)' <=> InGated(x))
                            /\ TaskRefs(x)' = TaskRefs(x)
        BY <2>3 DEF Unleased, Binding, InLaunch, InGated, TaskRefs, Live
    <2>5. ASSUME NEW x \in Tokens, x # ui[c].reg PROVE PaneMove(x)
        <3>1. UiRefs(x)' = UiRefs(x)
            BY <2>1, <2>5 DEF UiRefs
        <3>2. paneLease'[x] = paneLease[x]
            BY <1>8, <2>5 DEF Withdraw, EnqueuePanes
        <3> QED
            BY <2>4, <3>1, <3>2, QuietPanes
    <2>6. ASSUME NEW x \in Tokens, x = ui[c].reg PROVE PaneMove(x)
        <3>1. c \in UiRefs(x)
            BY <1>8, <2>6 DEF Withdraw, UiRefs
        <3>2. Named(x) /\ NamedOnce(x) /\ ~Unleased(x)
            BY <3>1, NamedIsHeld DEF Named, PaneInv
        <3>3. ~Binding(x) /\ ~InLaunch(x) /\ ~InGated(x) /\ TaskRefs(x) = {} /\ UiRefs(x) = {c}
            BY <3>1, <3>2 DEF NamedOnce
        <3>4. UiRefs(x)' = {}
            BY <2>1, <3>3 DEF UiRefs
        <3>5. paneLease'[x] = "closing"
            BY <1>8, <2>6 DEF Withdraw, EnqueuePanes
        <3>6. ~Named(x)'
            BY <2>4, <3>3, <3>4 DEF Named
        <3> QED
            BY <2>4, <3>2, <3>5, <3>6 DEF PaneMove
    <2> QED
        BY <2>2, <2>5, <2>6
<1>9. ASSUME NEW c \in Uis, Confirm(c)
      PROVE  (\A x \in Tokens : PaneMove(x)) /\ NothingToClose'
    <2> DEFINE t == ui[c].token
    <2>0. t \in Tokens \cup {None}
        BY <1>0, UiFacts
    <2>1. /\ ui'[c].pc = "attached" /\ \A d \in Uis \ {c} : ui'[d] = ui[d]
        BY <1>0, <1>9, GoUiFrame DEF Confirm
    <2>2. NothingToClose'
        BY <1>n, <2>1
    <2>3. pending' = pending /\ launcher' = launcher /\ tasks' = tasks /\ ui[c].pc = "confirm"
        BY <1>9 DEF Confirm, gateVars
    <2>4. \A x \in Tokens : /\ (Unleased(x)' <=> Unleased(x)) /\ (Binding(x)' <=> Binding(x))
                            /\ (InLaunch(x)' <=> InLaunch(x))
                            /\ TaskRefs(x)' = TaskRefs(x) /\ UiRefs(x)' = UiRefs(x)
        BY <2>1, <2>3 DEF Unleased, Binding, InLaunch, TaskRefs, UiRefs, Live
    <2>5. ASSUME NEW x \in Tokens, ~(x = t /\ x \in GatedTo(ui[c].session) /\ gated[x].lease)
          PROVE  PaneMove(x)
        <3>1. paneLease'[x] = paneLease[x]
            BY <1>t, <1>9, <2>5 DEF Confirm
        <3>2. gated'[x] = gated[x] \/ (gated'[x] = None /\ x = t /\ x \in GatedTo(ui[c].session))
            BY <1>t, <1>9 DEF Confirm
        <3>3. InGated(x)' <=> InGated(x)
            BY <2>5, <3>2 DEF InGated, GatedTo
        <3> QED
            BY <2>4, <3>1, <3>3, QuietPanes
    <2>6. ASSUME NEW x \in Tokens, x = t, x \in GatedTo(ui[c].session), gated[x].lease
          PROVE  PaneMove(x)
        <3>1. InGated(x)
            BY <2>6 DEF GatedTo, InGated
        <3>2. Named(x) /\ NamedOnce(x) /\ ~Unleased(x)
            BY <2>6, <3>1, NamedIsHeld DEF Named, PaneInv
        <3>3. ~Binding(x) /\ ~InLaunch(x) /\ TaskRefs(x) = {} /\ UiRefs(x) = {}
            BY <3>1, <3>2 DEF NamedOnce
        <3>4. x # None
            BY <2>6, GateAssumption
        <3>5. gated'[x] = None /\ paneLease'[x] = "confirmed"
            BY <1>t, <1>9, <2>6, <3>4 DEF Confirm
        <3>6. ~Named(x)'
            BY <2>4, <2>6, <3>3, <3>5 DEF Named, InGated
        <3> QED
            BY <2>4, <2>6, <3>2, <3>5, <3>6 DEF PaneMove
    <2> QED
        BY <2>2, <2>5, <2>6
<1>10. ASSUME NEW c \in Uis, UiLeaves(c)
       PROVE  (\A x \in Tokens : PaneMove(x)) /\ NothingToClose'
    <2> DEFINE t == ui[c].token  u == ui[c].session
    <2>1. ui[c].pc = "waiting" => t \in Tokens
        BY <1>0, UiFacts
    <2>2. /\ ui'[c].pc = "closed" /\ \A d \in Uis \ {c} : ui'[d] = ui[d]
        BY <1>0, <1>10, GoUiFrame DEF UiLeaves
    <2>3. NothingToClose'
        BY <1>n, <2>2
    <2>4. launcher' = launcher /\ paneLease' = paneLease /\ ui[c].pc # "withdraw"
        BY <1>10 DEF UiLeaves
    <2>5. \A x \in Tokens : UiRefs(x)' = UiRefs(x)
        BY <2>2, <2>4 DEF UiRefs
    <2>6. CASE ui[c].pc \in {"idle", "placing"}
        BY <1>10, <2>2, <2>3, <2>4, <2>6, QuietUi DEF UiLeaves, gateVars
    <2>7. CASE ui[c].pc \in {"confirm", "attached"}
        BY <1>10, <2>2, <2>3, <2>4, <2>7, QuietUi DEF UiLeaves, gateVars, Teardown
    <2>8. CASE ui[c].pc = "waiting"
        <3>1. CASE pendingSessions[t] = u /\ Live(t) /\ pending[t].ui = u
            <4>1. AbortLaunch(t, c)
                BY <1>10, <2>8, <3>1 DEF UiLeaves
            <4> QED
                BY <1>l, <2>1, <2>3, <2>4, <2>5, <2>8, <4>1, AbortPanes
        <3>2. CASE ~(pendingSessions[t] = u /\ Live(t) /\ pending[t].ui = u)
            <4>1. /\ pending' = pending
                  /\ gated' = [gated EXCEPT ![t] = IF t \in GatedTo(u) THEN None ELSE @]
                  /\ tasks' = tasks \cup {Teardown(c, u, IF gated[t].lease THEN t ELSE None) :
                                            x \in {t} \cap GatedTo(u)}
                BY <1>10, <2>8, <3>2 DEF UiLeaves, gateVars
            <4>2. \A x \in Tokens : /\ (Unleased(x)' <=> Unleased(x)) /\ (Binding(x)' <=> Binding(x))
                                    /\ (InLaunch(x)' <=> InLaunch(x))
                BY <2>4, <4>1 DEF Unleased, Binding, InLaunch, Live
            <4>3. ASSUME NEW x \in Tokens, ~(x = t /\ x \in GatedTo(u) /\ gated[x].lease)
                  PROVE  PaneMove(x)
                <5>1. InGated(x)' <=> InGated(x)
                    BY <1>t, <4>1, <4>3 DEF InGated, GatedTo
                <5>2. \A k \in tasks' : k \in tasks \/ k.reg # x
                    BY <4>1, <4>3, GateAssumption DEF Teardown
                <5>3. TaskRefs(x)' = TaskRefs(x)
                    BY <4>1, <5>2, TaskRefsSame
                <5> QED
                    BY <2>4, <2>5, <4>2, <5>1, <5>3, QuietPanes
            <4>4. ASSUME NEW x \in Tokens, x = t, x \in GatedTo(u), gated[x].lease PROVE PaneMove(x)
                <5>1. InGated(x)
                    BY <4>4 DEF GatedTo, InGated
                <5>2. Named(x) /\ NamedOnce(x) /\ ~Unleased(x) /\ x \in Tokens
                    BY <2>1, <2>8, <5>1, NamedIsHeld DEF Named, PaneInv
                <5>3. ~Binding(x) /\ ~InLaunch(x) /\ TaskRefs(x) = {} /\ UiRefs(x) = {}
                    BY <5>1, <5>2 DEF NamedOnce
                <5>4. ~InGated(x)'
                    BY <1>t, <4>1, <4>4, <5>2 DEF InGated
                <5>5. tasks' = tasks \cup {Teardown(c, u, x)} /\ Teardown(c, u, x).reg = x
                    BY <4>1, <4>4 DEF Teardown
                <5>6. TaskRefs(x)' = {Teardown(c, u, x)}
                    BY <5>3, <5>5 DEF TaskRefs
                <5>7. NamedOnce(x)'
                    BY <2>5, <4>2, <5>2, <5>3, <5>4, <5>6 DEF NamedOnce, Named
                <5> QED
                    BY <2>4, <4>2, <5>2, <5>7 DEF PaneMove
            <4> QED
                BY <2>3, <4>3, <4>4
        <3> QED
            BY <3>1, <3>2
    <2> QED
        BY <1>10, <2>6, <2>7, <2>8 DEF UiLeaves
<1> QED
    BY <1>1, <1>2, <1>3, <1>4, <1>5, <1>6, <1>7, <1>8, <1>9, <1>10 DEF UiNext

(* The end of begin_capture moves the attachment that runs it, and nothing *)
(* else.                                                                   *)
LEMMA SessionUi ==
    ASSUME UisKnow, SessionNext
    PROVE  \A c \in Uis : \/ ui'[c] = ui[c]
                           \/ /\ ui[c].pc = "capture"
                              /\ ui'[c].pc \in {"confirm", "idle"}
                              /\ ui'[c].session = ui[c].session
                              /\ ui'[c].token = ui[c].token /\ ui'[c].scope = ui[c].scope
<1> DEFINE Ends == \E u \in Sessions, pc \in {"confirm", "idle"} :
                ui' = [c \in Uis |-> IF AttachRuns(c, u) THEN [ui[c] EXCEPT !.pc = pc] ELSE ui[c]]
<1>1. ASSUME NEW u \in Sessions, AttachedResponse(u) PROVE ui' = ui \/ Ends
    BY <1>1 DEF AttachedResponse
<1>2. ASSUME NEW u \in Sessions, TailFailed(u) PROVE ui' = ui \/ Ends
    BY <1>2 DEF TailFailed
<1>3. ui' = ui \/ Ends
    BY <1>1, <1>2 DEF SessionNext, CaptureLookup, CaptureHost, CaptureStore, AnnounceReady,
           SlowConsumer, CaptureLost, UnhealthyDetach, DrainDetach, CaptureReleased, handlers
<1>4. \A c \in Uis, pc \in {"confirm", "idle"} :
          /\ [ui[c] EXCEPT !.pc = pc].pc = pc
          /\ [ui[c] EXCEPT !.pc = pc].session = ui[c].session
          /\ [ui[c] EXCEPT !.pc = pc].token = ui[c].token
          /\ [ui[c] EXCEPT !.pc = pc].scope = ui[c].scope
    BY DEF UisKnow, KnownUi, UiConn
<1>5. ASSUME NEW u \in Sessions, NEW pc \in {"confirm", "idle"}, NEW c \in Uis,
             ui' = [d \in Uis |-> IF AttachRuns(d, u) THEN [ui[d] EXCEPT !.pc = pc] ELSE ui[d]]
      PROVE  \/ ui'[c] = ui[c]
             \/ /\ ui[c].pc = "capture" /\ ui'[c].pc \in {"confirm", "idle"}
                /\ ui'[c].session = ui[c].session /\ ui'[c].token = ui[c].token
                /\ ui'[c].scope = ui[c].scope
    <2>1. ui'[c] = IF AttachRuns(c, u) THEN [ui[c] EXCEPT !.pc = pc] ELSE ui[c]
        BY <1>5
    <2>2. AttachRuns(c, u) => ui[c].pc = "capture"
        BY DEF AttachRuns
    <2> QED
        BY <1>4, <2>1, <2>2
<1> QED
    BY <1>3, <1>5

LEMMA SessionPanes ==
    ASSUME BookInv, PaneInv, SessionNext
    PROVE  (\A t \in Tokens : PaneMove(t)) /\ NothingToClose'
<1> USE DEF book, handlers, hostVars
<1>0. UisKnow /\ NothingToClose /\ pending' = pending
    BY SessionGate DEF BookInv, PaneInv, gateVars
<1>1. gated' = gated /\ paneLease' = paneLease
    BY DEF SessionNext, CaptureLookup, CaptureHost, CaptureStore, AttachedResponse,
           AnnounceReady, TailFailed, SlowConsumer, CaptureLost, UnhealthyDetach,
           DrainDetach, CaptureReleased
<1>2. \A t \in Tokens : (Unleased(t)' => Unleased(t)) /\ (Binding(t)' <=> Binding(t))
    BY DEF SessionNext, CaptureLookup, CaptureHost, CaptureStore, AttachedResponse,
           AnnounceReady, TailFailed, CommitEnds, CommitRuns, SlowConsumer, CaptureLost,
           UnhealthyDetach, DrainDetach, CaptureReleased, Unleased, Binding
<1>3. tasks \subseteq tasks' /\ \A k \in tasks' : k \in tasks \/ k.reg = None
    BY DEF SessionNext, CaptureLookup, CaptureHost, CaptureStore, AttachedResponse,
           AnnounceReady, TailFailed, TailFails, SlowConsumer, CaptureLost, UnhealthyDetach,
           DrainDetach, CaptureReleased, Teardown
<1>4. \A c \in Uis : ui'[c] = ui[c] \/ (ui[c].pc = "capture" /\ ui'[c].pc \in {"confirm", "idle"})
    BY <1>0, SessionUi
<1>5. NothingToClose'
    BY <1>0, <1>4 DEF NothingToClose
<1>6. ASSUME NEW t \in Tokens PROVE UiRefs(t)' = UiRefs(t)
    BY <1>4 DEF UiRefs
<1>7. ASSUME NEW t \in Tokens PROVE TaskRefs(t)' = TaskRefs(t)
    BY <1>3, TaskRefsSame, GateAssumption
<1> QED
    BY <1>0, <1>1, <1>2, <1>5, <1>6, <1>7, QuietPanes DEF InGated, InLaunch, Live

LEMMA TaskPanes ==
    ASSUME BookInv, PaneInv, TaskNext
    PROVE  (\A t \in Tokens : PaneMove(t)) /\ NothingToClose'
<1> USE DEF book, sessionVars, handlers, hostVars
<1>1. PICK k \in tasks : DetachUnlink(k) \/ DetachState(k) \/ DetachFinish(k)
    BY DEF TaskNext
<1>2. k \in Task
    BY DEF BookInv, TypeOK
<1>3. pending' = pending /\ ui' = ui /\ launcher' = launcher
    BY <1>1 DEF DetachUnlink, DetachState, DetachFinish, GDetach, gateVars
<1>4. \A t \in Tokens : /\ (Unleased(t)' <=> Unleased(t)) /\ (Binding(t)' <=> Binding(t))
                        /\ (InLaunch(t)' <=> InLaunch(t)) /\ UiRefs(t)' = UiRefs(t)
    BY <1>3 DEF Unleased, Binding, InLaunch, UiRefs, Live
<1>5. NothingToClose'
    BY <1>3 DEF PaneInv, NothingToClose
<1> DEFINE Passes(t, l) == TaskRefs(t)' = IF k.reg = t THEN {l} ELSE TaskRefs(t)
<1>6. ASSUME NEW l, l.reg = k.reg, tasks' = (tasks \ {k}) \cup {l}, NEW t \in Tokens
      PROVE  Passes(t, l)
    <2>1. k.reg = t => TaskRefs(t) = {k}
        <3>1. ASSUME k.reg = t PROVE TaskRefs(t) = {k}
            <4>1. k \in TaskRefs(t)
                BY <3>1 DEF TaskRefs
            <4> QED
                BY <4>1, NamedIsHeld DEF Named, NamedOnce, PaneInv
        <3> QED
            BY <3>1
    <2> QED
        BY <1>6, <2>1 DEF TaskRefs
<1>7. ASSUME NEW l, NEW t \in Tokens, Passes(t, l), gated'[t] = gated[t], paneLease'[t] = paneLease[t]
      PROVE  PaneMove(t)
    <2>1. InGated(t)' <=> InGated(t)
        BY <1>7 DEF InGated
    <2>2. CASE k.reg # t
        BY <1>4, <1>7, <2>1, <2>2, QuietPanes
    <2>3. CASE k.reg = t
        <3>1. k \in TaskRefs(t)
            BY <2>3 DEF TaskRefs
        <3>2. Named(t) /\ NamedOnce(t) /\ ~Unleased(t)
            BY <3>1, NamedIsHeld DEF Named, PaneInv
        <3>3. ~Binding(t) /\ ~InLaunch(t) /\ ~InGated(t) /\ UiRefs(t) = {}
            BY <3>1, <3>2 DEF NamedOnce
        <3>4. NamedOnce(t)'
            BY <1>4, <1>7, <2>1, <2>3, <3>3 DEF NamedOnce, Named
        <3> QED
            BY <1>4, <1>7, <3>2, <3>4 DEF PaneMove
    <2> QED
        BY <2>2, <2>3
<1>8. CASE DetachUnlink(k)
    <2> DEFINE l == [k EXCEPT !.step = "state", !.had = records[k.sess] # None,
                              !.captured = records[k.sess] # None /\ records[k.sess].captured]
    <2>1. l.reg = k.reg
        BY <1>2 DEF Task
    <2>2. tasks' = (tasks \ {k}) \cup {l} /\ gated' = gated /\ paneLease' = paneLease
        BY <1>8 DEF DetachUnlink
    <2> HIDE DEF l, Passes
    <2>3. ASSUME NEW t \in Tokens PROVE Passes(t, l)
        BY <1>6, <2>1, <2>2
    <2> QED
        BY <1>5, <1>7, <2>2, <2>3
<1>9. CASE DetachState(k)
    <2> DEFINE l == [k EXCEPT !.step = "finish"]
    <2>1. l.reg = k.reg
        BY <1>2 DEF Task
    <2>2. tasks' = (tasks \ {k}) \cup {l}
        BY <1>9 DEF DetachState
    <2>3. /\ gated' = [t \in Tokens |-> IF t \in GatedTo(k.sess) THEN None ELSE gated[t]]
          /\ EnqueuePanes({t \in GatedTo(k.sess) : gated[t].lease})
        BY <1>9 DEF DetachState
    <2> HIDE DEF l
    <2>4. ASSUME NEW t \in Tokens PROVE Passes(t, l)
        <3> HIDE DEF Passes
        <3> QED
            BY <1>6, <2>1, <2>2
    <2>5. ASSUME NEW t \in Tokens, t \notin GatedTo(k.sess) PROVE PaneMove(t)
        <3>1. gated'[t] = gated[t] /\ paneLease'[t] = paneLease[t]
            BY <2>3, <2>5 DEF EnqueuePanes
        <3> HIDE DEF Passes
        <3> QED
            BY <1>7, <2>4, <3>1
    <2>6. ASSUME NEW t \in Tokens, t \in GatedTo(k.sess), gated[t].lease PROVE PaneMove(t)
        <3>1. InGated(t)
            BY <2>6 DEF InGated, GatedTo
        <3>2. Named(t) /\ NamedOnce(t) /\ ~Unleased(t)
            BY <3>1, NamedIsHeld DEF Named, PaneInv
        <3>3. ~Binding(t) /\ ~InLaunch(t) /\ TaskRefs(t) = {} /\ UiRefs(t) = {}
            BY <3>1, <3>2 DEF NamedOnce
        <3>4. k.reg # t
            BY <3>3 DEF TaskRefs
        <3>5. TaskRefs(t)' = {}
            BY <2>4, <3>3, <3>4
        <3>6. gated'[t] = None /\ paneLease'[t] = "closing"
            BY <2>3, <2>6 DEF EnqueuePanes
        <3>7. ~Named(t)'
            BY <1>4, <3>3, <3>5, <3>6 DEF Named, InGated
        <3> QED
            BY <1>4, <3>2, <3>6, <3>7 DEF PaneMove
    <2>7. ASSUME NEW t \in Tokens, t \in GatedTo(k.sess), ~gated[t].lease PROVE PaneMove(t)
        <3>1. gated'[t] = None /\ paneLease'[t] = paneLease[t] /\ ~InGated(t) /\ ~InGated(t)'
            BY <2>3, <2>7 DEF EnqueuePanes, InGated
        <3>2. CASE k.reg # t
            BY <1>4, <2>4, <3>1, <3>2, QuietPanes
        <3>3. CASE k.reg = t
            <4>1. k \in TaskRefs(t)
                BY <3>3 DEF TaskRefs
            <4>2. Named(t) /\ NamedOnce(t) /\ ~Unleased(t)
                BY <4>1, NamedIsHeld DEF Named, PaneInv
            <4>3. ~Binding(t) /\ ~InLaunch(t) /\ UiRefs(t) = {}
                BY <4>1, <4>2 DEF NamedOnce
            <4>4. NamedOnce(t)'
                BY <1>4, <2>4, <3>1, <3>3, <4>3 DEF NamedOnce, Named
            <4> QED
                BY <1>4, <3>1, <4>2, <4>4 DEF PaneMove
        <3> QED
            BY <3>2, <3>3
    <2> QED
        BY <1>5, <2>5, <2>6, <2>7
<1>10. CASE DetachFinish(k)
    <2>1. gated' = gated /\ tasks' = tasks \ {k} /\ EnqueuePanes({k.reg} \cap Tokens)
        BY <1>10 DEF DetachFinish
    <2>2. ASSUME NEW t \in Tokens, k.reg # t PROVE PaneMove(t)
        <3>1. TaskRefs(t)' = TaskRefs(t)
            BY <2>1, <2>2 DEF TaskRefs
        <3>2. paneLease'[t] = paneLease[t]
            BY <2>1, <2>2 DEF EnqueuePanes
        <3> QED
            BY <1>4, <2>1, <3>1, <3>2, QuietPanes DEF InGated
    <2>3. ASSUME NEW t \in Tokens, k.reg = t PROVE PaneMove(t)
        <3>1. k \in TaskRefs(t)
            BY <2>3 DEF TaskRefs
        <3>2. Named(t) /\ NamedOnce(t) /\ ~Unleased(t)
            BY <3>1, NamedIsHeld DEF Named, PaneInv
        <3>3. ~Binding(t) /\ ~InLaunch(t) /\ ~InGated(t) /\ UiRefs(t) = {} /\ TaskRefs(t) = {k}
            BY <3>1, <3>2 DEF NamedOnce
        <3>4. TaskRefs(t)' = {}
            BY <2>1, <3>3 DEF TaskRefs
        <3>5. paneLease'[t] = "closing"
            BY <2>1, <2>3 DEF EnqueuePanes
        <3>6. ~Named(t)'
            BY <1>4, <2>1, <3>3, <3>4 DEF Named, InGated
        <3> QED
            BY <1>4, <3>2, <3>5, <3>6 DEF PaneMove
    <2> QED
        BY <1>5, <2>2, <2>3
<1> QED
    BY <1>1, <1>8, <1>9, <1>10

LEMMA DaemonPanes ==
    ASSUME BookInv, PaneInv, DaemonNext
    PROVE  (\A t \in Tokens : PaneMove(t)) /\ NothingToClose'
<1> USE DEF book, handlers, hostVars
<1>0. ui' = ui /\ launcher' = launcher /\ gated' = gated
    BY DEF DaemonNext, Expire, PaneClosed, UnhealthyAbort, AbortLaunch, ScopeUnhealthy,
           CaptureLostHandled, UnhealthyTokens, UnhealthyRelease, DrainSeal, DrainFails,
           DrainGate, DrainSnapshot, DrainCleanup, DrainDone, Reopen
<1>1. NothingToClose'
    BY <1>0 DEF PaneInv, NothingToClose
<1>2. \A t \in Tokens : /\ (Unleased(t)' <=> Unleased(t)) /\ (Binding(t)' <=> Binding(t))
                        /\ (InGated(t)' <=> InGated(t)) /\ UiRefs(t)' = UiRefs(t)
    BY <1>0 DEF Unleased, Binding, InGated, UiRefs
<1>3. \A t \in Tokens : InLaunch(t) => pendingSessions[t] # None /\ TaskRefs(t) = {}
    <2>1. ASSUME NEW t \in Tokens, InLaunch(t) PROVE pendingSessions[t] # None /\ TaskRefs(t) = {}
        <3>1. pendingSessions[t] # None
            BY <2>1 DEF InLaunch, BookInv, LaunchBookAgrees
        <3>2. NamedOnce(t)
            BY <2>1, NamedIsHeld DEF PaneInv, Named
        <3> QED
            BY <2>1, <3>1, <3>2 DEF NamedOnce
    <2> QED
        BY <2>1
<1>4. ASSUME NEW T \in SUBSET Tokens, Expire(T) PROVE \A t \in Tokens : PaneMove(t)
    <2> DEFINE Call(t) == Teardown("expiry", pendingSessions[t], LeasedPane(t))
    <2>1. /\ tasks' = tasks \cup {Call(t) : t \in {x \in T : pendingSessions[x] # None}}
          /\ paneLease' = paneLease
        BY <1>4 DEF Expire
    <2>2. \A t \in Tokens : Call(t).reg = LeasedPane(t)
        BY DEF Teardown
    <2> HIDE DEF Call
    <2>3. \A t \in Tokens : IF t \in T THEN ~InLaunch(t)' ELSE InLaunch(t)' <=> InLaunch(t)
        BY <1>4 DEF Expire, GExpire, GRemove, InLaunch, Live
    <2>4. ASSUME NEW t \in Tokens, t \in T, InLaunch(t) PROVE TaskRefs(t)' = {Call(t)}
        <3>1. Call(t) \in tasks' /\ Call(t).reg = t
            BY <1>3, <2>1, <2>2, <2>4, LeasedPaneIs
        <3>2. \A k \in tasks' : k.reg = t => k = Call(t)
            BY <1>3, <2>1, <2>2, <2>4, LeasedPaneIs DEF TaskRefs
        <3> QED
            BY <3>1, <3>2 DEF TaskRefs
    <2>5. ASSUME NEW t \in Tokens, ~(t \in T /\ InLaunch(t)) PROVE TaskRefs(t)' = TaskRefs(t)
        <3>1. \A k \in tasks' : k \in tasks \/ k.reg # t
            BY <2>1, <2>2, <2>5, LeasedPaneIs
        <3> QED
            BY <2>1, <3>1, TaskRefsSame
    <2> QED
        BY <1>0, <1>2, <2>1, <2>3, <2>4, <2>5, RemovePanes
<1>5. ASSUME DrainGate PROVE \A t \in Tokens : PaneMove(t)
    <2> DEFINE Call(t) == CloseOnly("drain", pendingSessions[t], t)
    <2>1. /\ tasks' = tasks \cup {Call(t) : t \in {x \in Tokens : LeasedPane(x) = x
                                                                  /\ pendingSessions[x] # None}}
          /\ paneLease' = paneLease
        BY <1>5 DEF DrainGate
    <2>2. \A t \in Tokens : Call(t).reg = t
        BY DEF Teardown, CloseOnly
    <2> HIDE DEF Call
    <2>3. \A t \in Tokens : ~InLaunch(t)'
        BY <1>5 DEF DrainGate, GDrain, InLaunch, Live
    <2>4. ASSUME NEW t \in Tokens, InLaunch(t) PROVE TaskRefs(t)' = {Call(t)}
        <3>1. LeasedPane(t) = t
            BY <2>4, LeasedPaneIs
        <3>2. Call(t) \in tasks' /\ Call(t).reg = t
            BY <1>3, <2>1, <2>2, <2>4, <3>1
        <3>3. \A k \in tasks' : k.reg = t => k = Call(t)
            BY <1>3, <2>1, <2>2, <2>4 DEF TaskRefs
        <3> QED
            BY <3>2, <3>3 DEF TaskRefs
    <2>5. ASSUME NEW t \in Tokens, ~InLaunch(t) PROVE TaskRefs(t)' = TaskRefs(t)
        <3>1. LeasedPane(t) # t
            BY <2>5, LeasedPaneIs
        <3>2. \A k \in tasks' : k \in tasks \/ k.reg # t
            BY <2>1, <2>2, <3>1
        <3> QED
            BY <2>1, <3>2, TaskRefsSame
    <2>6. \A t \in Tokens : IF t \in Tokens THEN ~InLaunch(t)' ELSE InLaunch(t)' <=> InLaunch(t)
        BY <2>3
    <2>7. \A t \in Tokens : IF t \in Tokens /\ InLaunch(t) THEN \E k : TaskRefs(t)' = {k}
                            ELSE TaskRefs(t)' = TaskRefs(t)
        BY <2>4, <2>5
    <2> QED
        BY <1>0, <1>2, <2>1, <2>6, <2>7, RemovePanes
<1>6. ASSUME NEW x \in Tokens, UnhealthyAbort(x) PROVE \A t \in Tokens : PaneMove(t)
    <2>1. paneLease' = paneLease
        BY <1>6 DEF UnhealthyAbort
    <2>2. CASE Live(x)
        BY <1>2, <1>6, <2>1, <2>2, AbortPanes DEF UnhealthyAbort
    <2>3. CASE ~Live(x)
        <3>1. pending' = pending /\ tasks' = tasks
            BY <1>6, <2>3 DEF UnhealthyAbort, gateVars
        <3> QED
            BY <1>2, <2>1, <3>1, QuietPanes DEF InLaunch, Live, TaskRefs
    <2> QED
        BY <2>2, <2>3
<1>7. ASSUME NEW x \in Tokens, PaneClosed(x) PROVE \A t \in Tokens : PaneMove(t)
    <2>1. pending' = pending /\ tasks' = tasks
        BY <1>7 DEF PaneClosed, gateVars
    <2>2. \A t \in Tokens : \/ paneLease'[t] = paneLease[t]
                            \/ paneLease[t] = "closing" /\ paneLease'[t] = "closed"
        BY <1>7, TableTypes DEF PaneClosed
    <2> QED
        BY <1>2, <2>1, <2>2 DEF PaneMove, InLaunch, Live, TaskRefs
<1>8. ASSUME \/ \E sc \in Scopes : ScopeUnhealthy(sc)
             \/ CaptureLostHandled \/ UnhealthyTokens \/ UnhealthyRelease
             \/ DrainSeal \/ DrainFails \/ DrainSnapshot \/ DrainCleanup \/ DrainDone \/ Reopen
      PROVE  \A t \in Tokens : PaneMove(t)
    <2>1. pending' = pending /\ tasks' = tasks /\ paneLease' = paneLease
        BY <1>8 DEF ScopeUnhealthy, CaptureLostHandled, UnhealthyTokens, UnhealthyRelease,
                    GReleaseDangling, DrainSeal, DrainFails, DrainSnapshot, DrainCleanup,
                    DrainDone, Reopen, gateVars
    <2> QED
        BY <1>2, <2>1, QuietPanes DEF InLaunch, Live, TaskRefs
<1> QED
    BY <1>1, <1>4, <1>5, <1>6, <1>7, <1>8 DEF DaemonNext

LEMMA PaneInit == Init => PaneInv
BY GateAssumption DEF Init, GateInit, PaneInv, PaneHeldOnce, NothingToClose, Named, Binding, InLaunch,
       InGated, TaskRefs, UiRefs, Unleased, Live

LEMMA PaneStep ==
    ASSUME BookInv, PaneInv, [Next]_vars
    PROVE  (\A t \in Tokens : PaneMove(t)) /\ NothingToClose'
<1>1. CASE LauncherNext
    <2>1. ui' = ui
        BY <1>1 DEF LauncherNext, Prepare, Register, Commit, LaunchPrepared, LauncherFails,
               RegisterHost, RegisterBind, Abort, LauncherDisconnect
    <2> QED
        BY <1>1, <2>1, LauncherPanes DEF PaneInv, NothingToClose
<1>2. CASE UNCHANGED vars
    <2>1. /\ pending' = pending /\ ui' = ui /\ launcher' = launcher /\ gated' = gated
          /\ tasks' = tasks /\ paneLease' = paneLease
        BY <1>2 DEF vars, gateVars, handlers, book, hostVars
    <2> QED
        BY <2>1, QuietPanes DEF PaneInv, NothingToClose, Unleased, Binding, InLaunch, InGated,
               TaskRefs, UiRefs, Live
<1> QED
    BY <1>1, <1>2, UiPanes, SessionPanes, TaskPanes, DaemonPanes DEF Next

LEMMA PaneAlways == Spec => [](BookInv /\ PaneInv)
<1>1. BookInv /\ PaneInv /\ [Next]_vars => PaneInv'
    BY PaneStep, PaneMoveKeeps DEF PaneInv
<1> QED
    BY <1>1, PaneInit, BookAlways, PTL DEF Spec

(* No pending-pane lease is forgotten, for any number of launches and UI   *)
(* connections: while the adapter holds one open, the launcher that asked  *)
(* for it, the launch, the gated entry, a handler about to close it or a   *)
(* detach call still names it.                                             *)
THEOREM PaneLeaseAccountedAlways == Spec => []PaneLeaseAccounted
<1>1. BookInv /\ PaneInv => PaneLeaseAccounted
    <2> SUFFICES ASSUME PaneInv, NEW t \in Tokens, paneLease[t] = "held"
                 PROVE  \/ launcher[t].pc = "bind" \/ LeasedPane(t) = t
                        \/ gated[t] # None /\ gated[t].lease
                        \/ \E k \in tasks : k.reg = t
                        \/ \E c \in Uis : ui[c].pc = "withdraw" /\ ui[c].reg = t
        BY DEF PaneLeaseAccounted
    <2>1. Named(t)
        BY DEF PaneInv, PaneHeldOnce
    <2> QED
        BY <2>1, LeasedPaneIs DEF Named, Binding, InGated, TaskRefs, UiRefs
<1> QED
    BY <1>1, PaneAlways, PTL

(* A pane given to an attached UI by confirm_gated_attachment is never     *)
(* queued for closing afterwards, and a pane whose close was confirmed is  *)
(* not queued again: the one place that names a lease hands it on or       *)
(* settles it, and a settled lease is named nowhere.                       *)
THEOREM PaneSettledOnceAlways == Spec => PaneSettledOnce
<1>1. BookInv /\ PaneInv /\ [Next]_vars
        => [\A t \in Tokens : paneLease[t] \in {"confirmed", "closed"}
                                => paneLease'[t] = paneLease[t]]_vars
    BY PaneStep, PaneMoveSettled DEF PaneInv
<1> QED
    BY <1>1, PaneAlways, PTL DEF Spec, PaneSettledOnce

-----------------------------------------------------------------------------
(***************************************************************************)
(* The sessions of the broker, for any number of launches and connections: *)
(* no keyboard capture is forgotten, and a session record belongs to the   *)
(* owner of its scope or to somebody who takes it away.                    *)
(***************************************************************************)

(* Who works for a session.                                                 *)

(* The handler of an attachment that is not published yet.                 *)
Attaching(c) == ui[c].pc \in {"origin", "insert", "finalize", "withdraw"}

(* A session that has not reached begin_capture and still may.             *)
Early(u) == \/ \E t \in Tokens : pendingSessions[t] = u
            \/ \E c \in Uis : Attaching(c) /\ ui[c].session = u

(* No handler has met the session yet.                                     *)
Unmet(u) == /\ tail[u] = "none" /\ records[u] = None
            /\ \A c \in Uis : ui[c].session # u

(* A session id that was not handed out, or that was reserved for a launch *)
(* nobody attached to, is unmet.                                           *)
Fresh == \A u \in Sessions \ minted :
    Unmet(u) /\ \A t \in Tokens : pendingSessions[t] # u

Untouched == \A t \in Tokens :
    Live(t) /\ pending[t].ui = None => Unmet(pendingSessions[t])

(* A launch has a session of its own, and one UI process has its token.    *)
OneToken == \A s, t \in Tokens :
    pendingSessions[s] = pendingSessions[t] /\ pendingSessions[s] # None => s = t

OneHolder == \A c, d \in Uis : ui[c].token = ui[d].token /\ ui[c].token # None => c = d

TokenPrepared == \A c \in Uis, t \in Tokens : ui[c].token = t => launcher[t].pc # "none"

OneAttaching == \A c, d \in Uis :
    Attaching(c) /\ Attaching(d) /\ ui[c].session = ui[d].session => c = d

(* The attachment to a pending launch holds its token and has not          *)
(* published it; one that failed or reached begin_capture has no pending   *)
(* launch.                                                                 *)
OwnToken == \A c \in Uis, t \in Tokens :
    /\ Attaching(c) /\ pendingSessions[t] = ui[c].session
         => ui[c].token = t /\ ~pending[t].published
    /\ Attaching(c) /\ ui[c].token = t
         => pendingSessions[t] \in {None, ui[c].session}
    /\ ui[c].pc \in {"withdraw", "capture"} /\ ui[c].token = t => pendingSessions[t] = None

(* Whoever attached to a pending launch still holds its token, and does    *)
(* not start over.                                                         *)
AttachedBy == \A t \in Tokens : Live(t) /\ pending[t].ui # None =>
    \E c \in Uis : ui[c].token = t /\ ui[c].pc \notin {"idle", "placing"}

(* Before begin_capture nothing of a capture exists.                       *)
EarlyClean == \A u \in Sessions : Early(u) =>
    /\ tail[u] = "none"
    /\ records[u] # None => ~records[u].captured

CaptureInv == /\ Fresh /\ Untouched /\ OneToken /\ OneHolder /\ TokenPrepared
              /\ OneAttaching /\ OwnToken /\ AttachedBy /\ EarlyClean

-----------------------------------------------------------------------------
(* Records and scopes.                                                      *)

(* The owner of a scope is the session, or the launch that reserved it.    *)
Owns(u) == \/ \E sc \in Scopes : scopes[sc] = u
           \/ \E t \in Tokens : pendingSessions[t] = u

OwnsIn(u, sc) == scopes[sc] = u \/ (scopes[sc] \in Tokens /\ pendingSessions[scopes[sc]] = u)

(* A list of sessions somebody is about to detach.                         *)
Listed(u) == u \in monitor.left \cup drain.left

(* A session that is not known to the gate or to anybody's list.           *)
Unlisted(u) == /\ ~Listed(u) /\ gateSessions[u] = None
               /\ (\A sc \in Scopes : scopes[sc] # u) /\ (\A k \in tasks : k.sess # u)

FreshScope == \A u \in Sessions \ minted : Unlisted(u)

UntouchedScope == \A t \in Tokens :
    Live(t) /\ pending[t].ui = None => Unlisted(pendingSessions[t])

(* One owner, once.                                                        *)
OwnsOnce ==
    /\ \A a, b \in Scopes : scopes[a] = scopes[b] /\ scopes[a] \in Sessions => a = b
    /\ \A sc \in Scopes, t \in Tokens : pendingSessions[t] # None => pendingSessions[t] # scopes[sc]

(* Who will take the record away.                                          *)
Taker(u) == \/ \E k \in tasks : k.sess = u /\ k.step = "unlink"
            \/ \E c \in Uis : Attaching(c) /\ ui[c].session = u
            \/ Listed(u)
            \/ drain.pc = "emptied"

Owned == \A u \in Sessions :
    records[u] # None => OwnsIn(u, records[u].scope) \/ Taker(u)

(* An attachment without its record yet.                                   *)
Recordless(c) == ui[c].pc \in {"origin", "insert"}

NotYet == \A c \in Uis :
    Recordless(c) => records[ui[c].session] = None /\ ~Listed(ui[c].session)

(* A detach call that runs before the record is inserted found the session *)
(* without its scope, so that the finalization will fail.                  *)
Doomed ==
    /\ \A k \in tasks, c \in Uis :
         k.step # "finish" /\ Recordless(c) /\ ui[c].session = k.sess => ~Owns(k.sess)
    /\ \A k \in tasks : k.step = "state" /\ records[k.sess] # None =>
         /\ ~Owns(k.sess)
         /\ \E c \in Uis : Attaching(c) /\ ui[c].session = k.sess

(* The attachment, its record and its launch name one scope.               *)
OneScope ==
    /\ \A c \in Uis, t \in Tokens : Attaching(c) /\ pendingSessions[t] = ui[c].session
          => pending[t].scope = ui[c].scope
    /\ \A c \in Uis : Attaching(c) /\ records[ui[c].session] # None
          => records[ui[c].session].scope = ui[c].scope

(* release_dangling_owner never finds a session with a record.             *)
Known ==
    /\ \A u \in Sessions : records[u] # None /\ Owns(u) => gateSessions[u] # None
    /\ \A c \in Uis : Recordless(c) /\ Owns(ui[c].session)
          => gateSessions[ui[c].session] # None

(* A published attachment and a new one never share a session.             *)
UiDone == \A c, d \in Uis :
    ui[c].pc \in {"waiting", "capture", "confirm", "attached"} /\ Attaching(d)
        => ui[c].session # ui[d].session

MonitorLists ==
    /\ monitor.pc \in {"idle", "lost"} => monitor.left = {}
    /\ monitor.pc = "tokens" => monitor.left \subseteq Tokens

RecordInv == /\ FreshScope /\ UntouchedScope /\ OwnsOnce /\ Owned /\ NotYet /\ Doomed
             /\ OneScope /\ Known /\ UiDone /\ MonitorLists

-----------------------------------------------------------------------------
(* Launches that stay pending.                                              *)

(* A launch that is pending after a step was pending before it, with the   *)
(* same scope, UI and publication.                                         *)
SameLaunch(t) == Live(t)' =>
    /\ Live(t)
    /\ pending'[t].ui = pending[t].ui
    /\ pending'[t].scope = pending[t].scope
    /\ pending'[t].published = pending[t].published

LEMMA LaunchFields ==
    ASSUME NEW r \in Launch, NEW p \in Panes
    PROVE  /\ [r EXCEPT !.pane = p].ui = r.ui /\ [r EXCEPT !.pane = p].scope = r.scope
           /\ [r EXCEPT !.pane = p].published = r.published
           /\ [r EXCEPT !.committed = TRUE].ui = r.ui
           /\ [r EXCEPT !.committed = TRUE].scope = r.scope
           /\ [r EXCEPT !.committed = TRUE].published = r.published
           /\ \A u \in Sessions :
                 /\ [r EXCEPT !.ui = u, !.uiPane = p].ui = u
                 /\ [r EXCEPT !.ui = u, !.uiPane = p].scope = r.scope
                 /\ [r EXCEPT !.ui = u, !.uiPane = p].published = r.published
BY DEF Launch

LEMMA BoundFields ==
    ASSUME NEW r \in Launch
    PROVE  /\ [r EXCEPT !.lease = TRUE].ui = r.ui /\ [r EXCEPT !.lease = TRUE].scope = r.scope
           /\ [r EXCEPT !.lease = TRUE].published = r.published
           /\ [r EXCEPT !.published = TRUE].ui = r.ui
           /\ [r EXCEPT !.published = TRUE].scope = r.scope
BY DEF Launch

LEMMA RegisterSame ==
    ASSUME BookInv, NEW t \in Tokens, NEW p \in Panes, GRegister(t, p) PROVE \A x \in Tokens : SameLaunch(x)
<1>1. pending \in [Tokens -> Launch \cup {None}] /\ Live(t)
    BY DEF BookInv, TypeOK, GateTypeOK, GRegister
<1>2. pending' = [pending EXCEPT ![t] = [pending[t] EXCEPT !.pane = p]]
    BY <1>1 DEF GRegister
<1> QED
    BY <1>1, <1>2, LaunchFields DEF SameLaunch, Live

LEMMA BindSame ==
    ASSUME BookInv, NEW t \in Tokens, GBindLease(t) PROVE \A x \in Tokens : SameLaunch(x)
<1>1. pending \in [Tokens -> Launch \cup {None}] /\ Live(t)
    BY DEF BookInv, TypeOK, GateTypeOK, GBindLease
<1>2. pending' = [pending EXCEPT ![t] = [pending[t] EXCEPT !.lease = TRUE]]
    BY <1>1 DEF GBindLease
<1> QED
    BY <1>1, <1>2, BoundFields DEF SameLaunch, Live

LEMMA CommitSame ==
    ASSUME BookInv, NEW t \in Tokens, NEW p \in Panes, GCommit(t, p) PROVE \A x \in Tokens : SameLaunch(x)
<1>1. pending \in [Tokens -> Launch \cup {None}] /\ Live(t)
    BY DEF BookInv, TypeOK, GateTypeOK, GCommit, CommitOk
<1>2. CASE pending[t].published
    BY <1>1, <1>2 DEF GCommit, Promote, SameLaunch, Live
<1>3. CASE ~pending[t].published
    <2>1. pending' = [pending EXCEPT ![t] = [pending[t] EXCEPT !.committed = TRUE]]
        BY <1>1, <1>3 DEF GCommit
    <2> QED
        BY <1>1, <2>1, LaunchFields DEF SameLaunch, Live
<1> QED
    BY <1>2, <1>3

LEMMA RemoveSame ==
    ASSUME NEW T \in SUBSET Tokens, GRemove(T) PROVE \A x \in Tokens : SameLaunch(x)
BY DEF GRemove, SameLaunch, Live

LEMMA StillSame == ASSUME pending' = pending PROVE \A x \in Tokens : SameLaunch(x)
BY DEF SameLaunch, Live

-----------------------------------------------------------------------------
(* A step that starts no attachment and reserves no session.                *)

(* The connection keeps its session and token; it may leave an attachment  *)
(* or begin_capture only when no launch is pending for its token.          *)
SameUi(c) ==
    /\ ui'[c].session = ui[c].session /\ ui'[c].token = ui[c].token
    /\ Attaching(c)' => Attaching(c)
    /\ ui'[c].pc \in {"idle", "placing"} /\ ui[c].pc \notin {"idle", "placing"}
         => \A t \in Tokens : ui[c].token = t => pendingSessions'[t] = None
    /\ ui'[c].pc \in {"withdraw", "capture"} /\ ui[c].pc \notin {"withdraw", "capture"}
         => \A t \in Tokens : ui[c].token = t => pendingSessions'[t] = None

LEMMA QuietSessions ==
    ASSUME BookInv, CaptureInv, LaunchBookAgrees', minted' = minted,
           \A t \in Tokens : pendingSessions'[t] \in {pendingSessions[t], None},
           \A t \in Tokens : SameLaunch(t),
           \A t \in Tokens : launcher[t].pc # "none" => launcher'[t].pc # "none",
           \A c \in Uis : SameUi(c),
           \A u \in Sessions : tail'[u] = tail[u] \/ (u \in minted /\ ~Early(u)'),
           \A u \in Sessions : \/ records'[u] \in {records[u], None}
                               \/ u \in minted /\ ~Early(u)'
                               \/ ~Unmet(u) /\ ~records'[u].captured
    PROVE  CaptureInv'
<1> USE DEF CaptureInv
<1>0. \A t \in Tokens : pendingSessions'[t] # None => pendingSessions'[t] = pendingSessions[t]
    OBVIOUS
<1>s. \A t \in Tokens : (Live(t) => pendingSessions[t] # None) /\ (Live(t)' => pendingSessions'[t] # None)
    BY DEF BookInv, LaunchBookAgrees
<1>t. \A t \in Tokens : pendingSessions[t] \in Sessions \cup {None}
    BY TableTypes
<1>1. Fresh'
    <2> SUFFICES ASSUME NEW u \in Sessions, u \notin minted
                 PROVE  /\ tail'[u] = "none" /\ records'[u] = None
                        /\ (\A c \in Uis : ui'[c].session # u)
                        /\ (\A t \in Tokens : pendingSessions'[t] # u)
        BY DEF Fresh, Unmet
    <2>1. Unmet(u) /\ \A t \in Tokens : pendingSessions[t] # u
        BY DEF Fresh
    <2> QED
        BY <2>1, GateAssumption DEF Unmet, SameUi
<1>2. Untouched'
    <2>1. ASSUME NEW t \in Tokens, Live(t)', pending'[t].ui = None, NEW u \in Sessions,
                 u = pendingSessions'[t]
          PROVE  Unmet(u)'
        <3>1. pendingSessions[t] = u
            BY <1>0, <1>s, <2>1
        <3>2. Unmet(u)
            BY <2>1, <3>1 DEF Untouched, SameLaunch
        <3>3. Early(u)'
            BY <2>1 DEF Early
        <3>4. tail'[u] = "none" /\ records'[u] = None
            BY <3>2, <3>3 DEF Unmet
        <3> QED
            BY <3>2, <3>4 DEF Unmet, SameUi
    <2>2. \A t \in Tokens : Live(t)' => pendingSessions'[t] \in Sessions
        BY <1>0, <1>s, <1>t
    <2> QED
        BY <2>1, <2>2 DEF Untouched
<1>3. OneToken'
    BY <1>0 DEF OneToken
<1>4. OneHolder'
    BY DEF OneHolder, SameUi
<1>5. TokenPrepared'
    BY DEF TokenPrepared, SameUi
<1>6. OneAttaching'
    BY DEF OneAttaching, SameUi
<1>7. OwnToken'
    <2> SUFFICES ASSUME NEW c \in Uis, NEW t \in Tokens
                 PROVE  /\ Attaching(c)' /\ pendingSessions'[t] = ui'[c].session
                              => ui'[c].token = t /\ ~pending'[t].published
                        /\ Attaching(c)' /\ ui'[c].token = t
                              => pendingSessions'[t] \in {None, ui'[c].session}
                        /\ ui'[c].pc \in {"withdraw", "capture"} /\ ui'[c].token = t
                              => pendingSessions'[t] = None
        BY DEF OwnToken
    <2>1. ASSUME Attaching(c)', pendingSessions'[t] = ui'[c].session
          PROVE  ui'[c].token = t /\ ~pending'[t].published
        <3>1. Attaching(c) /\ ui'[c].session = ui[c].session /\ ui'[c].token = ui[c].token
            BY <2>1 DEF SameUi
        <3>2. ui[c].session \in Sessions
            BY <3>1, UiFacts DEF BookInv, Attaching
        <3>3. pendingSessions'[t] # None /\ pendingSessions[t] = ui[c].session
            BY <1>0, <2>1, <3>1, <3>2, GateAssumption
        <3>4. Live(t)'
            BY <3>3 DEF LaunchBookAgrees
        <3> QED
            BY <3>1, <3>3, <3>4 DEF OwnToken, SameLaunch
    <2>2. ASSUME Attaching(c)', ui'[c].token = t PROVE pendingSessions'[t] \in {None, ui'[c].session}
        BY <2>2 DEF OwnToken, SameUi
    <2>3. ASSUME ui'[c].pc \in {"withdraw", "capture"}, ui'[c].token = t
          PROVE  pendingSessions'[t] = None
        BY <2>3 DEF OwnToken, SameUi
    <2> QED
        BY <2>1, <2>2, <2>3
<1>8. AttachedBy'
    <2> SUFFICES ASSUME NEW t \in Tokens, Live(t)', pending'[t].ui # None
                 PROVE  \E c \in Uis : ui'[c].token = t /\ ui'[c].pc \notin {"idle", "placing"}
        BY DEF AttachedBy
    <2>1. PICK c \in Uis : ui[c].token = t /\ ui[c].pc \notin {"idle", "placing"}
        BY DEF AttachedBy, SameLaunch
    <2> QED
        BY <1>s, <2>1 DEF SameUi
<1>9. EarlyClean'
    <2> SUFFICES ASSUME NEW u \in Sessions, Early(u)'
                 PROVE  tail'[u] = "none" /\ (records'[u] # None => ~records'[u].captured)
        BY DEF EarlyClean
    <2>1. Early(u)
        BY <1>0, GateAssumption DEF Early, SameUi
    <2> QED
        BY <2>1 DEF EarlyClean
<1> QED
    BY <1>1, <1>2, <1>3, <1>4, <1>5, <1>6, <1>7, <1>8, <1>9

LEMMA LauncherQuiet ==
    ASSUME BookInv, CaptureInv, LaunchBookAgrees', NEW t \in Tokens,
           \/ LaunchPrepared(t) \/ LauncherFails(t) \/ RegisterHost(t) \/ RegisterBind(t)
           \/ Abort(t) \/ LauncherDisconnect(t) \/ \E p \in Panes : Register(t, p)
    PROVE  CaptureInv'
<1> USE DEF book, sessionVars
<1>1. minted' = minted /\ records' = records /\ ui' = ui /\ tail' = tail
    BY DEF LaunchPrepared, LauncherFails, RegisterHost, RegisterBind, Abort, LauncherDisconnect,
           Register, AbortLaunch
<1>2. \A x \in Tokens : pendingSessions'[x] \in {pendingSessions[x], None}
    BY TableTypes DEF LaunchPrepared, LauncherFails, RegisterHost, RegisterBind, Abort,
           LauncherDisconnect, Register, AbortLaunch
<1>3. \A x \in Tokens : launcher[x].pc # "none" => launcher'[x].pc # "none"
    <2>1. \E pc \in LauncherPc \ {"none"} : GoLauncher(t, pc)
        BY DEF LaunchPrepared, LauncherFails, RegisterHost, RegisterBind, Abort,
               LauncherDisconnect, Register, LauncherPc
    <2> QED
        BY <2>1, TableTypes DEF GoLauncher
<1>4. \A x \in Tokens : SameLaunch(x)
    <2>1. CASE LaunchPrepared(t) \/ LauncherFails(t) \/ RegisterHost(t)
        BY <2>1, StillSame DEF LaunchPrepared, LauncherFails, RegisterHost, gateVars
    <2>2. CASE RegisterBind(t)
        BY <2>2, StillSame, BindSame DEF RegisterBind, gateVars
    <2>3. CASE Abort(t) \/ LauncherDisconnect(t)
        <3>1. GRemove({t}) \/ pending' = pending
            BY <2>3 DEF Abort, LauncherDisconnect, AbortLaunch, GAbort, gateVars
        <3> QED
            BY <3>1, RemoveSame, StillSame
    <2>4. CASE \E p \in Panes : Register(t, p)
        BY <2>4, RegisterSame DEF Register
    <2> QED
        BY <2>1, <2>2, <2>3, <2>4
<1>5. \A c \in Uis : SameUi(c)
    BY <1>1 DEF SameUi, Attaching
<1> QED
    BY <1>1, <1>2, <1>3, <1>4, <1>5, QuietSessions

(* A commit that promotes the launch starts begin_capture for a session    *)
(* whose attachment was published, so that nobody is attaching to it.      *)
LEMMA CommitSessions ==
    ASSUME BookInv, CaptureInv, LaunchBookAgrees', NEW t \in Tokens, NEW p \in Panes, Commit(t, p)
    PROVE  CaptureInv'
<1> USE DEF book, sessionVars
<1>1. minted' = minted /\ records' = records /\ ui' = ui
    BY DEF Commit
<1>2. \A x \in Tokens : pendingSessions'[x] \in {pendingSessions[x], None}
    BY TableTypes DEF Commit, BookPromotion
<1>3. \A x \in Tokens : launcher[x].pc # "none" => launcher'[x].pc # "none"
    BY TableTypes DEF Commit, GoLauncher
<1>4. \A x \in Tokens : SameLaunch(x)
    BY CommitSame DEF Commit
<1>5. \A c \in Uis : SameUi(c)
    BY <1>1 DEF SameUi, Attaching
<1>6. ASSUME NEW u \in Sessions PROVE tail'[u] = tail[u] \/ (u \in minted /\ ~Early(u)')
    <2>1. CASE ~Promoted(t) \/ u # pending[t].ui
        BY <2>1, TableTypes DEF Commit
    <2>2. CASE Promoted(t) /\ u = pending[t].ui
        <3>1. pending[t].published /\ u = pendingSessions[t]
            BY <2>2, PromotedByCommit DEF Commit
        <3>2. u \in minted
            BY <3>1 DEF CaptureInv, Fresh
        <3>3. \A c \in Uis : Attaching(c) => ui[c].session # u
            BY <3>1 DEF CaptureInv, OwnToken
        <3>4. \A x \in Tokens : pendingSessions'[x] # u
            <4>1. pendingSessions' = [pendingSessions EXCEPT ![t] = None]
                BY <2>2 DEF Commit, BookPromotion
            <4>2. \A x \in Tokens : pendingSessions[x] = u => x = t
                BY <3>1, GateAssumption DEF CaptureInv, OneToken
            <4> QED
                BY <4>1, <4>2, TableTypes, GateAssumption
        <3>5. \A c \in Uis : Attaching(c)' => Attaching(c)
            BY <1>1 DEF Attaching
        <3> QED
            BY <1>1, <3>2, <3>3, <3>4, <3>5 DEF Early
    <2> QED
        BY <2>1, <2>2
<1> QED
    BY <1>1, <1>2, <1>3, <1>4, <1>5, <1>6, QuietSessions

(* A new launch reserves a session id that is nowhere.                     *)
LEMMA PrepareSessions ==
    ASSUME BookInv, CaptureInv, LaunchBookAgrees', NEW t \in Tokens, NEW sc \in Scopes, Prepare(t, sc)
    PROVE  CaptureInv'
<1> USE DEF sessionVars, CaptureInv
<1>1. PICK u \in Sessions \ minted :
          /\ minted' = minted \cup {u}
          /\ pendingSessions' = [x \in Tokens |-> IF x = t THEN u ELSE IF x = scopes[sc] THEN None
                                                  ELSE pendingSessions[x]]
    BY DEF Prepare
<1>2. records' = records /\ ui' = ui /\ tail' = tail
    BY DEF Prepare
<1>3. launcher[t].pc = "none" /\ launcher'[t].pc # "none"
         /\ \A x \in Tokens \ {t} : launcher'[x] = launcher[x]
    BY TableTypes DEF Prepare, GoLauncher
<1>4. pending' = [x \in Tokens |-> IF x = t THEN NewLaunch(sc) ELSE IF x = scopes[sc] THEN None
                                   ELSE pending[x]]
    BY DEF Prepare, GPrepare
<1>5. Unmet(u) /\ \A x \in Tokens : pendingSessions[x] # u
    BY DEF Fresh
<1>6. \A v \in Sessions : Unmet(v)' <=> Unmet(v)
    BY <1>2 DEF Unmet
<1>7. \A c \in Uis : Attaching(c)' <=> Attaching(c)
    BY <1>2 DEF Attaching
<1>8. \A c \in Uis : ui[c].token # t
    BY <1>3 DEF TokenPrepared
<1>9. ASSUME NEW x \in Tokens, x # t, pendingSessions'[x] # None
      PROVE  pendingSessions'[x] = pendingSessions[x] /\ pending'[x] = pending[x]
    BY <1>1, <1>4, <1>9
<1>10. \A x \in Tokens : (Live(x) => pendingSessions[x] \in Sessions) /\ (Live(x)' => pendingSessions'[x] # None)
    BY PendingSession DEF LaunchBookAgrees
<1>11. Fresh'
    BY <1>1, <1>5, <1>6, GateAssumption DEF Fresh
<1>12. Untouched'
    <2>1. ASSUME NEW x \in Tokens, Live(x)', pending'[x].ui = None, NEW v \in Sessions,
                 v = pendingSessions'[x]
          PROVE  Unmet(v)'
        <3>1. CASE x = t
            BY <1>1, <1>5, <1>6, <2>1, <3>1
        <3>2. CASE x # t
            BY <1>6, <1>9, <1>10, <2>1, <3>2 DEF Untouched, Live
        <3> QED
            BY <3>1, <3>2
    <2>2. \A x \in Tokens : Live(x)' => pendingSessions'[x] \in Sessions
        BY <1>1, <1>10, TableTypes
    <2> QED
        BY <2>1, <2>2 DEF Untouched
<1>13. OneToken'
    BY <1>1, <1>5, <1>9 DEF OneToken
<1>14. OneHolder' /\ TokenPrepared' /\ OneAttaching'
    BY <1>2, <1>3, <1>7 DEF OneHolder, TokenPrepared, OneAttaching
<1>15. OwnToken'
    <2> SUFFICES ASSUME NEW c \in Uis, NEW x \in Tokens
                 PROVE  /\ Attaching(c) /\ pendingSessions'[x] = ui[c].session
                              => ui[c].token = x /\ ~pending'[x].published
                        /\ Attaching(c) /\ ui[c].token = x
                              => pendingSessions'[x] \in {None, ui[c].session}
                        /\ ui[c].pc \in {"withdraw", "capture"} /\ ui[c].token = x
                              => pendingSessions'[x] = None
        BY <1>2, <1>7 DEF OwnToken
    <2>1. CASE x = t
        BY <1>1, <1>5, <1>8, <2>1 DEF Unmet
    <2>2. CASE x # t
        <3>1. CASE pendingSessions'[x] = None
            <4>1. Attaching(c) => ui[c].session \in Sessions
                BY UiFacts DEF BookInv, Attaching
            <4> QED
                BY <3>1, <4>1, GateAssumption
        <3>2. CASE pendingSessions'[x] # None
            BY <1>9, <2>2, <3>2 DEF OwnToken
        <3> QED
            BY <3>1, <3>2
    <2> QED
        BY <2>1, <2>2
<1>16. AttachedBy'
    <2>1. NewLaunch(sc).ui = None
        BY DEF NewLaunch
    <2> QED
        BY <1>2, <1>4, <1>9, <1>10, <2>1 DEF AttachedBy, Live
<1>17. EarlyClean'
    <2> SUFFICES ASSUME NEW v \in Sessions, Early(v)'
                 PROVE  tail[v] = "none" /\ (records[v] # None => ~records[v].captured)
        BY <1>2 DEF EarlyClean
    <2>1. CASE v = u
        BY <1>5, <2>1 DEF Unmet
    <2>2. CASE v # u
        <3>1. Early(v)
            BY <1>1, <1>2, <1>7, <2>2, GateAssumption DEF Early
        <3> QED
            BY <3>1 DEF EarlyClean
    <2> QED
        BY <2>1, <2>2
<1> QED
    BY <1>11, <1>12, <1>13, <1>14, <1>15, <1>16, <1>17

LEMMA WaitSessions ==
    ASSUME BookInv, CaptureInv, NEW c \in Uis, NEW t \in Tokens, WaitPlacement(c, t)
    PROVE  CaptureInv'
<1> USE DEF book, sessionVars, CaptureInv
<1>1. /\ minted' = minted /\ pendingSessions' = pendingSessions /\ pending' = pending
      /\ records' = records /\ tail' = tail /\ launcher' = launcher
      /\ ui[c].pc = "idle" /\ Handed(t, c)
    BY DEF WaitPlacement, gateVars
<1>2. /\ ui'[c].pc = "placing" /\ ui'[c].token = t /\ ui'[c].session = ui[c].session
      /\ \A d \in Uis \ {c} : ui'[d] = ui[d]
    BY WaitPlacementFrame DEF BookInv
<1>3. \A d \in Uis : /\ ui'[d].session = ui[d].session
                     /\ (Attaching(d)' => Attaching(d) /\ d # c)
    BY <1>1, <1>2 DEF Attaching
<1>4. Fresh' /\ Untouched' /\ OneToken'
    BY <1>1, <1>3 DEF Fresh, Untouched, OneToken, Unmet, Live
<1>5. OneHolder' /\ TokenPrepared'
    BY <1>1, <1>2 DEF OneHolder, TokenPrepared, Handed
<1>6. OneAttaching'
    BY <1>3 DEF OneAttaching
<1>7. OwnToken'
    BY <1>1, <1>2, <1>3 DEF OwnToken
<1>8. AttachedBy'
    BY <1>1, <1>2 DEF AttachedBy, Live
<1>9. EarlyClean'
    BY <1>1, <1>3 DEF EarlyClean, Early
<1> QED
    BY <1>4, <1>5, <1>6, <1>7, <1>8, <1>9

(* The UI process that has the token attaches to a launch nobody attached  *)
(* to.                                                                     *)
LEMMA FirstAttach ==
    ASSUME BookInv, CaptureInv, NEW c \in Uis, NEW t \in Tokens, NEW p \in Panes, NEW sc \in Scopes,
           Attach(c, t, p, sc)
    PROVE  pending[t] \in Launch /\ pending[t].ui = None /\ Unmet(pendingSessions[t]) /\ pendingSessions[t] \in Sessions
<1>1. Live(t) /\ ui[c].pc = "idle" /\ Handed(t, c)
    BY DEF Attach, GAttachLaunch
<1>2. pending[t].ui = None
    BY <1>1 DEF CaptureInv, AttachedBy, Handed
<1> QED
    BY <1>1, <1>2, PendingSession DEF CaptureInv, Untouched

LEMMA AttachSessions ==
    ASSUME BookInv, CaptureInv, NEW c \in Uis, NEW t \in Tokens, NEW p \in Panes, NEW sc \in Scopes,
           Attach(c, t, p, sc)
    PROVE  CaptureInv'
<1> USE DEF book, sessionVars, CaptureInv
<1> DEFINE u == pendingSessions[t]
<1>1. /\ minted' = minted /\ pendingSessions' = pendingSessions
      /\ records' = records /\ tail' = tail /\ launcher' = launcher
      /\ ui[c].pc = "idle" /\ Handed(t, c) /\ Live(t)
    BY DEF Attach, GAttachLaunch
<1>2. pending[t] \in Launch /\ pending[t].ui = None /\ Unmet(u) /\ u \in Sessions
    BY FirstAttach
<1>3. /\ ui'[c].pc = "origin" /\ ui'[c].token = t /\ ui'[c].session = u
      /\ \A d \in Uis \ {c} : ui'[d] = ui[d]
    BY StartAttachFrame DEF BookInv, Attach
<1>4. pending' = [pending EXCEPT ![t] = [pending[t] EXCEPT !.ui = u, !.uiPane = p]]
    BY DEF Attach, GAttachLaunch, BookInv, TypeOK, GateTypeOK
<1>5. /\ pending'[t].ui = u /\ pending'[t].published = pending[t].published
      /\ \A x \in Tokens \ {t} : pending'[x] = pending[x]
    BY <1>2, <1>4, LaunchFields DEF BookInv, TypeOK, GateTypeOK
<1>6. \A d \in Uis : Attaching(d)' <=> d = c \/ Attaching(d)
    BY <1>1, <1>3 DEF Attaching
<1>7. u \in minted /\ ~pending[t].published /\ u # None
    BY <1>1, <1>2, GateAssumption DEF Fresh, BookInv, LaunchesOK, LaunchOK
<1>8. \A d \in Uis : ui[d].session # u
    BY <1>2 DEF Unmet
<1>9. \A x \in Tokens : pendingSessions[x] = u => x = t
    BY <1>7 DEF OneToken
<1>10. \A x \in Tokens : Live(x)' <=> Live(x)
    <2> DEFINE r == [pending[t] EXCEPT !.ui = u, !.uiPane = p]
    <2>0. r \in Launch
        BY <1>2, LaunchUpdates
    <2>1. r # None
        <3> HIDE DEF r
        <3> QED
            BY <2>0, GateAssumption
    <2>2. pending'[t] # None
        BY <1>4, <2>1 DEF BookInv, TypeOK, GateTypeOK
    <2> QED
        BY <1>1, <1>5, <2>2 DEF Live
<1> HIDE DEF u
<1>11. Fresh'
    BY <1>1, <1>3, <1>7 DEF Fresh, Unmet
<1>12. Untouched'
    <2>1. ASSUME NEW x \in Tokens, Live(x)', pending'[x].ui = None, NEW v \in Sessions,
                 v = pendingSessions[x]
          PROVE  Unmet(v)'
        <3>1. x # t /\ v # u
            BY <1>5, <1>7, <1>9, <2>1
        <3>2. Unmet(v)
            BY <1>5, <1>10, <2>1, <3>1 DEF Untouched
        <3> QED
            BY <1>1, <1>3, <3>1, <3>2 DEF Unmet
    <2>2. \A x \in Tokens : Live(x)' => pendingSessions[x] \in Sessions
        BY <1>10, PendingSession
    <2> QED
        BY <1>1, <2>1, <2>2 DEF Untouched
<1>13. OneToken'
    BY <1>1 DEF OneToken
<1>14. OneHolder' /\ TokenPrepared'
    BY <1>1, <1>3 DEF OneHolder, TokenPrepared, Handed
<1>15. OneAttaching'
    BY <1>3, <1>6, <1>8 DEF OneAttaching
<1>16. OwnToken'
    <2> SUFFICES ASSUME NEW d \in Uis, NEW x \in Tokens
                 PROVE  /\ Attaching(d)' /\ pendingSessions[x] = ui'[d].session
                              => ui'[d].token = x /\ ~pending'[x].published
                        /\ Attaching(d)' /\ ui'[d].token = x
                              => pendingSessions[x] \in {None, ui'[d].session}
                        /\ ui'[d].pc \in {"withdraw", "capture"} /\ ui'[d].token = x
                              => pendingSessions[x] = None
        BY <1>1 DEF OwnToken
    <2>1. CASE d = c
        BY <1>3, <1>5, <1>7, <1>9, <2>1 DEF u
    <2>2. CASE d # c
        BY <1>3, <1>5, <1>6, <1>7, <1>8, <2>2 DEF OwnToken
    <2> QED
        BY <2>1, <2>2
<1>17. AttachedBy'
    BY <1>1, <1>3, <1>5, <1>10 DEF AttachedBy
<1>18. EarlyClean'
    <2> SUFFICES ASSUME NEW v \in Sessions, Early(v)'
                 PROVE  tail[v] = "none" /\ (records[v] # None => ~records[v].captured)
        BY <1>1 DEF EarlyClean
    <2>1. Early(v)
        BY <1>1, <1>3, <1>6 DEF Early, u
    <2> QED
        BY <2>1 DEF EarlyClean
<1> QED
    BY <1>11, <1>12, <1>13, <1>14, <1>15, <1>16, <1>17, <1>18

LEMMA DirectSessions ==
    ASSUME BookInv, CaptureInv, NEW c \in Uis, NEW sc \in Scopes, AttachDirect(c, sc)
    PROVE  CaptureInv'
<1> USE DEF sessionVars, CaptureInv
<1>1. /\ pendingSessions' = pendingSessions /\ pending' = pending
      /\ records' = records /\ tail' = tail /\ launcher' = launcher /\ ui[c].pc = "idle"
    BY DEF AttachDirect, GAttachDirect
<1>2. PICK u \in Sessions \ minted : minted' = minted \cup {u} /\ StartAttach(c, u, None, sc)
    BY DEF AttachDirect
<1>3. /\ ui'[c].pc = "origin" /\ ui'[c].token = None /\ ui'[c].session = u
      /\ \A d \in Uis \ {c} : ui'[d] = ui[d]
    BY <1>2, StartAttachFrame DEF BookInv
<1>4. Unmet(u) /\ \A x \in Tokens : pendingSessions[x] # u
    BY DEF Fresh
<1>5. \A d \in Uis : Attaching(d)' <=> d = c \/ Attaching(d)
    BY <1>1, <1>3 DEF Attaching
<1>6. \A d \in Uis : ui[d].session # u
    BY <1>4 DEF Unmet
<1>7. Fresh' /\ Untouched'
    BY <1>1, <1>2, <1>3, <1>4 DEF Fresh, Untouched, Unmet, Live
<1>8. OneToken' /\ OneHolder' /\ TokenPrepared'
    BY <1>1, <1>3, GateAssumption DEF OneToken, OneHolder, TokenPrepared
<1>9. OneAttaching'
    BY <1>3, <1>5, <1>6 DEF OneAttaching
<1>10. OwnToken'
    BY <1>1, <1>3, <1>4, <1>5, GateAssumption DEF OwnToken
<1>11. AttachedBy'
    BY <1>1, <1>3 DEF AttachedBy, Live
<1>12. EarlyClean'
    <2> SUFFICES ASSUME NEW v \in Sessions, Early(v)'
                 PROVE  tail[v] = "none" /\ (records[v] # None => ~records[v].captured)
        BY <1>1 DEF EarlyClean
    <2>1. v = u \/ Early(v)
        BY <1>1, <1>3, <1>5 DEF Early
    <2> QED
        BY <1>4, <2>1 DEF EarlyClean, Unmet
<1> QED
    BY <1>7, <1>8, <1>9, <1>10, <1>11, <1>12

(* An attachment that finds its launch gone: nothing is pending for its    *)
(* token.                                                                  *)
LEMMA AttachmentLost ==
    ASSUME BookInv, CaptureInv, NEW c \in Uis, NEW t \in Tokens, Attaching(c), ui[c].token = t,
           ~(Live(t) /\ pending[t].ui = ui[c].session /\ pendingSessions[t] = ui[c].session)
    PROVE  pendingSessions[t] = None
<1> SUFFICES ASSUME pendingSessions[t] # None PROVE FALSE
    OBVIOUS
<1>1. pendingSessions[t] = ui[c].session /\ Live(t)
    BY PendingSession DEF CaptureInv, OwnToken
<1>2. pending[t].ui # None
    BY <1>1 DEF CaptureInv, Untouched, Unmet
<1> QED
    BY <1>1, <1>2, PendingSession

(* The steps of a connection that only move its handler.                   *)
LEMMA UiQuiet ==
    ASSUME BookInv, CaptureInv, LaunchBookAgrees', NEW c \in Uis,
           \/ PlacementAnswer(c) \/ OriginFailed(c) \/ OriginCaptured(c) \/ InsertRecord(c)
           \/ Withdraw(c) \/ Waiter(c) \/ Confirm(c) \/ UiLeaves(c)
    PROVE  CaptureInv'
<1> USE DEF book, sessionVars
<1>0. UisKnow /\ ui[c].token \in Tokens \cup {None}
    BY UiFacts DEF BookInv
<1>1. minted' = minted /\ tail' = tail /\ launcher' = launcher
    BY DEF PlacementAnswer, OriginFailed, OriginCaptured, InsertRecord, Withdraw, Waiter,
           Confirm, UiLeaves, AbortLaunch
<1>2. \A x \in Tokens : pendingSessions'[x] \in {pendingSessions[x], None}
    BY TableTypes DEF PlacementAnswer, OriginFailed, OriginCaptured, InsertRecord, Withdraw,
           Waiter, Confirm, UiLeaves, AbortLaunch
<1>3. \A x \in Tokens : SameLaunch(x)
    <2>1. CASE OriginFailed(c)
        <3>1. pending' = pending \/ (ui[c].token \in Tokens /\ GRemove({ui[c].token}))
            BY <1>0, <2>1 DEF OriginFailed, GAbort, GDetach
        <3> QED
            BY <3>1, RemoveSame, StillSame
    <2>2. CASE UiLeaves(c)
        <3>1. pending' = pending \/ (ui[c].token \in Tokens /\ GRemove({ui[c].token}))
            BY <1>0, <2>2, UiFacts DEF UiLeaves, AbortLaunch, GAbort, gateVars
        <3> QED
            BY <3>1, RemoveSame, StillSame
    <2>3. CASE ~OriginFailed(c) /\ ~UiLeaves(c)
        BY <2>3, StillSame DEF PlacementAnswer, OriginCaptured, InsertRecord, Withdraw,
               Waiter, Confirm, gateVars
    <2> QED
        BY <2>1, <2>2, <2>3
<1>4. PICK pc \in {"idle", "closed", "insert", "finalize", "confirm", "attached"} : GoUi(c, pc)
    BY DEF PlacementAnswer, OriginFailed, OriginCaptured, InsertRecord, Withdraw, Waiter,
           Confirm, UiLeaves
<1>5. /\ ui'[c].pc = pc /\ ui'[c].token = ui[c].token /\ ui'[c].session = ui[c].session
      /\ \A d \in Uis \ {c} : ui'[d] = ui[d]
    BY <1>0, <1>4, GoUiFrame
<1>6. pc \in {"insert", "finalize"} => Attaching(c)
    <2>1. pc \in {"insert", "finalize"} => OriginCaptured(c) \/ InsertRecord(c)
        BY <1>5, <1>0, GoUiFrame DEF PlacementAnswer, OriginFailed, Withdraw, Waiter, Confirm, UiLeaves
    <2> QED
        BY <2>1 DEF OriginCaptured, InsertRecord, Attaching
<1>7. ASSUME pc = "idle", ui[c].pc # "placing", NEW t \in Tokens, ui[c].token = t
      PROVE  pendingSessions'[t] = None
    <2>1. OriginFailed(c) \/ OriginCaptured(c) \/ Withdraw(c)
        BY <1>0, <1>5, <1>7, GoUiFrame
           DEF PlacementAnswer, InsertRecord, Waiter, Confirm, UiLeaves
    <2>2. CASE OriginFailed(c)
        BY <1>7, <2>2, TableTypes, GateAssumption DEF OriginFailed
    <2>3. CASE Withdraw(c)
        BY <1>7, <2>3 DEF Withdraw, CaptureInv, OwnToken
    <2>4. CASE OriginCaptured(c)
        <3>1. Attaching(c) /\ pendingSessions' = pendingSessions
            BY <2>4 DEF OriginCaptured, Attaching
        <3>2. ~(Live(t) /\ pending[t].ui = ui[c].session /\ pendingSessions[t] = ui[c].session)
            <4>1. GoUi(c, "insert") => ui'[c].pc = "insert"
                BY <1>0, GoUiFrame
            <4> QED
                BY <1>5, <1>7, <2>4, <4>1 DEF OriginCaptured
        <3> QED
            BY <1>7, <3>1, <3>2, AttachmentLost
    <2> QED
        BY <2>1, <2>2, <2>3, <2>4
<1>8. ASSUME NEW d \in Uis PROVE SameUi(d)
    <2>1. CASE d = c
        BY <1>5, <1>6, <1>7, <2>1 DEF SameUi, Attaching
    <2>2. CASE d # c
        BY <1>5, <2>2 DEF SameUi, Attaching
    <2> QED
        BY <2>1, <2>2
<1>9. ASSUME NEW u \in Sessions
      PROVE  records'[u] \in {records[u], None} \/ (~Unmet(u) /\ ~records'[u].captured)
    <2>1. CASE InsertRecord(c)
        <3>1. u # ui[c].session => records'[u] = records[u]
            BY <2>1, TableTypes DEF InsertRecord
        <3>2. u = ui[c].session => records'[u] = [scope |-> ui[c].scope, captured |-> FALSE]
            BY <2>1, TableTypes DEF InsertRecord
        <3> QED
            BY <3>1, <3>2 DEF Unmet
    <2>2. CASE ~InsertRecord(c)
        BY <2>2, TableTypes DEF PlacementAnswer, OriginFailed, OriginCaptured, Withdraw, Waiter,
               Confirm, UiLeaves
    <2> QED
        BY <2>1, <2>2
<1> QED
    BY <1>1, <1>2, <1>3, <1>8, <1>9, QuietSessions

(* The finalization of a gated attachment: publication, promotion and      *)
(* failure.                                                                *)
LEMMA PublishSessions ==
    ASSUME BookInv, CaptureInv, LaunchBookAgrees', NEW c \in Uis, FinalizeGated(c),
           ~sealed, PublishOk(ui[c].token, ui[c].session), ~Promoted(ui[c].token)
    PROVE  CaptureInv'
<1> USE DEF book, sessionVars, CaptureInv
<1> DEFINE t == ui[c].token  u == ui[c].session
<1>0. ui[c].pc = "finalize" /\ t \in Tokens /\ u \in Sessions /\ UisKnow
    BY UiFacts DEF FinalizeGated, BookInv
<1>1. /\ minted' = minted /\ records' = records /\ launcher' = launcher /\ tail' = tail
      /\ pendingSessions' = pendingSessions
    BY <1>0 DEF FinalizeGated, BookPromotion
<1>2. /\ ui'[c].pc = "waiting" /\ ui'[c].token = t /\ ui'[c].session = u
      /\ \A d \in Uis \ {c} : ui'[d] = ui[d]
    BY <1>0, GoUiFrame DEF FinalizeGated
<1>3. GPublish(t, u) /\ Live(t) /\ pending[t] \in Launch
    BY <1>0, PendingSession DEF FinalizeGated, PublishOk
<1>4. pending' = [pending EXCEPT ![t] = [pending[t] EXCEPT !.published = TRUE]]
    BY <1>0, <1>3 DEF GPublish, Promote, Promoted, BookInv, TypeOK, GateTypeOK
<1>5. /\ pending'[t].ui = pending[t].ui /\ \A x \in Tokens \ {t} : pending'[x] = pending[x]
    BY <1>0, <1>3, <1>4, BoundFields DEF BookInv, TypeOK, GateTypeOK
<1>6. \A x \in Tokens : Live(x)' <=> Live(x)
    BY <1>1 DEF BookInv, LaunchBookAgrees
<1>7. \A d \in Uis : Attaching(d)' <=> d # c /\ Attaching(d)
    BY <1>0, <1>2 DEF Attaching
<1>8. \A d \in Uis : ui'[d].token = ui[d].token /\ ui'[d].session = ui[d].session
    BY <1>2
<1>9. pendingSessions[t] = u
    BY <1>0, <1>3, PendingSession, GateAssumption DEF PublishOk
<1>10. Attaching(c)
    BY <1>0 DEF Attaching
<1> HIDE DEF t, u
<1>11. Fresh'
    BY <1>1, <1>8 DEF Fresh, Unmet
<1>12. Untouched'
    BY <1>1, <1>5, <1>6, <1>8 DEF Untouched, Unmet
<1>13. OneToken' /\ OneHolder' /\ TokenPrepared'
    BY <1>1, <1>8 DEF OneToken, OneHolder, TokenPrepared
<1>14. OneAttaching'
    BY <1>7, <1>8 DEF OneAttaching
<1>15. OwnToken'
    <2> SUFFICES ASSUME NEW d \in Uis, NEW x \in Tokens
                 PROVE  /\ Attaching(d)' /\ pendingSessions[x] = ui'[d].session
                              => ui'[d].token = x /\ ~pending'[x].published
                        /\ Attaching(d)' /\ ui'[d].token = x
                              => pendingSessions[x] \in {None, ui'[d].session}
                        /\ ui'[d].pc \in {"withdraw", "capture"} /\ ui'[d].token = x
                              => pendingSessions[x] = None
        BY <1>1 DEF OwnToken
    <2>1. CASE d = c
        BY <1>2, <1>7, <2>1
    <2>2. CASE d # c
        <3>1. ui'[d] = ui[d]
            BY <1>2, <2>2
        <3>2. Attaching(d) => ui[d].session # u
            BY <1>10, <2>2 DEF OneAttaching, u
        <3>3. x = t => pendingSessions[x] = u
            BY <1>9
        <3> QED
            BY <1>5, <1>7, <3>1, <3>2, <3>3 DEF OwnToken
    <2> QED
        BY <2>1, <2>2
<1>16. AttachedBy'
    <2> SUFFICES ASSUME NEW x \in Tokens, Live(x)', pending'[x].ui # None
                 PROVE  \E d \in Uis : ui'[d].token = x /\ ui'[d].pc \notin {"idle", "placing"}
        BY DEF AttachedBy
    <2>1. PICK d \in Uis : ui[d].token = x /\ ui[d].pc \notin {"idle", "placing"}
        BY <1>5, <1>6 DEF AttachedBy
    <2> QED
        BY <1>2, <2>1 DEF t
<1>17. EarlyClean'
    BY <1>1, <1>7, <1>8 DEF EarlyClean, Early
<1> QED
    BY <1>11, <1>12, <1>13, <1>14, <1>15, <1>16, <1>17

LEMMA FinalizeSessions ==
    ASSUME BookInv, CaptureInv, LaunchBookAgrees', NEW c \in Uis,
           FinalizeGated(c) \/ FinalizeDirect(c)
    PROVE  CaptureInv'
<1> USE DEF book, sessionVars, CaptureInv
<1>0. ui[c].pc = "finalize" /\ ui[c].session \in Sessions /\ UisKnow /\ ui[c].token \in Tokens \cup {None}
         /\ Attaching(c)
    BY UiFacts DEF FinalizeGated, FinalizeDirect, BookInv, Attaching
<1>1. minted' = minted /\ records' = records /\ launcher' = launcher
    BY DEF FinalizeGated, FinalizeDirect, BookPromotion
<1>2. \A d \in Uis \ {c} : Attaching(d) => ui[d].session # ui[c].session
    BY <1>0 DEF OneAttaching
<1>3. ui[c].session \in minted
    BY <1>0 DEF Fresh, Unmet
(* The capture starts, and the session is pending nowhere.                  *)
<1>4. ASSUME StartCapture(c), \A x \in Tokens : SameLaunch(x),
             \A x \in Tokens : pendingSessions'[x] \in {pendingSessions[x], None},
             \A x \in Tokens : pendingSessions'[x] # ui[c].session,
             \A x \in Tokens : ui[c].token = x => pendingSessions'[x] = None
      PROVE  CaptureInv'
    <2>1. /\ ui'[c].pc = "capture" /\ ui'[c].token = ui[c].token /\ ui'[c].session = ui[c].session
          /\ \A d \in Uis \ {c} : ui'[d] = ui[d]
        BY <1>0, <1>4, GoUiFrame DEF StartCapture
    <2>2. \A d \in Uis : SameUi(d)
        BY <1>4, <2>1 DEF SameUi, Attaching
    <2>3. ~Attaching(c)' /\ \A d \in Uis \ {c} : Attaching(d)' => Attaching(d)
        BY <2>1 DEF Attaching
    <2>4. ASSUME NEW u \in Sessions, u = ui[c].session PROVE ~Early(u)'
        BY <1>2, <1>4, <2>1, <2>3, <2>4 DEF Early
    <2>5. ASSUME NEW u \in Sessions PROVE tail'[u] = tail[u] \/ (u \in minted /\ ~Early(u)')
        <3>1. CASE u = ui[c].session
            BY <1>3, <2>4, <3>1
        <3>2. CASE u # ui[c].session
            BY <1>4, <3>2, TableTypes DEF StartCapture
        <3> QED
            BY <3>1, <3>2
    <2> QED
        BY <1>1, <1>4, <2>2, <2>5, QuietSessions
(* The attachment withdraws.                                                *)
<1>5. ASSUME tail' = tail, NEW reg, ui' = [ui EXCEPT ![c].pc = "withdraw", ![c].reg = reg]
                                    \/ GoUi(c, "withdraw"),
             \A x \in Tokens : SameLaunch(x),
             \A x \in Tokens : pendingSessions'[x] \in {pendingSessions[x], None},
             \A x \in Tokens : ui[c].token = x => pendingSessions'[x] = None
      PROVE  CaptureInv'
    <2>1. /\ ui'[c].pc = "withdraw" /\ ui'[c].token = ui[c].token /\ ui'[c].session = ui[c].session
          /\ \A d \in Uis \ {c} : ui'[d] = ui[d]
        BY <1>0, <1>5, GoUiFrame, WithdrawFrame
    <2>2. \A d \in Uis : SameUi(d)
        BY <1>0, <1>5, <2>1 DEF SameUi, Attaching
    <2> QED
        BY <1>1, <1>5, <2>2, QuietSessions
<1>6. CASE FinalizeDirect(c)
    <2>1. pending' = pending /\ pendingSessions' = pendingSessions /\ ui[c].token = None
        BY <1>6 DEF FinalizeDirect, gateVars
    <2>2. \A x \in Tokens : pendingSessions[x] # ui[c].session
        BY <1>0, <2>1, GateAssumption DEF OwnToken
    <2>3. StartCapture(c) \/ (GoUi(c, "withdraw") /\ tail' = tail)
        BY <1>6 DEF FinalizeDirect
    <2>4. \A x \in Tokens : ui[c].token # x
        BY <2>1, GateAssumption
    <2> QED
        BY <1>4, <1>5, <2>1, <2>2, <2>3, <2>4, StillSame
<1>7. CASE FinalizeGated(c)
    <2> DEFINE t == ui[c].token  u == ui[c].session
    <2>0. t \in Tokens
        BY <1>0, <1>7 DEF FinalizeGated
    <2>1. CASE ~sealed /\ PublishOk(t, u) /\ ~Promoted(t)
        BY <1>7, <2>1, PublishSessions
    <2>2. CASE ~sealed /\ PublishOk(t, u) /\ Promoted(t)
        <3>1. GPublish(t, u) /\ BookPromotion(t) /\ StartCapture(c)
            BY <1>7, <2>2 DEF FinalizeGated
        <3>2. Promote(t) /\ pendingSessions[t] = u /\ u # None
            BY <1>0, <2>0, <2>2, <3>1, PromotedByPublish, GateAssumption
        <3>3. pendingSessions' = [pendingSessions EXCEPT ![t] = None]
            BY <2>2, <3>1 DEF BookPromotion
        <3>4. \A x \in Tokens : SameLaunch(x)
            BY <3>2 DEF Promote, SameLaunch, Live, BookInv, TypeOK, GateTypeOK
        <3>5. /\ \A x \in Tokens : pendingSessions'[x] \in {pendingSessions[x], None}
              /\ pendingSessions'[t] = None
            BY <2>0, <3>3, TableTypes
        <3>6. \A x \in Tokens : pendingSessions'[x] # u
            BY <2>0, <3>2, <3>5 DEF OneToken
        <3> QED
            BY <1>4, <3>1, <3>4, <3>5, <3>6
    <2>3. CASE ~(~sealed /\ PublishOk(t, u))
        <3>1. /\ pendingSessions' = [pendingSessions EXCEPT ![t] = None] /\ tail' = tail
              /\ ui' = [ui EXCEPT ![c].pc = "withdraw", ![c].reg = LeasedPane(t)]
              /\ GRemove({t}) \/ pending' = pending
            BY <1>7, <2>3 DEF FinalizeGated, GAbort, gateVars
        <3>2. \A x \in Tokens : SameLaunch(x)
            BY <2>0, <3>1, RemoveSame, StillSame
        <3>3. /\ \A x \in Tokens : pendingSessions'[x] \in {pendingSessions[x], None}
              /\ pendingSessions'[t] = None
            BY <2>0, <3>1, TableTypes
        <3> QED
            BY <1>5, <3>1, <3>2, <3>3
    <2> QED
        BY <2>1, <2>2, <2>3
<1> QED
    BY <1>6, <1>7

(* begin_capture and attached_response work for sessions that reached      *)
(* begin_capture.                                                          *)
LEMMA SessionSessions ==
    ASSUME BookInv, CaptureInv, LaunchBookAgrees', SessionNext
    PROVE  CaptureInv'
<1> USE DEF book, sessionVars, handlers
<1>1. minted' = minted /\ pendingSessions' = pendingSessions /\ pending' = pending
    BY SessionGate DEF gateVars, SessionNext, CaptureLookup, CaptureHost, CaptureStore,
       AttachedResponse, AnnounceReady, TailFailed, SlowConsumer, CaptureLost, UnhealthyDetach,
       DrainDetach, CaptureReleased
<1>2. \A t \in Tokens : launcher[t].pc # "none" => launcher'[t].pc # "none"
    BY DEF SessionNext, CaptureLookup, CaptureHost, CaptureStore, AttachedResponse,
       AnnounceReady, TailFailed, CommitEnds, SlowConsumer, CaptureLost, UnhealthyDetach,
       DrainDetach, CaptureReleased
<1>3. \A c \in Uis : SameUi(c)
    <2>1. ASSUME NEW c \in Uis, ui'[c] = ui[c] PROVE SameUi(c)
        BY <2>1 DEF SameUi, Attaching
    <2>2. ASSUME NEW c \in Uis, ui[c].pc = "capture", ui'[c].pc \in {"confirm", "idle"},
                 ui'[c].session = ui[c].session, ui'[c].token = ui[c].token
          PROVE  SameUi(c)
        BY <1>1, <2>2 DEF SameUi, Attaching, CaptureInv, OwnToken
    <2>3. UisKnow
        BY DEF BookInv
    <2> QED
        BY <2>1, <2>2, <2>3, SessionUi
<1>4. ASSUME NEW u \in Sessions, tail[u] # "none" PROVE u \in minted /\ ~Early(u)'
    <2>1. u \in minted /\ ~Early(u)
        BY <1>4 DEF CaptureInv, Fresh, Unmet, EarlyClean
    <2> QED
        BY <1>1, <1>3, <2>1 DEF Early, SameUi
<1>5. \A u \in Sessions : tail'[u] = tail[u] \/ tail[u] # "none"
    BY TableTypes DEF SessionNext, CaptureLookup, CaptureHost, CaptureStore, AttachedResponse,
       AnnounceReady, TailFailed, TailFails, GoTail, SlowConsumer, CaptureLost, UnhealthyDetach,
       DrainDetach, CaptureReleased
<1>6. \A u \in Sessions : records'[u] = records[u] \/ tail[u] # "none"
    <2>1. ASSUME NEW u \in Sessions, CaptureStore(u)
          PROVE  \A v \in Sessions : records'[v] = records[v] \/ tail[v] # "none"
        BY <2>1, TableTypes DEF CaptureStore
    <2> QED
        BY <2>1 DEF SessionNext, CaptureLookup, CaptureHost, AttachedResponse,
           AnnounceReady, TailFailed, SlowConsumer, CaptureLost, UnhealthyDetach,
           DrainDetach, CaptureReleased
<1> QED
    BY <1>1, <1>2, <1>3, <1>4, <1>5, <1>6, StillSame, QuietSessions

LEMMA TaskSessions ==
    ASSUME BookInv, CaptureInv, LaunchBookAgrees', TaskNext
    PROVE  CaptureInv'
<1> USE DEF book, sessionVars, handlers
<1>1. PICK k \in tasks : DetachUnlink(k) \/ DetachState(k) \/ DetachFinish(k)
    BY DEF TaskNext
<1>2. /\ minted' = minted /\ pendingSessions' = pendingSessions /\ pending' = pending
      /\ launcher' = launcher /\ ui' = ui /\ tail' = tail
    BY <1>1 DEF DetachUnlink, DetachState, DetachFinish, GDetach, gateVars
<1>3. \A u \in Sessions : records'[u] \in {records[u], None}
    BY <1>1, TableTypes DEF DetachUnlink, DetachState, DetachFinish
<1>4. \A c \in Uis : SameUi(c)
    BY <1>2 DEF SameUi, Attaching
<1> QED
    BY <1>2, <1>3, <1>4, StillSame, QuietSessions

LEMMA DaemonSessions ==
    ASSUME BookInv, CaptureInv, LaunchBookAgrees', DaemonNext
    PROVE  CaptureInv'
<1> USE DEF book, sessionVars, handlers
<1>1. minted' = minted /\ launcher' = launcher /\ ui' = ui /\ tail' = tail /\ records' = records
    BY DEF DaemonNext, Expire, PaneClosed, UnhealthyAbort, AbortLaunch, ScopeUnhealthy,
           CaptureLostHandled, UnhealthyTokens, UnhealthyRelease, DrainSeal, DrainFails,
           DrainGate, DrainSnapshot, DrainCleanup, DrainDone, Reopen
<1>2. \A t \in Tokens : pendingSessions'[t] \in {pendingSessions[t], None}
    BY TableTypes DEF DaemonNext, Expire, PaneClosed, UnhealthyAbort, AbortLaunch, ScopeUnhealthy,
           CaptureLostHandled, UnhealthyTokens, UnhealthyRelease, DrainSeal, DrainFails,
           DrainGate, DrainSnapshot, DrainCleanup, DrainDone, Reopen
<1>3. \A t \in Tokens : SameLaunch(t)
    <2>1. ASSUME NEW T \in SUBSET Tokens, Expire(T) PROVE \A t \in Tokens : SameLaunch(t)
        BY <2>1, RemoveSame DEF Expire, GExpire
    <2>2. ASSUME NEW t \in Tokens, UnhealthyAbort(t) PROVE \A x \in Tokens : SameLaunch(x)
        <3>1. GRemove({t}) \/ pending' = pending
            BY <2>2 DEF UnhealthyAbort, AbortLaunch, GAbort, gateVars
        <3> QED
            BY <3>1, RemoveSame, StillSame
    <2>3. CASE DrainGate
        BY <2>3 DEF DrainGate, GDrain, SameLaunch, Live
    <2>4. ASSUME \/ \E t \in Tokens : PaneClosed(t)
                 \/ \E sc \in Scopes : ScopeUnhealthy(sc)
                 \/ CaptureLostHandled \/ UnhealthyTokens \/ UnhealthyRelease
                 \/ DrainSeal \/ DrainFails \/ DrainSnapshot \/ DrainCleanup \/ DrainDone \/ Reopen
          PROVE  \A t \in Tokens : SameLaunch(t)
        BY <2>4, StillSame DEF PaneClosed, ScopeUnhealthy, CaptureLostHandled, UnhealthyTokens,
               UnhealthyRelease, GReleaseDangling, DrainSeal, DrainFails, DrainSnapshot,
               DrainCleanup, DrainDone, Reopen, gateVars
    <2> QED
        BY <2>1, <2>2, <2>3, <2>4 DEF DaemonNext
<1>4. \A c \in Uis : SameUi(c)
    BY <1>1 DEF SameUi, Attaching
<1> QED
    BY <1>1, <1>2, <1>3, <1>4, QuietSessions

LEMMA CaptureInit == Init => CaptureInv
<1> SUFFICES ASSUME Init PROVE CaptureInv
    OBVIOUS
<1>1. /\ \A t \in Tokens : pendingSessions[t] = None /\ ~Live(t)
      /\ \A u \in Sessions : tail[u] = "none" /\ records[u] = None
      /\ \A c \in Uis : ui[c].pc = "idle" /\ ui[c].session = None /\ ui[c].token = None
    BY DEF Init, GateInit, Live
<1>2. \A c \in Uis : ~Attaching(c)
    BY <1>1 DEF Attaching
<1>3. \A u \in Sessions : Unmet(u)
    BY <1>1, GateAssumption DEF Unmet
<1> QED
    BY <1>1, <1>2, <1>3, GateAssumption DEF CaptureInv, Fresh, Untouched, OneToken, OneHolder,
       TokenPrepared, OneAttaching, OwnToken, AttachedBy, EarlyClean, Early

LEMMA CaptureStep == BookInv /\ CaptureInv /\ [Next]_vars => CaptureInv'
<1> SUFFICES ASSUME BookInv, CaptureInv, [Next]_vars PROVE CaptureInv'
    OBVIOUS
<1>0. LaunchBookAgrees'
    BY BookStep DEF BookInv
<1>1. CASE LauncherNext
    BY <1>0, <1>1, LauncherQuiet, CommitSessions, PrepareSessions DEF LauncherNext
<1>2. CASE UiNext
    BY <1>0, <1>2, WaitSessions, AttachSessions, DirectSessions, UiQuiet, FinalizeSessions DEF UiNext
<1>3. CASE UNCHANGED vars
    <2>1. /\ minted' = minted /\ launcher' = launcher /\ ui' = ui /\ tail' = tail
          /\ records' = records /\ pending' = pending /\ pendingSessions' = pendingSessions
        BY <1>3 DEF vars, book, handlers, sessionVars, gateVars
    <2>2. \A c \in Uis : SameUi(c)
        BY <2>1 DEF SameUi, Attaching
    <2> QED
        BY <1>0, <2>1, <2>2, StillSame, QuietSessions
<1> QED
    BY <1>0, <1>1, <1>2, <1>3, SessionSessions, TaskSessions, DaemonSessions DEF Next

-----------------------------------------------------------------------------
(* Captures.                                                                *)

(* Who has the capture of a session.                                       *)
Carried(u) == \/ records[u] # None /\ records[u].captured
              \/ tail[u] = "store"
              \/ \E k \in tasks : k.sess = u /\ k.captured /\ k.step = "state"

LEMMA CarriedKept ==
    ASSUME NEW u \in Sessions, Carried(u),
           tail'[u] = tail[u] \/ tail[u] # "store",
           records'[u] = records[u] \/ ~(records[u] # None /\ records[u].captured),
           \A k \in tasks : k.step = "state" => k \in tasks'
    PROVE  Carried(u)'
BY DEF Carried

LEMMA LauncherCarries ==
    ASSUME BookInv, CaptureInv, CaptureAccounted, LauncherNext
    PROVE  CaptureAccounted'
<1> USE DEF book, sessionVars, hostVars
<1>1. captureLease' = captureLease /\ records' = records /\ tasks \subseteq tasks'
    BY DEF LauncherNext, Prepare, Register, Commit, LaunchPrepared, LauncherFails, RegisterHost,
           RegisterBind, Abort, LauncherDisconnect, AbortLaunch
<1>2. \A u \in Sessions : tail'[u] = tail[u] \/ tail[u] # "store"
    <2>1. ASSUME NEW t \in Tokens, NEW p \in Panes, Commit(t, p)
          PROVE  \A u \in Sessions : tail'[u] = tail[u] \/ tail[u] # "store"
        <3>1. CASE Promoted(t)
            <4>1. pending[t].ui \in Sessions /\ pending[t].ui = pendingSessions[t]
                BY <2>1, <3>1, PromotedByCommit DEF Commit
            <4>2. tail[pending[t].ui] = "none"
                BY <4>1 DEF CaptureInv, EarlyClean, Early
            <4> QED
                BY <2>1, <3>1, <4>2, TableTypes DEF Commit
        <3>2. CASE ~Promoted(t)
            BY <2>1, <3>2 DEF Commit
        <3> QED
            BY <3>1, <3>2
    <2> QED
        BY <2>1 DEF LauncherNext, Prepare, Register, LaunchPrepared, LauncherFails, RegisterHost,
           RegisterBind, Abort, LauncherDisconnect
<1> QED
    BY <1>1, <1>2, CarriedKept DEF CaptureAccounted, Carried

LEMMA UiCarries ==
    ASSUME BookInv, CaptureInv, CaptureAccounted, UiNext
    PROVE  CaptureAccounted'
<1> USE DEF book, sessionVars, hostVars
<1> DEFINE Finalizes == \E c \in Uis : FinalizeGated(c) \/ FinalizeDirect(c)
           Records == \E c \in Uis : InsertRecord(c) \/ Withdraw(c)
           Keeps == /\ captureLease' = captureLease /\ tasks \subseteq tasks'
                    /\ Finalizes \/ tail' = tail
                    /\ Records \/ records' = records
<1>1. Keeps
    <2>1. ASSUME NEW c \in Uis, OriginFailed(c) PROVE Keeps
        BY <2>1 DEF OriginFailed
    <2>2. ASSUME NEW c \in Uis, UiLeaves(c) PROVE Keeps
        BY <2>2 DEF UiLeaves, AbortLaunch
    <2>3. ASSUME NEW c \in Uis, InsertRecord(c) \/ Withdraw(c) PROVE Keeps
        BY <2>3 DEF InsertRecord, Withdraw
    <2>4. ASSUME NEW c \in Uis, FinalizeGated(c) PROVE Keeps
        BY <2>4 DEF FinalizeGated
    <2>5. ASSUME NEW c \in Uis, FinalizeDirect(c) PROVE Keeps
        BY <2>5 DEF FinalizeDirect
    <2>6. ASSUME NEW c \in Uis, NEW t \in Tokens, NEW p \in Panes, NEW sc \in Scopes,
                 Attach(c, t, p, sc)
          PROVE  Keeps
        BY <2>6 DEF Attach
    <2>7. ASSUME NEW c \in Uis, NEW t \in Tokens, WaitPlacement(c, t) PROVE Keeps
        BY <2>7 DEF WaitPlacement
    <2>8. ASSUME NEW c \in Uis, NEW sc \in Scopes, AttachDirect(c, sc) PROVE Keeps
        BY <2>8 DEF AttachDirect
    <2>9. ASSUME NEW c \in Uis, PlacementAnswer(c) \/ OriginCaptured(c) \/ Waiter(c) \/ Confirm(c)
          PROVE  Keeps
        BY <2>9 DEF PlacementAnswer, OriginCaptured, Waiter, Confirm
    <2> HIDE DEF Keeps
    <2> QED
        BY <2>1, <2>2, <2>3, <2>4, <2>5, <2>6, <2>7, <2>8, <2>9 DEF UiNext
<1>3. ASSUME NEW c \in Uis, Attaching(c)
      PROVE  /\ tail[ui[c].session] = "none"
             /\ ~(records[ui[c].session] # None /\ records[ui[c].session].captured)
    <2>1. ui[c].session \in Sessions
        BY <1>3, UiFacts DEF BookInv, Attaching
    <2> QED
        BY <1>3, <2>1 DEF CaptureInv, EarlyClean, Early
<1>4. \A u \in Sessions : tail'[u] = tail[u] \/ tail[u] # "store"
    <2>1. ASSUME NEW c \in Uis, FinalizeGated(c) \/ FinalizeDirect(c)
          PROVE  \A u \in Sessions : tail'[u] = tail[u] \/ tail[u] # "store"
        <3>1. Attaching(c) /\ (StartCapture(c) \/ tail' = tail)
            BY <2>1 DEF FinalizeGated, FinalizeDirect, Attaching
        <3> QED
            BY <1>3, <3>1, TableTypes DEF StartCapture
    <2> QED
        BY <1>1, <2>1
<1>5. \A u \in Sessions : records'[u] = records[u] \/ ~(records[u] # None /\ records[u].captured)
    <2>1. ASSUME NEW c \in Uis, InsertRecord(c) \/ Withdraw(c)
          PROVE  \A u \in Sessions : records'[u] = records[u] \/ ~(records[u] # None /\ records[u].captured)
        <3>1. Attaching(c) /\ \A u \in Sessions : u # ui[c].session => records'[u] = records[u]
            BY <2>1, TableTypes DEF InsertRecord, Withdraw, Attaching
        <3> QED
            BY <1>3, <3>1
    <2> QED
        BY <1>1, <2>1
<1> QED
    BY <1>1, <1>4, <1>5, CarriedKept DEF CaptureAccounted, Carried

LEMMA SessionCarries ==
    ASSUME BookInv, CaptureAccounted, SessionNext
    PROVE  CaptureAccounted'
<1> USE DEF book, sessionVars, hostVars, handlers
<1>1. tasks \subseteq tasks'
    BY DEF SessionNext, CaptureLookup, CaptureHost, CaptureStore, AttachedResponse, AnnounceReady,
       TailFailed, TailFails, SlowConsumer, CaptureLost, UnhealthyDetach, DrainDetach, CaptureReleased
<1>2. ASSUME NEW u \in Sessions, CaptureHost(u) PROVE CaptureAccounted'
    <2>1. records' = records /\ \A v \in Sessions \ {u} : tail'[v] = tail[v] /\ captureLease'[v] = captureLease[v]
        BY <1>2, TableTypes DEF CaptureHost, TailFails, GoTail
    <2>2. \/ tail[u] # "store" /\ captureLease'[u] = captureLease[u]
          \/ tail'[u] = "store"
        BY <1>2, TableTypes DEF CaptureHost, TailFails, GoTail
    <2>3. ASSUME NEW v \in Sessions, captureLease'[v] = "held" PROVE Carried(v)'
        <3>1. CASE v = u /\ tail'[u] = "store"
            BY <3>1 DEF Carried
        <3>2. CASE ~(v = u /\ tail'[u] = "store")
            BY <1>1, <2>1, <2>2, <2>3, <3>2, CarriedKept DEF CaptureAccounted, Carried
        <3> QED
            BY <3>1, <3>2
    <2> QED
        BY <2>3 DEF CaptureAccounted, Carried
<1>3. ASSUME NEW u \in Sessions, CaptureStore(u) PROVE CaptureAccounted'
    <2>1. \A v \in Sessions \ {u} : /\ tail'[v] = tail[v] /\ captureLease'[v] = captureLease[v]
                                    /\ records'[v] = records[v]
        BY <1>3, TableTypes DEF CaptureStore, TailFails, GoTail
    <2>2. captureLease'[u] = "closing" \/ (records'[u] # None /\ records'[u].captured)
        <3>1. CASE records[u] # None
            <4>1. records[u] \in Record /\ records' = [records EXCEPT ![u] = [records[u] EXCEPT !.captured = TRUE]]
                BY <1>3, <3>1, TableTypes DEF CaptureStore
            <4>2. [records[u] EXCEPT !.captured = TRUE] \in Record
                     /\ [records[u] EXCEPT !.captured = TRUE].captured
                BY <4>1 DEF Record
            <4>3. [records[u] EXCEPT !.captured = TRUE] # None
                BY <4>2, NoneAssumption
            <4> QED
                BY <4>1, <4>2, <4>3, TableTypes
        <3>2. CASE records[u] = None
            BY <1>3, <3>2, TableTypes DEF CaptureStore
        <3> QED
            BY <3>1, <3>2
    <2>3. ASSUME NEW v \in Sessions, captureLease'[v] = "held" PROVE Carried(v)'
        <3>1. CASE v = u
            BY <2>2, <2>3, <3>1 DEF Carried
        <3>2. CASE v # u
            BY <1>1, <2>1, <2>3, <3>2, CarriedKept DEF CaptureAccounted, Carried
        <3> QED
            BY <3>1, <3>2
    <2> QED
        BY <2>3 DEF CaptureAccounted, Carried
<1>4. ASSUME NEW u \in Sessions,
             \/ CaptureLookup(u) \/ AttachedResponse(u) \/ AnnounceReady(u) \/ TailFailed(u)
             \/ SlowConsumer(u) \/ CaptureLost(u) \/ UnhealthyDetach(u) \/ DrainDetach(u)
             \/ CaptureReleased(u)
      PROVE  CaptureAccounted'
    <2>1. \A v \in Sessions : captureLease'[v] = "held" => captureLease[v] = "held"
        BY <1>4, TableTypes DEF CaptureLookup, AttachedResponse, AnnounceReady, TailFailed,
               SlowConsumer, CaptureLost, UnhealthyDetach, DrainDetach, CaptureReleased
    <2>2. records' = records
        BY <1>4 DEF CaptureLookup, AttachedResponse, AnnounceReady, TailFailed,
               SlowConsumer, CaptureLost, UnhealthyDetach, DrainDetach, CaptureReleased
    <2>3. \A v \in Sessions : tail'[v] = tail[v] \/ tail[v] # "store"
        BY <1>4, TableTypes DEF CaptureLookup, AttachedResponse, AnnounceReady, TailFailed, TailFails,
               GoTail, SlowConsumer, CaptureLost, UnhealthyDetach, DrainDetach, CaptureReleased
    <2> QED
        BY <1>1, <2>1, <2>2, <2>3, CarriedKept DEF CaptureAccounted, Carried
<1> QED
    BY <1>2, <1>3, <1>4 DEF SessionNext

LEMMA TaskCarries ==
    ASSUME BookInv, CaptureAccounted, TaskNext
    PROVE  CaptureAccounted'
<1> USE DEF book, sessionVars, hostVars, handlers
<1>1. PICK k \in tasks : DetachUnlink(k) \/ DetachState(k) \/ DetachFinish(k)
    BY DEF TaskNext
<1>2. k \in Task /\ k.sess \in Sessions
    BY TableTypes DEF Task
<1>3. tail' = tail
    BY <1>1 DEF DetachUnlink, DetachState, DetachFinish
<1>4. CASE DetachUnlink(k)
    <2> DEFINE l == [k EXCEPT !.step = "state", !.had = records[k.sess] # None,
                              !.captured = records[k.sess] # None /\ records[k.sess].captured]
    <2>1. l.sess = k.sess /\ l.step = "state"
        BY <1>2 DEF Task
    <2>2. (records[k.sess] # None /\ records[k.sess].captured) => l.captured
        BY <1>2 DEF Task
    <2>3. /\ captureLease' = captureLease /\ l \in tasks'
          /\ \A v \in Sessions \ {k.sess} : records'[v] = records[v]
          /\ \A x \in tasks : x.step = "state" => x \in tasks'
        BY <1>4, TableTypes DEF DetachUnlink
    <2> HIDE DEF l
    <2>4. ASSUME NEW v \in Sessions, captureLease[v] = "held" PROVE Carried(v)'
        <3>1. Carried(v)
            BY <2>4 DEF CaptureAccounted, Carried
        <3>2. CASE v = k.sess /\ records[v] # None /\ records[v].captured
            BY <2>1, <2>2, <2>3, <3>2 DEF Carried
        <3>3. CASE ~(v = k.sess /\ records[v] # None /\ records[v].captured)
            BY <1>3, <2>3, <3>1, <3>3, CarriedKept
        <3> QED
            BY <3>2, <3>3
    <2> QED
        BY <2>3, <2>4 DEF CaptureAccounted, Carried
<1>5. CASE DetachState(k)
    <2>1. /\ records' = records /\ \A x \in tasks \ {k} : x \in tasks'
          /\ captureLease' = [captureLease EXCEPT ![k.sess] = IF k.captured THEN "closing" ELSE @]
        BY <1>5 DEF DetachState
    <2>2. ASSUME NEW v \in Sessions, captureLease'[v] = "held" PROVE Carried(v)'
        <3>1. captureLease[v] = "held" /\ ~(v = k.sess /\ k.captured)
            BY <1>2, <2>1, <2>2, TableTypes
        <3>2. Carried(v)
            BY <3>1 DEF CaptureAccounted, Carried
        <3> QED
            BY <1>3, <2>1, <3>1, <3>2 DEF Carried
    <2> QED
        BY <2>2 DEF CaptureAccounted, Carried
<1>6. CASE DetachFinish(k)
    <2>1. /\ records' = records /\ captureLease' = captureLease
          /\ \A x \in tasks : x.step = "state" => x \in tasks'
        BY <1>6 DEF DetachFinish
    <2> QED
        BY <1>3, <2>1, CarriedKept DEF CaptureAccounted, Carried
<1> QED
    BY <1>1, <1>4, <1>5, <1>6

LEMMA DaemonCarries ==
    ASSUME CaptureAccounted, DaemonNext
    PROVE  CaptureAccounted'
<1>1. /\ captureLease' = captureLease /\ tail' = tail /\ records' = records
      /\ tasks \subseteq tasks'
    BY DEF DaemonNext, Expire, PaneClosed, UnhealthyAbort, AbortLaunch, ScopeUnhealthy,
           CaptureLostHandled, UnhealthyTokens, UnhealthyRelease, DrainSeal, DrainFails,
           DrainGate, DrainSnapshot, DrainCleanup, DrainDone, Reopen, book, sessionVars,
           handlers, hostVars
<1> QED
    BY <1>1, CarriedKept DEF CaptureAccounted, Carried

LEMMA CaptureAlways == Spec => [](BookInv /\ CaptureInv)
BY CaptureInit, CaptureStep, BookAlways, PTL DEF Spec

(* No keyboard capture is forgotten, for any number of sessions: a capture *)
(* held at the host belongs to a session record, to the begin_capture that *)
(* is about to store it, or to the detach call that took the record and    *)
(* will queue its release.                                                 *)
THEOREM CaptureAccountedAlways == Spec => []CaptureAccounted
<1>1. Init => CaptureAccounted
    BY DEF Init, CaptureAccounted
<1>2. BookInv /\ CaptureInv /\ CaptureAccounted /\ [Next]_vars => CaptureAccounted'
    <2> SUFFICES ASSUME BookInv, CaptureInv, CaptureAccounted, [Next]_vars PROVE CaptureAccounted'
        OBVIOUS
    <2>1. CASE UNCHANGED vars
        BY <2>1 DEF vars, sessionVars, handlers, hostVars, CaptureAccounted
    <2> QED
        BY <2>1, LauncherCarries, UiCarries, SessionCarries, TaskCarries, DaemonCarries DEF Next
<1> QED
    BY <1>1, <1>2, CaptureAlways, PTL DEF Spec

-----------------------------------------------------------------------------
(* What a step that starts no attachment and reserves no session does to    *)
(* connections, records, detach calls, lists and owners.                    *)

(* A session that somebody has met: its id was handed out, and if it is    *)
(* still reserved then its UI has attached.                                *)
Met(u) == u \in minted /\ \A t \in Tokens :
    Live(t) /\ pending[t].ui = None => pendingSessions[t] # u

Done == {"waiting", "capture", "confirm", "attached"}

(* An attachment ends without a record, or with the scope of its record.   *)
UiStep(c) ==
    /\ ui'[c].session = ui[c].session /\ ui'[c].scope = ui[c].scope
    /\ Attaching(c)' => Attaching(c)
    /\ Recordless(c)' => Recordless(c)
    /\ ui'[c].pc \in Done => ui[c].pc \in Done \/ Attaching(c)
    /\ Attaching(c) /\ ~Attaching(c)' => \A u \in Sessions : u = ui[c].session =>
         records'[u] = None \/ (OwnsIn(u, records[u].scope)' /\ Owns(u))

RecordStep(u) ==
    \/ records'[u] = None
    \/ records[u] # None /\ records'[u].scope = records[u].scope
    \/ \E c \in Uis : /\ ui[c].session = u /\ ui[c].pc = "insert" /\ ui'[c].pc = "finalize"
                      /\ records'[u].scope = ui[c].scope

(* A detach call is added for a session whose attachment, if one is        *)
(* running, has lost the scope.                                            *)
NewTask(k) ==
    /\ k.sess \in Sessions /\ Met(k.sess)'
    /\ \/ k.step = "finish"
       \/ /\ k.step = "unlink"
          /\ \A c \in Uis : Recordless(c)' /\ ui'[c].session = k.sess => ~Owns(k.sess)'
       \/ /\ k.step = "state" /\ records'[k.sess] = None
          /\ \E l \in tasks : l.sess = k.sess /\ l.step = "unlink"

TaskStep ==
    /\ \A k \in tasks' : k \in tasks \/ NewTask(k)
    /\ \A k \in tasks : k.step = "unlink" => k \in tasks' \/ records'[k.sess] = None

ListStep ==
    /\ \A u \in Sessions : Listed(u)' => Listed(u) \/ records[u] # None
    /\ \A u \in Sessions : Listed(u) => \/ Listed(u)' \/ records'[u] = None
                                       \/ \E k \in tasks' : k.sess = u /\ k.step = "unlink"
    /\ drain.pc = "emptied" => \/ drain'.pc = "emptied"
                               \/ \A u \in Sessions : records'[u] # None => Listed(u)'
    /\ MonitorLists'

(* A session loses its scope only without a record or to somebody who      *)
(* takes the record away, and the gate forgets it only after that.         *)
OwnerStep(u) ==
    /\ \A sc \in Scopes : OwnsIn(u, sc) => OwnsIn(u, sc)' \/ Taker(u)' \/ records'[u] = None
    /\ Owns(u)' => Owns(u)
    /\ \/ gateSessions'[u] = gateSessions[u]
       \/ /\ gateSessions'[u] = None
          /\ \/ ~Owns(u)'
             \/ records'[u] = None /\ \A c \in Uis : Recordless(c)' => ui'[c].session # u

(* A launch that is pending keeps its scope and its UI.                    *)
KeptLaunch(t) == Live(t)' =>
    Live(t) /\ pending'[t].ui = pending[t].ui /\ pending'[t].scope = pending[t].scope

LEMMA KeptRecords ==
    ASSUME BookInv, CaptureInv, RecordInv, LaunchBookAgrees', TypeOK', minted' = minted,
           \A t \in Tokens : pendingSessions'[t] \in {pendingSessions[t], None},
           \A t \in Tokens : KeptLaunch(t),
           \A c \in Uis : UiStep(c), \A u \in Sessions : RecordStep(u), TaskStep, ListStep,
           \A u \in Sessions : OwnerStep(u), OwnsOnce'
    PROVE  RecordInv'
<1> USE DEF RecordInv
<1>0. /\ \A t \in Tokens : pendingSessions'[t] # None => pendingSessions'[t] = pendingSessions[t]
      /\ \A t \in Tokens : Live(t)' => pendingSessions'[t] \in Sessions
    BY GateAssumption DEF LaunchBookAgrees, TypeOK
<1>u. \A c \in Uis : Attaching(c) => ui[c].session \in Sessions /\ ui[c].scope \in Scopes
    BY UiFacts DEF BookInv, Attaching
<1>r. \A c \in Uis : Recordless(c) => Attaching(c)
    BY DEF Recordless, Attaching
<1>s. \A u \in Sessions : records[u] # None => records[u].scope \in Scopes
    BY TableTypes DEF Record
<1>k. \A k \in tasks : k.sess \in Sessions
    BY TableTypes DEF Task
<1>o. \A c, d \in Uis : Attaching(c) /\ Attaching(d) /\ ui[c].session = ui[d].session => c = d
    BY DEF CaptureInv, OneAttaching
<1>i. ASSUME NEW u \in Sessions, NEW c \in Uis, ui[c].session = u, ui[c].pc = "insert",
             ui'[c].pc = "finalize"
      PROVE  Recordless(c) /\ ~Recordless(c)' /\ Attaching(c) /\ Attaching(c)' /\ ui'[c].session = u
    BY <1>i DEF Recordless, Attaching, UiStep
<1>1. FreshScope'
    <2> SUFFICES ASSUME NEW u \in Sessions, u \notin minted PROVE Unlisted(u)'
        BY DEF FreshScope
    <2>1. Unlisted(u) /\ records[u] = None /\ \A t \in Tokens : pendingSessions[t] # u
        BY DEF FreshScope, CaptureInv, Fresh, Unmet
    <2>2. ~Listed(u)' /\ gateSessions'[u] = None
        BY <2>1 DEF ListStep, OwnerStep, Unlisted
    <2>3. ~Owns(u)'
        BY <2>1 DEF OwnerStep, Unlisted, Owns
    <2>4. \A k \in tasks' : k.sess # u
        BY <2>1 DEF TaskStep, NewTask, Met, Unlisted
    <2> QED
        BY <2>2, <2>3, <2>4 DEF Unlisted, Owns
<1>2. UntouchedScope'
    <2>1. ASSUME NEW t \in Tokens, Live(t)', pending'[t].ui = None, NEW u \in Sessions,
                 u = pendingSessions'[t]
          PROVE  Unlisted(u)'
        <3>1. u = pendingSessions[t] /\ Live(t) /\ pending[t].ui = None
            BY <1>0, <2>1, GateAssumption DEF KeptLaunch
        <3>2. Unlisted(u) /\ Unmet(u)
            BY <3>1 DEF UntouchedScope, CaptureInv, Untouched
        <3>3. ~Listed(u)' /\ gateSessions'[u] = None
            BY <3>2 DEF ListStep, OwnerStep, Unlisted, Unmet
        <3>4. \A sc \in Scopes : scopes'[sc] # u
            BY <2>1, GateAssumption DEF OwnsOnce
        <3>5. \A k \in tasks' : k.sess # u
            BY <2>1, <3>2 DEF TaskStep, NewTask, Met, Unlisted
        <3> QED
            BY <3>3, <3>4, <3>5 DEF Unlisted
    <2> QED
        BY <1>0, <2>1 DEF UntouchedScope
<1>3. Owned'
    <2> SUFFICES ASSUME NEW u \in Sessions, records'[u] # None
                 PROVE  OwnsIn(u, records[u].scope)' \/ Taker(u)'
        BY DEF Owned
    <2>1. CASE records[u] # None /\ records'[u].scope = records[u].scope
        <3>1. CASE OwnsIn(u, records[u].scope)
            <4>1. \A sc \in Scopes : OwnsIn(u, sc) => OwnsIn(u, sc)' \/ Taker(u)'
                BY DEF OwnerStep
            <4>2. ASSUME NEW sc \in Scopes, sc = records[u].scope PROVE OwnsIn(u, sc)' => OwnsIn(u, records[u].scope)'
                BY <2>1, <4>2 DEF OwnsIn
            <4> QED
                BY <1>s, <2>1, <3>1, <4>1, <4>2
        <3>2. ASSUME NEW k \in tasks, k.sess = u, k.step = "unlink" PROVE Taker(u)'
            BY <3>2 DEF TaskStep, Taker
        <3>3. ASSUME NEW c \in Uis, Attaching(c), ui[c].session = u
              PROVE  OwnsIn(u, records[u].scope)' \/ Taker(u)'
            <4>1. CASE Attaching(c)'
                BY <3>3, <4>1 DEF UiStep, Taker
            <4>2. CASE ~Attaching(c)'
                BY <3>3, <4>2 DEF UiStep
            <4> QED
                BY <4>1, <4>2
        <3>4. CASE Listed(u)
            BY <3>4 DEF ListStep, Taker
        <3>5. CASE drain.pc = "emptied"
            BY <3>5 DEF ListStep, Taker
        <3> QED
            BY <2>1, <3>1, <3>2, <3>3, <3>4, <3>5 DEF Owned, Taker
    <2>2. ASSUME NEW c \in Uis, ui[c].session = u, ui[c].pc = "insert", ui'[c].pc = "finalize"
          PROVE  Taker(u)'
        BY <1>i, <2>2 DEF Taker
    <2> QED
        BY <2>1, <2>2 DEF RecordStep
<1>4. NotYet'
    <2> SUFFICES ASSUME NEW c \in Uis, Recordless(c)', NEW u \in Sessions, u = ui[c].session
                 PROVE  records'[u] = None /\ ~Listed(u)'
        BY <1>u, <1>r DEF NotYet, UiStep
    <2>1. Recordless(c) /\ records[u] = None /\ ~Listed(u)
        BY DEF UiStep, NotYet
    <2>2. \A d \in Uis : ui[d].session = u /\ ui[d].pc = "insert" /\ ui'[d].pc = "finalize" => d = c
        BY <1>i, <1>o, <1>r, <2>1
    <2>3. records'[u] = None
        BY <1>i, <2>1, <2>2 DEF RecordStep
    <2> QED
        BY <2>1, <2>3 DEF ListStep
<1>5. Doomed'
    <2>1. ASSUME NEW k \in tasks', NEW c \in Uis, k.step # "finish", Recordless(c)',
                 ui'[c].session = k.sess, NEW u \in Sessions, u = k.sess
          PROVE  ~Owns(u)'
        <3>1. Recordless(c) /\ ui[c].session = u
            BY <2>1 DEF UiStep
        <3>2. \A l \in tasks : l.sess = u /\ l.step # "finish" => ~Owns(u)
            BY <3>1 DEF Doomed
        <3>3. (\E l \in tasks : l.sess = u /\ l.step # "finish") => ~Owns(u)'
            BY <3>2 DEF OwnerStep
        <3>4. k \in tasks \/ NewTask(k)
            BY DEF TaskStep
        <3> QED
            BY <2>1, <3>3, <3>4 DEF NewTask
    <2>2. ASSUME NEW k \in tasks', k.step = "state", NEW u \in Sessions, u = k.sess, records'[u] # None
          PROVE  ~Owns(u)' /\ \E c \in Uis : Attaching(c)' /\ ui'[c].session = u
        <3>1. k \in tasks
            BY <2>2 DEF TaskStep, NewTask
        <3>2. CASE records[u] # None
            <4>1. PICK c \in Uis : Attaching(c) /\ ui[c].session = u
                BY <2>2, <3>1, <3>2 DEF Doomed
            <4>2. ~Owns(u)
                BY <2>2, <3>1, <3>2 DEF Doomed
            <4> QED
                BY <2>2, <4>1, <4>2 DEF UiStep, OwnerStep
        <3>3. ASSUME NEW c \in Uis, ui[c].session = u, ui[c].pc = "insert", ui'[c].pc = "finalize"
              PROVE  ~Owns(u)' /\ Attaching(c)' /\ ui'[c].session = u
            BY <1>i, <2>2, <3>1, <3>3 DEF Doomed, OwnerStep
        <3> QED
            BY <2>2, <3>2, <3>3 DEF RecordStep
    <2>3. \A k \in tasks' : k.sess \in Sessions
        BY <1>k DEF TaskStep, NewTask
    <2> QED
        BY <2>1, <2>2, <2>3 DEF Doomed
<1>6. OneScope'
    <2>1. ASSUME NEW c \in Uis, NEW t \in Tokens, Attaching(c)', pendingSessions'[t] = ui'[c].session
          PROVE  pending'[t].scope = ui'[c].scope
        <3>1. Attaching(c) /\ ui'[c].session = ui[c].session /\ ui'[c].scope = ui[c].scope
            BY <2>1 DEF UiStep
        <3>2. pendingSessions'[t] # None
            BY <1>u, <2>1, <3>1, GateAssumption
        <3>3. pendingSessions[t] = ui[c].session /\ Live(t)'
            BY <1>0, <2>1, <3>1, <3>2 DEF LaunchBookAgrees
        <3> QED
            BY <3>1, <3>3 DEF OneScope, KeptLaunch
    <2>2. ASSUME NEW c \in Uis, Attaching(c)', NEW u \in Sessions, u = ui'[c].session, records'[u] # None
          PROVE  records'[u].scope = ui'[c].scope
        <3>1. Attaching(c) /\ u = ui[c].session /\ ui'[c].scope = ui[c].scope
            BY <2>2 DEF UiStep
        <3>2. CASE records[u] # None /\ records'[u].scope = records[u].scope
            BY <3>1, <3>2 DEF OneScope
        <3>3. ASSUME NEW d \in Uis, ui[d].session = u, ui[d].pc = "insert", ui'[d].pc = "finalize",
                     records'[u].scope = ui[d].scope
              PROVE  records'[u].scope = ui'[c].scope
            BY <1>i, <1>o, <3>1, <3>3
        <3> QED
            BY <2>2, <3>2, <3>3 DEF RecordStep
    <2>3. \A c \in Uis : Attaching(c)' => ui'[c].session \in Sessions
        BY <1>u DEF UiStep
    <2> QED
        BY <2>1, <2>2, <2>3 DEF OneScope
<1>7. Known'
    <2>1. ASSUME NEW u \in Sessions, records'[u] # None, Owns(u)' PROVE gateSessions'[u] # None
        <3>1. Owns(u)
            BY <2>1 DEF OwnerStep
        <3>2. gateSessions[u] # None
            <4>1. CASE records[u] # None
                BY <3>1, <4>1 DEF Known
            <4>2. ASSUME NEW c \in Uis, ui[c].session = u, ui[c].pc = "insert", ui'[c].pc = "finalize"
                  PROVE  gateSessions[u] # None
                BY <1>i, <3>1, <4>2 DEF Known
            <4> QED
                BY <2>1, <4>1, <4>2 DEF RecordStep
        <3> QED
            BY <2>1, <3>2 DEF OwnerStep
    <2>2. ASSUME NEW c \in Uis, Recordless(c)', NEW u \in Sessions, u = ui'[c].session, Owns(u)'
          PROVE  gateSessions'[u] # None
        <3>1. Recordless(c) /\ u = ui[c].session /\ Owns(u)
            BY <2>2 DEF UiStep, OwnerStep
        <3> QED
            BY <2>2, <3>1 DEF Known, OwnerStep
    <2>3. \A c \in Uis : Recordless(c)' => ui'[c].session \in Sessions
        BY <1>u, <1>r DEF UiStep
    <2> QED
        BY <2>1, <2>2, <2>3 DEF Known
<1>8. UiDone'
    <2> SUFFICES ASSUME NEW c \in Uis, NEW d \in Uis, ui'[c].pc \in Done, Attaching(d)',
                        ui'[c].session = ui'[d].session
                 PROVE  FALSE
        BY DEF UiDone, Done
    <2>1. Attaching(d) /\ ui[c].session = ui[d].session /\ ~Attaching(c)'
        BY DEF UiStep, Attaching, Done
    <2>2. Attaching(c)
        BY <2>1 DEF UiStep, UiDone, Done
    <2> QED
        BY <1>o, <2>1, <2>2
<1> QED
    BY <1>1, <1>2, <1>3, <1>4, <1>5, <1>6, <1>7, <1>8 DEF ListStep

LEMMA QuietRecords ==
    ASSUME BookInv, CaptureInv, RecordInv, LaunchBookAgrees', TypeOK', minted' = minted,
           \A t \in Tokens : pendingSessions'[t] \in {pendingSessions[t], None},
           \A t \in Tokens : SameLaunch(t),
           \A c \in Uis : UiStep(c), \A u \in Sessions : RecordStep(u), TaskStep, ListStep,
           \A u \in Sessions : OwnerStep(u), OwnsOnce'
    PROVE  RecordInv'
<1>1. \A t \in Tokens : KeptLaunch(t)
    BY DEF SameLaunch, KeptLaunch
<1> QED
    BY <1>1, KeptRecords

-----------------------------------------------------------------------------
(* Owners.                                                                  *)

LEMMA StillOwners ==
    ASSUME RecordInv, scopes' = scopes, gateSessions' = gateSessions, pendingSessions' = pendingSessions
    PROVE  (\A u \in Sessions : OwnerStep(u)) /\ OwnsOnce'
BY DEF RecordInv, OwnsOnce, OwnerStep, OwnsIn, Owns

(* The session of a removed launch owns nothing.                           *)
LEMMA RemovedSession ==
    ASSUME BookInv, CaptureInv, RecordInv, LaunchBookAgrees', minted' = minted,
           NEW T \in SUBSET Tokens, GRemove(T),
           \A t \in Tokens : pendingSessions'[t] = IF t \in T THEN None ELSE pendingSessions[t],
           NEW t \in T, NEW u \in Sessions, u = pendingSessions[t]
    PROVE  Met(u)' /\ ~Owns(u)'
<1>1. \A x \in Tokens : pendingSessions'[x] # u
    BY GateAssumption DEF CaptureInv, OneToken
<1>2. \A sc \in Scopes : scopes'[sc] # u
    BY GateAssumption DEF GRemove, RecordInv, OwnsOnce
<1>3. u \in minted
    BY DEF CaptureInv, Fresh
<1> QED
    BY <1>1, <1>2, <1>3 DEF Met, Owns

LEMMA RemoveOwners ==
    ASSUME BookInv, CaptureInv, RecordInv, LaunchBookAgrees', minted' = minted,
           NEW T \in SUBSET Tokens, GRemove(T), \A t \in T : Live(t),
           \A t \in Tokens : pendingSessions'[t] = IF t \in T THEN None ELSE pendingSessions[t],
           \A t \in T, u \in Sessions : pendingSessions[t] = u => Taker(u)' \/ records'[u] = None
    PROVE  (\A u \in Sessions : OwnerStep(u)) /\ OwnsOnce'
<1>0. \A sc \in Scopes : scopes'[sc] = IF scopes[sc] \in T THEN None ELSE scopes[sc]
    BY DEF GRemove
<1>1. OwnsOnce'
    BY <1>0, GateAssumption DEF RecordInv, OwnsOnce
<1>2. ASSUME NEW u \in Sessions PROVE OwnerStep(u)
    <2>1. ASSUME NEW sc \in Scopes, OwnsIn(u, sc)
          PROVE  OwnsIn(u, sc)' \/ Taker(u)' \/ records'[u] = None
        BY <1>0, <2>1, GateAssumption DEF OwnsIn
    <2>2. Owns(u)' => Owns(u)
        BY <1>0, GateAssumption DEF Owns
    <2>3. \/ gateSessions'[u] = gateSessions[u]
          \/ gateSessions'[u] = None /\ ~Owns(u)'
        <3>1. CASE \E t \in T : pending[t].ui = u
            <4>1. PICK t \in T : pending[t].ui = u
                BY <3>1
            <4>2. pendingSessions[t] = u
                BY <4>1, PendingSession, GateAssumption
            <4> QED
                BY <4>1, <4>2, RemovedSession DEF GRemove
        <3>2. CASE ~\E t \in T : pending[t].ui = u
            BY <3>2 DEF GRemove
        <3> QED
            BY <3>1, <3>2
    <2> QED
        BY <2>1, <2>2, <2>3 DEF OwnerStep
<1> QED
    BY <1>1, <1>2

LEMMA PromoteOwners ==
    ASSUME BookInv, CaptureInv, RecordInv, NEW t \in Tokens, Live(t), Promote(t),
           pendingSessions' = [pendingSessions EXCEPT ![t] = None],
           pending[t].ui = pendingSessions[t]
    PROVE  (\A u \in Sessions : OwnerStep(u)) /\ OwnsOnce'
<1>0. /\ pendingSessions[t] \in Sessions /\ pending[t].scope \in Scopes
      /\ scopes[pending[t].scope] = t
      /\ \A x \in Tokens : pendingSessions[x] \in Sessions \cup {None}
    BY PendingSession, TableTypes DEF BookInv, PendingOwnsScope, Launch
<1>1. \A sc \in Scopes : scopes'[sc] = IF sc = pending[t].scope THEN pendingSessions[t] ELSE scopes[sc]
    BY <1>0 DEF Promote, BookInv, TypeOK, GateTypeOK
<1>2. \A x \in Tokens : pendingSessions'[x] = IF x = t THEN None ELSE pendingSessions[x]
    BY TableTypes
<1>3. \A x \in Tokens : pendingSessions[x] = pendingSessions[t] => x = t
    BY <1>0, GateAssumption DEF CaptureInv, OneToken
<1>4. \A sc \in Scopes : scopes[sc] = t => sc = pending[t].scope
    BY DEF BookInv, PendingOwnsScope
<1>5. OwnsOnce'
    <2>1. \A a, b \in Scopes : scopes[a] = scopes[b] /\ scopes[a] \in Sessions => a = b
        BY DEF RecordInv, OwnsOnce
    <2>2. \A sc \in Scopes, x \in Tokens : pendingSessions[x] # None => pendingSessions[x] # scopes[sc]
        BY DEF RecordInv, OwnsOnce
    <2>3. \A a, b \in Scopes : scopes'[a] = scopes'[b] /\ scopes'[a] \in Sessions => a = b
        BY <1>0, <1>1, <2>1, <2>2, GateAssumption
    <2>4. \A sc \in Scopes, x \in Tokens : pendingSessions'[x] # None => pendingSessions'[x] # scopes'[sc]
        BY <1>1, <1>2, <1>3, <2>2
    <2> QED
        BY <2>3, <2>4 DEF OwnsOnce
<1>6. ASSUME NEW u \in Sessions PROVE OwnerStep(u)
    <2>1. \A sc \in Scopes : OwnsIn(u, sc) => OwnsIn(u, sc)'
        BY <1>0, <1>1, <1>2, <1>4, GateAssumption DEF OwnsIn
    <2>2. Owns(u)' => Owns(u)
        BY <1>0, <1>1, <1>2, GateAssumption DEF Owns
    <2>3. gateSessions' = gateSessions
        BY DEF Promote
    <2> QED
        BY <2>1, <2>2, <2>3 DEF OwnerStep
<1> QED
    BY <1>5, <1>6

LEMMA DetachOwners ==
    ASSUME BookInv, RecordInv, NEW v \in Sessions, GDetach(v), pendingSessions' = pendingSessions,
           Owns(v) => records'[v] = None /\ \A c \in Uis : Recordless(c)' => ui'[c].session # v
    PROVE  (\A u \in Sessions : OwnerStep(u)) /\ OwnsOnce'
<1>1. \A sc \in Scopes : scopes'[sc] = scopes[sc] \/ (scopes'[sc] = None /\ scopes[sc] = v)
    BY DEF GDetach
<1>2. \A u \in Sessions : gateSessions'[u] = IF u = v THEN None ELSE gateSessions[u]
    BY DEF GDetach, BookInv, TypeOK, GateTypeOK
<1>3. OwnsOnce'
    BY <1>1, GateAssumption DEF RecordInv, OwnsOnce
<1>4. ASSUME NEW u \in Sessions PROVE OwnerStep(u)
    <2>1. Owns(u)' => Owns(u)
        BY <1>1, GateAssumption DEF Owns
    <2>2. \A sc \in Scopes : OwnsIn(u, sc) => Owns(u)
        BY DEF OwnsIn, Owns
    <2>3. CASE u = v
        BY <1>2, <2>1, <2>2, <2>3 DEF OwnerStep
    <2>4. CASE u # v
        <3>1. \A sc \in Scopes : OwnsIn(u, sc) => OwnsIn(u, sc)'
            BY <1>1, <2>4, GateAssumption DEF OwnsIn
        <3> QED
            BY <1>2, <2>1, <2>4, <3>1 DEF OwnerStep
    <2> QED
        BY <2>3, <2>4
<1> QED
    BY <1>3, <1>4

LEMMA ReleaseOwners ==
    ASSUME BookInv, RecordInv, NEW z \in Scopes, GReleaseDangling(z), pendingSessions' = pendingSessions,
           records' = records
    PROVE  (\A u \in Sessions : OwnerStep(u)) /\ OwnsOnce'
<1>1. /\ gateSessions' = gateSessions
      /\ \A sc \in Scopes : scopes'[sc] = IF sc = z /\ Dangling(z) THEN None ELSE scopes[sc]
    BY DEF GReleaseDangling, BookInv, TypeOK, GateTypeOK
<1>2. Dangling(z) => scopes[z] \in Sessions /\ records[scopes[z]] = None
    BY DEF Dangling, BookInv, PendingOwnsScope, RecordInv, Known, Owns
<1>3. OwnsOnce'
    BY <1>1, GateAssumption DEF RecordInv, OwnsOnce
<1>4. ASSUME NEW u \in Sessions PROVE OwnerStep(u)
    <2>1. Owns(u)' => Owns(u)
        BY <1>1, GateAssumption DEF Owns
    <2>2. ASSUME NEW sc \in Scopes, OwnsIn(u, sc) PROVE OwnsIn(u, sc)' \/ records'[u] = None
        <3>1. CASE sc = z /\ Dangling(z)
            BY <1>2, <2>2, <3>1, GateAssumption DEF OwnsIn
        <3>2. CASE ~(sc = z /\ Dangling(z))
            BY <1>1, <2>2, <3>2 DEF OwnsIn
        <3> QED
            BY <3>1, <3>2
    <2> QED
        BY <1>1, <2>1, <2>2 DEF OwnerStep
<1> QED
    BY <1>3, <1>4

LEMMA StillLists == ASSUME RecordInv, monitor' = monitor, drain' = drain PROVE ListStep
BY DEF RecordInv, MonitorLists, ListStep, Listed

-----------------------------------------------------------------------------
(* The steps.                                                               *)

LEMMA StillTasks == ASSUME tasks' = tasks PROVE TaskStep
BY DEF TaskStep

LEMMA StillUis == ASSUME ui' = ui PROVE \A c \in Uis : UiStep(c)
BY DEF UiStep, Attaching, Recordless

LEMMA StillRecords == ASSUME records' = records PROVE \A u \in Sessions : RecordStep(u)
BY DEF RecordStep

(* An abort leaves the session to a detach call.                           *)
LEMMA AbortRecords ==
    ASSUME BookInv, CaptureInv, RecordInv, LaunchBookAgrees', NEW t \in Tokens, NEW who, AbortLaunch(t, who)
    PROVE  /\ TaskStep /\ (\A u \in Sessions : OwnerStep(u)) /\ OwnsOnce' /\ minted' = minted
           /\ \A x \in Tokens : pendingSessions'[x] \in {pendingSessions[x], None}
           /\ \A x \in Tokens : SameLaunch(x)
<1> DEFINE k == Teardown(who, pendingSessions[t], LeasedPane(t))
<1>0. k.sess = pendingSessions[t] /\ k.step = "unlink"
    BY DEF Teardown
<1>1. /\ GRemove({t}) /\ Live(t) /\ minted' = minted /\ tasks' = tasks \cup {k}
    BY DEF AbortLaunch, GAbort
<1>2. pendingSessions[t] \in Sessions
    BY <1>1, PendingSession
<1>3. \A x \in Tokens : pendingSessions'[x] = IF x \in {t} THEN None ELSE pendingSessions[x]
    BY TableTypes DEF AbortLaunch
<1> HIDE DEF k
<1>4. \A u \in Sessions : pendingSessions[t] = u => Met(u)' /\ ~Owns(u)'
    BY <1>1, <1>3, RemovedSession
<1>5. \A u \in Sessions : pendingSessions[t] = u => Taker(u)'
    BY <1>0, <1>1 DEF Taker
<1>6. ASSUME NEW l, l = k PROVE NewTask(l)
    <2>1. Met(l.sess)' /\ ~Owns(l.sess)'
        BY <1>0, <1>2, <1>4, <1>6
    <2> QED
        BY <1>0, <1>2, <1>6, <2>1 DEF NewTask
<1>7. TaskStep
    BY <1>1, <1>6 DEF TaskStep
<1>8. (\A u \in Sessions : OwnerStep(u)) /\ OwnsOnce'
    BY <1>1, <1>3, <1>5, RemoveOwners
<1> QED
    BY <1>1, <1>3, <1>7, <1>8, RemoveSame

LEMMA LauncherRecords ==
    ASSUME BookInv, CaptureInv, RecordInv, LaunchBookAgrees', TypeOK', NEW t \in Tokens,
           \/ LaunchPrepared(t) \/ LauncherFails(t) \/ RegisterHost(t) \/ RegisterBind(t)
           \/ Abort(t) \/ LauncherDisconnect(t) \/ \E p \in Panes : Register(t, p) \/ Commit(t, p)
    PROVE  RecordInv'
<1> USE DEF book, sessionVars, daemons
<1>1. records' = records /\ ui' = ui /\ monitor' = monitor /\ drain' = drain
    BY DEF LaunchPrepared, LauncherFails, RegisterHost, RegisterBind, Abort, LauncherDisconnect,
           Register, Commit
<1>2. (\A c \in Uis : UiStep(c)) /\ (\A u \in Sessions : RecordStep(u)) /\ ListStep
    BY <1>1, StillUis, StillRecords, StillLists
<1>3. CASE Abort(t) \/ LauncherDisconnect(t)
    <2>1. CASE AbortLaunch(t, t)
        BY <1>2, <2>1, AbortRecords, QuietRecords
    <2>2. CASE UNCHANGED <<gateVars, book, tasks>>
        BY <1>2, <2>2, StillOwners, StillTasks, StillSame, QuietRecords DEF gateVars
    <2> QED
        BY <1>3, <2>1, <2>2 DEF Abort, LauncherDisconnect
<1>4. ASSUME \/ LaunchPrepared(t) \/ LauncherFails(t) \/ RegisterHost(t) \/ RegisterBind(t)
             \/ \E p \in Panes : Register(t, p)
      PROVE  RecordInv'
    <2>1. /\ tasks' = tasks /\ minted' = minted /\ pendingSessions' = pendingSessions
          /\ scopes' = scopes /\ gateSessions' = gateSessions
        BY <1>4 DEF LaunchPrepared, LauncherFails, RegisterHost, RegisterBind, Register, gateVars,
               GRegister, GBindLease
    <2>2. \A x \in Tokens : SameLaunch(x)
        <3>1. CASE RegisterBind(t)
            BY <3>1, StillSame, BindSame DEF RegisterBind, gateVars
        <3>2. CASE \E p \in Panes : Register(t, p)
            BY <3>2, RegisterSame DEF Register
        <3> QED
            BY <1>4, <3>1, <3>2, StillSame DEF LaunchPrepared, LauncherFails, RegisterHost, gateVars
    <2> QED
        BY <1>2, <2>1, <2>2, StillOwners, StillTasks, QuietRecords
<1>5. ASSUME NEW p \in Panes, Commit(t, p) PROVE RecordInv'
    <2>1. tasks' = tasks /\ minted' = minted
        BY <1>5 DEF Commit
    <2>2. \A x \in Tokens : SameLaunch(x)
        BY <1>5, CommitSame DEF Commit
    <2>3. CASE Promoted(t)
        <3>1. Live(t) /\ Promote(t) /\ pending[t].ui = pendingSessions[t]
            BY <1>5, <2>3, PromotedByCommit DEF Commit
        <3>2. pendingSessions' = [pendingSessions EXCEPT ![t] = None]
            BY <1>5, <2>3 DEF Commit, BookPromotion
        <3>3. \A x \in Tokens : pendingSessions'[x] \in {pendingSessions[x], None}
            BY <3>2, TableTypes
        <3> QED
            BY <1>2, <2>1, <2>2, <3>1, <3>2, <3>3, PromoteOwners, StillTasks, QuietRecords
    <2>4. CASE ~Promoted(t)
        <3>1. pendingSessions' = pendingSessions
            BY <1>5, <2>4 DEF Commit, BookPromotion
        <3>2. scopes' = scopes /\ gateSessions' = gateSessions
            BY <1>5, <2>4 DEF Commit, GCommit, Promote, Promoted, BookInv, TypeOK, GateTypeOK
        <3> QED
            BY <1>2, <2>1, <2>2, <3>1, <3>2, StillOwners, StillTasks, QuietRecords
    <2> QED
        BY <2>3, <2>4
<1> QED
    BY <1>3, <1>4, <1>5

LEMMA MetSession == ASSUME CaptureInv, NEW u \in Sessions, ~Unmet(u) PROVE Met(u)
BY DEF CaptureInv, Fresh, Untouched, Met

LEMMA SessionRecords ==
    ASSUME BookInv, CaptureInv, RecordInv, LaunchBookAgrees', TypeOK', SessionNext
    PROVE  RecordInv'
<1> USE DEF book, sessionVars, handlers, daemons
<1>1. /\ minted' = minted /\ pendingSessions' = pendingSessions /\ pending' = pending
      /\ scopes' = scopes /\ gateSessions' = gateSessions
    BY SessionGate DEF gateVars, SessionNext, CaptureLookup, CaptureHost, CaptureStore,
       AttachedResponse, AnnounceReady, TailFailed, SlowConsumer, CaptureLost, UnhealthyDetach,
       DrainDetach, CaptureReleased
<1>2. \A c \in Uis : UiStep(c)
    <2>1. ASSUME NEW c \in Uis, ui'[c] = ui[c] PROVE UiStep(c)
        BY <2>1 DEF UiStep, Attaching, Recordless
    <2>2. ASSUME NEW c \in Uis, ui[c].pc = "capture", ui'[c].pc \in {"confirm", "idle"},
                 ui'[c].session = ui[c].session, ui'[c].scope = ui[c].scope
          PROVE  UiStep(c)
        BY <2>2 DEF UiStep, Attaching, Recordless, Done
    <2> QED
        BY <2>1, <2>2, SessionUi DEF BookInv
<1>3. \A u \in Sessions : RecordStep(u)
    <2>1. ASSUME NEW v \in Sessions, CaptureStore(v) PROVE \A u \in Sessions : RecordStep(u)
        <3>1. CASE records[v] = None
            BY <2>1, <3>1, StillRecords DEF CaptureStore
        <3>2. CASE records[v] # None
            <4>1. records[v] \in Record /\ records' = [records EXCEPT ![v] = [records[v] EXCEPT !.captured = TRUE]]
                BY <2>1, <3>2, TableTypes DEF CaptureStore
            <4>2. [records[v] EXCEPT !.captured = TRUE].scope = records[v].scope
                BY <4>1 DEF Record
            <4> QED
                BY <3>2, <4>1, <4>2, TableTypes DEF RecordStep
        <3> QED
            BY <3>1, <3>2
    <2> QED
        BY <2>1, StillRecords DEF SessionNext, CaptureLookup, CaptureHost, AttachedResponse,
           AnnounceReady, TailFailed, SlowConsumer, CaptureLost, UnhealthyDetach,
           DrainDetach, CaptureReleased
<1>m. \A u \in Sessions : Met(u) => Met(u)'
    BY <1>1 DEF Met, Live
(* Whoever is detached here has a record, a capture or a place in a list.   *)
<1>4. ASSUME NEW u \in Sessions, tail[u] # "none" \/ records[u] # None \/ Listed(u)
      PROVE  Met(u)' /\ \A c \in Uis : Recordless(c)' => ui'[c].session # u
    <2>1. Met(u)
        <3>1. CASE tail[u] # "none" \/ records[u] # None
            BY <3>1, MetSession DEF Unmet
        <3>2. CASE Listed(u)
            BY <3>2 DEF RecordInv, FreshScope, UntouchedScope, Unlisted, Met
        <3> QED
            BY <1>4, <3>1, <3>2
    <2>2. \A c \in Uis : Recordless(c) => ui[c].session # u
        BY <1>4 DEF Recordless, Attaching, RecordInv, NotYet, CaptureInv, EarlyClean, Early
    <2> QED
        BY <1>m, <1>2, <2>1, <2>2 DEF UiStep
<1>5. ASSUME NEW u \in Sessions, tail[u] # "none" \/ records[u] # None \/ Listed(u),
             NEW who, NEW reg
      PROVE  NewTask(Teardown(who, u, reg)) /\ Teardown(who, u, reg).sess = u
               /\ Teardown(who, u, reg).step = "unlink"
    <2> DEFINE k == Teardown(who, u, reg)
    <2>1. k.sess = u /\ k.step = "unlink"
        BY DEF Teardown
    <2> HIDE DEF k
    <2>2. NewTask(k)
        <3>1. Met(u)' /\ \A c \in Uis : Recordless(c)' => ui'[c].session # u
            BY <1>4, <1>5
        <3>2. Met(k.sess)'
            BY <2>1, <3>1
        <3> QED
            BY <2>1, <3>1, <3>2 DEF NewTask
    <2> QED
        BY <2>1, <2>2 DEF k
<1>6. TaskStep
    <2>1. ASSUME NEW u \in Sessions, TailFails(u), tail[u] # "none" PROVE TaskStep
        BY <1>5, <2>1 DEF TailFails, TaskStep
    <2>2. ASSUME NEW u \in Sessions,
                 \/ CaptureLookup(u) \/ CaptureHost(u) \/ CaptureStore(u) \/ AttachedResponse(u)
          PROVE  TaskStep
        <3>1. tail[u] # "none" /\ (TailFails(u) \/ tasks' = tasks)
            BY <2>2 DEF CaptureLookup, CaptureHost, CaptureStore, AttachedResponse
        <3> QED
            BY <2>1, <3>1, StillTasks
    <2>3. ASSUME NEW u \in Sessions,
                 \/ SlowConsumer(u) \/ CaptureLost(u) \/ UnhealthyDetach(u) \/ DrainDetach(u)
          PROVE  TaskStep
        <3>1. records[u] # None \/ Listed(u)
            BY <2>3 DEF SlowConsumer, CaptureLost, UnhealthyDetach, DrainDetach, Listed
        <3>2. \E who : tasks' = tasks \cup {Teardown(who, u, None)}
            BY <2>3 DEF SlowConsumer, CaptureLost, UnhealthyDetach, DrainDetach
        <3> QED
            BY <1>5, <3>1, <3>2 DEF TaskStep
    <2> QED
        BY <2>2, <2>3, StillTasks DEF SessionNext, AnnounceReady, TailFailed, CaptureReleased
<1>7. ListStep
    <2>1. ASSUME NEW u \in Sessions, UnhealthyDetach(u) PROVE ListStep
        <3>1. /\ drain' = drain /\ monitor'.left = monitor.left \ {u} /\ monitor'.pc = "sessions"
              /\ u \in monitor.left /\ tasks' = tasks \cup {Teardown("monitor", u, None)}
            BY <2>1 DEF UnhealthyDetach, BookInv, TypeOK
        <3>t. Teardown("monitor", u, None).sess = u /\ Teardown("monitor", u, None).step = "unlink"
            BY DEF Teardown
        <3>2. \E k \in tasks' : k.sess = u /\ k.step = "unlink"
            BY <3>1, <3>t
        <3> QED
            BY <3>1, <3>2 DEF ListStep, Listed, MonitorLists
    <2>2. ASSUME NEW u \in Sessions, DrainDetach(u) PROVE ListStep
        <3>1. /\ monitor' = monitor /\ drain'.left = drain.left \ {u} /\ drain.pc = "sessions"
              /\ tasks' = tasks \cup {Teardown("drain", u, None)}
            BY <2>2 DEF DrainDetach, BookInv, TypeOK
        <3>t. Teardown("drain", u, None).sess = u /\ Teardown("drain", u, None).step = "unlink"
            BY DEF Teardown
        <3>2. \E k \in tasks' : k.sess = u /\ k.step = "unlink"
            BY <3>1, <3>t
        <3> QED
            BY <3>1, <3>2 DEF ListStep, Listed, MonitorLists, RecordInv
    <2>3. ASSUME NEW u \in Sessions, CaptureLost(u) PROVE ListStep
        <3>1. drain' = drain /\ monitor'.left = monitor.left /\ monitor.pc = "idle" /\ monitor'.pc = "lost"
            BY <2>3 DEF CaptureLost, BookInv, TypeOK
        <3> QED
            BY <3>1 DEF ListStep, Listed, MonitorLists, RecordInv
    <2> QED
        BY <2>1, <2>2, <2>3, StillLists DEF SessionNext, CaptureLookup, CaptureHost, CaptureStore,
           AttachedResponse, AnnounceReady, TailFailed, SlowConsumer, CaptureReleased
<1> QED
    BY <1>1, <1>2, <1>3, <1>6, <1>7, StillOwners, StillSame, QuietRecords

(* The session of a detach call has been met.                              *)
LEMMA MetTask == ASSUME BookInv, RecordInv, NEW k \in tasks PROVE k.sess \in Sessions /\ Met(k.sess)
<1>1. k.sess \in Sessions
    BY TableTypes DEF Task
<1> QED
    BY <1>1 DEF RecordInv, FreshScope, UntouchedScope, Unlisted, Met

LEMMA TaskFields ==
    ASSUME NEW k \in Task
    PROVE  /\ \A h, p : /\ [k EXCEPT !.step = "state", !.had = h, !.captured = p].sess = k.sess
                       /\ [k EXCEPT !.step = "state", !.had = h, !.captured = p].step = "state"
           /\ [k EXCEPT !.step = "finish"].sess = k.sess
           /\ [k EXCEPT !.step = "finish"].step = "finish"
BY SMT DEF Task

LEMMA TaskRecords ==
    ASSUME BookInv, CaptureInv, RecordInv, LaunchBookAgrees', TypeOK', TaskNext
    PROVE  RecordInv'
<1> USE DEF book, sessionVars, handlers, daemons
<1>1. PICK k \in tasks : DetachUnlink(k) \/ DetachState(k) \/ DetachFinish(k)
    BY DEF TaskNext
<1>2. /\ minted' = minted /\ pendingSessions' = pendingSessions /\ pending' = pending
      /\ ui' = ui /\ monitor' = monitor /\ drain' = drain
    BY <1>1 DEF DetachUnlink, DetachState, DetachFinish, GDetach, gateVars
<1>3. (\A c \in Uis : UiStep(c)) /\ ListStep
    BY <1>2, StillUis, StillLists
<1>4. k \in Task /\ k.sess \in Sessions
    BY TableTypes DEF Task
<1>5. ASSUME NEW u \in Sessions, u = k.sess PROVE Met(u)'
    <2>1. Met(u)
        BY <1>5, MetTask
    <2> QED
        BY <1>2, <2>1 DEF Met, Live
<1>6. ASSUME DetachUnlink(k) PROVE RecordInv'
    <2>1. scopes' = scopes /\ gateSessions' = gateSessions /\ k.step = "unlink"
        BY <1>6 DEF DetachUnlink, gateVars
    <2>2. \A v \in Sessions : records'[v] = IF v = k.sess THEN None ELSE records[v]
        BY <1>6, TableTypes DEF DetachUnlink
    <2>3. \A v \in Sessions : RecordStep(v)
        BY <2>2 DEF RecordStep
    <2>4. PICK h, p : tasks' = (tasks \ {k}) \cup {[k EXCEPT !.step = "state", !.had = h, !.captured = p]}
        BY <1>6 DEF DetachUnlink
    <2>5. PICK l : tasks' = (tasks \ {k}) \cup {l} /\ l.sess = k.sess /\ l.step = "state"
        <3> DEFINE m == [k EXCEPT !.step = "state", !.had = h, !.captured = p]
        <3>1. m.sess = k.sess /\ m.step = "state"
            BY <1>4, TaskFields
        <3>2. tasks' = (tasks \ {k}) \cup {m}
            BY <2>4
        <3> HIDE DEF m
        <3> QED
            BY <3>1, <3>2
    <2>6. Met(l.sess)' /\ records'[l.sess] = None
        BY <1>4, <1>5, <2>2, <2>5
    <2>7. NewTask(l)
        BY <1>4, <2>1, <2>5, <2>6 DEF NewTask
    <2>8. TaskStep
        BY <1>4, <2>2, <2>5, <2>7 DEF TaskStep
    <2> QED
        BY <1>2, <1>3, <2>1, <2>3, <2>8, StillOwners, StillSame, QuietRecords
<1>7. ASSUME DetachState(k) PROVE RecordInv'
    <2>1. GDetach(k.sess) /\ k.step = "state" /\ records' = records
             /\ tasks' = (tasks \ {k}) \cup {[k EXCEPT !.step = "finish"]}
        BY <1>7 DEF DetachState
    <2>2. PICK l : tasks' = (tasks \ {k}) \cup {l} /\ l.sess = k.sess /\ l.step = "finish"
        BY <1>4, <2>1, TaskFields
    <2>3. Met(l.sess)'
        BY <1>4, <1>5, <2>2
    <2>4. TaskStep
        BY <1>4, <2>1, <2>2, <2>3 DEF TaskStep, NewTask
    <2>5. Owns(k.sess) => records[k.sess] = None /\ \A c \in Uis : Recordless(c) => ui[c].session # k.sess
        BY <2>1 DEF RecordInv, Doomed
    <2>6. ASSUME NEW u \in Sessions, u = k.sess PROVE (\A v \in Sessions : OwnerStep(v)) /\ OwnsOnce'
        <3>1. Owns(u) => records'[u] = None /\ \A c \in Uis : Recordless(c)' => ui'[c].session # u
            BY <1>2, <2>1, <2>5, <2>6 DEF Recordless
        <3> QED
            BY <1>2, <2>1, <2>6, <3>1, DetachOwners
    <2> QED
        BY <1>2, <1>3, <1>4, <2>1, <2>4, <2>6, StillRecords, StillSame, QuietRecords
<1>8. ASSUME DetachFinish(k) PROVE RecordInv'
    <2>1. /\ scopes' = scopes /\ gateSessions' = gateSessions /\ records' = records
          /\ k.step = "finish" /\ tasks' = tasks \ {k}
        BY <1>8 DEF DetachFinish, gateVars
    <2>2. TaskStep
        BY <2>1 DEF TaskStep
    <2> QED
        BY <1>2, <1>3, <2>1, <2>2, StillOwners, StillRecords, StillSame, QuietRecords
<1> QED
    BY <1>1, <1>6, <1>7, <1>8

(* The teardowns that follow the removal of a set of launches.             *)
LEMMA RemovedRecords ==
    ASSUME BookInv, CaptureInv, RecordInv, LaunchBookAgrees', TypeOK', minted' = minted,
           NEW T \in SUBSET Tokens, GRemove(T), \A t \in T : Live(t),
           \A t \in Tokens : pendingSessions'[t] = IF t \in T THEN None ELSE pendingSessions[t],
           tasks \subseteq tasks',
           \A k \in tasks' : \/ k \in tasks
                             \/ k.step = "unlink" /\ \E t \in T : k.sess = pendingSessions[t],
           \A t \in T : \E k \in tasks' : k.step = "unlink" /\ k.sess = pendingSessions[t],
           records' = records, ui' = ui, ListStep
    PROVE  RecordInv'
<1>1. \A t \in T : pendingSessions[t] \in Sessions
    BY PendingSession
<1>2. \A t \in T, u \in Sessions : pendingSessions[t] = u => Taker(u)'
    BY DEF Taker
<1>3. ASSUME NEW k \in tasks', k \notin tasks PROVE NewTask(k)
    <2>1. PICK t \in T : k.sess = pendingSessions[t]
        BY <1>3
    <2>2. Met(k.sess)' /\ ~Owns(k.sess)'
        BY <1>1, <2>1, RemovedSession
    <2> QED
        BY <1>1, <1>3, <2>1, <2>2 DEF NewTask
<1>4. TaskStep
    BY <1>3 DEF TaskStep
<1> QED
    BY <1>2, <1>4, RemoveOwners, RemoveSame, StillUis, StillRecords, QuietRecords

LEMMA DrainGateRecords ==
    ASSUME BookInv, CaptureInv, RecordInv, LaunchBookAgrees', TypeOK', DrainGate
    PROVE  RecordInv'
<1> USE DEF handlers, sessionVars
<1>1. /\ records' = records /\ ui' = ui /\ minted' = minted /\ monitor' = monitor
      /\ drain.pc = "sealed" /\ drain'.pc = "emptied" /\ drain'.left = drain.left /\ GDrain
      /\ pendingSessions' = [t \in Tokens |-> None]
    BY DEF DrainGate, BookInv, TypeOK
<1>2. \A t \in Tokens : pendingSessions'[t] = None /\ ~Live(t)'
    BY <1>1 DEF GDrain, Live
<1>3. \A u \in Sessions : ~Owns(u)' /\ gateSessions'[u] = None
    BY <1>1, <1>2, GateAssumption DEF Owns, GDrain
<1>4. \A u \in Sessions : Taker(u)'
    BY <1>1 DEF Taker
<1>5. \A u \in Sessions : OwnerStep(u)
    BY <1>3, <1>4 DEF OwnerStep
<1>6. OwnsOnce'
    BY <1>1, <1>2, GateAssumption DEF OwnsOnce, GDrain
<1>7. ListStep
    BY <1>1 DEF ListStep, Listed, RecordInv, MonitorLists
<1>8. TaskStep
    <2>1. ASSUME NEW k \in tasks', k \notin tasks PROVE NewTask(k)
        <3>1. PICK t \in Tokens : k = CloseOnly("drain", pendingSessions[t], t) /\ pendingSessions[t] # None
            BY <2>1 DEF DrainGate
        <3>2. k.sess = pendingSessions[t] /\ k.step = "finish"
            BY <3>1 DEF CloseOnly, Teardown
        <3>3. k.sess \in Sessions /\ k.sess \in minted
            BY <3>1, <3>2, PendingSession DEF CaptureInv, Fresh
        <3>4. Met(k.sess)'
            BY <1>1, <1>2, <3>3 DEF Met
        <3> QED
            BY <3>2, <3>3, <3>4 DEF NewTask
    <2>2. tasks \subseteq tasks'
        BY DEF DrainGate
    <2> QED
        BY <2>1, <2>2 DEF TaskStep
<1>9. \A t \in Tokens : SameLaunch(t)
    BY <1>2 DEF SameLaunch
<1> QED
    BY <1>1, <1>2, <1>5, <1>6, <1>7, <1>8, <1>9, StillUis, StillRecords, QuietRecords

LEMMA DaemonRecords ==
    ASSUME BookInv, CaptureInv, RecordInv, LaunchBookAgrees', TypeOK', DaemonNext
    PROVE  RecordInv'
<1> USE DEF book, sessionVars, handlers, daemons
<1>1. minted' = minted /\ ui' = ui /\ records' = records
    BY DEF DaemonNext, Expire, PaneClosed, UnhealthyAbort, AbortLaunch, ScopeUnhealthy,
           CaptureLostHandled, UnhealthyTokens, UnhealthyRelease, DrainSeal, DrainFails,
           DrainGate, DrainSnapshot, DrainCleanup, DrainDone, Reopen
<1>2. (\A c \in Uis : UiStep(c)) /\ (\A u \in Sessions : RecordStep(u))
    BY <1>1, StillUis, StillRecords
<1>d. drain = [pc |-> drain.pc, left |-> drain.left, started |-> drain.started]
    BY DEF BookInv, TypeOK
<1>t. \A t \in Tokens : t \notin Sessions
    BY GateAssumption
<1>3. ASSUME NEW T \in SUBSET Tokens, Expire(T) PROVE RecordInv'
    <2>1. /\ GRemove(T) /\ (\A t \in T : Live(t)) /\ monitor' = monitor /\ drain' = drain
          /\ \A t \in Tokens : pendingSessions'[t] = IF t \in T THEN None ELSE pendingSessions[t]
        BY <1>3 DEF Expire, GExpire
    <2> DEFINE K(t) == Teardown("expiry", pendingSessions[t], LeasedPane(t))
    <2>2. \A t \in T : pendingSessions[t] # None
        BY <2>1, PendingSession, GateAssumption
    <2>3. tasks' = tasks \cup {K(t) : t \in T}
        BY <1>3, <2>2 DEF Expire
    <2>4. \A t \in T : K(t).sess = pendingSessions[t] /\ K(t).step = "unlink"
        BY DEF Teardown
    <2> HIDE DEF K
    <2>5. ListStep
        BY <2>1, StillLists
    <2> QED
        BY <1>1, <2>1, <2>3, <2>4, <2>5, RemovedRecords
<1>4. ASSUME NEW t \in Tokens, UnhealthyAbort(t) PROVE RecordInv'
    <2>1. /\ monitor.pc = "tokens" /\ monitor'.pc = "tokens" /\ monitor'.left = monitor.left \ {t}
          /\ drain' = drain
        BY <1>4 DEF UnhealthyAbort, BookInv, TypeOK
    <2>2. ListStep
        BY <1>t, <2>1 DEF ListStep, Listed, RecordInv, MonitorLists
    <2>3. CASE AbortLaunch(t, "monitor")
        BY <1>2, <2>2, <2>3, AbortRecords, QuietRecords
    <2>4. CASE UNCHANGED <<gateVars, book, tasks>>
        BY <1>2, <2>2, <2>4, StillOwners, StillTasks, StillSame, QuietRecords DEF gateVars
    <2> QED
        BY <1>4, <2>3, <2>4 DEF UnhealthyAbort
<1>5. ASSUME UnhealthyRelease PROVE RecordInv'
    <2>1. /\ monitor.pc = "tokens" /\ monitor'.pc = "idle" /\ monitor.left = {} /\ monitor'.left = {}
          /\ drain' = drain /\ GReleaseDangling(monitor.scope) /\ monitor.scope \in Scopes
          /\ pendingSessions' = pendingSessions /\ tasks' = tasks /\ pending' = pending
        BY <1>5 DEF UnhealthyRelease, BookInv, TypeOK, MonitorKnows, GReleaseDangling
    <2>2. ListStep
        BY <2>1 DEF ListStep, Listed, MonitorLists
    <2> QED
        BY <1>1, <1>2, <2>1, <2>2, ReleaseOwners, StillTasks, StillSame, QuietRecords
<1>6. ASSUME \/ \E t \in Tokens : PaneClosed(t)
             \/ \E sc \in Scopes : ScopeUnhealthy(sc)
             \/ CaptureLostHandled \/ UnhealthyTokens
             \/ DrainSeal \/ DrainFails \/ DrainSnapshot \/ DrainCleanup \/ DrainDone \/ Reopen
      PROVE  RecordInv'
    <2>1. /\ pending' = pending /\ scopes' = scopes /\ gateSessions' = gateSessions
          /\ pendingSessions' = pendingSessions /\ tasks' = tasks
        BY <1>6 DEF PaneClosed, ScopeUnhealthy, CaptureLostHandled, UnhealthyTokens,
               DrainSeal, DrainFails, DrainSnapshot, DrainCleanup, DrainDone, Reopen, gateVars
    <2>2. ListStep
        <3>1. CASE \E t \in Tokens : PaneClosed(t)
            BY <3>1, StillLists DEF PaneClosed
        <3>2. ASSUME NEW sc \in Scopes, ScopeUnhealthy(sc) PROVE ListStep
            <4>1. /\ monitor.pc = "idle" /\ monitor'.pc = "sessions" /\ drain' = drain
                  /\ \A u \in monitor'.left : records[u] # None
                BY <3>2 DEF ScopeUnhealthy
            <4> QED
                BY <4>1 DEF ListStep, Listed, RecordInv, MonitorLists
        <3>3. CASE CaptureLostHandled
            <4>1. monitor.pc = "lost" /\ monitor'.left = monitor.left /\ drain' = drain
                BY <3>3 DEF CaptureLostHandled, BookInv, TypeOK
            <4> QED
                BY <4>1 DEF ListStep, Listed, RecordInv, MonitorLists
        <3>4. CASE UnhealthyTokens
            <4>1. /\ monitor.left = {} /\ monitor'.left \subseteq Tokens /\ monitor'.pc = "tokens"
                  /\ drain' = drain
                BY <3>4 DEF UnhealthyTokens, BookInv, TypeOK, PendingIn
            <4> QED
                BY <1>t, <4>1 DEF ListStep, Listed, MonitorLists
        <3>5. CASE DrainSnapshot
            <4>1. /\ monitor' = monitor /\ drain'.left = {u \in Sessions : records[u] # None}
                BY <1>d, <3>5 DEF DrainSnapshot
            <4> QED
                BY <1>1, <4>1 DEF ListStep, Listed, RecordInv, MonitorLists
        <3>6. CASE DrainSeal \/ DrainFails \/ DrainCleanup \/ DrainDone \/ Reopen
            <4>1. monitor' = monitor /\ drain'.left = drain.left /\ drain.pc # "emptied"
                BY <1>d, <3>6 DEF DrainSeal, DrainFails, DrainCleanup, DrainDone, Reopen
            <4> QED
                BY <4>1 DEF ListStep, Listed, RecordInv, MonitorLists
        <3> QED
            BY <1>6, <3>1, <3>2, <3>3, <3>4, <3>5, <3>6
    <2> QED
        BY <1>1, <1>2, <2>1, <2>2, StillOwners, StillTasks, StillSame, QuietRecords
<1> QED
    BY <1>3, <1>4, <1>5, <1>6, DrainGateRecords DEF DaemonNext

(* The steps of a connection that leave gate, tables and detach calls      *)
(* alone.                                                                  *)
LEMMA UiStillRecords ==
    ASSUME BookInv, CaptureInv, RecordInv, LaunchBookAgrees', TypeOK', NEW c \in Uis,
           \/ \E t \in Tokens : WaitPlacement(c, t)
           \/ PlacementAnswer(c) \/ OriginCaptured(c) \/ InsertRecord(c) \/ FinalizeDirect(c)
           \/ Withdraw(c) \/ Waiter(c) \/ Confirm(c)
    PROVE  RecordInv'
<1> USE DEF book, sessionVars, daemons
<1>0. UisKnow /\ ui[c].session \in Sessions \cup {None}
    BY UiFacts DEF BookInv
<1>1. /\ pending' = pending /\ scopes' = scopes /\ gateSessions' = gateSessions
      /\ pendingSessions' = pendingSessions /\ minted' = minted /\ tasks' = tasks
      /\ monitor' = monitor /\ drain' = drain
    BY DEF WaitPlacement, PlacementAnswer, OriginCaptured, InsertRecord, FinalizeDirect, Withdraw,
           Waiter, Confirm, gateVars
<1>2. ASSUME NEW d \in Uis, d # c, \A e \in Uis \ {c} : ui'[e] = ui[e] PROVE UiStep(d)
    BY <1>2 DEF UiStep, Attaching, Recordless
<1>3. ASSUME \A u \in Sessions : RecordStep(u), \A d \in Uis : UiStep(d) PROVE RecordInv'
    BY <1>1, <1>3, StillLists, StillTasks, StillOwners, StillSame, QuietRecords
<1>4. ASSUME NEW t \in Tokens, WaitPlacement(c, t) PROVE RecordInv'
    <2>1. UiStep(c) /\ \A d \in Uis \ {c} : ui'[d] = ui[d]
        BY <1>0, <1>4, WaitPlacementFrame DEF WaitPlacement, UiStep, Attaching, Recordless, Done
    <2> QED
        BY <1>2, <1>3, <1>4, <2>1, StillRecords DEF WaitPlacement
<1>5. ASSUME PlacementAnswer(c) \/ Waiter(c) \/ Confirm(c) PROVE RecordInv'
    <2>1. PICK pc \in {"idle", "closed", "confirm", "attached"} :
              GoUi(c, pc) /\ (pc \in Done => ui[c].pc \in Done)
        BY <1>5 DEF PlacementAnswer, Waiter, Confirm, Done
    <2>2. ui[c].pc \in {"placing", "waiting", "confirm"} /\ records' = records
        BY <1>5 DEF PlacementAnswer, Waiter, Confirm
    <2>3. UiStep(c) /\ \A d \in Uis \ {c} : ui'[d] = ui[d]
        BY <1>0, <2>1, <2>2, GoUiFrame DEF UiStep, Attaching, Recordless
    <2> QED
        BY <1>2, <1>3, <2>2, <2>3, StillRecords
<1>6. ASSUME OriginCaptured(c) PROVE RecordInv'
    <2>1. ui[c].pc = "origin" /\ records' = records /\ (GoUi(c, "insert") \/ GoUi(c, "idle"))
        BY <1>6 DEF OriginCaptured
    <2>2. records[ui[c].session] = None
        BY <2>1 DEF RecordInv, NotYet, Recordless
    <2>3. UiStep(c) /\ \A d \in Uis \ {c} : ui'[d] = ui[d]
        BY <1>0, <2>1, <2>2, GoUiFrame DEF UiStep, Attaching, Recordless, Done
    <2> QED
        BY <1>2, <1>3, <2>1, <2>3, StillRecords
<1>7. ASSUME InsertRecord(c) PROVE RecordInv'
    <2>1. /\ ui[c].pc = "insert" /\ ui'[c].pc = "finalize" /\ ui'[c].session = ui[c].session
          /\ ui'[c].scope = ui[c].scope /\ \A d \in Uis \ {c} : ui'[d] = ui[d]
        BY <1>0, <1>7, GoUiFrame DEF InsertRecord
    <2>2. UiStep(c)
        BY <2>1 DEF UiStep, Attaching, Recordless, Done
    <2>3. ASSUME NEW u \in Sessions PROVE RecordStep(u)
        <3>1. CASE u # ui[c].session
            BY <1>7, <3>1, TableTypes DEF InsertRecord, RecordStep
        <3>2. CASE u = ui[c].session
            <4>1. records'[u] = [scope |-> ui[c].scope, captured |-> FALSE]
                BY <1>7, <3>2, TableTypes DEF InsertRecord
            <4> QED
                BY <2>1, <3>2, <4>1 DEF RecordStep
        <3> QED
            BY <3>1, <3>2
    <2> QED
        BY <1>2, <1>3, <2>1, <2>2, <2>3
<1>8. ASSUME Withdraw(c) PROVE RecordInv'
    <2>1. /\ ui[c].pc = "withdraw" /\ ui'[c].pc = "idle" /\ ui'[c].session = ui[c].session
          /\ ui'[c].scope = ui[c].scope /\ \A d \in Uis \ {c} : ui'[d] = ui[d]
        BY <1>0, <1>8, GoUiFrame DEF Withdraw
    <2>2. \A u \in Sessions : records'[u] = IF u = ui[c].session THEN None ELSE records[u]
        BY <1>8, TableTypes DEF Withdraw
    <2>3. UiStep(c)
        BY <2>1, <2>2 DEF UiStep, Attaching, Recordless, Done
    <2>4. \A u \in Sessions : RecordStep(u)
        BY <2>2 DEF RecordStep
    <2> QED
        BY <1>2, <1>3, <2>1, <2>3, <2>4
<1>9. ASSUME FinalizeDirect(c) PROVE RecordInv'
    <2>1. /\ ui[c].pc = "finalize" /\ records' = records /\ Attaching(c)
          /\ ui[c].session \in Sessions /\ ui[c].scope \in Scopes
        BY <1>0, <1>9, UiFacts DEF FinalizeDirect, Attaching
    <2>2. CASE GoUi(c, "withdraw")
        <3>1. UiStep(c) /\ \A d \in Uis \ {c} : ui'[d] = ui[d]
            BY <1>0, <2>1, <2>2, GoUiFrame DEF UiStep, Attaching, Recordless, Done
        <3> QED
            BY <1>2, <1>3, <2>1, <3>1, StillRecords
    <2>3. CASE GoUi(c, "capture") /\ scopes[ui[c].scope] = ui[c].session
        <3>1. /\ ui'[c].pc = "capture" /\ ui'[c].session = ui[c].session
              /\ ui'[c].scope = ui[c].scope /\ \A d \in Uis \ {c} : ui'[d] = ui[d]
            BY <1>0, <2>3, GoUiFrame
        <3>2. records[ui[c].session] # None => records[ui[c].session].scope = ui[c].scope
            BY <2>1 DEF RecordInv, OneScope
        <3>3. ASSUME NEW u \in Sessions, u = ui[c].session
              PROVE  records'[u] = None \/ (OwnsIn(u, records[u].scope)' /\ Owns(u))
            BY <1>1, <2>1, <2>3, <3>2, <3>3 DEF OwnsIn, Owns
        <3>4. UiStep(c)
            BY <2>1, <3>1, <3>3 DEF UiStep, Attaching, Recordless, Done
        <3> QED
            BY <1>2, <1>3, <2>1, <3>1, <3>4, StillRecords
    <2> QED
        BY <1>9, <2>2, <2>3 DEF FinalizeDirect, StartCapture
<1> QED
    BY <1>4, <1>5, <1>6, <1>7, <1>8, <1>9

(* capture_origin fails before the record exists, so that nothing is left  *)
(* to take away.                                                           *)
LEMMA OriginRecords ==
    ASSUME BookInv, CaptureInv, RecordInv, LaunchBookAgrees', TypeOK', NEW c \in Uis, OriginFailed(c)
    PROVE  RecordInv'
<1> USE DEF sessionVars, daemons
<1>0. UisKnow /\ ui[c].session \in Sessions /\ ui[c].token \in Tokens \cup {None} /\ ui[c].pc = "origin"
    BY UiFacts DEF BookInv, OriginFailed
<1>1. records' = records /\ minted' = minted /\ monitor' = monitor /\ drain' = drain
    BY DEF OriginFailed
<1>2. /\ ui'[c].pc = "idle" /\ ui'[c].session = ui[c].session /\ ui'[c].scope = ui[c].scope
      /\ \A d \in Uis \ {c} : ui'[d] = ui[d]
    BY <1>0, GoUiFrame DEF OriginFailed
<1>3. Attaching(c) /\ records[ui[c].session] = None
    BY <1>0 DEF RecordInv, NotYet, Recordless, Attaching
<1>4. \A d \in Uis : UiStep(d)
    <2>1. UiStep(c)
        BY <1>1, <1>2, <1>3 DEF UiStep, Attaching, Recordless, Done
    <2>2. ASSUME NEW d \in Uis, d # c PROVE UiStep(d)
        BY <1>2, <2>2 DEF UiStep, Attaching, Recordless
    <2> QED
        BY <2>1, <2>2
<1>5. (\A u \in Sessions : RecordStep(u)) /\ ListStep
    BY <1>1, StillRecords, StillLists
<1>6. CASE ui[c].token # None /\ Live(ui[c].token)
    <2> SUFFICES ASSUME NEW t \in Tokens, t = ui[c].token, Live(t) PROVE RecordInv'
        BY <1>0, <1>6
    <2>1. /\ GRemove({t}) /\ pendingSessions' = [pendingSessions EXCEPT ![t] = None]
          /\ tasks' = tasks \cup {CloseOnly(c, ui[c].session, x) : x \in {LeasedPane(t)} \cap Tokens}
        BY <1>6 DEF OriginFailed, GAbort
    <2>2. \A x \in Tokens : pendingSessions'[x] = IF x \in {t} THEN None ELSE pendingSessions[x]
        BY <2>1, TableTypes
    <2>3. pendingSessions[t] = ui[c].session
        BY <1>3, PendingSession, GateAssumption DEF CaptureInv, OwnToken
    <2>4. (\A u \in Sessions : OwnerStep(u)) /\ OwnsOnce'
        BY <1>1, <1>3, <2>1, <2>2, <2>3, RemoveOwners
    <2>5. ASSUME NEW u \in Sessions, u = ui[c].session PROVE Met(u)'
        BY <1>1, <2>1, <2>2, <2>3, <2>5, RemovedSession
    <2>6. ASSUME NEW k \in tasks', k \notin tasks PROVE NewTask(k)
        <3>1. PICK x \in Tokens : k = CloseOnly(c, ui[c].session, x)
            BY <2>1, <2>6
        <3>2. k.sess = ui[c].session /\ k.step = "finish"
            BY <3>1 DEF CloseOnly, Teardown
        <3>3. Met(k.sess)'
            BY <1>0, <2>5, <3>2
        <3> QED
            BY <1>0, <3>2, <3>3 DEF NewTask
    <2>7. TaskStep
        BY <2>1, <2>6 DEF TaskStep
    <2> QED
        BY <1>1, <1>4, <1>5, <2>1, <2>2, <2>4, <2>7, RemoveSame, QuietRecords
<1>7. CASE ~(ui[c].token # None /\ Live(ui[c].token))
    <2>1. GDetach(ui[c].session) /\ tasks' = tasks
        BY <1>7 DEF OriginFailed
    <2>2. pendingSessions' = pendingSessions
        <3>1. ui[c].token # None => pendingSessions[ui[c].token] = None
            BY <1>0, <1>7, PendingSession
        <3> QED
            BY <1>0, <3>1, TableTypes DEF OriginFailed
    <2>3. ASSUME NEW u \in Sessions, u = ui[c].session
          PROVE  (\A v \in Sessions : OwnerStep(v)) /\ OwnsOnce'
        <3>1. \A d \in Uis : Recordless(d)' => ui'[d].session # u
            BY <1>2, <1>3, <2>3 DEF Recordless, Attaching, CaptureInv, OneAttaching
        <3> QED
            BY <1>1, <1>3, <2>1, <2>2, <2>3, <3>1, DetachOwners
    <2>4. pending' = pending
        BY <2>1 DEF GDetach
    <2> QED
        BY <1>0, <1>1, <1>4, <1>5, <2>1, <2>2, <2>3, <2>4, StillSame, StillTasks, QuietRecords
<1> QED
    BY <1>6, <1>7

LEMMA LeaveRecords ==
    ASSUME BookInv, CaptureInv, RecordInv, LaunchBookAgrees', TypeOK', NEW c \in Uis, UiLeaves(c)
    PROVE  RecordInv'
<1> USE DEF book, sessionVars, daemons
<1>0. UisKnow /\ ui[c].pc \in {"idle", "placing", "waiting", "confirm", "attached"}
    BY DEF BookInv, UiLeaves
<1>1. records' = records /\ monitor' = monitor /\ drain' = drain
    BY DEF UiLeaves
<1>2. /\ ui'[c].pc = "closed" /\ ui'[c].session = ui[c].session /\ ui'[c].scope = ui[c].scope
      /\ \A d \in Uis \ {c} : ui'[d] = ui[d]
    BY <1>0, GoUiFrame DEF UiLeaves
<1>3. \A d \in Uis : UiStep(d)
    BY <1>0, <1>2 DEF UiStep, Attaching, Recordless, Done
<1>4. (\A u \in Sessions : RecordStep(u)) /\ ListStep
    BY <1>1, StillRecords, StillLists
<1>5. CASE UNCHANGED <<gateVars, book, tasks>>
    BY <1>3, <1>4, <1>5, StillOwners, StillTasks, StillSame, QuietRecords DEF gateVars
<1>6. CASE AbortLaunch(ui[c].token, c) /\ ui[c].pc = "waiting"
    <2> SUFFICES ASSUME NEW t \in Tokens, AbortLaunch(t, c) PROVE RecordInv'
        BY <1>0, <1>6, UiFacts
    <2> QED
        BY <1>3, <1>4, AbortRecords, QuietRecords
<1>7. ASSUME ui[c].pc \in Done, UNCHANGED <<gateVars, pendingSessions, minted>>, tasks \subseteq tasks',
             \A k \in tasks' : k \in tasks \/ \E reg : k = Teardown(c, ui[c].session, reg)
      PROVE  RecordInv'
    <2>0. ui[c].session \in Sessions
        BY <1>0, <1>7, UiFacts DEF Done
    <2>1. ASSUME NEW u \in Sessions, u = ui[c].session
          PROVE  Met(u)' /\ \A d \in Uis : Recordless(d)' => ui'[d].session # u
        <3>1. Met(u)
            BY <2>1, MetSession DEF Unmet
        <3>2. \A d \in Uis : Recordless(d) => ui[d].session # u
            BY <1>7, <2>1 DEF RecordInv, UiDone, Done, Recordless, Attaching
        <3>3. \A d \in Uis : Recordless(d)' => Recordless(d) /\ ui'[d].session = ui[d].session
            BY <1>3 DEF UiStep
        <3> QED
            BY <1>7, <3>1, <3>2, <3>3 DEF Met, Live, gateVars
    <2>2. ASSUME NEW k \in tasks', k \notin tasks PROVE NewTask(k)
        <3>1. k.sess = ui[c].session /\ k.step = "unlink"
            BY <1>7, <2>2 DEF Teardown
        <3>2. Met(k.sess)' /\ \A d \in Uis : Recordless(d)' => ui'[d].session # k.sess
            BY <2>0, <2>1, <3>1
        <3> QED
            BY <2>0, <3>1, <3>2 DEF NewTask
    <2>3. TaskStep
        BY <1>7, <2>2 DEF TaskStep
    <2> QED
        BY <1>3, <1>4, <1>7, <2>3, StillOwners, StillSame, QuietRecords DEF gateVars
<1>8. ASSUME ui[c].pc \in {"confirm", "attached"}, tasks' = tasks \cup {Teardown(c, ui[c].session, None)},
             UNCHANGED <<gateVars, book>>
      PROVE  RecordInv'
    BY <1>7, <1>8 DEF Done
<1>9. ASSUME ui[c].pc = "waiting", UNCHANGED <<gateVars, pendingSessions, minted>>,
             tasks' = tasks \cup {Teardown(c, ui[c].session, IF gated[ui[c].token].lease THEN ui[c].token ELSE None) :
                                    x \in {ui[c].token} \cap GatedTo(ui[c].session)}
      PROVE  RecordInv'
    BY <1>7, <1>9 DEF Done
<1> QED
    BY <1>5, <1>6, <1>8, <1>9 DEF UiLeaves

(* Publication, promotion and failure of a gated attachment.               *)
LEMMA FinalizeRecords ==
    ASSUME BookInv, CaptureInv, RecordInv, LaunchBookAgrees', TypeOK', NEW c \in Uis, FinalizeGated(c)
    PROVE  RecordInv'
<1> USE DEF sessionVars, daemons
<1>0. /\ UisKnow /\ ui[c].session \in Sessions /\ ui[c].token \in Tokens /\ ui[c].pc = "finalize"
      /\ Attaching(c)
    BY UiFacts DEF BookInv, FinalizeGated, Attaching
<1>1. records' = records /\ minted' = minted /\ monitor' = monitor /\ drain' = drain /\ tasks' = tasks
    BY DEF FinalizeGated
<1>2. (\A u \in Sessions : RecordStep(u)) /\ ListStep /\ TaskStep
    BY <1>1, StillRecords, StillLists, StillTasks
<1> SUFFICES ASSUME NEW t \in Tokens, t = ui[c].token, NEW u \in Sessions, u = ui[c].session PROVE RecordInv'
    BY <1>0
<1>3. records[u] # None => records[u].scope = ui[c].scope
    BY <1>0 DEF RecordInv, OneScope
<1>4. pendingSessions[t] = u => pending[t].scope = ui[c].scope
    BY <1>0 DEF RecordInv, OneScope
<1>5. ASSUME PublishOk(t, u)
      PROVE  Live(t) /\ pendingSessions[t] = u /\ pending[t].scope \in Scopes /\ scopes[pending[t].scope] = t
                /\ pending[t] \in Launch
    <2>1. Live(t) /\ pending[t].ui = u
        BY <1>5 DEF PublishOk
    <2>2. pendingSessions[t] = u /\ pending[t] \in Launch
        BY <2>1, PendingSession, GateAssumption
    <2> QED
        BY <2>1, <2>2 DEF BookInv, PendingOwnsScope, Launch
(* The attachment ends with its scope.                                      *)
<1>6. ASSUME NEW pc \in {"waiting", "capture"}, GoUi(c, pc), PublishOk(t, u),
             \A sc \in Scopes : sc = pending[t].scope =>
                scopes'[sc] = u \/ (scopes'[sc] = t /\ pendingSessions'[t] = u)
      PROVE  \A d \in Uis : UiStep(d)
    <2>1. /\ ui'[c].pc = pc /\ ui'[c].session = ui[c].session
          /\ ui'[c].scope = ui[c].scope /\ \A d \in Uis \ {c} : ui'[d] = ui[d]
        BY <1>0, <1>6, GoUiFrame
    <2>2. Owns(u)
        BY <1>5, <1>6 DEF Owns
    <2>3. records'[u] = None \/ OwnsIn(u, records[u].scope)'
        BY <1>1, <1>3, <1>4, <1>5, <1>6 DEF OwnsIn
    <2>4. UiStep(c)
        BY <1>0, <1>6, <2>1, <2>2, <2>3 DEF UiStep, Attaching, Recordless
    <2>5. ASSUME NEW d \in Uis, d # c PROVE UiStep(d)
        BY <2>1, <2>5 DEF UiStep, Attaching, Recordless
    <2> QED
        BY <2>4, <2>5
<1>7. CASE ~sealed /\ PublishOk(t, u) /\ Promoted(t)
    <2>1. GPublish(t, u) /\ BookPromotion(t) /\ GoUi(c, "capture")
        BY <1>7 DEF FinalizeGated, StartCapture
    <2>2. Promote(t) /\ Live(t) /\ pending[t].ui = pendingSessions[t]
        BY <1>7, <2>1, PromotedByPublish
    <2>3. pendingSessions' = [pendingSessions EXCEPT ![t] = None]
        BY <1>7, <2>1 DEF BookPromotion
    <2>4. \A x \in Tokens : pendingSessions'[x] \in {pendingSessions[x], None}
        BY <2>3, TableTypes
    <2>5. \A x \in Tokens : SameLaunch(x)
        BY <2>2 DEF Promote, SameLaunch, Live, BookInv, TypeOK, GateTypeOK
    <2>6. \A sc \in Scopes : sc = pending[t].scope => scopes'[sc] = u
        BY <1>5, <1>7, <2>2 DEF Promote, BookInv, TypeOK, GateTypeOK
    <2>7. \A d \in Uis : UiStep(d)
        BY <1>6, <1>7, <2>1, <2>6
    <2> QED
        BY <1>1, <1>2, <2>2, <2>3, <2>4, <2>5, <2>7, PromoteOwners, QuietRecords
<1>8. CASE ~sealed /\ PublishOk(t, u) /\ ~Promoted(t)
    <2>1. GPublish(t, u) /\ BookPromotion(t) /\ GoUi(c, "waiting")
        BY <1>8 DEF FinalizeGated
    <2>2. pendingSessions' = pendingSessions
        BY <1>8, <2>1 DEF BookPromotion
    <2>3. /\ scopes' = scopes /\ gateSessions' = gateSessions
          /\ pending' = [pending EXCEPT ![t] = [pending[t] EXCEPT !.published = TRUE]]
        BY <1>8, <2>1 DEF GPublish, Promote, Promoted, BookInv, TypeOK, GateTypeOK
    <2>4. \A x \in Tokens : KeptLaunch(x)
        BY <1>5, <1>8, <2>3, BoundFields DEF KeptLaunch, Live, BookInv, TypeOK, GateTypeOK
    <2>5. \A d \in Uis : UiStep(d)
        BY <1>5, <1>6, <1>8, <2>1, <2>2, <2>3
    <2> QED
        BY <1>1, <1>2, <2>2, <2>3, <2>4, <2>5, StillOwners, KeptRecords
<1>9. CASE ~(~sealed /\ PublishOk(t, u))
    <2>1. /\ IF Live(t) THEN GAbort(t) ELSE UNCHANGED gateVars
          /\ pendingSessions' = [pendingSessions EXCEPT ![t] = None]
          /\ ui' = [ui EXCEPT ![c].pc = "withdraw", ![c].reg = LeasedPane(t)]
        BY <1>9 DEF FinalizeGated
    <2>2. /\ ui'[c].pc = "withdraw" /\ ui'[c].session = u /\ ui'[c].scope = ui[c].scope
          /\ \A d \in Uis \ {c} : ui'[d] = ui[d]
        BY <1>0, <2>1, WithdrawFrame
    <2>3. ASSUME NEW d \in Uis PROVE UiStep(d)
        <3>1. CASE d = c
            BY <1>0, <2>2, <3>1 DEF UiStep, Attaching, Recordless, Done
        <3>2. CASE d # c
            BY <2>2, <3>2 DEF UiStep, Attaching, Recordless
        <3> QED
            BY <3>1, <3>2
    <2>4. \A x \in Tokens : pendingSessions'[x] = IF x \in {t} THEN None ELSE pendingSessions[x]
        BY <2>1, TableTypes
    <2>5. CASE Live(t)
        <3>1. GRemove({t}) /\ pendingSessions[t] = u
            BY <1>0, <2>1, <2>5, PendingSession, GateAssumption DEF GAbort, CaptureInv, OwnToken
        <3>2. Taker(u)'
            BY <2>2 DEF Taker, Attaching
        <3>3. (\A v \in Sessions : OwnerStep(v)) /\ OwnsOnce'
            BY <1>1, <2>4, <2>5, <3>1, <3>2, RemoveOwners
        <3> QED
            BY <1>1, <1>2, <2>3, <2>4, <3>1, <3>3, RemoveSame, QuietRecords
    <2>6. CASE ~Live(t)
        <3>1. pending' = pending /\ scopes' = scopes /\ gateSessions' = gateSessions
            BY <2>1, <2>6 DEF gateVars
        <3>2. pendingSessions' = pendingSessions
            BY <2>1, <2>6, PendingSession, TableTypes
        <3> QED
            BY <1>1, <1>2, <2>3, <3>1, <3>2, StillOwners, StillSame, QuietRecords
    <2> QED
        BY <2>5, <2>6
<1> QED
    BY <1>7, <1>8, <1>9

-----------------------------------------------------------------------------
(* The steps that start an attachment or reserve a session.                 *)

LEMMA AttachRecords ==
    ASSUME BookInv, CaptureInv, RecordInv, LaunchBookAgrees', NEW c \in Uis, NEW t \in Tokens,
           NEW p \in Panes, NEW sc \in Scopes, Attach(c, t, p, sc)
    PROVE  RecordInv'
<1> USE DEF book, sessionVars, daemons, RecordInv
<1> SUFFICES ASSUME NEW u \in Sessions, u = pendingSessions[t] PROVE RecordInv'
    BY FirstAttach
<1>1. /\ minted' = minted /\ pendingSessions' = pendingSessions /\ records' = records
      /\ tasks' = tasks /\ monitor' = monitor /\ drain' = drain /\ scopes' = scopes
      /\ ui[c].pc = "idle" /\ Live(t) /\ pending[t].scope = sc
    BY DEF Attach, GAttachLaunch
<1>2. pending[t] \in Launch /\ pending[t].ui = None /\ Unmet(u)
    BY FirstAttach
<1>3. Unlisted(u) /\ u \in minted
    BY <1>1, <1>2 DEF UntouchedScope, CaptureInv, Fresh
<1>4. /\ ui'[c].pc = "origin" /\ ui'[c].session = u /\ ui'[c].scope = sc
      /\ \A d \in Uis \ {c} : ui'[d] = ui[d]
    BY StartAttachFrame DEF BookInv, Attach
<1>5. \A v \in Sessions : gateSessions'[v] = IF v = u THEN sc ELSE gateSessions[v]
    BY DEF Attach, GAttachLaunch, BookInv, TypeOK, GateTypeOK
<1>6. pending' = [pending EXCEPT ![t] = [pending[t] EXCEPT !.ui = u, !.uiPane = p]]
    BY DEF Attach, GAttachLaunch, BookInv, TypeOK, GateTypeOK
<1>7. /\ pending'[t].ui = u /\ pending'[t].scope = sc
      /\ \A x \in Tokens \ {t} : pending'[x] = pending[x]
    BY <1>1, <1>2, <1>6, LaunchFields DEF BookInv, TypeOK, GateTypeOK
<1>8. \A d \in Uis : Attaching(d)' <=> d = c \/ Attaching(d)
    BY <1>1, <1>4 DEF Attaching
<1>9. \A d \in Uis : Recordless(d)' <=> d = c \/ Recordless(d)
    BY <1>1, <1>4 DEF Recordless
<1>10. \A d \in Uis : ui[d].session # u
    BY <1>2 DEF Unmet
<1>11. \A x \in Tokens : pendingSessions[x] = u => x = t
    BY GateAssumption DEF CaptureInv, OneToken
<1>12. ~Attaching(c) /\ ~Recordless(c)
    BY <1>1 DEF Attaching, Recordless
<1>13. \A v \in Sessions : /\ (Owns(v)' <=> Owns(v)) /\ (Listed(v)' <=> Listed(v))
                           /\ (Taker(v) => Taker(v)')
    BY <1>1, <1>4, <1>8, <1>12 DEF Owns, Listed, Taker
<1>14. \A v \in Sessions : v # u => (Unlisted(v)' <=> Unlisted(v))
    BY <1>1, <1>5, <1>13 DEF Unlisted
<1>15. FreshScope'
    BY <1>1, <1>3, <1>14 DEF FreshScope
<1>16. UntouchedScope'
    <2>1. ASSUME NEW x \in Tokens, Live(x)', pending'[x].ui = None, NEW v \in Sessions, v = pendingSessions[x]
          PROVE  Unlisted(v)'
        <3>1. x # t /\ v # u
            BY <1>7, <1>11, <2>1, GateAssumption
        <3> QED
            BY <1>7, <1>14, <2>1, <3>1 DEF UntouchedScope, Live
    <2>2. \A x \in Tokens : Live(x)' => pendingSessions[x] \in Sessions
        BY <1>1, TableTypes DEF LaunchBookAgrees
    <2> QED
        BY <1>1, <2>1, <2>2 DEF UntouchedScope
<1>17. OwnsOnce' /\ MonitorLists'
    BY <1>1 DEF OwnsOnce, MonitorLists
<1>18. Owned'
    BY <1>1, <1>13 DEF Owned, OwnsIn
<1>19. NotYet'
    <2> SUFFICES ASSUME NEW d \in Uis, Recordless(d)', NEW v \in Sessions, v = ui'[d].session
                 PROVE  records'[v] = None /\ ~Listed(v)'
        <3>1. \A d \in Uis : Recordless(d)' => ui'[d].session \in Sessions
            BY <1>4, <1>9, UiFacts DEF Recordless, BookInv
        <3> QED
            BY <3>1 DEF NotYet
    <2> QED
        BY <1>1, <1>2, <1>3, <1>4, <1>9, <1>13 DEF NotYet, Unmet, Unlisted
<1>20. Doomed'
    <2>1. \A k \in tasks : k.sess \in Sessions
        BY TableTypes DEF Task
    <2>2. \A k \in tasks : k.sess # u
        BY <1>3 DEF Unlisted
    <2>3. ASSUME NEW k \in tasks, NEW v \in Sessions, v = k.sess
          PROVE  /\ k.step # "finish" /\ (\E d \in Uis : Recordless(d)' /\ ui'[d].session = v) => ~Owns(v)'
                 /\ k.step = "state" /\ records'[v] # None =>
                       ~Owns(v)' /\ \E d \in Uis : Attaching(d)' /\ ui'[d].session = v
        BY <1>1, <1>4, <1>8, <1>9, <1>12, <1>13, <2>2, <2>3 DEF Doomed
    <2> QED
        BY <1>1, <2>1, <2>3 DEF Doomed
<1>21. OneScope'
    <2>1. \A x \in Tokens : pending'[x].scope = pending[x].scope
        BY <1>1, <1>7
    <2>2. ASSUME NEW d \in Uis, Attaching(d)'
          PROVE  /\ \A x \in Tokens : pendingSessions[x] = ui'[d].session => pending'[x].scope = ui'[d].scope
                 /\ records[ui'[d].session] # None => records[ui'[d].session].scope = ui'[d].scope
        <3>1. CASE d = c
            BY <1>1, <1>2, <1>4, <1>11, <2>1, <3>1 DEF Unmet
        <3>2. CASE d # c
            BY <1>4, <1>8, <2>1, <2>2, <3>2 DEF OneScope
        <3> QED
            BY <3>1, <3>2
    <2> QED
        BY <1>1, <2>2 DEF OneScope
<1>22. Known'
    <2>1. \A v \in Sessions : gateSessions[v] # None => gateSessions'[v] # None
        BY <1>5, GateAssumption
    <2>2. ASSUME NEW v \in Sessions, records'[v] # None, Owns(v)' PROVE gateSessions'[v] # None
        BY <1>1, <1>13, <2>1, <2>2 DEF Known
    <2>3. ASSUME NEW d \in Uis, Recordless(d)', NEW v \in Sessions, v = ui'[d].session, Owns(v)'
          PROVE  gateSessions'[v] # None
        BY <1>4, <1>5, <1>9, <1>13, <2>1, <2>3, GateAssumption DEF Known
    <2>4. \A d \in Uis : Recordless(d)' => ui'[d].session \in Sessions
        BY <1>4, <1>9, UiFacts DEF Recordless, BookInv
    <2> QED
        BY <2>2, <2>3, <2>4 DEF Known
<1>23. UiDone'
    BY <1>4, <1>8, <1>10 DEF UiDone
<1> QED
    BY <1>15, <1>16, <1>17, <1>18, <1>19, <1>20, <1>21, <1>22, <1>23

LEMMA DirectRecords ==
    ASSUME BookInv, CaptureInv, RecordInv, NEW c \in Uis, NEW sc \in Scopes, AttachDirect(c, sc)
    PROVE  RecordInv'
<1> USE DEF sessionVars, daemons, RecordInv
<1>1. /\ pendingSessions' = pendingSessions /\ pending' = pending /\ records' = records
      /\ tasks' = tasks /\ monitor' = monitor /\ drain' = drain /\ ui[c].pc = "idle"
    BY DEF AttachDirect, GAttachDirect
<1>2. PICK u \in Sessions \ minted :
          minted' = minted \cup {u} /\ GAttachDirect(u, sc) /\ StartAttach(c, u, None, sc)
    BY DEF AttachDirect
<1>3. Unmet(u) /\ Unlisted(u) /\ \A x \in Tokens : pendingSessions[x] # u
    BY DEF CaptureInv, Fresh, FreshScope
<1>4. /\ ui'[c].pc = "origin" /\ ui'[c].session = u /\ ui'[c].scope = sc
      /\ \A d \in Uis \ {c} : ui'[d] = ui[d]
    BY <1>2, StartAttachFrame DEF BookInv
<1>5. /\ \A v \in Sessions : gateSessions'[v] = IF v = u THEN sc ELSE gateSessions[v]
      /\ \A s \in Scopes : scopes'[s] = IF s = sc THEN u ELSE scopes[s]
      /\ scopes[sc] = None
    BY <1>2 DEF GAttachDirect, BookInv, TypeOK, GateTypeOK
<1>6. \A d \in Uis : (Attaching(d)' <=> d = c \/ Attaching(d)) /\ (Recordless(d)' <=> d = c \/ Recordless(d))
    BY <1>1, <1>4 DEF Attaching, Recordless
<1>7. (\A d \in Uis : ui[d].session # u) /\ (\A k \in tasks : k.sess # u)
    BY <1>3 DEF Unmet, Unlisted
<1>8. ~Attaching(c) /\ ~Recordless(c)
    BY <1>1 DEF Attaching, Recordless
<1>9. \A v \in Sessions : /\ Listed(v)' <=> Listed(v)
                          /\ (Taker(v) => Taker(v)')
                          /\ v # u => (Owns(v)' <=> Owns(v))
                          /\ \A s \in Scopes : OwnsIn(v, s) => OwnsIn(v, s)'
    <2>1. \A v \in Sessions : (Listed(v)' <=> Listed(v)) /\ (Taker(v) => Taker(v)')
        BY <1>1, <1>4, <1>6, <1>8 DEF Listed, Taker
    <2>2. \A v \in Sessions : v # u => (Owns(v)' <=> Owns(v))
        BY <1>1, <1>5, GateAssumption DEF Owns
    <2>3. \A v \in Sessions, s \in Scopes : OwnsIn(v, s) => OwnsIn(v, s)'
        BY <1>1, <1>5, GateAssumption DEF OwnsIn
    <2> QED
        BY <2>1, <2>2, <2>3
<1>10. \A v \in Sessions : v # u /\ Unlisted(v) => Unlisted(v)'
    BY <1>1, <1>5, <1>9 DEF Unlisted
<1>11. FreshScope' /\ UntouchedScope'
    <2>1. FreshScope'
        BY <1>2, <1>10 DEF FreshScope
    <2>2. ASSUME NEW x \in Tokens, Live(x)', pending'[x].ui = None, NEW v \in Sessions, v = pendingSessions[x]
          PROVE  Unlisted(v)'
        BY <1>1, <1>3, <1>10, <2>2 DEF UntouchedScope, Live
    <2>3. \A x \in Tokens : Live(x)' => pendingSessions[x] \in Sessions
        BY <1>1, PendingSession DEF Live
    <2> QED
        BY <1>1, <2>1, <2>2, <2>3 DEF UntouchedScope
<1>12. OwnsOnce' /\ MonitorLists'
    BY <1>1, <1>3, <1>5, GateAssumption DEF OwnsOnce, MonitorLists, Unlisted
<1>13. Owned'
    <2> SUFFICES ASSUME NEW v \in Sessions, records[v] # None, NEW s \in Scopes, s = records[v].scope
                 PROVE  OwnsIn(v, s)' \/ Taker(v)'
        <3>1. \A v \in Sessions : records[v] # None => records[v].scope \in Scopes
            BY TableTypes DEF Record
        <3> QED
            BY <1>1, <3>1 DEF Owned, OwnsIn
    <2> QED
        BY <1>9 DEF Owned
<1>14. \A d \in Uis : Recordless(d)' => ui'[d].session \in Sessions
    BY <1>4, <1>6, UiFacts DEF Recordless, BookInv
<1>15. NotYet'
    <2> SUFFICES ASSUME NEW d \in Uis, Recordless(d)', NEW v \in Sessions, v = ui'[d].session
                 PROVE  records'[v] = None /\ ~Listed(v)'
        BY <1>14 DEF NotYet
    <2> QED
        BY <1>1, <1>3, <1>4, <1>6, <1>9 DEF NotYet, Unmet, Unlisted
<1>16. Doomed'
    <2>1. \A k \in tasks : k.sess \in Sessions
        BY TableTypes DEF Task
    <2>2. ASSUME NEW k \in tasks, NEW v \in Sessions, v = k.sess
          PROVE  /\ k.step # "finish" /\ (\E d \in Uis : Recordless(d)' /\ ui'[d].session = v) => ~Owns(v)'
                 /\ k.step = "state" /\ records'[v] # None =>
                       ~Owns(v)' /\ \E d \in Uis : Attaching(d)' /\ ui'[d].session = v
        BY <1>1, <1>4, <1>6, <1>7, <1>8, <1>9, <2>2 DEF Doomed
    <2> QED
        BY <1>1, <2>1, <2>2 DEF Doomed
<1>17. OneScope'
    BY <1>1, <1>3, <1>4, <1>6 DEF OneScope, Unmet
<1>18. Known'
    <2>1. \A v \in Sessions : gateSessions[v] # None => gateSessions'[v] # None
        BY <1>5, GateAssumption
    <2>2. ASSUME NEW v \in Sessions, records'[v] # None, Owns(v)' PROVE gateSessions'[v] # None
        BY <1>1, <1>3, <1>9, <2>1, <2>2 DEF Known, Unmet
    <2>3. ASSUME NEW d \in Uis, Recordless(d)', NEW v \in Sessions, v = ui'[d].session, Owns(v)'
          PROVE  gateSessions'[v] # None
        BY <1>4, <1>5, <1>6, <1>9, <2>1, <2>3, GateAssumption DEF Known
    <2> QED
        BY <1>14, <2>2, <2>3 DEF Known
<1>19. UiDone'
    BY <1>4, <1>6, <1>7 DEF UiDone
<1> QED
    BY <1>11, <1>12, <1>13, <1>15, <1>16, <1>17, <1>18, <1>19

(* The replaced owner of the scope is left to a detach call, and owns      *)
(* nothing any more.                                                       *)
LEMMA PrepareRecords ==
    ASSUME BookInv, CaptureInv, RecordInv, LaunchBookAgrees', NEW t \in Tokens, NEW sc \in Scopes, Prepare(t, sc)
    PROVE  RecordInv'
<1> USE DEF sessionVars, daemons, RecordInv
<1>1. /\ records' = records /\ ui' = ui /\ monitor' = monitor /\ drain' = drain
      /\ gateSessions' = gateSessions
    BY DEF Prepare, GPrepare
<1>2. PICK u \in Sessions \ minted :
          /\ minted' = minted \cup {u}
          /\ pendingSessions' = [x \in Tokens |-> IF x = t THEN u ELSE IF x = scopes[sc] THEN None
                                                  ELSE pendingSessions[x]]
    BY DEF Prepare
<1>3. Unmet(u) /\ Unlisted(u) /\ \A x \in Tokens : pendingSessions[x] # u
    BY DEF CaptureInv, Fresh, FreshScope
<1>4. \A s \in Scopes : scopes'[s] = IF s = sc THEN t ELSE scopes[s]
    BY DEF Prepare, GPrepare, BookInv, TypeOK, GateTypeOK
<1>5. \A x \in Tokens \ {t} : pending'[x] = IF x = scopes[sc] THEN None ELSE pending[x]
    BY DEF Prepare, GPrepare
<1>6. ~Live(t) /\ pendingSessions[t] = None
    BY PendingSession DEF Prepare, GPrepare
<1>o. \A s \in Scopes : scopes[s] \in Tokens => scopes[s] # t /\ (scopes[s] = scopes[sc] => s = sc)
    BY <1>6 DEF BookInv, PendingOwnsScope
<1>p. \A s \in Scopes : scopes[s] \in Tokens \cup Sessions \cup {None}
    BY DEF BookInv, TypeOK, GateTypeOK
<1>7. /\ tasks \subseteq tasks'
      /\ \A k \in tasks' : k \in tasks \/ (k.step = "unlink" /\ k.sess \in Sessions /\ OwnsIn(k.sess, sc))
      /\ \A v \in Sessions : OwnsIn(v, sc) => \E k \in tasks' : k.sess = v /\ k.step = "unlink"
    <2>1. CASE scopes[sc] \in Tokens
        <3> DEFINE l == Teardown(t, pendingSessions[scopes[sc]], LeasedPane(scopes[sc]))
        <3>1. tasks' = tasks \cup {l}
            BY <2>1 DEF Prepare
        <3>2. l.step = "unlink" /\ l.sess = pendingSessions[scopes[sc]]
            BY DEF Teardown
        <3> HIDE DEF l
        <3>3. pendingSessions[scopes[sc]] \in Sessions
            BY <2>1, PendingSession DEF BookInv, PendingOwnsScope
        <3> QED
            BY <2>1, <3>1, <3>2, <3>3, GateAssumption DEF OwnsIn
    <2>2. CASE scopes[sc] \in Sessions
        <3> DEFINE l == Teardown(t, scopes[sc], None)
        <3>1. tasks' = tasks \cup {l}
            BY <2>2, GateAssumption DEF Prepare
        <3>2. l.step = "unlink" /\ l.sess = scopes[sc]
            BY DEF Teardown
        <3> HIDE DEF l
        <3> QED
            BY <2>2, <3>1, <3>2, GateAssumption DEF OwnsIn
    <2>3. CASE scopes[sc] = None
        <3>1. tasks' = tasks
            BY <2>3, GateAssumption DEF Prepare
        <3> QED
            BY <2>3, <3>1, GateAssumption DEF OwnsIn
    <2> QED
        BY <1>p, <2>1, <2>2, <2>3
<1>8. ~Owns(u)
    BY <1>3 DEF Owns, Unlisted
<1>9. \A v \in Sessions : OwnsIn(v, sc) => Owns(v) /\ v # u
    BY <1>8 DEF OwnsIn, Owns
<1>10. \A v \in Sessions : v # u /\ Owns(v)' => Owns(v)
    BY <1>2, <1>4, GateAssumption DEF Owns
<1>11. ASSUME NEW v \in Sessions, OwnsIn(v, sc) PROVE ~Owns(v)'
    <2>1. v # u
        BY <1>9, <1>11
    <2>2. CASE scopes[sc] = v
        <3>1. \A x \in Tokens : pendingSessions[x] # v
            BY <2>2, GateAssumption DEF OwnsOnce
        <3>2. \A s \in Scopes : scopes'[s] # v
            BY <1>4, <2>2, GateAssumption DEF OwnsOnce
        <3> QED
            BY <1>2, <2>1, <3>1, <3>2, GateAssumption DEF Owns
    <2>3. CASE scopes[sc] \in Tokens /\ pendingSessions[scopes[sc]] = v
        <3>1. \A x \in Tokens : pendingSessions[x] = v => x = scopes[sc]
            BY <2>3, GateAssumption DEF CaptureInv, OneToken
        <3>2. \A s \in Scopes : scopes'[s] # v
            BY <1>4, <2>3, GateAssumption DEF OwnsOnce
        <3> QED
            BY <1>2, <2>1, <3>1, <3>2, GateAssumption DEF Owns
    <2> QED
        BY <1>11, <2>2, <2>3 DEF OwnsIn
<1>12. \A v \in Sessions : /\ (Listed(v)' <=> Listed(v)) /\ (Taker(v) => Taker(v)')
    BY <1>1, <1>7 DEF Listed, Taker, Attaching
<1>13. \A d \in Uis : (Attaching(d)' <=> Attaching(d)) /\ (Recordless(d)' <=> Recordless(d))
    BY <1>1 DEF Attaching, Recordless
<1>14. \A v \in Sessions : Unlisted(v) /\ ~OwnsIn(v, sc) => Unlisted(v)'
    BY <1>1, <1>4, <1>7, <1>12, GateAssumption DEF Unlisted
<1>15. FreshScope'
    <2>1. \A v \in Sessions \ minted : ~OwnsIn(v, sc)
        BY DEF CaptureInv, Fresh, FreshScope, Unlisted, OwnsIn
    <2> QED
        BY <1>2, <1>14, <2>1 DEF FreshScope
<1>16. UntouchedScope'
    <2>1. ASSUME NEW x \in Tokens, Live(x)', pending'[x].ui = None, NEW v \in Sessions, v = pendingSessions'[x]
          PROVE  Unlisted(v)'
        <3>1. CASE x = t
            BY <1>2, <1>3, <1>9, <1>14, <2>1, <3>1
        <3>2. CASE x # t
            <4>1. x # scopes[sc] /\ Live(x) /\ pending[x].ui = None /\ v = pendingSessions[x]
                BY <1>2, <1>5, <2>1, <3>2 DEF Live
            <4>2. ~OwnsIn(v, sc)
                BY <4>1, GateAssumption DEF OwnsIn, OwnsOnce, CaptureInv, OneToken
            <4> QED
                BY <1>14, <4>1, <4>2 DEF UntouchedScope
        <3> QED
            BY <3>1, <3>2
    <2>2. \A x \in Tokens : Live(x)' => pendingSessions'[x] \in Sessions
        BY <1>2, TableTypes DEF LaunchBookAgrees
    <2> QED
        BY <2>1, <2>2 DEF UntouchedScope
<1>17. OwnsOnce' /\ MonitorLists'
    <2>1. \A a, b \in Scopes : scopes'[a] = scopes'[b] /\ scopes'[a] \in Sessions => a = b
        BY <1>4, GateAssumption DEF OwnsOnce
    <2>2. \A s \in Scopes, x \in Tokens : pendingSessions'[x] # None => pendingSessions'[x] # scopes'[s]
        <3> SUFFICES ASSUME NEW s \in Scopes, NEW x \in Tokens, pendingSessions'[x] # None
                     PROVE  pendingSessions'[x] # scopes'[s]
            OBVIOUS
        <3>1. pendingSessions'[x] \in Sessions /\ pendingSessions'[x] \in {u, pendingSessions[x]}
            BY <1>2, TableTypes
        <3> QED
            BY <1>3, <1>4, <3>1, GateAssumption DEF OwnsOnce, Unlisted
    <2> QED
        BY <1>1, <2>1, <2>2 DEF OwnsOnce, MonitorLists
<1>18. Owned'
    <2> SUFFICES ASSUME NEW v \in Sessions, records[v] # None, NEW s \in Scopes, s = records[v].scope
                 PROVE  OwnsIn(v, s)' \/ Taker(v)'
        <3>1. \A v \in Sessions : records[v] # None => records[v].scope \in Scopes
            BY TableTypes DEF Record
        <3> QED
            BY <1>1, <3>1 DEF Owned, OwnsIn
    <2>1. CASE s = sc /\ OwnsIn(v, s)
        BY <1>7, <2>1 DEF Taker
    <2>2. CASE s # sc /\ OwnsIn(v, s)
        BY <1>2, <1>4, <1>o, <2>2 DEF OwnsIn
    <2>3. CASE Taker(v)
        BY <1>12, <2>3
    <2> QED
        BY <2>1, <2>2, <2>3 DEF Owned
<1>19. NotYet'
    <2>1. \A d \in Uis : Recordless(d) => ui[d].session \in Sessions
        BY UiFacts DEF Recordless, BookInv
    <2> QED
        BY <1>1, <1>12, <1>13, <2>1 DEF NotYet
<1>20. Doomed'
    <2>1. \A k \in tasks : k.sess \in Sessions /\ k.sess # u
        BY <1>3, TableTypes DEF Task, Unlisted
    <2>2. ASSUME NEW k \in tasks', NEW v \in Sessions, v = k.sess
          PROVE  /\ k.step # "finish" /\ (\E d \in Uis : Recordless(d) /\ ui[d].session = v) => ~Owns(v)'
                 /\ k.step = "state" /\ records[v] # None =>
                       ~Owns(v)' /\ \E d \in Uis : Attaching(d) /\ ui[d].session = v
        <3>1. CASE k \in tasks
            BY <1>10, <2>1, <2>2, <3>1 DEF Doomed
        <3>2. CASE k \notin tasks
            BY <1>7, <1>11, <2>2, <3>2
        <3> QED
            BY <3>1, <3>2
    <2>3. \A k \in tasks' : k.sess \in Sessions
        BY <1>7, <2>1
    <2> QED
        BY <1>1, <1>13, <2>2, <2>3 DEF Doomed
<1>21. OneScope'
    <2>1. ASSUME NEW d \in Uis, Attaching(d), NEW x \in Tokens, pendingSessions'[x] = ui[d].session
          PROVE  pending'[x].scope = ui[d].scope
        <3>1. ui[d].session \in Sessions /\ ui[d].session # u
            BY <1>3, <2>1, UiFacts DEF Unmet, BookInv, Attaching
        <3>2. x # t /\ x # scopes[sc] /\ pendingSessions[x] = ui[d].session
            BY <1>2, <2>1, <3>1, GateAssumption
        <3> QED
            BY <1>5, <2>1, <3>2 DEF OneScope
    <2> QED
        BY <1>1, <1>13, <2>1 DEF OneScope
<1>22. Known'
    <2>1. ASSUME NEW v \in Sessions, records[v] # None, Owns(v)' PROVE gateSessions[v] # None
        BY <1>3, <1>10, <2>1 DEF Known, Unmet
    <2>2. ASSUME NEW d \in Uis, Recordless(d), NEW v \in Sessions, v = ui[d].session, Owns(v)'
          PROVE  gateSessions[v] # None
        BY <1>3, <1>10, <2>2 DEF Known, Unmet
    <2>3. \A d \in Uis : Recordless(d) => ui[d].session \in Sessions
        BY UiFacts DEF Recordless, BookInv
    <2> QED
        BY <1>1, <1>13, <2>1, <2>2, <2>3 DEF Known
<1>23. UiDone'
    BY <1>1, <1>13 DEF UiDone
<1> QED
    BY <1>15, <1>16, <1>17, <1>18, <1>19, <1>20, <1>21, <1>22, <1>23

-----------------------------------------------------------------------------

LEMMA RecordInit == Init => RecordInv
<1> SUFFICES ASSUME Init PROVE RecordInv
    OBVIOUS
<1>1. /\ \A t \in Tokens : pendingSessions[t] = None /\ ~Live(t)
      /\ \A u \in Sessions : records[u] = None /\ gateSessions[u] = None
      /\ \A sc \in Scopes : scopes[sc] = None
      /\ \A c \in Uis : ui[c].pc = "idle"
      /\ monitor.left = {} /\ drain.left = {} /\ monitor.pc = "idle" /\ tasks = {}
    BY DEF Init, GateInit, Live
<1>2. \A c \in Uis : ~Attaching(c) /\ ~Recordless(c)
    BY <1>1 DEF Attaching, Recordless
<1>3. \A u \in Sessions : Unlisted(u)
    BY <1>1, GateAssumption DEF Unlisted, Listed
<1> QED
    BY <1>1, <1>2, <1>3, GateAssumption DEF RecordInv, FreshScope, UntouchedScope, OwnsOnce, Owned,
       NotYet, Doomed, OneScope, Known, UiDone, MonitorLists

LEMMA RecordNext == BookInv /\ CaptureInv /\ RecordInv /\ [Next]_vars => RecordInv'
<1> SUFFICES ASSUME BookInv, CaptureInv, RecordInv, [Next]_vars PROVE RecordInv'
    OBVIOUS
<1>0. LaunchBookAgrees' /\ TypeOK'
    BY BookStep DEF BookInv
<1>1. CASE LauncherNext
    BY <1>0, <1>1, LauncherRecords, PrepareRecords DEF LauncherNext
<1>2. CASE UiNext
    BY <1>0, <1>2, UiStillRecords, OriginRecords, LeaveRecords, FinalizeRecords, AttachRecords,
       DirectRecords DEF UiNext
<1>3. CASE UNCHANGED vars
    <2>1. /\ minted' = minted /\ ui' = ui /\ records' = records /\ pending' = pending
          /\ pendingSessions' = pendingSessions /\ scopes' = scopes /\ gateSessions' = gateSessions
          /\ tasks' = tasks /\ monitor' = monitor /\ drain' = drain
        BY <1>3 DEF vars, book, handlers, sessionVars, gateVars, daemons
    <2> QED
        BY <1>0, <2>1, StillUis, StillRecords, StillTasks, StillLists, StillOwners, StillSame, QuietRecords
<1> QED
    BY <1>0, <1>1, <1>2, <1>3, SessionRecords, TaskRecords, DaemonRecords DEF Next

LEMMA RecordAlways == Spec => [](BookInv /\ CaptureInv /\ RecordInv)
BY BookInit, BookStep, CaptureInit, CaptureStep, RecordInit, RecordNext, PTL DEF Spec

(* At most one pending or ready UI per modal scope: a session record that  *)
(* no handler, detach call, scope failure or drain is working on belongs   *)
(* to the owner of its scope.  Whatever the interleaving of replacement,   *)
(* commit, abort, expiry, disconnect, scope failure and drain with the     *)
(* three critical sections of attach, no record stays behind.              *)
THEOREM RecordOwnsScopeAlways == Spec => []RecordOwnsScope
<1>1. RecordInv => RecordOwnsScope
    <2> SUFFICES ASSUME RecordInv, NEW u \in Sessions, records[u] # None, ~InFlight(u)
                 PROVE  OwnsIn(u, records[u].scope)
        BY DEF RecordOwnsScope, OwnsIn
    <2>1. ~Taker(u)
        BY DEF InFlight, Taker, Attaching, Listed
    <2> QED
        BY <2>1 DEF RecordInv, Owned
<1> QED
    BY <1>1, RecordAlways, PTL

-----------------------------------------------------------------------------
(***************************************************************************)
(* Ready owners, where no drain and no full outbox interferes: the owner   *)
(* of a scope is never a session that is gone.                             *)
(***************************************************************************)

(* A record, a detach call that has not told the gate, or an attachment    *)
(* that has still to insert its record: the session is not gone.           *)
Held(u) == \/ records[u] # None
           \/ \E k \in tasks : k.sess = u /\ k.step # "finish"
           \/ \E c \in Uis : Recordless(c) /\ ui[c].session = u

(* The gate knows the session by its scope, and it is not gone.            *)
Holds(u, sc) == gateSessions[u] = sc /\ Held(u)

(* The session attached to a pending launch, which becomes the owner.      *)
Guest(t, u, sc) == Live(t) /\ pending[t].ui = u /\ pending[t].scope = sc

Reserved(u) == \E t \in Tokens : pendingSessions[t] = u

Calm == drain.pc = "idle" /\ drain.left = {} /\ ~sealed

MonitorRests == monitor.pc \in {"idle", "lost"} => monitor.scope = None

(* An owner the gate has forgotten waits for release_dangling_owner.       *)
OwnerKept == \A u \in Sessions, sc \in Scopes : scopes[sc] = u =>
    Holds(u, sc) \/ (gateSessions[u] = None /\ monitor.scope = sc)

(* Only scope_unhealthy detaches a session before its launch; it has still *)
(* to abort the launch.                                                    *)
GuestKept == \A t \in Tokens, u \in Sessions, sc \in Scopes : Guest(t, u, sc) =>
    \/ Holds(u, sc)
    \/ /\ gateSessions[u] = None /\ monitor.scope = sc
       /\ monitor.pc = "sessions" \/ t \in monitor.left

DetachedEarly == \A k \in tasks, t \in Tokens :
    k.step # "finish" /\ pendingSessions[t] = k.sess =>
        k.by = "monitor" /\ monitor.pc = "sessions" /\ monitor.scope = pending[t].scope

ListedHere == \A t \in Tokens : pendingSessions[t] \in monitor.left =>
    monitor.scope = pending[t].scope

(* A session that owns its scope during its attachment came without a      *)
(* token, and the attachment is not withdrawn.                             *)
AttachingOwner == \A c \in Uis, sc \in Scopes : Attaching(c) /\ scopes[sc] = ui[c].session =>
    sc = ui[c].scope /\ ui[c].token = None /\ ui[c].pc # "withdraw"

(* Sessions beyond their launch.                                           *)
Announced ==
    /\ \A c \in Uis : ui[c].pc \in {"confirm", "attached"} => ~Reserved(ui[c].session)
    /\ \A u \in Sessions : readiness[u] = "ready" => u \in minted /\ ~Reserved(u)
    /\ \A t \in Tokens : gated[t] # None => gated[t].session \in minted /\ ~Reserved(gated[t].session)

ReadyInv == /\ Calm /\ MonitorRests /\ OwnerKept /\ GuestKept /\ DetachedEarly /\ ListedHere
            /\ AttachingOwner /\ Announced

-----------------------------------------------------------------------------
(* What a step must do to keep each of them.                                *)

ScopeFrom == \A u \in Sessions, sc \in Scopes : scopes'[sc] = u =>
    Holds(u, sc)' \/ scopes[sc] = u \/ \E t \in Tokens : Guest(t, u, sc)

GuestFrom == \A t \in Tokens, u \in Sessions, sc \in Scopes : Guest(t, u, sc)' =>
    Holds(u, sc)' \/ Guest(t, u, sc)

(* The session stays, or holds whatever it claims afterwards, or the gate  *)
(* was told of its detachment.                                             *)
ClaimStep(u) ==
    \/ gateSessions'[u] = gateSessions[u] /\ (Held(u) => Held(u)')
    \/ \A sc \in Scopes : (scopes'[sc] = u \/ \E t \in Tokens : Guest(t, u, sc)') => Holds(u, sc)'
    \/ /\ gateSessions'[u] = None
       /\ \A sc \in Scopes : scopes'[sc] = u => gateSessions[u] # sc
       /\ \A t \in Tokens, sc \in Scopes : Guest(t, u, sc)' => monitor.pc = "sessions" /\ monitor.scope = sc

MonitorStep ==
    /\ \A u \in Sessions, sc \in Scopes :
         monitor.scope = sc /\ scopes'[sc] = u /\ gateSessions'[u] = None => monitor'.scope = sc
    /\ \A t \in Tokens, u \in Sessions, sc \in Scopes :
         monitor.scope = sc /\ Guest(t, u, sc)' /\ (monitor.pc = "sessions" \/ t \in monitor.left)
           => monitor'.scope = sc /\ (monitor'.pc = "sessions" \/ t \in monitor'.left)

LEMMA KeepsOwners ==
    ASSUME ReadyInv, ScopeFrom, GuestFrom, \A u \in Sessions : ClaimStep(u), MonitorStep
    PROVE  OwnerKept' /\ GuestKept'
<1>1. ASSUME NEW u \in Sessions, NEW sc \in Scopes, scopes'[sc] = u, ~Holds(u, sc)'
      PROVE  gateSessions'[u] = None /\ monitor'.scope = sc
    <2>1. scopes[sc] = u \/ \E t \in Tokens : Guest(t, u, sc)
        BY <1>1 DEF ScopeFrom
    <2>2. Holds(u, sc) \/ (gateSessions[u] = None /\ monitor.scope = sc)
        BY <2>1 DEF ReadyInv, OwnerKept, GuestKept
    <2>3. gateSessions'[u] = None /\ monitor.scope = sc
        BY <1>1, <2>2 DEF ClaimStep, Holds
    <2> QED
        BY <1>1, <2>3 DEF MonitorStep
<1>2. ASSUME NEW t \in Tokens, NEW u \in Sessions, NEW sc \in Scopes, Guest(t, u, sc)', ~Holds(u, sc)'
      PROVE  /\ gateSessions'[u] = None /\ monitor'.scope = sc
             /\ monitor'.pc = "sessions" \/ t \in monitor'.left
    <2>1. Guest(t, u, sc)
        BY <1>2 DEF GuestFrom
    <2>2. \/ Holds(u, sc)
          \/ /\ gateSessions[u] = None /\ monitor.scope = sc
             /\ monitor.pc = "sessions" \/ t \in monitor.left
        BY <2>1 DEF ReadyInv, GuestKept
    <2>3. /\ gateSessions'[u] = None /\ monitor.scope = sc
          /\ monitor.pc = "sessions" \/ t \in monitor.left
        BY <1>2, <2>2 DEF ClaimStep, Holds
    <2> QED
        BY <1>2, <2>3 DEF MonitorStep
<1> QED
    BY <1>1, <1>2 DEF OwnerKept, GuestKept

(* A reserved session was reserved before, for the same scope, or is new.  *)
ReservedStep == \A t \in Tokens : pendingSessions'[t] # None =>
    \/ pendingSessions'[t] = pendingSessions[t] /\ pending'[t].scope = pending[t].scope
    \/ pendingSessions'[t] \in Sessions \ minted

(* A detach call was there before, or its session is not reserved, or the  *)
(* monitor detaches the sessions of a failed scope.                        *)
CallStep(k) ==
    \/ \E l \in tasks : l.step # "finish" /\ l.sess = k.sess /\ l.by = k.by
    \/ \A t \in Tokens : pendingSessions'[t] = k.sess =>
          k.by = "monitor" /\ monitor'.pc = "sessions" /\ monitor'.scope = pending'[t].scope

MonitorWorks == monitor.pc = "sessions" =>
    (monitor'.pc = "sessions" /\ monitor'.scope = monitor.scope) \/ ~Busy("monitor")

LEMMA KeepsDetached ==
    ASSUME BookInv, RecordInv, ReadyInv, ReservedStep, MonitorWorks,
           \A k \in tasks' : k.step # "finish" => CallStep(k)
    PROVE  DetachedEarly'
<1> SUFFICES ASSUME NEW k \in tasks', NEW t \in Tokens, k.step # "finish", pendingSessions'[t] = k.sess
             PROVE  k.by = "monitor" /\ monitor'.pc = "sessions" /\ monitor'.scope = pending'[t].scope
    BY DEF DetachedEarly
<1>1. ASSUME NEW l \in tasks, l.step # "finish", l.sess = k.sess, l.by = k.by
      PROVE  k.by = "monitor" /\ monitor'.pc = "sessions" /\ monitor'.scope = pending'[t].scope
    <2>1. l.sess \in Sessions /\ l.sess \in minted
        BY MetTask DEF Met
    <2>2. pendingSessions[t] = l.sess /\ pending'[t].scope = pending[t].scope
        BY <1>1, <2>1, GateAssumption DEF ReservedStep
    <2>3. l.by = "monitor" /\ monitor.pc = "sessions" /\ monitor.scope = pending[t].scope
        BY <1>1, <2>2 DEF ReadyInv, DetachedEarly
    <2> QED
        BY <1>1, <2>2, <2>3 DEF MonitorWorks, Busy
<1> QED
    BY <1>1 DEF CallStep

LEMMA KeepsListed ==
    ASSUME BookInv, BookInv', RecordInv, ReadyInv, ReservedStep,
           \A u \in Sessions : u \in monitor'.left => u \in monitor.left /\ monitor'.scope = monitor.scope
    PROVE  ListedHere'
<1> SUFFICES ASSUME NEW t \in Tokens, pendingSessions'[t] \in monitor'.left
             PROVE  monitor'.scope = pending'[t].scope
    BY DEF ListedHere
<1>1. pendingSessions'[t] \in Sessions
    <2>1. pendingSessions'[t] \in Sessions \cup {None} /\ monitor'.left \subseteq Sessions \cup Tokens
        BY DEF BookInv, TypeOK
    <2> QED
        BY <2>1, GateAssumption
<1>2. pendingSessions'[t] \in minted
    BY <1>1 DEF RecordInv, FreshScope, Unlisted, Listed
<1> QED
    BY <1>1, <1>2, GateAssumption DEF ReservedStep, ReadyInv, ListedHere

AttachStep(c) == Attaching(c)' =>
    \/ \A sc \in Scopes : scopes'[sc] = ui'[c].session =>
          sc = ui'[c].scope /\ ui'[c].token = None /\ ui'[c].pc # "withdraw"
    \/ /\ Attaching(c) /\ ui'[c].session = ui[c].session
       /\ ui'[c].scope = ui[c].scope /\ ui'[c].token = ui[c].token
       /\ ui'[c].pc = "withdraw" => ui[c].pc = "withdraw"
       /\ \A sc \in Scopes : scopes'[sc] = ui[c].session => scopes[sc] = ui[c].session

LEMMA KeepsAttaching ==
    ASSUME ReadyInv, \A c \in Uis : AttachStep(c) PROVE AttachingOwner'
<1> SUFFICES ASSUME NEW c \in Uis, NEW sc \in Scopes, Attaching(c)', scopes'[sc] = ui'[c].session
             PROVE  sc = ui'[c].scope /\ ui'[c].token = None /\ ui'[c].pc # "withdraw"
    BY DEF AttachingOwner
<1> QED
    BY DEF AttachStep, ReadyInv, AttachingOwner

AnnounceStep ==
    /\ \A c \in Uis, u \in Sessions : ui'[c].pc \in {"confirm", "attached"} /\ ui'[c].session = u =>
         (ui[c].pc \in {"confirm", "attached"} /\ ui[c].session = u) \/ ~Reserved(u)'
    /\ \A u \in Sessions : readiness'[u] = "ready" => readiness[u] = "ready" \/ (u \in minted /\ ~Reserved(u)')
    /\ \A t \in Tokens, u \in Sessions : gated'[t] # None /\ gated'[t].session = u =>
         (gated[t] # None /\ gated[t].session = u) \/ (u \in minted /\ ~Reserved(u)')

LEMMA KeepsAnnounced ==
    ASSUME BookInv, BookInv', CaptureInv, ReadyInv, ReservedStep, minted \subseteq minted', AnnounceStep
    PROVE  Announced'
<1>1. ASSUME NEW u \in Sessions, u \in minted, ~Reserved(u) PROVE ~Reserved(u)'
    BY <1>1, GateAssumption DEF Reserved, ReservedStep
<1>2. ASSUME NEW c \in Uis, ui'[c].pc \in {"confirm", "attached"}, NEW u \in Sessions, u = ui'[c].session
      PROVE  ~Reserved(u)'
    <2>1. CASE ui[c].pc \in {"confirm", "attached"} /\ ui[c].session = u
        <3>1. u \in minted
            BY <2>1 DEF CaptureInv, Fresh, Unmet
        <3>2. ~Reserved(u)
            BY <2>1 DEF ReadyInv, Announced
        <3> QED
            BY <1>1, <3>1, <3>2
    <2> QED
        BY <1>2, <2>1 DEF AnnounceStep
<1>3. ASSUME NEW u \in Sessions, readiness'[u] = "ready" PROVE u \in minted' /\ ~Reserved(u)'
    BY <1>1, <1>3 DEF AnnounceStep, ReadyInv, Announced
<1>4. ASSUME NEW t \in Tokens, gated'[t] # None, NEW u \in Sessions, u = gated'[t].session
      PROVE  u \in minted' /\ ~Reserved(u)'
    BY <1>1, <1>4 DEF AnnounceStep, ReadyInv, Announced
<1>5. /\ \A c \in Uis : ui'[c].pc \in {"confirm", "attached"} => ui'[c].session \in Sessions
      /\ \A t \in Tokens : gated'[t] # None => gated'[t].session \in Sessions
    <2>1. UisKnow' /\ gated' \in [Tokens -> Gated \cup {None}]
        BY DEF BookInv, TypeOK
    <2> QED
        BY <2>1 DEF UisKnow, KnownUi, UiKnows, Gated
<1> QED
    BY <1>2, <1>3, <1>4, <1>5 DEF Announced, Reserved

(* The parts together.                                                     *)
LEMMA ReadyParts ==
    ASSUME BookInv, BookInv', CaptureInv, RecordInv, ReadyInv, Calm', MonitorRests',
           ScopeFrom, GuestFrom, \A u \in Sessions : ClaimStep(u), ReservedStep,
           MonitorStep, MonitorWorks,
           \A u \in Sessions : u \in monitor'.left => u \in monitor.left /\ monitor'.scope = monitor.scope,
           \A k \in tasks' : k.step # "finish" => CallStep(k),
           \A c \in Uis : AttachStep(c), minted \subseteq minted', AnnounceStep
    PROVE  ReadyInv'
BY KeepsOwners, KeepsDetached, KeepsListed, KeepsAttaching, KeepsAnnounced DEF ReadyInv

LEMMA StillMonitor ==
    ASSUME monitor' = monitor
    PROVE  /\ MonitorStep /\ MonitorWorks
           /\ \A u \in Sessions : u \in monitor'.left => u \in monitor.left /\ monitor'.scope = monitor.scope
BY DEF MonitorStep, MonitorWorks

LEMMA QuietReady ==
    ASSUME BookInv, BookInv', CaptureInv, RecordInv, ReadyInv, drain' = drain, sealed' = sealed,
           monitor' = monitor, ScopeFrom, GuestFrom, \A u \in Sessions : ClaimStep(u), ReservedStep,
           \A k \in tasks' : k.step # "finish" => CallStep(k),
           \A c \in Uis : AttachStep(c), minted \subseteq minted', AnnounceStep
    PROVE  ReadyInv'
<1>1. Calm' /\ MonitorRests'
    BY DEF ReadyInv, Calm, MonitorRests
<1> QED
    BY <1>1, StillMonitor, ReadyParts

LEMMA SameReserved ==
    ASSUME BookInv', \A t \in Tokens : pendingSessions'[t] \in {pendingSessions[t], None},
           \A t \in Tokens : SameLaunch(t)
    PROVE  ReservedStep /\ GuestFrom
<1>1. \A t \in Tokens : pendingSessions'[t] # None => Live(t)'
    BY DEF BookInv, LaunchBookAgrees
<1> QED
    BY <1>1 DEF ReservedStep, GuestFrom, Guest, SameLaunch

LEMMA StillScopes == ASSUME scopes' = scopes PROVE ScopeFrom
BY DEF ScopeFrom

LEMMA StillCalls == ASSUME tasks' = tasks PROVE \A k \in tasks' : k.step # "finish" => CallStep(k)
BY DEF CallStep

LEMMA StillClaims ==
    ASSUME gateSessions' = gateSessions, \A u \in Sessions : Held(u) => Held(u)'
    PROVE  \A u \in Sessions : ClaimStep(u)
BY DEF ClaimStep

LEMMA StillHeld ==
    ASSUME records' = records, ui' = ui, tasks \subseteq tasks' PROVE \A u \in Sessions : Held(u) => Held(u)'
BY DEF Held, Recordless

LEMMA StillAnnounced ==
    ASSUME ui' = ui, readiness' = readiness, gated' = gated PROVE AnnounceStep
BY DEF AnnounceStep

LEMMA StillAttaching ==
    ASSUME ui' = ui,
           \A c \in Uis, sc \in Scopes : Attaching(c) /\ scopes'[sc] = ui[c].session => scopes[sc] = ui[c].session
    PROVE  \A c \in Uis : AttachStep(c)
BY DEF AttachStep, Attaching

(* The session of a removed launch claims nothing afterwards.              *)
LEMMA RemoveReady ==
    ASSUME BookInv, BookInv', CaptureInv, RecordInv, ReadyInv,
           NEW T \in SUBSET Tokens, GRemove(T), \A t \in T : Live(t),
           \A t \in Tokens : pendingSessions'[t] = IF t \in T THEN None ELSE pendingSessions[t],
           \A u \in Sessions : Held(u) => Held(u)' \/ \E t \in T : pendingSessions[t] = u
    PROVE  /\ ScopeFrom /\ GuestFrom /\ ReservedStep
           /\ \A u \in Sessions : ClaimStep(u)
           /\ \A t \in T, u \in Sessions : pendingSessions[t] = u => ~Reserved(u)'
           /\ \A sc \in Scopes, u \in Sessions : scopes'[sc] = u => scopes[sc] = u
<1>1. \A sc \in Scopes, u \in Sessions : scopes'[sc] = u => scopes[sc] = u
    BY GateAssumption DEF GRemove
<1>2. ReservedStep /\ GuestFrom
    BY RemoveSame, SameReserved
<1>3. ASSUME NEW t \in T, NEW u \in Sessions, pendingSessions[t] = u
      PROVE  ~Reserved(u)' /\ ClaimStep(u)
    <2>1. \A x \in Tokens : pendingSessions'[x] # u
        BY <1>3, GateAssumption DEF CaptureInv, OneToken
    <2>2. \A sc \in Scopes : scopes'[sc] # u
        BY <1>1, <1>3, GateAssumption DEF RecordInv, OwnsOnce
    <2>3. \A x \in Tokens, sc \in Scopes : ~Guest(x, u, sc)'
        BY <2>1, GateAssumption DEF Guest, BookInv, LaunchBookAgrees
    <2> QED
        BY <2>1, <2>2, <2>3 DEF Reserved, ClaimStep
<1>4. ASSUME NEW u \in Sessions, \A t \in T : pendingSessions[t] # u PROVE ClaimStep(u)
    <2>1. \A t \in T : pending[t].ui # u
        BY <1>4, PendingSession, GateAssumption
    <2>2. gateSessions'[u] = gateSessions[u]
        BY <2>1 DEF GRemove
    <2> QED
        BY <1>4, <2>2 DEF ClaimStep
<1> QED
    BY <1>1, <1>2, <1>3, <1>4 DEF ScopeFrom

LEMMA AbortReady ==
    ASSUME BookInv, BookInv', CaptureInv, RecordInv, ReadyInv, NEW t \in Tokens, NEW who, AbortLaunch(t, who),
           records' = records, \A c \in Uis : Recordless(c) => ui'[c] = ui[c]
    PROVE  /\ ScopeFrom /\ GuestFrom /\ ReservedStep /\ minted' = minted /\ gated' = gated
           /\ \A u \in Sessions : ClaimStep(u)
           /\ \A k \in tasks' : k.step # "finish" => CallStep(k)
           /\ \A sc \in Scopes, u \in Sessions : scopes'[sc] = u => scopes[sc] = u
<1> DEFINE l == Teardown(who, pendingSessions[t], LeasedPane(t))
<1>1. l.sess = pendingSessions[t]
    BY DEF Teardown
<1>2. /\ GRemove({t}) /\ Live(t) /\ minted' = minted /\ gated' = gated /\ tasks' = tasks \cup {l}
    BY DEF AbortLaunch, GAbort
<1> HIDE DEF l
<1>3. \A x \in Tokens : pendingSessions'[x] = IF x \in {t} THEN None ELSE pendingSessions[x]
    BY TableTypes DEF AbortLaunch
<1>4. \A u \in Sessions : Held(u) => Held(u)'
    BY <1>2 DEF Held, Recordless
<1>5. /\ ScopeFrom /\ GuestFrom /\ ReservedStep
      /\ \A u \in Sessions : ClaimStep(u)
      /\ \A u \in Sessions : pendingSessions[t] = u => ~Reserved(u)'
      /\ \A sc \in Scopes, u \in Sessions : scopes'[sc] = u => scopes[sc] = u
    BY <1>2, <1>3, <1>4, RemoveReady
<1>6. pendingSessions[t] \in Sessions
    BY <1>2, PendingSession
<1>7. ASSUME NEW k \in tasks', k.step # "finish" PROVE CallStep(k)
    <2>1. CASE k \in tasks
        BY <1>7, <2>1 DEF CallStep
    <2>2. CASE k = l
        <3>1. \A x \in Tokens : pendingSessions'[x] # l.sess
            BY <1>1, <1>5, <1>6 DEF Reserved
        <3> QED
            BY <2>2, <3>1 DEF CallStep
    <2> QED
        BY <1>2, <2>1, <2>2
<1> QED
    BY <1>2, <1>5, <1>7

LEMMA PromoteReady ==
    ASSUME BookInv, BookInv', CaptureInv, RecordInv, ReadyInv, NEW t \in Tokens, Live(t), Promote(t),
           pendingSessions' = [pendingSessions EXCEPT ![t] = None],
           pending[t].ui = pendingSessions[t], \A u \in Sessions : Held(u) => Held(u)'
    PROVE  /\ ScopeFrom /\ GuestFrom /\ ReservedStep
           /\ \A u \in Sessions : ClaimStep(u)
           /\ pendingSessions[t] \in minted /\ \A u \in Sessions : u = pendingSessions[t] => ~Reserved(u)'
           /\ \A sc \in Scopes, u \in Sessions : scopes'[sc] = u /\ u # pendingSessions[t] => scopes[sc] = u
<1>1. /\ pendingSessions[t] \in Sessions /\ pending[t].scope \in Scopes
    BY PendingSession DEF Launch
<1>2. \A sc \in Scopes : scopes'[sc] = IF sc = pending[t].scope THEN pendingSessions[t] ELSE scopes[sc]
    BY <1>1 DEF Promote, BookInv, TypeOK, GateTypeOK
<1>3. \A x \in Tokens : pendingSessions'[x] = IF x = t THEN None ELSE pendingSessions[x]
    BY TableTypes
<1>4. \A x \in Tokens : pending'[x] = IF x = t THEN None ELSE pending[x]
    BY DEF Promote, BookInv, TypeOK, GateTypeOK
<1>5. ReservedStep /\ GuestFrom
    <2>1. \A x \in Tokens : SameLaunch(x)
        BY <1>4 DEF SameLaunch, Live
    <2> QED
        BY <1>3, <2>1, SameReserved
<1>6. ScopeFrom
    <2> SUFFICES ASSUME NEW u \in Sessions, NEW sc \in Scopes, scopes'[sc] = u, scopes[sc] # u
                 PROVE  Guest(t, u, sc)
        BY DEF ScopeFrom
    <2> QED
        BY <1>2 DEF Guest
<1>7. \A u \in Sessions : ClaimStep(u)
    BY StillClaims DEF Promote
<1>8. pendingSessions[t] \in minted
    BY <1>1 DEF CaptureInv, Fresh
<1>9. \A u \in Sessions : u = pendingSessions[t] => ~Reserved(u)'
    BY <1>1, <1>3, GateAssumption DEF Reserved, CaptureInv, OneToken
<1> QED
    BY <1>2, <1>5, <1>6, <1>7, <1>8, <1>9

-----------------------------------------------------------------------------
(* The steps.                                                               *)

LEMMA LauncherReady ==
    ASSUME BookInv, BookInv', CaptureInv, RecordInv, ReadyInv, NEW t \in Tokens,
           \/ LaunchPrepared(t) \/ LauncherFails(t) \/ RegisterHost(t) \/ RegisterBind(t)
           \/ Abort(t) \/ LauncherDisconnect(t) \/ \E p \in Panes : Register(t, p) \/ Commit(t, p)
    PROVE  ReadyInv'
<1> USE DEF book, sessionVars, daemons
<1>1. /\ records' = records /\ readiness' = readiness /\ ui' = ui
      /\ monitor' = monitor /\ drain' = drain /\ sealed' = sealed
    BY DEF LaunchPrepared, LauncherFails, RegisterHost, RegisterBind, Abort, LauncherDisconnect,
           Register, Commit
<1>u. \A c \in Uis : Attaching(c) => ui[c].session \in Sessions
    BY UiFacts DEF BookInv, Attaching
<1>2. ASSUME AbortLaunch(t, t) PROVE ReadyInv'
    <2>1. /\ ScopeFrom /\ GuestFrom /\ ReservedStep /\ minted' = minted /\ gated' = gated
          /\ \A u \in Sessions : ClaimStep(u)
          /\ \A k \in tasks' : k.step # "finish" => CallStep(k)
          /\ \A sc \in Scopes, u \in Sessions : scopes'[sc] = u => scopes[sc] = u
        BY <1>1, <1>2, AbortReady
    <2>2. (\A c \in Uis : AttachStep(c)) /\ AnnounceStep
        BY <1>1, <1>u, <2>1, StillAttaching, StillAnnounced
    <2> QED
        BY <1>1, <2>1, <2>2, QuietReady
<1>3. ASSUME scopes' = scopes, gateSessions' = gateSessions, pendingSessions' = pendingSessions,
             gated' = gated, minted' = minted, tasks' = tasks, \A x \in Tokens : SameLaunch(x)
      PROVE  ReadyInv'
    <2>1. ScopeFrom /\ GuestFrom /\ ReservedStep
        BY <1>3, StillScopes, SameReserved
    <2>2. (\A u \in Sessions : ClaimStep(u)) /\ \A k \in tasks' : k.step # "finish" => CallStep(k)
        BY <1>1, <1>3, StillHeld, StillClaims, StillCalls
    <2>3. (\A c \in Uis : AttachStep(c)) /\ AnnounceStep
        BY <1>1, <1>3, StillAttaching, StillAnnounced
    <2> QED
        BY <1>1, <1>3, <2>1, <2>2, <2>3, QuietReady
<1>4. CASE Abort(t) \/ LauncherDisconnect(t)
    <2>1. ASSUME UNCHANGED <<gateVars, book, tasks>> PROVE ReadyInv'
        BY <1>3, <2>1, StillSame DEF gateVars
    <2> QED
        BY <1>2, <1>4, <2>1 DEF Abort, LauncherDisconnect
<1>5. CASE \/ LaunchPrepared(t) \/ LauncherFails(t) \/ RegisterHost(t) \/ RegisterBind(t)
           \/ \E p \in Panes : Register(t, p)
    <2>1. /\ tasks' = tasks /\ minted' = minted /\ pendingSessions' = pendingSessions
          /\ scopes' = scopes /\ gateSessions' = gateSessions /\ gated' = gated
        BY <1>5 DEF LaunchPrepared, LauncherFails, RegisterHost, RegisterBind, Register, gateVars,
               GRegister, GBindLease
    <2>2. \A x \in Tokens : SameLaunch(x)
        <3>1. CASE RegisterBind(t)
            BY <3>1, StillSame, BindSame DEF RegisterBind, gateVars
        <3>2. CASE \E p \in Panes : Register(t, p)
            BY <3>2, RegisterSame DEF Register
        <3> QED
            BY <1>5, <3>1, <3>2, StillSame DEF LaunchPrepared, LauncherFails, RegisterHost, gateVars
    <2> QED
        BY <1>3, <2>1, <2>2
<1>6. ASSUME NEW p \in Panes, Commit(t, p) PROVE ReadyInv'
    <2>1. tasks' = tasks /\ minted' = minted
        BY <1>6 DEF Commit
    <2>2. CASE Promoted(t)
        <3>1. Live(t) /\ pending[t].published /\ Promote(t) /\ pending[t].ui = pendingSessions[t]
            BY <1>6, <2>2, PromotedByCommit DEF Commit
        <3>2. /\ pendingSessions' = [pendingSessions EXCEPT ![t] = None]
              /\ gated' = [gated EXCEPT ![t] = [session |-> pending[t].ui, lease |-> pending[t].lease]]
            BY <1>6, <2>2 DEF Commit, BookPromotion
        <3>3. /\ ScopeFrom /\ GuestFrom /\ ReservedStep
              /\ \A u \in Sessions : ClaimStep(u)
              /\ pendingSessions[t] \in minted /\ \A u \in Sessions : u = pendingSessions[t] => ~Reserved(u)'
              /\ \A sc \in Scopes, u \in Sessions : scopes'[sc] = u /\ u # pendingSessions[t] => scopes[sc] = u
            BY <1>1, <2>1, <3>1, <3>2, StillHeld, PromoteReady
        <3>4. \A c \in Uis : AttachStep(c)
            <4>1. \A c \in Uis : Attaching(c) => ui[c].session # pendingSessions[t]
                BY <3>1 DEF CaptureInv, OwnToken
            <4> QED
                BY <1>1, <1>u, <3>3, <4>1, StillAttaching
        <3>5. AnnounceStep
            <4>1. /\ gated'[t].session = pendingSessions[t]
                  /\ \A x \in Tokens : x # t => gated'[x] = gated[x]
                BY <3>1, <3>2, TableTypes
            <4> QED
                BY <1>1, <3>3, <4>1 DEF AnnounceStep
        <3> QED
            BY <1>1, <2>1, <3>3, <3>4, <3>5, StillCalls, QuietReady
    <2>3. CASE ~Promoted(t)
        <3>1. pendingSessions' = pendingSessions /\ gated' = gated
            BY <1>6, <2>3 DEF Commit, BookPromotion
        <3>2. scopes' = scopes /\ gateSessions' = gateSessions
            BY <1>6, <2>3 DEF Commit, GCommit, Promote, Promoted, BookInv, TypeOK, GateTypeOK
        <3>3. \A x \in Tokens : SameLaunch(x)
            BY <1>6, CommitSame DEF Commit
        <3> QED
            BY <1>3, <2>1, <3>1, <3>2, <3>3
    <2> QED
        BY <2>2, <2>3
<1> QED
    BY <1>4, <1>5, <1>6

LEMMA PrepareReady ==
    ASSUME BookInv, BookInv', CaptureInv, RecordInv, ReadyInv, NEW t \in Tokens, NEW sc \in Scopes, Prepare(t, sc)
    PROVE  ReadyInv'
<1> USE DEF sessionVars, daemons
<1>1. /\ records' = records /\ readiness' = readiness /\ ui' = ui /\ gated' = gated
      /\ monitor' = monitor /\ drain' = drain /\ sealed' = sealed /\ gateSessions' = gateSessions
      /\ tasks \subseteq tasks'
    BY DEF Prepare, GPrepare
<1>2. PICK u \in Sessions \ minted :
          /\ minted' = minted \cup {u}
          /\ pendingSessions' = [x \in Tokens |-> IF x = t THEN u ELSE IF x = scopes[sc] THEN None
                                                  ELSE pendingSessions[x]]
    BY DEF Prepare
<1>3. \A s \in Scopes : scopes'[s] = IF s = sc THEN t ELSE scopes[s]
    BY DEF Prepare, GPrepare, BookInv, TypeOK, GateTypeOK
<1>4. \A x \in Tokens : pending'[x] = IF x = t THEN NewLaunch(sc) ELSE IF x = scopes[sc] THEN None ELSE pending[x]
    BY DEF Prepare, GPrepare
<1>5. \A v \in Sessions, s \in Scopes : scopes'[s] = v => scopes[s] = v
    BY <1>3, GateAssumption
<1>6. GuestFrom
    <2> SUFFICES ASSUME NEW x \in Tokens, NEW v \in Sessions, NEW s \in Scopes, Guest(x, v, s)'
                 PROVE  Guest(x, v, s)
        BY DEF GuestFrom
    <2>1. x # t
        BY <1>4, GateAssumption DEF Guest, NewLaunch
    <2> QED
        BY <1>4, <2>1 DEF Guest, Live
<1>7. ReservedStep
    BY <1>2, <1>4 DEF ReservedStep
<1>8. ASSUME NEW k \in tasks', k.step # "finish" PROVE CallStep(k)
    <2>1. ASSUME NEW v \in Sessions, v = k.sess, OwnsIn(v, sc) PROVE CallStep(k)
        <3>1. v \in minted
            BY <2>1 DEF OwnsIn, CaptureInv, Fresh, RecordInv, FreshScope, Unlisted
        <3>2. \A x \in Tokens : pendingSessions'[x] = v => pendingSessions[x] = v /\ x # scopes[sc]
            BY <1>2, <3>1, GateAssumption
        <3>3. \A x \in Tokens : pendingSessions[x] = v => x = scopes[sc]
            BY <2>1, GateAssumption DEF OwnsIn, CaptureInv, OneToken, RecordInv, OwnsOnce
        <3> QED
            BY <2>1, <3>2, <3>3 DEF CallStep
    <2>2. CASE k \in tasks
        BY <1>8, <2>2 DEF CallStep
    <2>3. ASSUME scopes[sc] \in Tokens, k = Teardown(t, pendingSessions[scopes[sc]], LeasedPane(scopes[sc]))
          PROVE  CallStep(k)
        <3>1. k.sess = pendingSessions[scopes[sc]]
            BY <2>3 DEF Teardown
        <3>2. k.sess \in Sessions
            BY <2>3, <3>1, PendingSession DEF BookInv, PendingOwnsScope
        <3> QED
            BY <2>1, <2>3, <3>1, <3>2 DEF OwnsIn
    <2>4. ASSUME scopes[sc] \in Sessions, k = Teardown(t, scopes[sc], None) PROVE CallStep(k)
        <3>1. k.sess = scopes[sc]
            BY <2>4 DEF Teardown
        <3> QED
            BY <2>1, <2>4, <3>1 DEF OwnsIn
    <2> QED
        BY <2>2, <2>3, <2>4 DEF Prepare
<1>9. /\ ScopeFrom /\ (\A v \in Sessions : ClaimStep(v)) /\ (\A c \in Uis : AttachStep(c)) /\ AnnounceStep
    <2>1. \A c \in Uis : Attaching(c) => ui[c].session \in Sessions
        BY UiFacts DEF BookInv, Attaching
    <2> QED
        BY <1>1, <1>5, <2>1, StillHeld, StillClaims, StillAttaching, StillAnnounced DEF ScopeFrom
<1> QED
    BY <1>1, <1>2, <1>6, <1>7, <1>8, <1>9, QuietReady

LEMMA ExpireReady ==
    ASSUME BookInv, BookInv', CaptureInv, RecordInv, ReadyInv, NEW T \in SUBSET Tokens, Expire(T)
    PROVE  ReadyInv'
<1> USE DEF sessionVars, handlers, daemons
<1>1. /\ records' = records /\ readiness' = readiness /\ ui' = ui /\ gated' = gated /\ minted' = minted
      /\ monitor' = monitor /\ drain' = drain /\ sealed' = sealed /\ tasks \subseteq tasks'
    BY DEF Expire
<1>2. /\ GRemove(T) /\ (\A t \in T : Live(t))
      /\ \A t \in Tokens : pendingSessions'[t] = IF t \in T THEN None ELSE pendingSessions[t]
    BY DEF Expire, GExpire
<1>3. /\ ScopeFrom /\ GuestFrom /\ ReservedStep
      /\ \A u \in Sessions : ClaimStep(u)
      /\ \A t \in T, u \in Sessions : pendingSessions[t] = u => ~Reserved(u)'
      /\ \A sc \in Scopes, u \in Sessions : scopes'[sc] = u => scopes[sc] = u
    BY <1>1, <1>2, StillHeld, RemoveReady
<1>4. ASSUME NEW k \in tasks', k.step # "finish" PROVE CallStep(k)
    <2>1. CASE k \in tasks
        BY <1>4, <2>1 DEF CallStep
    <2>2. ASSUME NEW t \in T, k = Teardown("expiry", pendingSessions[t], LeasedPane(t)) PROVE CallStep(k)
        <3>1. k.sess = pendingSessions[t]
            BY <2>2 DEF Teardown
        <3>2. k.sess \in Sessions
            BY <1>2, <3>1, PendingSession
        <3>3. \A x \in Tokens : pendingSessions'[x] # k.sess
            BY <1>3, <3>1, <3>2 DEF Reserved
        <3> QED
            BY <3>3 DEF CallStep
    <2> QED
        BY <2>1, <2>2 DEF Expire
<1>5. (\A c \in Uis : AttachStep(c)) /\ AnnounceStep
    <2>1. \A c \in Uis : Attaching(c) => ui[c].session \in Sessions
        BY UiFacts DEF BookInv, Attaching
    <2> QED
        BY <1>1, <1>3, <2>1, StillAttaching, StillAnnounced
<1> QED
    BY <1>1, <1>3, <1>4, <1>5, QuietReady

LEMMA SessionReady ==
    ASSUME BookInv, BookInv', CaptureInv, RecordInv, ReadyInv, ~SlowConsumers, SessionNext
    PROVE  ReadyInv'
<1> USE DEF book, sessionVars, handlers, daemons
<1>0. PICK u \in Sessions :
          \/ CaptureLookup(u) \/ CaptureHost(u) \/ CaptureStore(u)
          \/ AttachedResponse(u) \/ AnnounceReady(u) \/ TailFailed(u)
          \/ CaptureLost(u) \/ UnhealthyDetach(u) \/ CaptureReleased(u)
    BY DEF SessionNext, SlowConsumer, DrainDetach, ReadyInv, Calm
<1>1. /\ minted' = minted /\ pendingSessions' = pendingSessions /\ pending' = pending /\ gated' = gated
      /\ scopes' = scopes /\ gateSessions' = gateSessions /\ drain' = drain /\ sealed' = sealed
    BY <1>0, SessionGate DEF gateVars, CaptureLookup, CaptureHost, CaptureStore,
       AttachedResponse, AnnounceReady, TailFailed, CaptureLost, UnhealthyDetach, CaptureReleased
<1>2. \A c \in Uis : \/ ui'[c] = ui[c]
                     \/ ui[c].pc = "capture" /\ ui'[c].pc \in {"confirm", "idle"} /\ ui'[c].session = ui[c].session
    BY SessionUi DEF BookInv
<1>3. ScopeFrom /\ GuestFrom /\ ReservedStep
    BY <1>1, StillScopes, StillSame, SameReserved
<1>e. \A v \in Sessions : tail[v] # "none" => ~Reserved(v)
    BY DEF CaptureInv, EarlyClean, Early, Reserved
<1>r. ASSUME NEW v \in Sessions, ~Reserved(v) PROVE v \in Sessions /\ ~Reserved(v)'
    BY <1>1, <1>r DEF Reserved
<1>4. tasks \subseteq tasks'
    BY <1>0 DEF CaptureLookup, CaptureHost, CaptureStore, AttachedResponse, AnnounceReady, TailFailed,
       CaptureLost, UnhealthyDetach, CaptureReleased, TailFails
<1>5. \A v \in Sessions : records[v] # None => records'[v] # None
    <2>1. CASE CaptureStore(u) /\ records[u] # None
        <3>1. records[u] \in Record /\ records' = [records EXCEPT ![u] = [records[u] EXCEPT !.captured = TRUE]]
            BY <2>1, TableTypes DEF CaptureStore
        <3>2. [records[u] EXCEPT !.captured = TRUE] \in Record
            BY <3>1 DEF Record
        <3> QED
            BY <3>1, <3>2, TableTypes, NoneAssumption
    <2> QED
        BY <1>0, <2>1 DEF CaptureLookup, CaptureHost, CaptureStore, AttachedResponse, AnnounceReady,
           TailFailed, CaptureLost, UnhealthyDetach, CaptureReleased
<1>6. \A v \in Sessions : ClaimStep(v)
    <2>1. \A c \in Uis : Recordless(c) => Recordless(c)' /\ ui'[c].session = ui[c].session
        BY <1>2 DEF Recordless
    <2>2. \A v \in Sessions : Held(v) => Held(v)'
        BY <1>4, <1>5, <2>1 DEF Held
    <2> QED
        BY <1>1, <2>2, StillClaims
<1>7. \A c \in Uis : AttachStep(c)
    BY <1>1, <1>2 DEF AttachStep, Attaching
<1>8. AnnounceStep
    <2>1. ASSUME NEW c \in Uis, ui'[c].pc \in {"confirm", "attached"}, NEW v \in Sessions, ui'[c].session = v,
                 ui'[c] # ui[c]
          PROVE  ~Reserved(v)'
        <3>0. ~TailFailed(u)
            <4>1. [ui[c] EXCEPT !.pc = "idle"].pc = "idle"
                BY DEF BookInv, UisKnow, KnownUi, UiConn
            <4> QED
                BY <2>1, <4>1 DEF TailFailed
        <3>1. AttachedResponse(u) /\ AttachRuns(c, u)
            <4>1. AttachedResponse(u) \/ ui' = ui
                BY <1>0, <3>0 DEF CaptureLookup, CaptureHost, CaptureStore, AnnounceReady,
                   CaptureLost, UnhealthyDetach, CaptureReleased
            <4> QED
                BY <2>1, <4>1 DEF AttachedResponse
        <3>2. v = u /\ tail[u] = "respond"
            BY <1>2, <2>1, <3>1 DEF AttachRuns, AttachedResponse
        <3> QED
            BY <1>e, <1>r, <3>2
    <2>2. ASSUME NEW v \in Sessions, readiness'[v] = "ready", readiness[v] # "ready"
          PROVE  v \in minted /\ ~Reserved(v)'
        <3>1. AnnounceReady(u) /\ v = u
            BY <1>0, <2>2, TableTypes DEF CaptureLookup, CaptureHost, CaptureStore, AttachedResponse, AnnounceReady,
               TailFailed, CaptureLost, UnhealthyDetach, CaptureReleased
        <3>2. tail[v] # "none"
            BY <3>1 DEF AnnounceReady
        <3>3. v \in minted
            BY <3>2 DEF CaptureInv, Fresh, Unmet
        <3> QED
            BY <1>e, <1>r, <3>2, <3>3
    <2> QED
        BY <1>1, <2>1, <2>2 DEF AnnounceStep
<1>9. CASE UnhealthyDetach(u) \/ CaptureLost(u)
    <2>t. \A v : /\ Teardown("monitor", v, None).sess = v /\ Teardown("monitor", v, None).by = "monitor"
                 /\ Teardown("monitor", v, None).step = "unlink"
        BY DEF Teardown
    <2>m. /\ monitor'.scope = monitor.scope /\ monitor'.left \subseteq monitor.left
          /\ tasks' = tasks \cup {Teardown("monitor", u, None)}
          /\ \/ monitor.pc = "sessions" /\ monitor'.pc = "sessions" /\ u \in monitor.left
             \/ monitor.pc = "idle" /\ monitor'.pc = "lost" /\ monitor'.left = monitor.left
                  /\ records[u] # None /\ records[u].captured
        BY <1>9 DEF UnhealthyDetach, CaptureLost, BookInv, TypeOK
    <2>1. Calm' /\ MonitorRests' /\ MonitorStep /\ MonitorWorks
        BY <1>1, <2>m DEF ReadyInv, Calm, MonitorRests, MonitorStep, MonitorWorks
    <2>2. ASSUME NEW t \in Tokens, pendingSessions'[t] = u
          PROVE  monitor'.pc = "sessions" /\ monitor'.scope = pending'[t].scope
        <3>1. Early(u)
            BY <1>1, <2>2 DEF Early
        <3>2. monitor.pc = "sessions" /\ monitor'.pc = "sessions" /\ u \in monitor.left
            BY <2>m, <3>1 DEF CaptureInv, EarlyClean
        <3> QED
            BY <1>1, <2>m, <2>2, <3>2 DEF ReadyInv, ListedHere
    <2>3. ASSUME NEW k \in tasks', k.step # "finish" PROVE CallStep(k)
        <3>1. CASE k \in tasks
            BY <2>3, <3>1 DEF CallStep
        <3>2. CASE k = Teardown("monitor", u, None)
            BY <2>t, <2>2, <3>2 DEF CallStep
        <3> QED
            BY <2>m, <3>1, <3>2
    <2> QED
        BY <1>1, <1>3, <1>6, <1>7, <1>8, <2>m, <2>1, <2>3, ReadyParts
<1>10. CASE ~(UnhealthyDetach(u) \/ CaptureLost(u))
    <2>1. monitor' = monitor
        BY <1>0, <1>10 DEF CaptureLookup, CaptureHost, CaptureStore, AttachedResponse, AnnounceReady,
           TailFailed, CaptureReleased
    <2>2. tasks' = tasks \/ (tail[u] # "none" /\ TailFails(u))
        BY <1>0, <1>10 DEF CaptureLookup, CaptureHost, CaptureStore, AttachedResponse, AnnounceReady,
           TailFailed, CaptureReleased
    <2>3. ASSUME NEW k \in tasks', k.step # "finish" PROVE CallStep(k)
        <3>1. CASE k \in tasks
            BY <2>3, <3>1 DEF CallStep
        <3>2. ASSUME NEW who, k = Teardown(who, u, None), tail[u] # "none" PROVE CallStep(k)
            <4>1. k.sess = u
                BY <3>2 DEF Teardown
            <4>2. \A t \in Tokens : pendingSessions'[t] # u
                BY <1>e, <1>r, <3>2 DEF Reserved
            <4> QED
                BY <4>1, <4>2 DEF CallStep
        <3> QED
            BY <2>2, <3>1, <3>2 DEF TailFails
    <2> QED
        BY <1>1, <1>3, <1>6, <1>7, <1>8, <2>1, <2>3, QuietReady
<1> QED
    BY <1>9, <1>10

LEMMA TaskCallers ==
    ASSUME NEW k \in Task
    PROVE  \A h, p : [k EXCEPT !.step = "state", !.had = h, !.captured = p].by = k.by
BY SMT DEF Task

LEMMA TaskReady ==
    ASSUME BookInv, BookInv', CaptureInv, RecordInv, ReadyInv, TaskNext
    PROVE  ReadyInv'
<1> USE DEF book, sessionVars, handlers, daemons
<1>1. PICK k \in tasks : DetachUnlink(k) \/ DetachState(k) \/ DetachFinish(k)
    BY DEF TaskNext
<1>2. /\ minted' = minted /\ pendingSessions' = pendingSessions /\ pending' = pending
      /\ ui' = ui /\ monitor' = monitor /\ drain' = drain /\ sealed' = sealed
    BY <1>1 DEF DetachUnlink, DetachState, DetachFinish, GDetach, gateVars
<1>3. GuestFrom /\ ReservedStep
    BY <1>2, StillSame, SameReserved
<1>4. k \in Task /\ k.sess \in Sessions
    BY TableTypes DEF Task
<1>5. AnnounceStep
    <2>1. ASSUME NEW u \in Sessions, readiness'[u] = "ready" PROVE readiness[u] = "ready"
        BY <1>1, <2>1, TableTypes DEF DetachUnlink, DetachState, DetachFinish
    <2>2. \A t \in Tokens : gated'[t] \in {gated[t], None}
        BY <1>1 DEF DetachUnlink, DetachState, DetachFinish
    <2> QED
        BY <1>2, <2>1, <2>2 DEF AnnounceStep
<1>6. \A c \in Uis : AttachStep(c)
    <2>1. \A c \in Uis : Attaching(c) => ui[c].session \in Sessions
        BY UiFacts DEF BookInv, Attaching
    <2>2. \A sc \in Scopes, u \in Sessions : scopes'[sc] = u => scopes[sc] = u
        BY <1>1, GateAssumption DEF DetachUnlink, DetachState, DetachFinish, GDetach, gateVars
    <2> QED
        BY <1>2, <2>1, <2>2, StillAttaching
<1>7. ASSUME DetachUnlink(k) PROVE ReadyInv'
    <2>1. scopes' = scopes /\ gateSessions' = gateSessions /\ k.step = "unlink"
        BY <1>7 DEF DetachUnlink, gateVars
    <2>2. \A v \in Sessions : records'[v] = IF v = k.sess THEN None ELSE records[v]
        BY <1>7, TableTypes DEF DetachUnlink
    <2>3. PICK h, p : tasks' = (tasks \ {k}) \cup {[k EXCEPT !.step = "state", !.had = h, !.captured = p]}
        BY <1>7 DEF DetachUnlink
    <2>4. PICK l : tasks' = (tasks \ {k}) \cup {l} /\ l.sess = k.sess /\ l.step = "state" /\ l.by = k.by
        <3> DEFINE m == [k EXCEPT !.step = "state", !.had = h, !.captured = p]
        <3>1. m.sess = k.sess /\ m.step = "state" /\ m.by = k.by
            BY <1>4, TaskFields, TaskCallers
        <3>2. tasks' = (tasks \ {k}) \cup {m}
            BY <2>3
        <3> HIDE DEF m
        <3> QED
            BY <3>1, <3>2
    <2>5. \A v \in Sessions : Held(v) => Held(v)'
        <3>1. Held(k.sess)'
            BY <2>4 DEF Held
        <3>2. ASSUME NEW v \in Sessions, v # k.sess, Held(v) PROVE Held(v)'
            BY <1>2, <2>2, <2>4, <3>2 DEF Held, Recordless
        <3> QED
            BY <3>1, <3>2
    <2>6. \A q \in tasks' : q.step # "finish" => CallStep(q)
        BY <2>1, <2>4 DEF CallStep
    <2>7. ScopeFrom /\ \A v \in Sessions : ClaimStep(v)
        BY <2>1, <2>5, StillScopes, StillClaims
    <2> QED
        BY <1>2, <1>3, <1>5, <1>6, <2>6, <2>7, QuietReady
<1>8. ASSUME DetachState(k) PROVE ReadyInv'
    <2>1. GDetach(k.sess) /\ k.step = "state" /\ records' = records
             /\ tasks' = (tasks \ {k}) \cup {[k EXCEPT !.step = "finish"]}
        BY <1>8 DEF DetachState
    <2>2. PICK l : tasks' = (tasks \ {k}) \cup {l} /\ l.sess = k.sess /\ l.step = "finish"
        BY <1>4, <2>1, TaskFields
    <2>3. \A q \in tasks' : q.step # "finish" => CallStep(q)
        BY <2>1, <2>2 DEF CallStep
    <2>4. ScopeFrom
        BY <2>1, GateAssumption DEF ScopeFrom, GDetach
    <2>5. ASSUME NEW v \in Sessions, v # k.sess PROVE ClaimStep(v)
        <3>1. gateSessions'[v] = gateSessions[v]
            BY <2>1, <2>5 DEF GDetach, BookInv, TypeOK, GateTypeOK
        <3>2. Held(v) => Held(v)'
            BY <1>2, <2>1, <2>2, <2>5 DEF Held, Recordless
        <3> QED
            BY <3>1, <3>2 DEF ClaimStep
    <2>6. ASSUME NEW v \in Sessions, v = k.sess PROVE ClaimStep(v)
        <3>1. gateSessions'[v] = None /\ \A sc \in Scopes : scopes'[sc] = v => gateSessions[v] # sc
            BY <2>1, <2>6, GateAssumption DEF GDetach, BookInv, TypeOK, GateTypeOK
        <3>2. ASSUME NEW t \in Tokens, NEW sc \in Scopes, Guest(t, v, sc)'
              PROVE  monitor.pc = "sessions" /\ monitor.scope = sc
            <4>1. Live(t) /\ pending[t].ui = v /\ pending[t].scope = sc
                BY <1>2, <3>2 DEF Guest, Live
            <4>2. pendingSessions[t] = k.sess
                BY <2>6, <4>1, PendingSession, GateAssumption
            <4> QED
                BY <2>1, <4>1, <4>2 DEF ReadyInv, DetachedEarly
        <3> QED
            BY <3>1, <3>2 DEF ClaimStep
    <2> QED
        BY <1>2, <1>3, <1>5, <1>6, <2>3, <2>4, <2>5, <2>6, QuietReady
<1>9. ASSUME DetachFinish(k) PROVE ReadyInv'
    <2>1. /\ scopes' = scopes /\ gateSessions' = gateSessions /\ records' = records
          /\ k.step = "finish" /\ tasks' = tasks \ {k}
        BY <1>9 DEF DetachFinish, gateVars
    <2>2. \A v \in Sessions : Held(v) => Held(v)'
        BY <1>2, <2>1 DEF Held, Recordless
    <2>3. \A q \in tasks' : q.step # "finish" => CallStep(q)
        BY <2>1 DEF CallStep
    <2> QED
        BY <1>2, <1>3, <1>5, <1>6, <2>1, <2>2, <2>3, StillScopes, StillClaims, QuietReady
<1> QED
    BY <1>1, <1>7, <1>8, <1>9

(* A new list of sessions names the launches of the failed scope.          *)
LEMMA ListsOwnScope ==
    ASSUME BookInv, BookInv', CaptureInv, RecordInv, ReadyInv, NEW sc \in Scopes, ScopeUnhealthy(sc),
           pendingSessions' = pendingSessions, pending' = pending
    PROVE  ListedHere'
<1>1. /\ monitor.pc = "idle" /\ monitor'.scope = sc
      /\ monitor'.left = {u \in Sessions : records[u] # None /\ records[u].scope = sc}
    BY DEF ScopeUnhealthy
<1> SUFFICES ASSUME NEW t \in Tokens, pendingSessions[t] \in monitor'.left
             PROVE  pending[t].scope = sc
    BY <1>1 DEF ListedHere
<1>2. PICK u \in Sessions : u = pendingSessions[t] /\ records[u] # None /\ records[u].scope = sc
    BY <1>1
<1>3. OwnsIn(u, sc) \/ Taker(u)
    BY <1>2 DEF RecordInv, Owned
<1>4. CASE OwnsIn(u, sc)
    <2>1. scopes[sc] = t
        BY <1>2, <1>4, GateAssumption DEF OwnsIn, RecordInv, OwnsOnce, CaptureInv, OneToken
    <2> QED
        BY <2>1 DEF BookInv, PendingOwnsScope
<1>5. ASSUME NEW k \in tasks, k.sess = u, k.step = "unlink" PROVE pending[t].scope = sc
    BY <1>1, <1>2, <1>5 DEF ReadyInv, DetachedEarly
<1>6. ASSUME NEW c \in Uis, Attaching(c), ui[c].session = u PROVE pending[t].scope = sc
    BY <1>2, <1>6 DEF RecordInv, OneScope
<1>7. ~Listed(u) /\ drain.pc # "emptied"
    BY <1>1 DEF Listed, ReadyInv, Calm, RecordInv, MonitorLists
<1> QED
    BY <1>3, <1>4, <1>5, <1>6, <1>7 DEF Taker

LEMMA DaemonReady ==
    ASSUME BookInv, BookInv', CaptureInv, RecordInv, ReadyInv, MaxDrains = 0, DaemonNext
    PROVE  ReadyInv'
<1> USE DEF sessionVars, handlers, daemons
<1>0. \/ \E T \in SUBSET Tokens : Expire(T)
      \/ \E t \in Tokens : PaneClosed(t) \/ UnhealthyAbort(t)
      \/ \E sc \in Scopes : ScopeUnhealthy(sc)
      \/ CaptureLostHandled \/ UnhealthyTokens \/ UnhealthyRelease
    <2>1. drain.started \in 0..0 /\ drain.pc = "idle"
        BY DEF BookInv, TypeOK, ReadyInv, Calm
    <2> QED
        BY <2>1 DEF DaemonNext, DrainSeal, DrainFails, DrainGate, DrainSnapshot, DrainCleanup, DrainDone, Reopen
<1>1. ASSUME \/ \E t \in Tokens : PaneClosed(t) \/ UnhealthyAbort(t)
             \/ \E sc \in Scopes : ScopeUnhealthy(sc)
             \/ CaptureLostHandled \/ UnhealthyTokens \/ UnhealthyRelease
      PROVE  /\ records' = records /\ readiness' = readiness /\ ui' = ui /\ minted' = minted
             /\ drain' = drain /\ sealed' = sealed /\ gated' = gated
             /\ Calm' /\ AnnounceStep
    <2>1. /\ records' = records /\ readiness' = readiness /\ ui' = ui /\ minted' = minted
          /\ drain' = drain /\ sealed' = sealed /\ gated' = gated
        BY <1>1 DEF PaneClosed, UnhealthyAbort, AbortLaunch, ScopeUnhealthy, CaptureLostHandled,
               UnhealthyTokens, UnhealthyRelease, book
    <2> QED
        BY <2>1, StillAnnounced DEF ReadyInv, Calm
<1>t. \A t \in Tokens : t \notin Sessions
    BY GateAssumption
<1>u. \A c \in Uis : Attaching(c) => ui[c].session \in Sessions
    BY UiFacts DEF BookInv, Attaching
(* Nothing but the monitor moves.                                           *)
<1>2. ASSUME gateVars' = gateVars, pendingSessions' = pendingSessions, tasks' = tasks, records' = records, ui' = ui
      PROVE  /\ ScopeFrom /\ GuestFrom /\ ReservedStep
             /\ (\A u \in Sessions : ClaimStep(u)) /\ (\A c \in Uis : AttachStep(c))
             /\ \A k \in tasks' : k.step # "finish" => CallStep(k)
             /\ pending' = pending /\ scopes' = scopes /\ gateSessions' = gateSessions
    <2>1. pending' = pending /\ scopes' = scopes /\ gateSessions' = gateSessions
        BY <1>2 DEF gateVars
    <2> QED
        BY <1>2, <2>1, StillScopes, StillSame, SameReserved, StillHeld, StillClaims, StillCalls, StillAttaching
<1>3. ASSUME NEW t \in Tokens, PaneClosed(t) PROVE ReadyInv'
    <2>1. UNCHANGED <<gateVars, pendingSessions, tasks, records, ui, monitor>>
        BY <1>3 DEF PaneClosed, book
    <2> QED
        BY <1>1, <1>2, <1>3, <2>1, QuietReady
<1>4. ASSUME NEW sc \in Scopes, ScopeUnhealthy(sc) PROVE ReadyInv'
    <2>1. UNCHANGED <<gateVars, pendingSessions, tasks, records, ui>>
        BY <1>4 DEF ScopeUnhealthy, book
    <2>2. monitor.pc = "idle" /\ monitor.scope = None /\ monitor'.pc = "sessions"
        BY <1>4 DEF ScopeUnhealthy, ReadyInv, MonitorRests
    <2>3. MonitorRests' /\ MonitorStep /\ MonitorWorks
        BY <2>2, GateAssumption DEF MonitorRests, MonitorStep, MonitorWorks
    <2>4. ListedHere'
        BY <1>2, <1>4, <2>1, ListsOwnScope
    <2> QED
        BY <1>1, <1>2, <1>4, <2>1, <2>3, <2>4, KeepsOwners, KeepsDetached, KeepsAttaching, KeepsAnnounced DEF ReadyInv
<1>5. ASSUME CaptureLostHandled PROVE ReadyInv'
    <2>1. UNCHANGED <<gateVars, pendingSessions, tasks, records, ui>>
        BY <1>5 DEF CaptureLostHandled, book
    <2>2. /\ monitor.pc = "lost" /\ monitor'.pc = "idle" /\ monitor'.scope = monitor.scope
          /\ monitor'.left = monitor.left
        BY <1>5 DEF CaptureLostHandled, BookInv, TypeOK
    <2>3. MonitorRests' /\ MonitorStep /\ MonitorWorks
        BY <2>2 DEF ReadyInv, MonitorRests, MonitorStep, MonitorWorks
    <2> QED
        BY <1>1, <1>2, <1>5, <2>1, <2>2, <2>3, ReadyParts
<1>6. ASSUME UnhealthyTokens PROVE ReadyInv'
    <2>1. UNCHANGED <<gateVars, pendingSessions, tasks, records, ui>>
        BY <1>6 DEF UnhealthyTokens, book
    <2>2. /\ monitor.pc = "sessions" /\ monitor'.pc = "tokens" /\ monitor'.scope = monitor.scope
          /\ monitor'.left = PendingIn(monitor.scope) /\ ~Busy("monitor")
        BY <1>6 DEF UnhealthyTokens, BookInv, TypeOK
    <2>3. MonitorRests' /\ MonitorStep /\ MonitorWorks
        BY <1>2, <2>1, <2>2 DEF MonitorRests, MonitorStep, MonitorWorks, Guest, PendingIn, Live
    <2>4. \A u \in Sessions : u \notin monitor'.left
        BY <1>t, <2>2 DEF PendingIn
    <2> QED
        BY <1>1, <1>2, <1>6, <2>1, <2>3, <2>4, ReadyParts
<1>7. ASSUME UnhealthyRelease PROVE ReadyInv'
    <2>1. /\ monitor.pc = "tokens" /\ monitor'.pc = "idle" /\ monitor'.scope = None /\ monitor.left = {}
          /\ monitor'.left = {} /\ GReleaseDangling(monitor.scope) /\ monitor.scope \in Scopes
          /\ pendingSessions' = pendingSessions /\ tasks' = tasks
        BY <1>7 DEF UnhealthyRelease, BookInv, TypeOK, MonitorKnows, book
    <2>2. pending' = pending /\ gateSessions' = gateSessions
        BY <2>1 DEF GReleaseDangling
    <2>3. \A sc \in Scopes : scopes'[sc] = IF sc = monitor.scope /\ Dangling(sc) THEN None ELSE scopes[sc]
        BY <2>1 DEF GReleaseDangling, BookInv, TypeOK, GateTypeOK
    <2>4. \A sc \in Scopes, u \in Sessions : scopes'[sc] = u => scopes[sc] = u
        BY <2>3, GateAssumption
    <2>5. MonitorRests' /\ MonitorStep /\ MonitorWorks
        BY <2>1, <2>2, <2>3, GateAssumption DEF MonitorRests, MonitorStep, MonitorWorks, Dangling
    <2>6. /\ ScopeFrom /\ GuestFrom /\ ReservedStep
          /\ (\A u \in Sessions : ClaimStep(u)) /\ (\A c \in Uis : AttachStep(c))
          /\ \A k \in tasks' : k.step # "finish" => CallStep(k)
        <3>1. ScopeFrom
            BY <2>4 DEF ScopeFrom
        <3>2. GuestFrom /\ ReservedStep
            BY <2>1, <2>2, StillSame, SameReserved
        <3> QED
            BY <1>1, <1>7, <1>u, <2>1, <2>2, <2>4, <3>1, <3>2, StillHeld, StillClaims, StillCalls, StillAttaching
    <2> QED
        BY <1>1, <1>7, <2>1, <2>5, <2>6, ReadyParts
<1>8. ASSUME NEW t \in Tokens, UnhealthyAbort(t) PROVE ReadyInv'
    <2>1. /\ monitor.pc = "tokens" /\ monitor'.pc = "tokens" /\ monitor'.left = monitor.left \ {t}
          /\ monitor'.scope = monitor.scope
        BY <1>8 DEF UnhealthyAbort, BookInv, TypeOK
    <2>2. MonitorRests' /\ MonitorWorks
        BY <2>1 DEF MonitorRests, MonitorWorks
    <2>3. ASSUME ~Live(t)' PROVE MonitorStep
        BY <2>1, <2>3 DEF MonitorStep, Guest
    <2>4. CASE Live(t)
        <3>1. AbortLaunch(t, "monitor")
            BY <1>8, <2>4 DEF UnhealthyAbort
        <3>2. ~Live(t)'
            BY <3>1 DEF AbortLaunch, GAbort, GRemove, Live
        <3>3. /\ ScopeFrom /\ GuestFrom /\ ReservedStep /\ minted' = minted /\ gated' = gated
              /\ \A u \in Sessions : ClaimStep(u)
              /\ \A k \in tasks' : k.step # "finish" => CallStep(k)
              /\ \A sc \in Scopes, u \in Sessions : scopes'[sc] = u => scopes[sc] = u
            BY <1>1, <1>8, <3>1, AbortReady
        <3>4. \A c \in Uis : AttachStep(c)
            BY <1>1, <1>8, <1>u, <3>3, StillAttaching
        <3> QED
            BY <1>1, <1>8, <2>1, <2>2, <2>3, <3>2, <3>3, <3>4, ReadyParts
    <2>5. CASE ~Live(t)
        <3>1. UNCHANGED <<gateVars, pendingSessions, tasks, records, ui>>
            BY <1>8, <2>5 DEF UnhealthyAbort, book
        <3>2. ~Live(t)'
            BY <1>2, <2>5, <3>1 DEF Live
        <3> QED
            BY <1>1, <1>2, <1>8, <2>1, <2>2, <2>3, <3>1, <3>2, ReadyParts
    <2> QED
        BY <2>4, <2>5
<1> QED
    BY <1>0, <1>3, <1>4, <1>5, <1>6, <1>7, <1>8, ExpireReady

(* The session of an attachment that was refused claims nothing.           *)
LEMMA RefusedClaims ==
    ASSUME BookInv, CaptureInv, ReadyInv, pending' = pending, scopes' = scopes,
           NEW c \in Uis, Attaching(c), NEW u \in Sessions, u = ui[c].session,
           \A sc \in Scopes : scopes[sc] # u,
           \A t \in Tokens : ui[c].token = t => pendingSessions[t] # u
    PROVE  ClaimStep(u)
<1>1. ASSUME NEW t \in Tokens, NEW sc \in Scopes, Guest(t, u, sc)' PROVE FALSE
    <2>1. pendingSessions[t] = u
        BY <1>1, PendingSession, GateAssumption DEF Guest, Live
    <2> QED
        BY <2>1 DEF CaptureInv, OwnToken
<1> QED
    BY <1>1 DEF ClaimStep

LEMMA UiStillReady ==
    ASSUME BookInv, BookInv', CaptureInv, RecordInv, ReadyInv, NEW c \in Uis,
           \/ \E t \in Tokens : WaitPlacement(c, t)
           \/ PlacementAnswer(c) \/ OriginCaptured(c) \/ InsertRecord(c) \/ FinalizeDirect(c)
           \/ Withdraw(c) \/ Waiter(c) \/ Confirm(c)
    PROVE  ReadyInv'
<1> USE DEF book, sessionVars, daemons
<1>0. UisKnow /\ ui[c].session \in Sessions \cup {None}
    BY UiFacts DEF BookInv
<1>a. Attaching(c) => ui[c].session \in Sessions
    BY UiFacts DEF BookInv, Attaching
<1>1. /\ pending' = pending /\ scopes' = scopes /\ gateSessions' = gateSessions
      /\ pendingSessions' = pendingSessions /\ minted' = minted /\ tasks' = tasks
      /\ monitor' = monitor /\ drain' = drain /\ sealed' = sealed
    BY DEF WaitPlacement, PlacementAnswer, OriginCaptured, InsertRecord, FinalizeDirect, Withdraw,
           Waiter, Confirm, gateVars
<1>2. ASSUME \A d \in Uis \ {c} : ui'[d] = ui[d], AttachStep(c), AnnounceStep, \A u \in Sessions : ClaimStep(u)
      PROVE  ReadyInv'
    <2>1. ScopeFrom /\ GuestFrom /\ ReservedStep /\ \A k \in tasks' : k.step # "finish" => CallStep(k)
        BY <1>1, StillScopes, StillSame, SameReserved, StillCalls
    <2>2. ASSUME NEW d \in Uis, d # c PROVE AttachStep(d)
        BY <1>1, <1>2, <2>2 DEF AttachStep, Attaching
    <2> QED
        BY <1>1, <1>2, <2>1, <2>2, QuietReady
(* A step of the connection alone.                                          *)
<1>3. ASSUME \A d \in Uis \ {c} : ui'[d] = ui[d], AttachStep(c), Recordless(c) => Recordless(c)',
             ui'[c].session = ui[c].session, records' = records, readiness' = readiness, gated' = gated,
             ui'[c].pc \in {"confirm", "attached"} => ui[c].pc \in {"confirm", "attached"} \/ ~Reserved(ui[c].session)
      PROVE  ReadyInv'
    <2>1. \A u \in Sessions : Held(u) => Held(u)'
        BY <1>1, <1>3 DEF Held, Recordless
    <2>2. AnnounceStep
        BY <1>1, <1>3 DEF AnnounceStep, Reserved
    <2> QED
        BY <1>1, <1>2, <1>3, <2>1, <2>2, StillClaims
<1>4. ASSUME NEW t \in Tokens, WaitPlacement(c, t) PROVE ReadyInv'
    <2>1. /\ ui'[c].pc = "placing" /\ ui'[c].session = ui[c].session /\ \A d \in Uis \ {c} : ui'[d] = ui[d]
          /\ ui[c].pc = "idle"
        BY <1>0, <1>4, WaitPlacementFrame DEF WaitPlacement
    <2> QED
        BY <1>3, <1>4, <2>1 DEF WaitPlacement, AttachStep, Attaching, Recordless
<1>5. ASSUME PlacementAnswer(c) \/ Waiter(c) PROVE ReadyInv'
    <2>1. PICK pc \in {"idle", "closed", "confirm"} :
              GoUi(c, pc) /\ (pc = "confirm" => ui[c].pc = "waiting" /\ readiness[ui[c].session] = "ready")
        BY <1>5 DEF PlacementAnswer, Waiter
    <2>2. /\ ui[c].pc \in {"placing", "waiting"} /\ records' = records /\ readiness' = readiness /\ gated' = gated
        BY <1>5 DEF PlacementAnswer, Waiter
    <2>3. ui'[c].pc = pc /\ ui'[c].session = ui[c].session /\ \A d \in Uis \ {c} : ui'[d] = ui[d]
        BY <1>0, <2>1, GoUiFrame
    <2>4. pc = "confirm" => ~Reserved(ui[c].session)
        <3>1. pc = "confirm" => ui[c].session \in Sessions
            BY <1>0, <2>1, UiFacts
        <3> QED
            BY <2>1, <3>1 DEF ReadyInv, Announced
    <2> QED
        BY <1>3, <2>2, <2>3, <2>4 DEF AttachStep, Attaching, Recordless
<1>6. ASSUME Confirm(c) PROVE ReadyInv'
    <2>1. ui[c].pc = "confirm" /\ records' = records /\ readiness' = readiness
        BY <1>6 DEF Confirm
    <2>2. ui'[c].pc = "attached" /\ ui'[c].session = ui[c].session /\ \A d \in Uis \ {c} : ui'[d] = ui[d]
        BY <1>0, <1>6, GoUiFrame DEF Confirm
    <2>3. \A t \in Tokens : gated'[t] \in {gated[t], None}
        BY <1>6, TableTypes DEF Confirm
    <2>4. AnnounceStep /\ AttachStep(c)
        BY <2>1, <2>2, <2>3 DEF AnnounceStep, AttachStep, Attaching
    <2>5. \A u \in Sessions : Held(u) => Held(u)'
        BY <1>1, <2>1, <2>2 DEF Held, Recordless
    <2> QED
        BY <1>1, <1>2, <2>2, <2>4, <2>5, StillClaims
<1>7. ASSUME OriginCaptured(c) PROVE ReadyInv'
    <2>1. ui[c].pc = "origin" /\ records' = records /\ readiness' = readiness /\ gated' = gated /\ Attaching(c)
        BY <1>7 DEF OriginCaptured, Attaching
    <2>2. CASE GoUi(c, "insert")
        <3>1. /\ ui'[c].pc = "insert" /\ ui'[c].session = ui[c].session /\ \A d \in Uis \ {c} : ui'[d] = ui[d]
              /\ ui'[c].scope = ui[c].scope /\ ui'[c].token = ui[c].token
            BY <1>0, <2>2, GoUiFrame
        <3>2. AttachStep(c)
            BY <1>1, <2>1, <3>1 DEF AttachStep
        <3> QED
            BY <1>3, <2>1, <3>1, <3>2 DEF Recordless
    <2>3. ASSUME GoUi(c, "idle"), NEW t \in Tokens, t = ui[c].token,
                 ~(Live(t) /\ pending[t].ui = ui[c].session /\ pendingSessions[t] = ui[c].session)
          PROVE  ReadyInv'
        <3>1. /\ ui'[c].pc = "idle" /\ ui'[c].session = ui[c].session /\ \A d \in Uis \ {c} : ui'[d] = ui[d]
            BY <1>0, <2>3, GoUiFrame
        <3>2. ASSUME NEW u \in Sessions, u = ui[c].session PROVE ClaimStep(u)
            <4>1. pendingSessions[t] = None
                BY <2>1, <2>3, AttachmentLost
            <4>2. \A sc \in Scopes : scopes[sc] # u
                BY <2>1, <2>3, <3>2, GateAssumption DEF ReadyInv, AttachingOwner
            <4> QED
                BY <1>1, <2>1, <2>3, <3>2, <4>1, <4>2, GateAssumption, RefusedClaims
        <3>3. ASSUME NEW u \in Sessions, u # ui[c].session PROVE ClaimStep(u)
            BY <1>1, <2>1, <3>1, <3>3 DEF ClaimStep, Held, Recordless
        <3>4. AnnounceStep /\ AttachStep(c)
            BY <2>1, <3>1 DEF AnnounceStep, AttachStep, Attaching
        <3> QED
            BY <1>2, <3>1, <3>2, <3>3, <3>4
    <2> QED
        <3>1. ui[c].token \in Tokens \cup {None}
            BY <1>0, UiFacts
        <3> QED
            BY <1>7, <2>2, <2>3, <3>1 DEF OriginCaptured
<1>8. ASSUME InsertRecord(c) PROVE ReadyInv'
    <2>1. /\ ui[c].pc = "insert" /\ ui'[c].pc = "finalize" /\ ui'[c].session = ui[c].session
          /\ ui'[c].scope = ui[c].scope /\ ui'[c].token = ui[c].token /\ \A d \in Uis \ {c} : ui'[d] = ui[d]
        BY <1>0, <1>8, GoUiFrame DEF InsertRecord
    <2>2. \A u \in Sessions : /\ u # ui[c].session => records'[u] = records[u]
                              /\ u = ui[c].session => records'[u] # None
        <3>1. ui[c].scope \in Scopes
            BY <1>0, <2>1, UiFacts
        <3>2. [scope |-> ui[c].scope, captured |-> FALSE] \in Record
            BY <3>1 DEF Record
        <3> QED
            BY <1>8, <3>2, TableTypes, NoneAssumption DEF InsertRecord
    <2>3. \A u \in Sessions : Held(u) => Held(u)'
        BY <1>1, <2>1, <2>2 DEF Held, Recordless
    <2>4. AttachStep(c)
        BY <1>1, <2>1 DEF AttachStep, Attaching
    <2>5. AnnounceStep
        <3>1. \A u \in Sessions : readiness'[u] \in {readiness[u], "pending"}
            BY <1>8, TableTypes DEF InsertRecord
        <3> QED
            BY <1>8, <2>1, <3>1 DEF AnnounceStep, InsertRecord
    <2> QED
        BY <1>1, <1>2, <2>1, <2>3, <2>4, <2>5, StillClaims
<1>9. ASSUME Withdraw(c) PROVE ReadyInv'
    <2>1. /\ ui[c].pc = "withdraw" /\ ui'[c].pc = "idle" /\ ui'[c].session = ui[c].session
          /\ \A d \in Uis \ {c} : ui'[d] = ui[d]
        BY <1>0, <1>9, GoUiFrame DEF Withdraw
    <2>2. \A u \in Sessions : records'[u] = IF u = ui[c].session THEN None ELSE records[u]
        BY <1>9, TableTypes DEF Withdraw
    <2>3. ASSUME NEW u \in Sessions, u = ui[c].session PROVE ClaimStep(u)
        <3>1. Attaching(c) /\ \A sc \in Scopes : scopes[sc] # u
            BY <2>1, <2>3 DEF Attaching, ReadyInv, AttachingOwner
        <3>2. \A t \in Tokens : ui[c].token = t => pendingSessions[t] # u
            BY <2>1, GateAssumption DEF CaptureInv, OwnToken
        <3> QED
            BY <1>1, <2>3, <3>1, <3>2, RefusedClaims
    <2>4. ASSUME NEW u \in Sessions, u # ui[c].session PROVE ClaimStep(u)
        BY <1>1, <2>1, <2>2, <2>4 DEF ClaimStep, Held, Recordless
    <2>5. AnnounceStep /\ AttachStep(c)
        <3>1. \A u \in Sessions : readiness'[u] \in {readiness[u], "failed"}
            BY <1>9, TableTypes DEF Withdraw
        <3> QED
            BY <1>9, <2>1, <3>1 DEF AnnounceStep, Withdraw, AttachStep, Attaching
    <2> QED
        BY <1>2, <2>1, <2>3, <2>4, <2>5
<1>10. ASSUME FinalizeDirect(c) PROVE ReadyInv'
    <2>1. /\ ui[c].pc = "finalize" /\ records' = records /\ readiness' = readiness /\ gated' = gated /\ Attaching(c)
          /\ ui[c].scope \in Scopes /\ ~Recordless(c)
        BY <1>0, <1>10, UiFacts DEF FinalizeDirect, Attaching, Recordless
    <2>2. CASE GoUi(c, "withdraw") /\ scopes[ui[c].scope] # ui[c].session
        <3>1. /\ ui'[c].pc = "withdraw" /\ ui'[c].session = ui[c].session /\ \A d \in Uis \ {c} : ui'[d] = ui[d]
            BY <1>0, <2>2, GoUiFrame
        <3>2. AttachStep(c)
            BY <1>1, <2>1, <2>2, <3>1 DEF AttachStep, ReadyInv, AttachingOwner
        <3> QED
            BY <1>3, <2>1, <3>1, <3>2
    <2>3. CASE GoUi(c, "capture")
        <3>1. /\ ui'[c].pc = "capture" /\ ui'[c].session = ui[c].session /\ \A d \in Uis \ {c} : ui'[d] = ui[d]
            BY <1>0, <2>3, GoUiFrame
        <3> QED
            BY <1>3, <2>1, <3>1 DEF AttachStep, Attaching
    <2> QED
        BY <1>10, <2>2, <2>3 DEF FinalizeDirect, StartCapture, ReadyInv, Calm
<1> QED
    BY <1>4, <1>5, <1>6, <1>7, <1>8, <1>9, <1>10

(* The steps of an attachment that move its gate entry or its launch.      *)
LEMMA OriginReady ==
    ASSUME BookInv, BookInv', CaptureInv, RecordInv, ReadyInv, NEW c \in Uis, OriginFailed(c)
    PROVE  ReadyInv'
<1> USE DEF sessionVars, daemons
<1>0. UisKnow /\ ui[c].session \in Sessions /\ ui[c].token \in Tokens \cup {None} /\ ui[c].pc = "origin"
    BY UiFacts DEF BookInv, OriginFailed
<1>1. /\ records' = records /\ readiness' = readiness /\ gated' = gated /\ minted' = minted
      /\ monitor' = monitor /\ drain' = drain /\ sealed' = sealed /\ tasks \subseteq tasks'
    BY DEF OriginFailed
<1>2. /\ ui'[c].pc = "idle" /\ ui'[c].session = ui[c].session /\ \A d \in Uis \ {c} : ui'[d] = ui[d]
    BY <1>0, GoUiFrame DEF OriginFailed
<1>3. Attaching(c)
    BY <1>0 DEF Attaching
<1>4. AnnounceStep
    BY <1>1, <1>2 DEF AnnounceStep
<1>5. \A u \in Sessions : u # ui[c].session => (Held(u) => Held(u)')
    BY <1>1, <1>2 DEF Held, Recordless
<1>6. ASSUME \A sc \in Scopes, u \in Sessions : scopes'[sc] = u => scopes[sc] = u
      PROVE  \A d \in Uis : AttachStep(d)
    <2>1. AttachStep(c)
        BY <1>2 DEF AttachStep, Attaching
    <2>2. ASSUME NEW d \in Uis, d # c PROVE AttachStep(d)
        <3>1. Attaching(d) => ui[d].session \in Sessions
            BY <1>0, UiFacts DEF Attaching
        <3> QED
            BY <1>2, <1>6, <2>2, <3>1 DEF AttachStep, Attaching
    <2> QED
        BY <2>1, <2>2
<1>7. ASSUME NEW k \in tasks', k.step # "finish" PROVE CallStep(k)
    <2>1. CASE k \in tasks
        BY <1>7, <2>1 DEF CallStep
    <2>2. ASSUME NEW x, k = CloseOnly(c, ui[c].session, x) PROVE CallStep(k)
        <3>1. k.step = "finish"
            BY <2>2 DEF CloseOnly, Teardown
        <3> QED
            BY <1>7, <3>1
    <2> QED
        BY <2>1, <2>2 DEF OriginFailed
<1>8. CASE ui[c].token # None /\ Live(ui[c].token)
    <2> SUFFICES ASSUME NEW t \in Tokens, t = ui[c].token, Live(t) PROVE ReadyInv'
        BY <1>0, <1>8
    <2>1. GRemove({t}) /\ pendingSessions' = [pendingSessions EXCEPT ![t] = None]
        BY <1>8 DEF OriginFailed, GAbort
    <2>2. \A x \in Tokens : pendingSessions'[x] = IF x \in {t} THEN None ELSE pendingSessions[x]
        BY <2>1, TableTypes
    <2>3. pendingSessions[t] = ui[c].session
        BY <1>3, PendingSession, GateAssumption DEF CaptureInv, OwnToken
    <2>4. /\ ScopeFrom /\ GuestFrom /\ ReservedStep /\ (\A u \in Sessions : ClaimStep(u))
          /\ \A sc \in Scopes, u \in Sessions : scopes'[sc] = u => scopes[sc] = u
        BY <1>5, <2>1, <2>2, <2>3, RemoveReady
    <2> QED
        BY <1>1, <1>4, <1>6, <1>7, <2>4, QuietReady
<1>9. CASE ~(ui[c].token # None /\ Live(ui[c].token))
    <2>1. GDetach(ui[c].session)
        BY <1>9 DEF OriginFailed
    <2>2. pendingSessions' = pendingSessions
        <3>1. ui[c].token # None => pendingSessions[ui[c].token] = None
            BY <1>0, <1>9, PendingSession
        <3> QED
            BY <1>0, <3>1, TableTypes DEF OriginFailed
    <2>3. pending' = pending /\ \A sc \in Scopes, u \in Sessions : scopes'[sc] = u => scopes[sc] = u
        BY <2>1, GateAssumption DEF GDetach
    <2>4. ASSUME NEW u \in Sessions, u = ui[c].session PROVE ClaimStep(u)
        <3>1. gateSessions'[u] = None /\ \A sc \in Scopes : scopes'[sc] = u => gateSessions[u] # sc
            BY <2>1, <2>4, GateAssumption DEF GDetach, BookInv, TypeOK, GateTypeOK
        <3>2. ASSUME NEW t \in Tokens, NEW sc \in Scopes, Guest(t, u, sc)' PROVE FALSE
            <4>1. Live(t) /\ pendingSessions[t] = u
                BY <2>3, <3>2, PendingSession, GateAssumption DEF Guest, Live
            <4>2. ui[c].token = t
                BY <1>3, <2>4, <4>1 DEF CaptureInv, OwnToken
            <4> QED
                BY <1>9, <4>1, <4>2, GateAssumption
        <3> QED
            BY <3>1, <3>2 DEF ClaimStep
    <2>5. ASSUME NEW u \in Sessions, u # ui[c].session PROVE ClaimStep(u)
        <3>1. gateSessions'[u] = gateSessions[u]
            BY <2>1, <2>5 DEF GDetach, BookInv, TypeOK, GateTypeOK
        <3> QED
            BY <1>5, <2>5, <3>1 DEF ClaimStep
    <2>6. ScopeFrom /\ GuestFrom /\ ReservedStep
        <3>1. ScopeFrom
            BY <2>3 DEF ScopeFrom
        <3> QED
            BY <2>2, <2>3, <3>1, StillSame, SameReserved
    <2> QED
        BY <1>1, <1>4, <1>6, <1>7, <2>3, <2>4, <2>5, <2>6, QuietReady
<1> QED
    BY <1>8, <1>9

LEMMA LeaveReady ==
    ASSUME BookInv, BookInv', CaptureInv, RecordInv, ReadyInv, NEW c \in Uis, UiLeaves(c)
    PROVE  ReadyInv'
<1> USE DEF sessionVars, daemons
<1>0. UisKnow
    BY DEF BookInv
<1>1. /\ records' = records /\ readiness' = readiness
      /\ monitor' = monitor /\ drain' = drain /\ sealed' = sealed
      /\ ui[c].pc \in {"idle", "placing", "waiting", "confirm", "attached"}
    BY DEF UiLeaves
<1>2. /\ ui'[c].pc = "closed" /\ ui'[c].session = ui[c].session /\ \A d \in Uis \ {c} : ui'[d] = ui[d]
    BY <1>0, GoUiFrame DEF UiLeaves
<1>3. \A d \in Uis : Recordless(d) => ui'[d] = ui[d]
    BY <1>1, <1>2 DEF Recordless
<1>4. ASSUME \A sc \in Scopes, u \in Sessions : scopes'[sc] = u => scopes[sc] = u
      PROVE  \A d \in Uis : AttachStep(d)
    <2>1. AttachStep(c)
        BY <1>2 DEF AttachStep, Attaching
    <2>2. ASSUME NEW d \in Uis, d # c PROVE AttachStep(d)
        <3>1. Attaching(d) => ui[d].session \in Sessions
            BY <1>0, UiFacts DEF Attaching
        <3> QED
            BY <1>2, <1>4, <2>2, <3>1 DEF AttachStep, Attaching
    <2> QED
        BY <2>1, <2>2
<1>5. ASSUME \A t \in Tokens : gated'[t] \in {gated[t], None} PROVE AnnounceStep
    BY <1>1, <1>2, <1>5 DEF AnnounceStep
<1>6. CASE AbortLaunch(ui[c].token, c) /\ ui[c].pc = "waiting"
    <2>1. PICK t \in Tokens : t = ui[c].token
        BY <1>0, <1>6, UiFacts
    <2>2. AbortLaunch(t, c)
        BY <1>6, <2>1
    <2>3. /\ ScopeFrom /\ GuestFrom /\ ReservedStep /\ minted' = minted /\ gated' = gated
          /\ \A u \in Sessions : ClaimStep(u)
          /\ \A k \in tasks' : k.step # "finish" => CallStep(k)
          /\ \A sc \in Scopes, u \in Sessions : scopes'[sc] = u => scopes[sc] = u
        BY <1>1, <1>3, <2>2, AbortReady
    <2> QED
        BY <1>1, <1>4, <1>5, <2>3, QuietReady
(* The gate and the pending launches stay; whoever is detached is beyond    *)
(* its launch.                                                              *)
<1>7. ASSUME gateVars' = gateVars, pendingSessions' = pendingSessions, minted' = minted,
             \A t \in Tokens : gated'[t] \in {gated[t], None}, tasks \subseteq tasks',
             \A k \in tasks' : k \in tasks \/ (k.sess = ui[c].session /\ ~Reserved(ui[c].session))
      PROVE  ReadyInv'
    <2>1. pending' = pending /\ scopes' = scopes /\ gateSessions' = gateSessions
        BY <1>7 DEF gateVars
    <2>2. ScopeFrom /\ GuestFrom /\ ReservedStep
        BY <1>7, <2>1, StillScopes, StillSame, SameReserved
    <2>3. \A u \in Sessions : Held(u) => Held(u)'
        BY <1>1, <1>3, <1>7 DEF Held, Recordless
    <2>4. ASSUME NEW k \in tasks', k.step # "finish" PROVE CallStep(k)
        BY <1>7, <2>4 DEF CallStep, Reserved
    <2> QED
        BY <1>1, <1>4, <1>5, <1>7, <2>1, <2>2, <2>3, <2>4, StillClaims, QuietReady
<1>8. CASE ui[c].pc \in {"confirm", "attached"}
    <2>1. UNCHANGED <<gateVars, book>> /\ tasks' = tasks \cup {Teardown(c, ui[c].session, None)}
        BY <1>8 DEF UiLeaves
    <2>2. Teardown(c, ui[c].session, None).sess = ui[c].session
        BY DEF Teardown
    <2>3. ~Reserved(ui[c].session)
        BY <1>8 DEF ReadyInv, Announced
    <2> QED
        BY <1>7, <2>1, <2>2, <2>3 DEF book
<1>9. CASE ui[c].pc \in {"idle", "placing"}
    <2>1. UNCHANGED <<gateVars, book, tasks>>
        BY <1>9 DEF UiLeaves
    <2> QED
        BY <1>7, <2>1 DEF book
<1>10. CASE ui[c].pc = "waiting" /\ ~AbortLaunch(ui[c].token, c)
    <2>1. PICK t \in Tokens : t = ui[c].token
        BY <1>0, <1>10, UiFacts
    <2>2. /\ gated' = [gated EXCEPT ![t] = IF t \in GatedTo(ui[c].session) THEN None ELSE @]
          /\ tasks' = tasks \cup {Teardown(c, ui[c].session, IF gated[t].lease THEN t ELSE None) :
                                    x \in {t} \cap GatedTo(ui[c].session)}
          /\ UNCHANGED <<gateVars, pendingSessions, minted>>
        BY <1>10, <2>1 DEF UiLeaves
    <2>3. \A x \in Tokens : gated'[x] \in {gated[x], None}
        BY <2>2, TableTypes
    <2>4. \A reg : Teardown(c, ui[c].session, reg).sess = ui[c].session
        BY DEF Teardown
    <2>5. t \in GatedTo(ui[c].session) => ~Reserved(ui[c].session)
        BY DEF GatedTo, ReadyInv, Announced
    <2> QED
        BY <1>7, <2>2, <2>3, <2>4, <2>5
<1> QED
    BY <1>1, <1>6, <1>8, <1>9, <1>10

LEMMA FinalizeReady ==
    ASSUME BookInv, BookInv', CaptureInv, RecordInv, ReadyInv, NEW c \in Uis, FinalizeGated(c)
    PROVE  ReadyInv'
<1> USE DEF sessionVars, daemons
<1>0. /\ UisKnow /\ ui[c].session \in Sessions /\ ui[c].token \in Tokens /\ ui[c].pc = "finalize"
      /\ Attaching(c)
    BY UiFacts DEF BookInv, FinalizeGated, Attaching
<1>1. /\ records' = records /\ readiness' = readiness /\ minted' = minted /\ tasks' = tasks
      /\ monitor' = monitor /\ drain' = drain /\ sealed' = sealed
    BY DEF FinalizeGated
<1>2. \A k \in tasks' : k.step # "finish" => CallStep(k)
    BY <1>1, StillCalls
<1> SUFFICES ASSUME NEW t \in Tokens, t = ui[c].token, NEW u \in Sessions, u = ui[c].session PROVE ReadyInv'
    BY <1>0
<1>3. \A d \in Uis : d # c /\ Attaching(d) => ui[d].session \in Sessions /\ ui[d].session # u
    BY <1>0, UiFacts DEF Attaching, CaptureInv, OneAttaching
<1>4. ASSUME \A d \in Uis \ {c} : ui'[d] = ui[d] PROVE \A v \in Sessions : Held(v) => Held(v)'
    BY <1>0, <1>1, <1>4 DEF Held, Recordless
<1>5. ASSUME \A d \in Uis \ {c} : ui'[d] = ui[d], AttachStep(c),
             \A sc \in Scopes, v \in Sessions : scopes'[sc] = v /\ v # u => scopes[sc] = v
      PROVE  \A d \in Uis : AttachStep(d)
    <2>1. ASSUME NEW d \in Uis, d # c PROVE AttachStep(d)
        BY <1>3, <1>5, <2>1 DEF AttachStep, Attaching
    <2> QED
        BY <1>5, <2>1
<1>6. CASE ~sealed /\ PublishOk(t, u) /\ Promoted(t)
    <2>1. GPublish(t, u) /\ BookPromotion(t) /\ GoUi(c, "capture")
        BY <1>6 DEF FinalizeGated, StartCapture
    <2>2. Promote(t) /\ Live(t) /\ pending[t].ui = pendingSessions[t] /\ pendingSessions[t] = u
        BY <1>6, <2>1, PromotedByPublish
    <2>3. /\ pendingSessions' = [pendingSessions EXCEPT ![t] = None]
          /\ gated' = [gated EXCEPT ![t] = [session |-> pending[t].ui, lease |-> pending[t].lease]]
        BY <1>6, <2>1 DEF BookPromotion
    <2>4. ui'[c].pc = "capture" /\ \A d \in Uis \ {c} : ui'[d] = ui[d]
        BY <1>0, <2>1, GoUiFrame
    <2>5. /\ ScopeFrom /\ GuestFrom /\ ReservedStep /\ (\A v \in Sessions : ClaimStep(v))
          /\ u \in minted /\ ~Reserved(u)'
          /\ \A sc \in Scopes, v \in Sessions : scopes'[sc] = v /\ v # u => scopes[sc] = v
        BY <1>4, <2>2, <2>3, <2>4, PromoteReady
    <2>6. AnnounceStep
        <3>1. gated'[t].session = u /\ \A x \in Tokens : x # t => gated'[x] = gated[x]
            BY <2>2, <2>3, TableTypes
        <3> QED
            BY <1>1, <2>4, <2>5, <3>1 DEF AnnounceStep
    <2>7. AttachStep(c)
        BY <2>4 DEF AttachStep, Attaching
    <2> QED
        BY <1>1, <1>2, <1>5, <2>4, <2>5, <2>6, <2>7, QuietReady
<1>7. CASE ~sealed /\ PublishOk(t, u) /\ ~Promoted(t)
    <2>1. GPublish(t, u) /\ BookPromotion(t) /\ GoUi(c, "waiting")
        BY <1>7 DEF FinalizeGated
    <2>2. pendingSessions' = pendingSessions /\ gated' = gated
        BY <1>7, <2>1 DEF BookPromotion
    <2>3. /\ scopes' = scopes /\ gateSessions' = gateSessions
          /\ pending' = [pending EXCEPT ![t] = [pending[t] EXCEPT !.published = TRUE]]
        BY <1>7, <2>1 DEF GPublish, Promote, Promoted, BookInv, TypeOK, GateTypeOK
    <2>4. ui'[c].pc = "waiting" /\ \A d \in Uis \ {c} : ui'[d] = ui[d]
        BY <1>0, <2>1, GoUiFrame
    <2>5. pending[t] \in Launch /\ Live(t)
        BY <1>7, PendingSession DEF PublishOk
    <2>6. \A x \in Tokens : /\ pending'[x].ui = pending[x].ui /\ pending'[x].scope = pending[x].scope
                            /\ Live(x)' => Live(x)
        BY <2>3, <2>5, BoundFields DEF Live, BookInv, TypeOK, GateTypeOK
    <2>7. ScopeFrom /\ GuestFrom /\ ReservedStep
        BY <2>2, <2>3, <2>6, StillScopes DEF GuestFrom, Guest, ReservedStep
    <2>8. AnnounceStep /\ AttachStep(c)
        BY <1>1, <2>2, <2>4 DEF AnnounceStep, AttachStep, Attaching
    <2> QED
        BY <1>1, <1>2, <1>4, <1>5, <2>3, <2>4, <2>7, <2>8, StillClaims, QuietReady
<1>8. CASE ~(~sealed /\ PublishOk(t, u))
    <2>1. /\ IF Live(t) THEN GAbort(t) ELSE UNCHANGED gateVars
          /\ pendingSessions' = [pendingSessions EXCEPT ![t] = None]
          /\ ui' = [ui EXCEPT ![c].pc = "withdraw", ![c].reg = LeasedPane(t)]
          /\ gated' = gated
        BY <1>8 DEF FinalizeGated
    <2>2. /\ ui'[c].pc = "withdraw" /\ ui'[c].session = u /\ \A d \in Uis \ {c} : ui'[d] = ui[d]
        BY <1>0, <2>1, WithdrawFrame
    <2>3. \A x \in Tokens : pendingSessions'[x] = IF x \in {t} THEN None ELSE pendingSessions[x]
        BY <2>1, TableTypes
    <2>4. AnnounceStep
        BY <1>1, <2>1, <2>2 DEF AnnounceStep
    <2>5. ASSUME \A sc \in Scopes, v \in Sessions : scopes'[sc] = v => scopes[sc] = v
          PROVE  \A d \in Uis : AttachStep(d)
        <3>1. \A sc \in Scopes : scopes'[sc] # u
            BY <1>0, <2>5, GateAssumption DEF ReadyInv, AttachingOwner
        <3>2. AttachStep(c)
            BY <2>2, <3>1 DEF AttachStep
        <3> QED
            BY <1>5, <2>2, <2>5, <3>2
    <2>6. CASE Live(t)
        <3>1. GRemove({t})
            BY <2>1, <2>6 DEF GAbort
        <3>2. /\ ScopeFrom /\ GuestFrom /\ ReservedStep /\ (\A v \in Sessions : ClaimStep(v))
              /\ \A sc \in Scopes, v \in Sessions : scopes'[sc] = v => scopes[sc] = v
            BY <1>4, <2>2, <2>3, <2>6, <3>1, RemoveReady
        <3> QED
            BY <1>1, <1>2, <2>4, <2>5, <3>2, QuietReady
    <2>7. CASE ~Live(t)
        <3>1. pending' = pending /\ scopes' = scopes /\ gateSessions' = gateSessions
            BY <2>1, <2>7 DEF gateVars
        <3>2. ScopeFrom /\ GuestFrom /\ ReservedStep
            BY <2>3, <3>1, StillScopes, StillSame, SameReserved
        <3> QED
            BY <1>1, <1>2, <1>4, <2>2, <2>4, <2>5, <3>1, <3>2, StillClaims, QuietReady
    <2> QED
        BY <2>6, <2>7
<1> QED
    BY <1>6, <1>7, <1>8

LEMMA AttachReady ==
    ASSUME BookInv, BookInv', CaptureInv, RecordInv, ReadyInv, NEW c \in Uis, NEW t \in Tokens,
           NEW p \in Panes, NEW sc \in Scopes, Attach(c, t, p, sc)
    PROVE  ReadyInv'
<1> USE DEF book, sessionVars, daemons
<1> SUFFICES ASSUME NEW u \in Sessions, u = pendingSessions[t] PROVE ReadyInv'
    BY FirstAttach
<1>1. /\ minted' = minted /\ pendingSessions' = pendingSessions /\ records' = records /\ readiness' = readiness
      /\ tasks' = tasks /\ monitor' = monitor /\ drain' = drain /\ sealed' = sealed /\ scopes' = scopes
      /\ gated' = gated /\ ui[c].pc = "idle" /\ Live(t) /\ pending[t].scope = sc
    BY DEF Attach, GAttachLaunch
<1>2. pending[t] \in Launch /\ pending[t].ui = None
    BY FirstAttach
<1>3. Unlisted(u)
    BY <1>1, <1>2 DEF RecordInv, UntouchedScope
<1>4. /\ ui'[c].pc = "origin" /\ ui'[c].session = u /\ ui'[c].scope = sc
      /\ \A d \in Uis \ {c} : ui'[d] = ui[d]
    BY StartAttachFrame DEF BookInv, Attach
<1>5. \A v \in Sessions : gateSessions'[v] = IF v = u THEN sc ELSE gateSessions[v]
    BY DEF Attach, GAttachLaunch, BookInv, TypeOK, GateTypeOK
<1>6. pending' = [pending EXCEPT ![t] = [pending[t] EXCEPT !.ui = u, !.uiPane = p]]
    BY DEF Attach, GAttachLaunch, BookInv, TypeOK, GateTypeOK
<1>7. /\ pending'[t].ui = u /\ pending'[t].scope = sc
      /\ \A x \in Tokens \ {t} : pending'[x] = pending[x]
    BY <1>1, <1>2, <1>6, LaunchFields DEF BookInv, TypeOK, GateTypeOK
<1>8. Holds(u, sc)'
    <2>1. Held(u)'
        BY <1>4 DEF Held, Recordless
    <2> QED
        BY <1>5, <2>1 DEF Holds
<1>9. \A x \in Tokens, v \in Sessions, s \in Scopes : Guest(x, v, s)' =>
          (v = u /\ s = sc) \/ (x # t /\ Guest(x, v, s))
    BY <1>7 DEF Guest, Live
<1>10. ScopeFrom /\ GuestFrom /\ ReservedStep
    BY <1>1, <1>7, <1>8, <1>9, StillScopes DEF GuestFrom, ReservedStep
<1>11. ClaimStep(u)
    <2>1. \A s \in Scopes : scopes'[s] # u
        BY <1>1, <1>3 DEF Unlisted
    <2>2. ASSUME NEW x \in Tokens, NEW s \in Scopes, Guest(x, u, s)' PROVE s = sc
        <3>1. CASE x # t /\ Guest(x, u, s)
            <4>1. pendingSessions[x] = u
                BY <3>1, PendingSession, GateAssumption DEF Guest
            <4> QED
                BY <3>1, <4>1, GateAssumption DEF CaptureInv, OneToken
        <3> QED
            BY <1>9, <2>2, <3>1
    <2> QED
        BY <1>8, <2>1, <2>2 DEF ClaimStep
<1>12. ASSUME NEW v \in Sessions, v # u PROVE ClaimStep(v)
    BY <1>1, <1>4, <1>5, <1>12 DEF ClaimStep, Held, Recordless
<1>13. ASSUME NEW d \in Uis PROVE AttachStep(d)
    <2>1. CASE d = c
        BY <1>1, <1>3, <1>4, <2>1 DEF AttachStep, Unlisted
    <2>2. CASE d # c
        BY <1>1, <1>4, <2>2 DEF AttachStep, Attaching
    <2> QED
        BY <2>1, <2>2
<1>14. AnnounceStep
    BY <1>1, <1>4 DEF AnnounceStep
<1> QED
    BY <1>1, <1>10, <1>11, <1>12, <1>13, <1>14, StillCalls, QuietReady

LEMMA DirectReady ==
    ASSUME BookInv, BookInv', CaptureInv, RecordInv, ReadyInv, NEW c \in Uis, NEW sc \in Scopes, AttachDirect(c, sc)
    PROVE  ReadyInv'
<1> USE DEF sessionVars, daemons
<1>1. /\ pendingSessions' = pendingSessions /\ pending' = pending /\ records' = records /\ readiness' = readiness
      /\ tasks' = tasks /\ monitor' = monitor /\ drain' = drain /\ sealed' = sealed /\ gated' = gated
      /\ ui[c].pc = "idle"
    BY DEF AttachDirect, GAttachDirect
<1>2. PICK u \in Sessions \ minted :
          minted' = minted \cup {u} /\ GAttachDirect(u, sc) /\ StartAttach(c, u, None, sc)
    BY DEF AttachDirect
<1>3. Unmet(u) /\ Unlisted(u) /\ \A x \in Tokens : pendingSessions[x] # u
    BY DEF CaptureInv, Fresh, RecordInv, FreshScope
<1>4. /\ ui'[c].pc = "origin" /\ ui'[c].session = u /\ ui'[c].scope = sc /\ ui'[c].token = None
      /\ \A d \in Uis \ {c} : ui'[d] = ui[d]
    BY <1>2, StartAttachFrame DEF BookInv
<1>5. /\ \A v \in Sessions : gateSessions'[v] = IF v = u THEN sc ELSE gateSessions[v]
      /\ \A s \in Scopes : scopes'[s] = IF s = sc THEN u ELSE scopes[s]
    BY <1>2 DEF GAttachDirect, BookInv, TypeOK, GateTypeOK
<1>6. Holds(u, sc)'
    <2>1. Held(u)'
        BY <1>4 DEF Held, Recordless
    <2> QED
        BY <1>5, <2>1 DEF Holds
<1>7. \A s \in Scopes, v \in Sessions : scopes'[s] = v => (v = u /\ s = sc) \/ (v # u /\ scopes[s] = v)
    BY <1>3, <1>5 DEF Unlisted
<1>8. GuestFrom /\ ReservedStep
    BY <1>1, StillSame, SameReserved
<1>9. ScopeFrom
    BY <1>6, <1>7 DEF ScopeFrom
<1>10. ClaimStep(u)
    <2>1. ASSUME NEW x \in Tokens, NEW s \in Scopes, Guest(x, u, s)' PROVE FALSE
        BY <1>1, <1>3, <2>1, PendingSession, GateAssumption DEF Guest, Live
    <2> QED
        BY <1>6, <1>7, <2>1 DEF ClaimStep
<1>11. ASSUME NEW v \in Sessions, v # u PROVE ClaimStep(v)
    BY <1>1, <1>4, <1>5, <1>11 DEF ClaimStep, Held, Recordless
<1>12. ASSUME NEW d \in Uis PROVE AttachStep(d)
    <2>1. CASE d = c
        BY <1>4, <1>7, <2>1 DEF AttachStep
    <2>2. CASE d # c
        <3>1. Attaching(d) => ui[d].session \in Sessions /\ ui[d].session # u
            BY <1>3, UiFacts DEF BookInv, Attaching, Unmet
        <3> QED
            BY <1>1, <1>4, <1>7, <2>2, <3>1 DEF AttachStep, Attaching
    <2> QED
        BY <2>1, <2>2
<1>13. AnnounceStep
    BY <1>1, <1>4 DEF AnnounceStep
<1> QED
    BY <1>1, <1>2, <1>8, <1>9, <1>10, <1>11, <1>12, <1>13, StillCalls, QuietReady

LEMMA ReadyInit == Init => ReadyInv
<1> SUFFICES ASSUME Init PROVE ReadyInv
    OBVIOUS
<1>1. Calm /\ MonitorRests /\ DetachedEarly /\ Announced
    BY DEF Init, Calm, MonitorRests, DetachedEarly, Announced
<1>2. OwnerKept /\ GuestKept
    BY GateAssumption DEF Init, GateInit, OwnerKept, GuestKept, Guest, Live
<1>3. ListedHere /\ AttachingOwner
    BY DEF Init, ListedHere, AttachingOwner, Attaching
<1> QED
    BY <1>1, <1>2, <1>3 DEF ReadyInv

LEMMA ReadyNext ==
    ASSUME ~SlowConsumers, MaxDrains = 0,
           BookInv, BookInv', CaptureInv, RecordInv, ReadyInv, [Next]_vars
    PROVE  ReadyInv'
<1>1. CASE UNCHANGED vars
    <2>1. /\ gateVars' = gateVars /\ pendingSessions' = pendingSessions /\ gated' = gated /\ minted' = minted
          /\ records' = records /\ readiness' = readiness /\ ui' = ui /\ tasks' = tasks
          /\ monitor' = monitor /\ drain' = drain /\ sealed' = sealed
        BY <1>1 DEF vars, book, sessionVars, handlers, daemons
    <2>2. /\ pending' = pending /\ scopes' = scopes /\ gateSessions' = gateSessions
        BY <2>1 DEF gateVars
    <2>3. /\ ScopeFrom /\ GuestFrom /\ ReservedStep
          /\ (\A u \in Sessions : ClaimStep(u)) /\ (\A c \in Uis : AttachStep(c)) /\ AnnounceStep
          /\ \A k \in tasks' : k.step # "finish" => CallStep(k)
        BY <2>1, <2>2, StillScopes, StillSame, SameReserved, StillHeld, StillClaims, StillCalls,
           StillAttaching, StillAnnounced
    <2> QED
        BY <2>1, <2>3, QuietReady
<1>2. CASE LauncherNext
    BY <1>2, LauncherReady, PrepareReady DEF LauncherNext
<1>3. CASE UiNext
    BY <1>3, UiStillReady, OriginReady, LeaveReady, FinalizeReady, AttachReady, DirectReady DEF UiNext
<1> QED
    BY <1>1, <1>2, <1>3, SessionReady, TaskReady, DaemonReady DEF Next

(* broker.rs drops the scope of every session it detaches, replaces or     *)
(* aborts, so that an attachment without a token never finds the scope     *)
(* occupied by a session that is gone: whatever the order of placement,    *)
(* publication, expiry, disconnects, a failing begin_capture, lost         *)
(* captures and unhealthy scopes.  An activation drain and a full outbox   *)
(* are excluded: each can leave such an owner behind.                      *)
THEOREM ReadyOwnerAlwaysAlive ==
    ASSUME ~SlowConsumers, MaxDrains = 0
    PROVE  Spec => []ReadyOwnerAlive
<1>1. BookInv /\ CaptureInv /\ RecordInv /\ ReadyInv /\ BookInv' /\ [Next]_vars => ReadyInv'
    BY ReadyNext
<1>2. BookInv /\ ReadyInv => ReadyOwnerAlive
    <2> SUFFICES ASSUME BookInv, ReadyInv, NEW sc \in Scopes, NEW u \in Sessions, u = scopes[sc],
                        ~(records[u] # None \/ InFlight(u) \/ tail[u] # "none" \/ monitor.scope = sc)
                 PROVE  FALSE
        BY DEF ReadyOwnerAlive
    <2>1. Held(u)
        BY DEF ReadyInv, OwnerKept, Holds
    <2> QED
        BY <2>1 DEF Held, Recordless, InFlight
<1> QED
    BY <1>1, <1>2, ReadyInit, RecordAlways, PTL DEF Spec
=============================================================================
