----------------------------- MODULE LaunchGate -----------------------------
(***************************************************************************)
(* The pending-launch gate of the broker (crates/muxe-broker/src/gate.rs). *)
(* It holds three maps: the pending launches by token, the owner of each   *)
(* modal scope, and the scope of each attached UI session.  A scope is     *)
(* owned by a token while its launch is pending and by a session once it   *)
(* is ready, so an owner is a member of Tokens, a member of Sessions, or   *)
(* None (no map entry).                                                    *)
(*                                                                         *)
(* Every operator below is one method of the gate, enabled exactly when    *)
(* the method returns Ok; a method that returns Err leaves the gate as it  *)
(* was.  The broker (UiLaunch) calls them under its state lock.  Spec is   *)
(* the gate under the most general client: any method, any arguments.      *)
(***************************************************************************)

CONSTANTS
    Tokens,     \* PendingLaunchToken: random, nonzero
    Scopes,     \* ModalScopeId
    Sessions,   \* UiSessionId
    Panes,      \* HostPaneId
    None        \* an absent map entry or option

VARIABLES
    pending,        \* LaunchGate.pending : token -> PendingLaunch
    scopes,         \* LaunchGate.scopes : scope -> ScopeOwner
    gateSessions    \* LaunchGate.sessions : session -> scope

gateVars == <<pending, scopes, gateSessions>>

(* PendingLaunch.  The registered pane's temporary tab always travels with *)
(* the pane and is folded into it; the root menu is compared only by the   *)
(* broker.  expires_at is abstracted: any pending launch may expire.       *)
Launch == [scope     : Scopes,
           pane      : Panes \cup {None},      \* registered_pane
           lease     : BOOLEAN,                \* registered_pane.lease is bound
           ui        : Sessions \cup {None},   \* attached_ui
           uiPane    : Panes \cup {None},      \* attached_pane
           committed : BOOLEAN,                \* placement_committed
           published : BOOLEAN]                \* session_published

ASSUME GateAssumption ==
    /\ None \notin Tokens \cup Scopes \cup Sessions \cup Panes
    /\ None \notin Launch
    /\ Tokens \cap Sessions = {}

GateTypeOK ==
    /\ pending \in [Tokens -> Launch \cup {None}]
    /\ scopes \in [Scopes -> Tokens \cup Sessions \cup {None}]
    /\ gateSessions \in [Sessions -> Scopes \cup {None}]

GateInit ==
    /\ pending = [t \in Tokens |-> None]
    /\ scopes = [sc \in Scopes |-> None]
    /\ gateSessions = [u \in Sessions |-> None]

-----------------------------------------------------------------------------

Live(t) == pending[t] # None

(* pending_tokens_in_scope *)
PendingIn(sc) == {t \in Tokens : Live(t) /\ pending[t].scope = sc}

NewLaunch(sc) == [scope |-> sc, pane |-> None, lease |-> FALSE, ui |-> None,
                  uiPane |-> None, committed |-> FALSE, published |-> FALSE]

(* Faulty variant: the replaced pending launch stays in the pending map.   *)
GPrepareKeepsReplaced(t, sc) ==
    /\ ~Live(t)
    /\ pending' = [pending EXCEPT ![t] = NewLaunch(sc)]
    /\ scopes' = [scopes EXCEPT ![sc] = t]
    /\ UNCHANGED gateSessions

(* prepare: the previous owner of the scope leaves the map, a replaced     *)
(* pending launch leaves with it, and the new token takes the scope.  The  *)
(* session of a replaced ready owner stays until the broker detaches it.   *)
GPrepare(t, sc) ==
    /\ ~Live(t)
    /\ pending' = [x \in Tokens |-> IF x = t THEN NewLaunch(sc)
                                    ELSE IF x = scopes[sc] THEN None
                                    ELSE pending[x]]
    /\ scopes' = [scopes EXCEPT ![sc] = t]
    /\ UNCHANGED gateSessions

(* register_pending_pane: repeating the registration is accepted only      *)
(* while no lease is bound, because the comparison includes the lease.     *)
GRegister(t, p) ==
    /\ Live(t)
    /\ pending[t].uiPane \in {None, p}
    /\ \/ pending[t].pane = None
       \/ pending[t].pane = p /\ ~pending[t].lease
    /\ pending' = [pending EXCEPT ![t].pane = p]
    /\ UNCHANGED <<scopes, gateSessions>>

(* bind_pending_lease *)
GBindLease(t) ==
    /\ Live(t)
    /\ pending[t].pane # None
    /\ pending' = [pending EXCEPT ![t].lease = TRUE]
    /\ UNCHANGED <<scopes, gateSessions>>

(* attach with a token: the launch records the session and its pane.       *)
GAttachLaunch(u, sc, p, t) ==
    /\ gateSessions[u] = None
    /\ Live(t)
    /\ pending[t].scope = sc
    /\ pending[t].pane \in {None, p}
    /\ pending[t].ui \in {None, u}
    /\ pending' = [pending EXCEPT ![t] = [@ EXCEPT !.ui = u, !.uiPane = p]]
    /\ gateSessions' = [gateSessions EXCEPT ![u] = sc]
    /\ UNCHANGED scopes

(* attach without a token: only a free scope is taken, and at once.        *)
GAttachDirect(u, sc) ==
    /\ gateSessions[u] = None
    /\ scopes[sc] = None
    /\ scopes' = [scopes EXCEPT ![sc] = u]
    /\ gateSessions' = [gateSessions EXCEPT ![u] = sc]
    /\ UNCHANGED pending

(* The promotion shared by commit and publish_attached: the token is       *)
(* consumed and its session becomes the ready owner.                       *)
Promote(t) ==
    /\ pending' = [pending EXCEPT ![t] = None]
    /\ scopes' = [scopes EXCEPT ![pending[t].scope] = pending[t].ui]
    /\ UNCHANGED gateSessions

(* commit: the launcher confirms placement in the registered pane.         *)
CommitOk(t, p) ==
    /\ Live(t)
    /\ pending[t].pane = p
    /\ pending[t].uiPane \in {None, p}
    /\ scopes[pending[t].scope] = t

(* Faulty variant: commit does not wait for publication.                   *)
GCommitEager(t, p) == CommitOk(t, p) /\ Promote(t)

GCommit(t, p) ==
    /\ CommitOk(t, p)
    /\ IF pending[t].published
       THEN Promote(t)
       ELSE /\ pending' = [pending EXCEPT ![t].committed = TRUE]
            /\ UNCHANGED <<scopes, gateSessions>>

(* publish_attached: the broker session of the launch is fully created.    *)
PublishOk(t, u) ==
    /\ Live(t)
    /\ pending[t].ui = u
    /\ pending[t].committed => scopes[pending[t].scope] = t

GPublish(t, u) ==
    /\ PublishOk(t, u)
    /\ IF pending[t].committed
       THEN Promote(t)
       ELSE /\ pending' = [pending EXCEPT ![t].published = TRUE]
            /\ UNCHANGED <<scopes, gateSessions>>

(* The removal of a set of launches shared by abort (one) and expire (all  *)
(* that are due): their scopes and attached sessions are released.         *)
GRemove(T) ==
    /\ pending' = [t \in Tokens |-> IF t \in T THEN None ELSE pending[t]]
    /\ scopes' = [sc \in Scopes |-> IF scopes[sc] \in T THEN None ELSE scopes[sc]]
    /\ gateSessions' = [u \in Sessions |->
                          IF \E t \in T : pending[t].ui = u THEN None
                          ELSE gateSessions[u]]

GAbort(t) == Live(t) /\ GRemove({t})

GExpire(T) == T # {} /\ (\A t \in T : Live(t)) /\ GRemove(T)

(* drain *)
GDrain ==
    /\ pending' = [t \in Tokens |-> None]
    /\ scopes' = [sc \in Scopes |-> None]
    /\ gateSessions' = [u \in Sessions |-> None]

(* detach: a session the gate does not know changes nothing, even if it    *)
(* still stands as the ready owner of a scope.                             *)
GDetach(u) ==
    /\ scopes' = [sc \in Scopes |->
                    IF gateSessions[u] = sc /\ scopes[sc] = u THEN None
                    ELSE scopes[sc]]
    /\ gateSessions' = [gateSessions EXCEPT ![u] = None]
    /\ UNCHANGED pending

(* release_dangling_owner *)
Dangling(sc) ==
    \/ scopes[sc] \in Tokens /\ ~Live(scopes[sc])
    \/ scopes[sc] \in Sessions /\ gateSessions[scopes[sc]] = None

GReleaseDangling(sc) ==
    /\ scopes' = [scopes EXCEPT ![sc] = IF Dangling(sc) THEN None ELSE @]
    /\ UNCHANGED <<pending, gateSessions>>

-----------------------------------------------------------------------------

GateNext ==
    \/ \E t \in Tokens, sc \in Scopes : GPrepare(t, sc)
    \/ \E t \in Tokens, p \in Panes : GRegister(t, p) \/ GCommit(t, p)
    \/ \E t \in Tokens : GBindLease(t)
    \/ \E u \in Sessions, sc \in Scopes, p \in Panes, t \in Tokens :
          GAttachLaunch(u, sc, p, t)
    \/ \E u \in Sessions, sc \in Scopes : GAttachDirect(u, sc)
    \/ \E t \in Tokens, u \in Sessions : GPublish(t, u)
    \/ \E T \in SUBSET Tokens : GExpire(T)
    \/ \E t \in Tokens : GAbort(t)
    \/ \E u \in Sessions : GDetach(u)
    \/ \E sc \in Scopes : GReleaseDangling(sc)
    \/ GDrain

GateSpec == GateInit /\ [][GateNext]_gateVars

-----------------------------------------------------------------------------

(* A launch is pending exactly while its token owns its scope.  Two        *)
(* launches are therefore never pending in one scope, and the              *)
(* ScopeMismatch branches of commit and publish_attached never run.        *)
PendingOwnsScope ==
    /\ \A t \in Tokens : Live(t) => scopes[pending[t].scope] = t
    /\ \A sc \in Scopes : 
          scopes[sc] \in Tokens => /\ Live(scopes[sc])
                                   /\ pending[scopes[sc]].scope = sc

(* Placement and publication are recorded in either order, and the second  *)
(* of them consumes the token in the same step: no launch stays pending    *)
(* with both facts recorded, which nothing would ever promote.             *)
NeverBothRecorded ==
    \A t \in Tokens : Live(t) => ~(pending[t].committed /\ pending[t].published)

(* A launch is only committed in, and only published from, the pane that   *)
(* the launcher registered: the pane of the attached UI never differs.     *)
PanesAgree ==
    \A t \in Tokens : Live(t) =>
        /\ pending[t].committed => pending[t].pane # None
        /\ pending[t].lease => pending[t].pane # None
        /\ (pending[t].pane # None /\ pending[t].uiPane # None)
              => pending[t].pane = pending[t].uiPane

(* A scope passes from a token straight to a session only by consuming     *)
(* that token's launch, with its placement committed by this step or       *)
(* before, in favour of the session that attached with the token.          *)
PromotesOwnLaunch ==
    \A sc \in Scopes :
        (scopes[sc] \in Tokens /\ scopes'[sc] \in Sessions) =>
            LET t == scopes[sc] IN
            /\ scopes'[sc] = pending[t].ui
            /\ pending[t].committed \/ pending[t].published
            /\ pending'[t] = None

PromotionProperty == [][PromotesOwnLaunch]_gateVars
=============================================================================
