-------------------------- MODULE LaunchGateProofs --------------------------
(***************************************************************************)
(* The gate's properties for every set of tokens, scopes, sessions and     *)
(* panes, and for every order of its methods.  Two facts carry the rest:   *)
(* the type of the three maps, and PendingOwnsScope, which is inductive on *)
(* its own once the types are known.  PanesAgree and NeverBothRecorded     *)
(* only look at one launch and need nothing more than the types.           *)
(***************************************************************************)
EXTENDS LaunchGate, TLAPS

(* What a live launch of a well-typed gate is.                             *)
LEMMA LiveLaunch ==
    ASSUME GateTypeOK, NEW t \in Tokens, Live(t)
    PROVE  pending[t] \in Launch
BY DEF GateTypeOK, Live

LEMMA NewLaunchType ==
    ASSUME NEW sc \in Scopes
    PROVE  NewLaunch(sc) \in Launch
BY DEF NewLaunch, Launch

(* The updates of one launch that the methods make: each is a launch in    *)
(* the same scope.                                                         *)
LEMMA LaunchUpdates ==
    ASSUME NEW r \in Launch
    PROVE  /\ \A p \in Panes : [r EXCEPT !.pane = p] \in Launch
           /\ [r EXCEPT !.lease = TRUE] \in Launch
           /\ \A p \in Panes, u \in Sessions : [r EXCEPT !.ui = u, !.uiPane = p] \in Launch
           /\ [r EXCEPT !.committed = TRUE] \in Launch
           /\ [r EXCEPT !.published = TRUE] \in Launch
           /\ \A p \in Panes : [r EXCEPT !.pane = p].scope = r.scope
           /\ [r EXCEPT !.lease = TRUE].scope = r.scope
           /\ \A p \in Panes, u \in Sessions :
                 [r EXCEPT !.ui = u, !.uiPane = p].scope = r.scope
           /\ [r EXCEPT !.committed = TRUE].scope = r.scope
           /\ [r EXCEPT !.published = TRUE].scope = r.scope
BY DEF Launch

(* Replacing one launch keeps the types, and the correspondence of         *)
(* launches and scopes if the new launch is in the same scope.             *)
LEMMA ReplaceTyped ==
    ASSUME GateTypeOK, NEW t \in Tokens, NEW r \in Launch,
           pending' = [pending EXCEPT ![t] = r], scopes' = scopes,
           gateSessions' \in [Sessions -> Scopes \cup {None}]
    PROVE  GateTypeOK'
BY DEF GateTypeOK

LEMMA ReplaceOwns ==
    ASSUME GateTypeOK, PendingOwnsScope, NEW t \in Tokens, NEW r \in Launch, Live(t),
           r.scope = pending[t].scope,
           pending' = [pending EXCEPT ![t] = r], scopes' = scopes
    PROVE  PendingOwnsScope'
<1>1. r # None
    BY GateAssumption
<1>2. \A x \in Tokens : (pending'[x] # None <=> Live(x)) /\ pending'[x].scope = pending[x].scope
    BY <1>1 DEF GateTypeOK, Live
<1> QED
    BY <1>2 DEF PendingOwnsScope, GateTypeOK, Live

-----------------------------------------------------------------------------

(* Every method keeps the types of the three maps.                         *)
LEMMA GateTypeStep == GateTypeOK /\ [GateNext]_gateVars => GateTypeOK'
<1> SUFFICES ASSUME GateTypeOK, [GateNext]_gateVars PROVE GateTypeOK'
    OBVIOUS
<1> USE GateAssumption
<1>1. ASSUME NEW t \in Tokens, NEW sc \in Scopes, GPrepare(t, sc) PROVE GateTypeOK'
    BY <1>1, NewLaunchType DEF GateTypeOK, GPrepare
<1>2. ASSUME NEW t \in Tokens, NEW p \in Panes, GRegister(t, p) PROVE GateTypeOK'
    <2>1. [pending[t] EXCEPT !.pane = p] \in Launch
        BY <1>2, LiveLaunch, LaunchUpdates DEF GRegister
    <2> QED
        BY <1>2, <2>1, ReplaceTyped DEF GRegister, GateTypeOK
<1>3. ASSUME NEW t \in Tokens, GBindLease(t) PROVE GateTypeOK'
    <2>1. [pending[t] EXCEPT !.lease = TRUE] \in Launch
        BY <1>3, LiveLaunch, LaunchUpdates DEF GBindLease
    <2> QED
        BY <1>3, <2>1, ReplaceTyped DEF GBindLease, GateTypeOK
<1>4. ASSUME NEW u \in Sessions, NEW sc \in Scopes, NEW p \in Panes, NEW t \in Tokens,
             GAttachLaunch(u, sc, p, t)
      PROVE  GateTypeOK'
    <2>1. [pending[t] EXCEPT !.ui = u, !.uiPane = p] \in Launch
        BY <1>4, LiveLaunch, LaunchUpdates DEF GAttachLaunch
    <2>2. gateSessions' \in [Sessions -> Scopes \cup {None}]
        BY <1>4 DEF GAttachLaunch, GateTypeOK
    <2> QED
        BY <1>4, <2>1, <2>2, ReplaceTyped DEF GAttachLaunch
<1>5. ASSUME NEW u \in Sessions, NEW sc \in Scopes, GAttachDirect(u, sc) PROVE GateTypeOK'
    BY <1>5 DEF GateTypeOK, GAttachDirect
<1>6. ASSUME NEW t \in Tokens, Live(t), Promote(t) PROVE GateTypeOK'
    <2>1. pending[t].ui \in Sessions \cup {None}
        BY <1>6, LiveLaunch DEF Launch
    <2> QED
        BY <1>6, <2>1 DEF GateTypeOK, Promote
<1>7. ASSUME NEW t \in Tokens, NEW p \in Panes, GCommit(t, p) PROVE GateTypeOK'
    <2>1. CASE pending[t].published
        BY <1>6, <1>7, <2>1 DEF GCommit, CommitOk
    <2>2. CASE ~pending[t].published
        <3>1. [pending[t] EXCEPT !.committed = TRUE] \in Launch
            BY <1>7, LiveLaunch, LaunchUpdates DEF GCommit, CommitOk
        <3> QED
            BY <1>7, <2>2, <3>1, ReplaceTyped DEF GCommit, GateTypeOK
    <2> QED
        BY <2>1, <2>2
<1>8. ASSUME NEW t \in Tokens, NEW u \in Sessions, GPublish(t, u) PROVE GateTypeOK'
    <2>1. CASE pending[t].committed
        BY <1>6, <1>8, <2>1 DEF GPublish, PublishOk
    <2>2. CASE ~pending[t].committed
        <3>1. [pending[t] EXCEPT !.published = TRUE] \in Launch
            BY <1>8, LiveLaunch, LaunchUpdates DEF GPublish, PublishOk
        <3> QED
            BY <1>8, <2>2, <3>1, ReplaceTyped DEF GPublish, GateTypeOK
    <2> QED
        BY <2>1, <2>2
<1>9. ASSUME NEW T \in SUBSET Tokens, GRemove(T) PROVE GateTypeOK'
    BY <1>9 DEF GateTypeOK, GRemove
<1>10. ASSUME NEW u \in Sessions, GDetach(u) PROVE GateTypeOK'
    BY <1>10 DEF GateTypeOK, GDetach
<1>11. ASSUME NEW sc \in Scopes, GReleaseDangling(sc) PROVE GateTypeOK'
    BY <1>11 DEF GateTypeOK, GReleaseDangling
<1>12. CASE GDrain
    BY <1>12 DEF GateTypeOK, GDrain
<1>13. CASE UNCHANGED gateVars
    BY <1>13 DEF GateTypeOK, gateVars
<1>14. ASSUME NEW t \in Tokens, GAbort(t) PROVE GateTypeOK'
    BY <1>9, <1>14 DEF GAbort
<1>15. ASSUME NEW T \in SUBSET Tokens, GExpire(T) PROVE GateTypeOK'
    BY <1>9, <1>15 DEF GExpire
<1> QED
    BY <1>1, <1>2, <1>3, <1>4, <1>5, <1>7, <1>8, <1>10, <1>11, <1>12, <1>13,
       <1>14, <1>15 DEF GateNext

(* The gate's maps are always well typed.                                  *)
THEOREM GateTyped == GateSpec => []GateTypeOK
<1>1. GateInit => GateTypeOK
    BY DEF GateInit, GateTypeOK
<1> QED
    BY <1>1, GateTypeStep, PTL DEF GateSpec

-----------------------------------------------------------------------------

(* Removing launches together with the scopes their tokens own keeps the   *)
(* correspondence, whichever set is removed.                               *)
LEMMA RemoveOwns ==
    ASSUME GateTypeOK, PendingOwnsScope, NEW T \in SUBSET Tokens, GRemove(T)
    PROVE  PendingOwnsScope'
<1> USE GateAssumption
<1>1. ASSUME NEW t \in Tokens, Live(t)' PROVE scopes'[pending'[t].scope] = t
    <2>1. t \notin T /\ pending'[t] = pending[t] /\ Live(t)
        BY <1>1 DEF GRemove, Live
    <2>2. pending[t].scope \in Scopes /\ scopes[pending[t].scope] = t
        BY <2>1, LiveLaunch DEF PendingOwnsScope, Launch
    <2> QED
        BY <2>1, <2>2 DEF GRemove
<1>2. ASSUME NEW sc \in Scopes, scopes'[sc] \in Tokens
      PROVE  Live(scopes[sc])' /\ pending'[scopes'[sc]].scope = sc
    <2>1. scopes'[sc] = scopes[sc] /\ scopes[sc] \notin T
        BY <1>2 DEF GRemove
    <2> QED
        BY <1>2, <2>1 DEF PendingOwnsScope, GRemove, Live
<1> QED
    BY <1>1, <1>2 DEF PendingOwnsScope, Live

(* So does handing a scope from its pending token to a session.            *)
LEMMA PromoteOwns ==
    ASSUME GateTypeOK, PendingOwnsScope, NEW t \in Tokens, Live(t), Promote(t)
    PROVE  PendingOwnsScope'
<1> USE GateAssumption
<1>1. pending[t].scope \in Scopes /\ pending[t].ui \in Sessions \cup {None}
    BY LiveLaunch DEF Launch
<1>2. scopes[pending[t].scope] = t
    BY DEF PendingOwnsScope
<1>3. ASSUME NEW x \in Tokens, Live(x)' PROVE scopes'[pending'[x].scope] = x
    <2>1. x # t /\ pending'[x] = pending[x] /\ Live(x)
        BY <1>3 DEF Promote, Live, GateTypeOK
    <2>2. scopes[pending[x].scope] = x /\ pending[x].scope \in Scopes
        BY <2>1, LiveLaunch DEF PendingOwnsScope, Launch
    <2> QED
        BY <1>2, <2>1, <2>2 DEF Promote, GateTypeOK
<1>4. ASSUME NEW sc \in Scopes, scopes'[sc] \in Tokens
      PROVE  Live(scopes[sc])' /\ pending'[scopes'[sc]].scope = sc
    <2>1. sc # pending[t].scope /\ scopes'[sc] = scopes[sc]
        BY <1>1, <1>4 DEF Promote, GateTypeOK
    <2>2. Live(scopes[sc]) /\ pending[scopes[sc]].scope = sc
        BY <1>4, <2>1 DEF PendingOwnsScope
    <2> QED
        BY <1>4, <2>1, <2>2 DEF Promote, GateTypeOK, Live
<1> QED
    BY <1>3, <1>4 DEF PendingOwnsScope, Live

(* Every method keeps the correspondence of pending launches and scopes.   *)
LEMMA PendingOwnsStep ==
    GateTypeOK /\ PendingOwnsScope /\ [GateNext]_gateVars => PendingOwnsScope'
<1> SUFFICES ASSUME GateTypeOK, PendingOwnsScope, [GateNext]_gateVars
             PROVE  PendingOwnsScope'
    OBVIOUS
<1> USE GateAssumption
<1>1. ASSUME NEW t \in Tokens, NEW sc \in Scopes, GPrepare(t, sc) PROVE PendingOwnsScope'
    <2>1. NewLaunch(sc) # None /\ NewLaunch(sc).scope = sc
        BY NewLaunchType DEF NewLaunch
    <2>2. ASSUME NEW x \in Tokens, Live(x)' PROVE scopes'[pending'[x].scope] = x
        <3>1. CASE x = t
            BY <1>1, <2>1, <3>1 DEF GPrepare, GateTypeOK
        <3>2. CASE x # t
            <4>1. x # scopes[sc] /\ pending'[x] = pending[x] /\ Live(x)
                BY <1>1, <2>2, <3>2 DEF GPrepare, Live
            <4>2. scopes[pending[x].scope] = x /\ pending[x].scope \in Scopes
                BY <4>1, LiveLaunch DEF PendingOwnsScope, Launch
            <4> QED
                BY <1>1, <4>1, <4>2 DEF GPrepare, GateTypeOK
        <3> QED
            BY <3>1, <3>2
    <2>3. ASSUME NEW s \in Scopes, scopes'[s] \in Tokens
          PROVE  Live(scopes[s])' /\ pending'[scopes'[s]].scope = s
        <3>1. CASE s = sc
            BY <1>1, <2>1, <3>1 DEF GPrepare, GateTypeOK, Live
        <3>2. CASE s # sc
            <4>1. scopes'[s] = scopes[s]
                BY <1>1, <3>2 DEF GPrepare, GateTypeOK
            <4>2. Live(scopes[s]) /\ pending[scopes[s]].scope = s
                BY <2>3, <4>1 DEF PendingOwnsScope
            <4>3. scopes[s] # t /\ scopes[s] # scopes[sc]
                BY <1>1, <2>3, <3>2, <4>1, <4>2 DEF GPrepare, PendingOwnsScope
            <4> QED
                BY <1>1, <2>3, <4>1, <4>2, <4>3 DEF GPrepare, Live
        <3> QED
            BY <3>1, <3>2
    <2> QED
        BY <2>2, <2>3 DEF PendingOwnsScope, Live
<1>2. ASSUME NEW t \in Tokens, NEW p \in Panes, GRegister(t, p) PROVE PendingOwnsScope'
    <2>1. /\ [pending[t] EXCEPT !.pane = p] \in Launch
          /\ [pending[t] EXCEPT !.pane = p].scope = pending[t].scope
        BY <1>2, LiveLaunch, LaunchUpdates DEF GRegister
    <2> QED
        BY <1>2, <2>1, ReplaceOwns DEF GRegister
<1>3. ASSUME NEW t \in Tokens, GBindLease(t) PROVE PendingOwnsScope'
    <2>1. /\ [pending[t] EXCEPT !.lease = TRUE] \in Launch
          /\ [pending[t] EXCEPT !.lease = TRUE].scope = pending[t].scope
        BY <1>3, LiveLaunch, LaunchUpdates DEF GBindLease
    <2> QED
        BY <1>3, <2>1, ReplaceOwns DEF GBindLease
<1>4. ASSUME NEW u \in Sessions, NEW sc \in Scopes, NEW p \in Panes, NEW t \in Tokens,
             GAttachLaunch(u, sc, p, t)
      PROVE  PendingOwnsScope'
    <2>1. /\ [pending[t] EXCEPT !.ui = u, !.uiPane = p] \in Launch
          /\ [pending[t] EXCEPT !.ui = u, !.uiPane = p].scope = pending[t].scope
        <3>1. pending[t] \in Launch
            BY <1>4, LiveLaunch DEF GAttachLaunch
        <3> QED
            BY <3>1, LaunchUpdates
    <2> QED
        BY <1>4, <2>1, ReplaceOwns DEF GAttachLaunch
<1>5. ASSUME NEW u \in Sessions, NEW sc \in Scopes, GAttachDirect(u, sc)
      PROVE  PendingOwnsScope'
    <2>1. ASSUME NEW t \in Tokens, Live(t)
          PROVE  pending[t].scope \in Scopes /\ pending[t].scope # sc
        BY <1>5, <2>1, LiveLaunch DEF GAttachDirect, PendingOwnsScope, Launch
    <2> QED
        BY <1>5, <2>1 DEF GAttachDirect, PendingOwnsScope, GateTypeOK, Live
<1>6. ASSUME NEW t \in Tokens, NEW p \in Panes, GCommit(t, p) PROVE PendingOwnsScope'
    <2>1. CASE pending[t].published
        BY <1>6, <2>1, PromoteOwns DEF GCommit, CommitOk
    <2>2. CASE ~pending[t].published
        <3>1. /\ [pending[t] EXCEPT !.committed = TRUE] \in Launch
              /\ [pending[t] EXCEPT !.committed = TRUE].scope = pending[t].scope
            BY <1>6, LiveLaunch, LaunchUpdates DEF GCommit, CommitOk
        <3> QED
            BY <1>6, <2>2, <3>1, ReplaceOwns DEF GCommit, CommitOk
    <2> QED
        BY <2>1, <2>2
<1>7. ASSUME NEW t \in Tokens, NEW u \in Sessions, GPublish(t, u) PROVE PendingOwnsScope'
    <2>1. CASE pending[t].committed
        BY <1>7, <2>1, PromoteOwns DEF GPublish, PublishOk
    <2>2. CASE ~pending[t].committed
        <3>1. /\ [pending[t] EXCEPT !.published = TRUE] \in Launch
              /\ [pending[t] EXCEPT !.published = TRUE].scope = pending[t].scope
            BY <1>7, LiveLaunch, LaunchUpdates DEF GPublish, PublishOk
        <3> QED
            BY <1>7, <2>2, <3>1, ReplaceOwns DEF GPublish, PublishOk
    <2> QED
        BY <2>1, <2>2
<1>8. ASSUME NEW t \in Tokens, GAbort(t) PROVE PendingOwnsScope'
    BY <1>8, RemoveOwns DEF GAbort
<1>9. ASSUME NEW T \in SUBSET Tokens, GExpire(T) PROVE PendingOwnsScope'
    BY <1>9, RemoveOwns DEF GExpire
<1>10. ASSUME NEW u \in Sessions, GDetach(u) PROVE PendingOwnsScope'
    <2>1. ASSUME NEW t \in Tokens, Live(t) PROVE pending[t].scope \in Scopes
        BY <2>1, LiveLaunch DEF Launch
    <2> QED
        BY <1>10, <2>1 DEF GDetach, PendingOwnsScope, GateTypeOK, Live
<1>11. ASSUME NEW sc \in Scopes, GReleaseDangling(sc) PROVE PendingOwnsScope'
    <2>1. ASSUME NEW t \in Tokens, Live(t)
          PROVE  pending[t].scope \in Scopes /\ scopes[pending[t].scope] = t
        BY <2>1, LiveLaunch DEF Launch, PendingOwnsScope
    <2>2. scopes[sc] \in Tokens => ~Dangling(sc)
        BY DEF Dangling, PendingOwnsScope
    <2> QED
        BY <1>11, <2>1, <2>2 DEF GReleaseDangling, PendingOwnsScope, GateTypeOK, Live
<1>12. CASE GDrain
    BY <1>12 DEF GDrain, PendingOwnsScope, Live
<1>13. CASE UNCHANGED gateVars
    BY <1>13 DEF gateVars, PendingOwnsScope, Live
<1> QED
    BY <1>1, <1>2, <1>3, <1>4, <1>5, <1>6, <1>7, <1>8, <1>9, <1>10, <1>11, <1>12,
       <1>13 DEF GateNext

(* A launch is pending exactly while its token owns its scope, for any     *)
(* number of launchers, scopes and sessions: gate.rs never has two pending *)
(* launches in one scope and never leaves a scope to a consumed token.     *)
THEOREM PendingOwnsScopeAlways == GateSpec => []PendingOwnsScope
<1>1. GateInit => PendingOwnsScope
    BY GateAssumption DEF GateInit, PendingOwnsScope, Live
<1> QED
    BY <1>1, GateTyped, PendingOwnsStep, PTL DEF GateSpec

-----------------------------------------------------------------------------

(* What the other two invariants say of one launch, and that a published   *)
(* launch has a UI, which the broker's bookkeeping relies on.              *)
LaunchOK(r) ==
    /\ ~(r.committed /\ r.published)
    /\ r.committed => r.pane # None
    /\ r.lease => r.pane # None
    /\ (r.pane # None /\ r.uiPane # None) => r.pane = r.uiPane
    /\ r.published => r.ui # None

LaunchesOK == \A t \in Tokens : Live(t) => LaunchOK(pending[t])

(* A method that replaces one launch, or only removes launches, keeps the  *)
(* others as they are.                                                     *)
LEMMA ReplaceOK ==
    ASSUME GateTypeOK, LaunchesOK, NEW t \in Tokens, NEW r, LaunchOK(r),
           pending' = [pending EXCEPT ![t] = r]
    PROVE  LaunchesOK'
BY DEF LaunchesOK, GateTypeOK, Live

LEMMA RemoveOK ==
    ASSUME LaunchesOK, \A t \in Tokens : pending'[t] \in {None, pending[t]}
    PROVE  LaunchesOK'
BY DEF LaunchesOK, Live

LEMMA LaunchesOKStep ==
    GateTypeOK /\ LaunchesOK /\ [GateNext]_gateVars => LaunchesOK'
<1> SUFFICES ASSUME GateTypeOK, LaunchesOK, [GateNext]_gateVars PROVE LaunchesOK'
    OBVIOUS
<1> USE GateAssumption
<1>0. ASSUME NEW t \in Tokens, Live(t) PROVE pending[t] \in Launch /\ LaunchOK(pending[t])
    BY <1>0, LiveLaunch DEF LaunchesOK
<1>1. ASSUME NEW t \in Tokens, NEW sc \in Scopes, GPrepare(t, sc) PROVE LaunchesOK'
    <2>1. LaunchOK(NewLaunch(sc))
        BY DEF LaunchOK, NewLaunch
    <2>2. ASSUME NEW x \in Tokens, x # t, Live(x)' PROVE LaunchOK(pending'[x])
        BY <1>1, <2>2 DEF GPrepare, LaunchesOK, Live
    <2> QED
        BY <1>1, <2>1, <2>2 DEF GPrepare, LaunchesOK, Live
<1>2. ASSUME NEW t \in Tokens, NEW p \in Panes, GRegister(t, p) PROVE LaunchesOK'
    <2>1. LaunchOK([pending[t] EXCEPT !.pane = p])
        BY <1>0, <1>2 DEF GRegister, LaunchOK, Launch
    <2> QED
        BY <1>2, <2>1, ReplaceOK DEF GRegister
<1>3. ASSUME NEW t \in Tokens, GBindLease(t) PROVE LaunchesOK'
    <2>1. LaunchOK([pending[t] EXCEPT !.lease = TRUE])
        BY <1>0, <1>3 DEF GBindLease, LaunchOK, Launch
    <2> QED
        BY <1>3, <2>1, ReplaceOK DEF GBindLease
<1>4. ASSUME NEW u \in Sessions, NEW sc \in Scopes, NEW p \in Panes, NEW t \in Tokens,
             GAttachLaunch(u, sc, p, t)
      PROVE  LaunchesOK'
    <2>1. LaunchOK([pending[t] EXCEPT !.ui = u, !.uiPane = p])
        BY <1>0, <1>4 DEF GAttachLaunch, LaunchOK, Launch
    <2> QED
        BY <1>4, <2>1, ReplaceOK DEF GAttachLaunch
<1>5. ASSUME NEW t \in Tokens, Promote(t) PROVE LaunchesOK'
    BY <1>5, RemoveOK DEF Promote, GateTypeOK
<1>6. ASSUME NEW t \in Tokens, NEW p \in Panes, GCommit(t, p) PROVE LaunchesOK'
    <2>1. CASE ~pending[t].published
        <3>1. LaunchOK([pending[t] EXCEPT !.committed = TRUE])
            BY <1>0, <1>6, <2>1 DEF GCommit, CommitOk, LaunchOK, Launch
        <3> QED
            BY <1>6, <2>1, <3>1, ReplaceOK DEF GCommit
    <2> QED
        BY <1>5, <1>6, <2>1 DEF GCommit
<1>7. ASSUME NEW t \in Tokens, NEW u \in Sessions, GPublish(t, u) PROVE LaunchesOK'
    <2>1. CASE ~pending[t].committed
        <3>1. LaunchOK([pending[t] EXCEPT !.published = TRUE])
            BY <1>0, <1>7, <2>1 DEF GPublish, PublishOk, LaunchOK, Launch
        <3> QED
            BY <1>7, <2>1, <3>1, ReplaceOK DEF GPublish
    <2> QED
        BY <1>5, <1>7, <2>1 DEF GPublish
<1>8. ASSUME NEW T \in SUBSET Tokens, GRemove(T) PROVE LaunchesOK'
    BY <1>8, RemoveOK DEF GRemove
<1>9. CASE GDrain
    BY <1>9, RemoveOK DEF GDrain
<1>10. CASE pending' = pending
    BY <1>10, RemoveOK
<1>11. ASSUME NEW t \in Tokens, GAbort(t) PROVE LaunchesOK'
    BY <1>8, <1>11 DEF GAbort
<1>12. ASSUME NEW T \in SUBSET Tokens, GExpire(T) PROVE LaunchesOK'
    BY <1>8, <1>12 DEF GExpire
<1> QED
    BY <1>1, <1>2, <1>3, <1>4, <1>6, <1>7, <1>9, <1>10, <1>11, <1>12
    DEF GateNext, gateVars, GAttachDirect, GDetach, GReleaseDangling

LEMMA LaunchesOKAlways == GateSpec => []LaunchesOK
<1>1. GateInit => LaunchesOK
    BY DEF GateInit, LaunchesOK, Live
<1> QED
    BY <1>1, GateTyped, LaunchesOKStep, PTL DEF GateSpec

(* No launch waits for a promotion that nothing would trigger: commit and  *)
(* publish_attached never leave both facts recorded.                       *)
THEOREM NeverBothRecordedAlways == GateSpec => []NeverBothRecorded
<1>1. LaunchesOK => NeverBothRecorded
    BY DEF LaunchesOK, LaunchOK, NeverBothRecorded
<1> QED
    BY <1>1, LaunchesOKAlways, PTL

(* The registered pane, the leased pane, the committed pane and the pane   *)
(* of the attached UI are one pane, whatever order they are reported in.   *)
THEOREM PanesAgreeAlways == GateSpec => []PanesAgree
<1>1. LaunchesOK => PanesAgree
    BY DEF LaunchesOK, LaunchOK, PanesAgree
<1> QED
    BY <1>1, LaunchesOKAlways, PTL

-----------------------------------------------------------------------------

(* A scope goes from a token to a session only through that token's own    *)
(* launch: commit and publish_attached cannot promote on behalf of another *)
(* token, because the scope of a live launch is owned by its own token.    *)
THEOREM PromotionAlways == GateSpec => PromotionProperty
<1>1. GateTypeOK /\ PendingOwnsScope /\ [GateNext]_gateVars => [PromotesOwnLaunch]_gateVars
    <2> SUFFICES ASSUME GateTypeOK, PendingOwnsScope, GateNext,
                        NEW sc \in Scopes, scopes[sc] \in Tokens, scopes'[sc] \in Sessions
                 PROVE  /\ scopes'[sc] = pending[scopes[sc]].ui
                        /\ pending[scopes[sc]].committed \/ pending[scopes[sc]].published
                        /\ pending'[scopes[sc]] = None
        BY DEF PromotesOwnLaunch
    <2> USE GateAssumption
    <2>1. ASSUME NEW t \in Tokens, Live(t), Promote(t)
          PROVE  /\ t = scopes[sc]
                 /\ scopes'[sc] = pending[t].ui
                 /\ pending'[t] = None
        <3>1. pending[t].scope \in Scopes /\ scopes[pending[t].scope] = t
            BY <2>1, LiveLaunch DEF Launch, PendingOwnsScope
        <3>2. sc = pending[t].scope
            BY <2>1, <3>1 DEF Promote, GateTypeOK
        <3> QED
            BY <2>1, <3>1, <3>2 DEF Promote, GateTypeOK
    <2>2. ASSUME NEW t \in Tokens, NEW p \in Panes, GCommit(t, p)
          PROVE  pending[t].published /\ Live(t) /\ Promote(t)
        BY <2>2 DEF GCommit, CommitOk
    <2>3. ASSUME NEW t \in Tokens, NEW u \in Sessions, GPublish(t, u)
          PROVE  pending[t].committed /\ Live(t) /\ Promote(t)
        BY <2>3 DEF GPublish, PublishOk
    <2>4. ASSUME scopes'[sc] \in {None, scopes[sc]} PROVE FALSE
        BY <2>4
    <2>5. ASSUME NEW t \in Tokens, NEW s \in Scopes, GPrepare(t, s) PROVE FALSE
        BY <2>5 DEF GPrepare, GateTypeOK
    <2>6. ASSUME NEW u \in Sessions, NEW s \in Scopes, GAttachDirect(u, s) PROVE FALSE
        BY <2>6 DEF GAttachDirect, GateTypeOK
    <2>7. ASSUME NEW T \in SUBSET Tokens, GRemove(T) PROVE FALSE
        BY <2>4, <2>7 DEF GRemove
    <2>8. ASSUME NEW u \in Sessions, GDetach(u) PROVE FALSE
        BY <2>4, <2>8 DEF GDetach
    <2>9. ASSUME NEW s \in Scopes, GReleaseDangling(s) PROVE FALSE
        BY <2>4, <2>9 DEF GReleaseDangling, GateTypeOK
    <2>10. GDrain => FALSE
        BY <2>4 DEF GDrain
    <2>11. ASSUME NEW t \in Tokens, GAbort(t) PROVE FALSE
        BY <2>7, <2>11 DEF GAbort
    <2>12. ASSUME NEW T \in SUBSET Tokens, GExpire(T) PROVE FALSE
        BY <2>7, <2>12 DEF GExpire
    <2>13. ASSUME NEW t \in Tokens,
                  (\E p \in Panes : GRegister(t, p)) \/ GBindLease(t)
                    \/ \E u \in Sessions, s \in Scopes, p \in Panes : GAttachLaunch(u, s, p, t)
           PROVE  FALSE
        BY <2>4, <2>13 DEF GRegister, GBindLease, GAttachLaunch
    <2>14. PICK t \in Tokens : \/ \E p \in Panes : GCommit(t, p)
                               \/ \E u \in Sessions : GPublish(t, u)
        BY <2>5, <2>6, <2>8, <2>9, <2>10, <2>11, <2>12, <2>13 DEF GateNext
    <2> QED
        BY <2>1, <2>2, <2>3, <2>14
<1> QED
    BY <1>1, GateTyped, PendingOwnsScopeAlways, PTL DEF GateSpec, PromotionProperty
=============================================================================
