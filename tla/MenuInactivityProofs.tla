------------------------ MODULE MenuInactivityProofs ------------------------
(***************************************************************************)
(* The inactivity properties for every set of menus and actions, every     *)
(* assignment of timeouts and every bound on clock and stack.              *)
(*                                                                         *)
(* DeadlineIsIdleTime is not inductive alone: resuming the deadline after  *)
(* an action needs to know that the rest was recorded by that action,      *)
(* which is OneTimer, and taking the top of the stack needs a stack that   *)
(* is never empty.  Sound says all of it of one session at one time, so    *)
(* that each event of MenuSession gets a lemma of its own.                 *)
(***************************************************************************)
EXTENDS MenuInactivity, SequenceTheorems, TLAPS

Typed(m) == m \in Session /\ m.stack # <<>>

(* The three invariants of a session m at time n, with idle time i.        *)
Deadline(m, n, i) ==
    LET limit == Timeout[Top(m)] IN
    /\ m.state = "Active" =>
          IF limit = NoTime THEN m.deadline = NoTime
          ELSE IF i < limit THEN m.deadline = n + limit - i
          ELSE m.deadline # NoTime /\ m.deadline <= n
    /\ m.state = "Pending" =>
          m.paused = IF limit = NoTime THEN NoTime
                     ELSE IF i < limit THEN limit - i ELSE 0

Timers(m) ==
    /\ m.state # "Active" => m.deadline = NoTime
    /\ m.state # "Pending" => m.paused = NoTime

Sound(m, n, i) == Typed(m) /\ Timers(m) /\ Deadline(m, n, i)

Inv == Sound(menu, now, idle) /\ now \in Nat /\ idle \in Nat

-----------------------------------------------------------------------------

LEMMA TopTyped ==
    ASSUME NEW m, Typed(m)
    PROVE  Top(m) \in Menus /\ Timeout[Top(m)] \in Times /\ Len(m.stack) \in Nat \ {0}
BY MenuAssumption DEF Typed, Session, Top

(* The caller stack after one menu is closed.                              *)
LEMMA PopTyped ==
    ASSUME NEW S, NEW s \in Seq(S), NEW k \in Nat \ {0}, k <= Len(s)
    PROVE  SubSeq(s, 1, k) \in Seq(S) /\ SubSeq(s, 1, k) # <<>>
<1>1. Len(s) \in Nat
    BY LenProperties
<1>2. ASSUME NEW i \in 1..k PROVE s[i] \in S
    <2>1. i \in 1..Len(s)
        BY <1>1, <1>2
    <2> QED
        BY <2>1, ElementOfSeq
<1>3. SubSeq(s, 1, k) \in Seq(S) /\ Len(SubSeq(s, 1, k)) = k
    BY <1>2, SubSeqProperties
<1> QED
    BY <1>3

(* reset_deadline on a visible menu starts the interval over.              *)
LEMMA ResetSound ==
    ASSUME NEW m, Typed(m), m.state = "Active", m.paused = NoTime, NEW n \in Nat
    PROVE  Sound(ResetDeadline(m, n), n, 0)
<1> DEFINE r == ResetDeadline(m, n)
<1>1. /\ Top(m) \in Menus /\ Timeout[Top(m)] \in Times
    BY TopTyped
<1>2. r = [m EXCEPT !.deadline = FullDeadline(Top(m), n)]
    BY DEF ResetDeadline
<1>3. FullDeadline(Top(m), n) \in Times
    BY <1>1 DEF FullDeadline, Times
<1>4. Typed(r) /\ r.state = "Active" /\ r.paused = NoTime
       /\ r.deadline = FullDeadline(Top(m), n) /\ r.stack = m.stack
    BY <1>2, <1>3 DEF Typed, Session
<1>5. Top(r) = Top(m)
    BY <1>4 DEF Top
<1>6. Timers(r)
    BY <1>4 DEF Timers
<1>7. Deadline(r, n, 0)
    BY <1>1, <1>4, <1>5, MenuAssumption DEF Deadline, FullDeadline, Times
<1> QED
    BY <1>4, <1>6, <1>7 DEF Sound

(* A dismissed menu has no timer, whatever the idle time.                  *)
LEMMA DismissSound ==
    ASSUME NEW m, Typed(m), NEW n, NEW i
    PROVE  Sound(Dismiss(m), n, i) /\ Dismiss(m).state = "Dismissed"
<1>1. Typed(Dismiss(m))
    BY DEF Typed, Session, Dismiss, Times
<1>2. Dismiss(m).state = "Dismissed" /\ Dismiss(m).deadline = NoTime /\ Dismiss(m).paused = NoTime
    BY DEF Typed, Session, Dismiss
<1> QED
    BY <1>1, <1>2 DEF Sound, Timers, Deadline

(* apply_control pops to a menu with a fresh interval, or dismisses.       *)
LEMMA ControlSound ==
    ASSUME NEW m, Typed(m), m.state = "Active", m.paused = NoTime,
           NEW n \in Nat, NEW c \in Controls
    PROVE  Sound(ApplyControl(m, c, n), n, 0) /\ ApplyControl(m, c, n).state # "Pending"
<1>1. CASE c = "Quit" \/ Len(m.stack) = 1
    BY <1>1, DismissSound DEF ApplyControl
<1>2. CASE ~(c = "Quit" \/ Len(m.stack) = 1)
    <2> DEFINE p == [m EXCEPT !.stack = SubSeq(m.stack, 1, Len(m.stack) - 1)]
    <2>1. Len(m.stack) - 1 \in Nat \ {0} /\ Len(m.stack) - 1 <= Len(m.stack)
        BY <1>2, TopTyped
    <2>2. /\ SubSeq(m.stack, 1, Len(m.stack) - 1) \in Seq(Menus)
          /\ SubSeq(m.stack, 1, Len(m.stack) - 1) # <<>>
        <3>1. m.stack \in Seq(Menus)
            BY DEF Typed, Session
        <3> QED
            BY <2>1, <3>1, PopTyped
    <2>3. Typed(p) /\ p.state = "Active" /\ p.paused = NoTime
        BY <2>1, <2>2 DEF Typed, Session
    <2>4. ApplyControl(m, c, n) = ResetDeadline(p, n)
        BY <1>2 DEF ApplyControl
    <2>5. ResetDeadline(p, n).state = "Active"
        BY <2>3 DEF ResetDeadline, Typed, Session
    <2> QED
        BY <2>3, <2>4, <2>5, ResetSound
<1> QED
    BY <1>1, <1>2

-----------------------------------------------------------------------------

(* Time goes by: a visible menu's idle time grows with the clock, a        *)
(* waiting menu's does not.                                                *)
LEMMA PassSound ==
    ASSUME NEW m, NEW n \in Nat, NEW i \in Nat, Sound(m, n, i)
    PROVE  Sound(m, n + 1, IF m.state = "Active" THEN i + 1 ELSE i)
<1>1. Timeout[Top(m)] \in Times /\ m.deadline \in Times
    BY TopTyped DEF Sound, Typed, Session
<1>2. CASE m.state = "Active"
    <2>1. Deadline(m, n + 1, i + 1)
        BY <1>1, <1>2, MenuAssumption DEF Sound, Deadline, Times
    <2> QED
        BY <1>2, <2>1 DEF Sound
<1>3. CASE m.state # "Active"
    <2>1. Deadline(m, n + 1, i)
        BY <1>3 DEF Sound, Deadline
    <2> QED
        BY <1>3, <2>1 DEF Sound
<1> QED
    BY <1>2, <1>3

(* ActionPending records exactly what idle time leaves.                    *)
LEMMA PendingSound ==
    ASSUME NEW m, NEW n \in Nat, NEW i \in Nat, NEW e \in Execs,
           Sound(m, n, i), m.state = "Active"
    PROVE  Sound(ActionPending(m, e, n), n, i)
<1> DEFINE rest == IF m.deadline = NoTime THEN NoTime
                   ELSE IF m.deadline <= n THEN 0 ELSE m.deadline - n
           r == ActionPending(m, e, n)
<1>1. Typed(m) /\ Timeout[Top(m)] \in Times /\ m.deadline \in Times
    BY TopTyped DEF Sound, Typed, Session
<1>2. rest \in Times
    BY <1>1 DEF Times
<1>3. r = [m EXCEPT !.state = "Pending", !.exec = e, !.control = NoExec,
                    !.deadline = NoTime, !.paused = rest]
    BY DEF ActionPending
<1>4. /\ Typed(r) /\ r.state = "Pending" /\ r.deadline = NoTime /\ r.paused = rest
      /\ r.stack = m.stack
    BY <1>1, <1>2, <1>3 DEF Typed, Session, Times
<1>5. rest = IF Timeout[Top(m)] = NoTime THEN NoTime
             ELSE IF i < Timeout[Top(m)] THEN Timeout[Top(m)] - i ELSE 0
    BY <1>1, MenuAssumption DEF Sound, Deadline, Times
<1> QED
    BY <1>4, <1>5 DEF Sound, Timers, Deadline, Top

(* A key while an action is pending restarts the paused interval.          *)
LEMMA PendingKeySound ==
    ASSUME NEW m, NEW n, NEW i, NEW c \in Controls \cup {NoExec},
           Sound(m, n, i), m.state = "Pending"
    PROVE  Sound(PendingKey(m, c), n, 0)
<1> DEFINE r == PendingKey(m, c)
<1>1. Typed(m) /\ Timeout[Top(m)] \in Times
    BY TopTyped DEF Sound
<1>2. r = [m EXCEPT !.paused = Timeout[Top(m)],
                    !.control = IF m.control = NoExec THEN c ELSE m.control]
    BY DEF PendingKey
<1>3. /\ Typed(r) /\ r.state = "Pending" /\ r.deadline = m.deadline
      /\ r.paused = Timeout[Top(m)] /\ r.stack = m.stack
    BY <1>1, <1>2 DEF Typed, Session
<1>4. m.deadline = NoTime
    BY DEF Sound, Timers
<1>5. Timers(r)
    BY <1>3, <1>4 DEF Timers
<1>6. Deadline(r, n, 0)
    BY <1>1, <1>3, MenuAssumption DEF Deadline, Top, Times
<1> QED
    BY <1>3, <1>5, <1>6 DEF Sound

(* A successful action that stays resumes the deadline with the rest.      *)
LEMMA ResumeSound ==
    ASSUME NEW m, NEW n \in Nat, NEW i \in Nat, Sound(m, n, i), m.state = "Pending"
    PROVE  /\ Sound(ResumeDeadline(Activated(m), n), n, i)
           /\ ResumeDeadline(Activated(m), n).state = "Active"
<1> DEFINE r == ResumeDeadline(Activated(m), n)
           until == IF m.paused = NoTime THEN NoTime ELSE n + m.paused
<1>1. Typed(m) /\ Timeout[Top(m)] \in Times /\ m.paused \in Times
    BY TopTyped DEF Sound, Typed, Session
<1>2. until \in Times
    BY <1>1 DEF Times
<1>3. r = [m EXCEPT !.state = "Active", !.exec = NoExec, !.deadline = until, !.paused = NoTime]
    BY <1>1 DEF ResumeDeadline, Activated, Typed, Session
<1>4. /\ Typed(r) /\ r.state = "Active" /\ r.deadline = until /\ r.paused = NoTime
      /\ r.stack = m.stack
    BY <1>1, <1>2, <1>3 DEF Typed, Session, Times
<1>5. Timers(r)
    BY <1>4 DEF Timers
<1>6. Deadline(r, n, i)
    BY <1>1, <1>4, MenuAssumption DEF Sound, Deadline, Top, Times
<1> QED
    BY <1>4, <1>5, <1>6 DEF Sound

(* The states from which a failed, a returning or a quitting action, or a  *)
(* confirmed control, go on: the menu is visible and the rest is dropped.  *)
LEMMA ActivatedTyped ==
    ASSUME NEW m, Typed(m)
    PROVE  /\ LET a == [Activated(m) EXCEPT !.paused = NoTime]
              IN  Typed(a) /\ a.state = "Active" /\ a.paused = NoTime
           /\ LET b == [Activated(m) EXCEPT !.control = NoExec, !.paused = NoTime]
              IN  Typed(b) /\ b.state = "Active" /\ b.paused = NoTime
BY DEF Typed, Session, Activated, Times

-----------------------------------------------------------------------------

LEMMA InvInit == Init => Inv
<1> SUFFICES ASSUME Init PROVE Inv
    OBVIOUS
<1>1. PICK root \in Menus : menu = NewSession(root, 0)
    BY DEF Init
<1>2. Timeout[root] \in Times
    BY MenuAssumption
<1>3. /\ Typed(menu) /\ menu.state = "Active" /\ menu.paused = NoTime
      /\ menu.deadline = FullDeadline(root, 0) /\ Top(menu) = root
    BY <1>1, <1>2 DEF NewSession, Typed, Session, FullDeadline, Times, Top
<1>4. Deadline(menu, 0, 0)
    BY <1>2, <1>3, MenuAssumption DEF Deadline, FullDeadline, Times
<1> QED
    BY <1>3, <1>4 DEF Inv, Sound, Timers, Init

(* One step per event that the runtime feeds to the session.               *)
LEMMA InvStep == Inv /\ [Next]_vars => Inv'
<1> SUFFICES ASSUME Inv, [Next]_vars PROVE Inv'
    OBVIOUS
<1>0. /\ Sound(menu, now, idle) /\ Typed(menu) /\ Timers(menu)
      /\ now \in Nat /\ idle \in Nat
      /\ menu.state \in {"Active", "Pending", "Dismissed"}
    BY DEF Inv, Sound, Typed, Session
<1>d. ASSUME menu.state = "Dismissed" PROVE Sound(menu, now, 0)
    BY <1>0, <1>d DEF Sound, Deadline
<1>a. ASSUME menu.state = "Active" PROVE menu.paused = NoTime
    BY <1>0, <1>a DEF Timers
<1>1. CASE Key
    <2>1. Sound(KeyOther(menu, now), now, 0)
        <3>1. CASE menu.state = "Dismissed"
            BY <1>d, <3>1 DEF KeyOther
        <3>2. CASE menu.state = "Pending"
            BY <1>0, <3>2, PendingKeySound DEF KeyOther
        <3>3. CASE menu.state = "Active"
            BY <1>0, <1>a, <3>3, ResetSound DEF KeyOther
        <3> QED
            BY <1>0, <3>1, <3>2, <3>3
    <2> QED
        BY <1>0, <1>1, <2>1 DEF Key, Inv
<1>2. ASSUME NEW c \in Controls, Control(c) PROVE Inv'
    <2>1. Sound(KeyControl(menu, c, now), now, 0)
        <3>1. CASE menu.state = "Dismissed"
            BY <1>d, <3>1 DEF KeyControl
        <3>2. CASE menu.state = "Pending"
            BY <1>0, <3>2, PendingKeySound DEF KeyControl
        <3>3. CASE menu.state = "Active"
            <4> DEFINE r == ResetDeadline(menu, now)
            <4>1. Typed(r)
                BY <1>0, <1>a, <3>3, ResetSound DEF Sound
            <4>2. r.state = "Active" /\ r.paused = NoTime
                BY <1>0, <1>a, <3>3 DEF ResetDeadline, Typed, Session
            <4> QED
                BY <1>0, <3>3, <4>1, <4>2, ControlSound DEF KeyControl
        <3> QED
            BY <1>0, <3>1, <3>2, <3>3
    <2> QED
        BY <1>0, <1>2, <2>1 DEF Control, Inv
<1>3. ASSUME NEW x \in Menus, Open(x) PROVE Inv'
    <2> DEFINE p == [menu EXCEPT !.stack = Append(menu.stack, x)]
    <2>1. menu.stack \in Seq(Menus)
        BY <1>0 DEF Typed, Session
    <2>2. Append(menu.stack, x) \in Seq(Menus) /\ Append(menu.stack, x) # <<>>
        BY <2>1, AppendProperties
    <2>3. Typed(p) /\ p.state = menu.state /\ p.paused = menu.paused
        BY <1>0, <2>2 DEF Typed, Session
    <2>4. menu' = ResetDeadline(p, now) /\ menu.state = "Active"
        BY <1>3 DEF Open, OpenSubmenu
    <2> QED
        BY <1>0, <1>3, <1>a, <2>3, <2>4, ResetSound DEF Open, Inv
<1>4. ASSUME NEW e \in Execs, Awaited(e) PROVE Inv'
    BY <1>0, <1>4, PendingSound DEF Awaited, Inv
<1>5. ASSUME NEW after \in AfterActions, Detached(after) PROVE Inv'
    <2>1. menu.state = "Active" /\ menu' = ApplyAfterAction(menu, after, now) /\ now' = now
        BY <1>5 DEF Detached, DetachedAccepted
    <2>2. CASE after = "Stay"
        BY <1>0, <1>5, <2>1, <2>2 DEF Detached, ApplyAfterAction, Inv
    <2>3. CASE after = "Quit"
        BY <1>0, <1>5, <2>1, <2>3, DismissSound DEF Detached, ApplyAfterAction, Inv
    <2>4. CASE after = "Return"
        <3>1. Sound(ApplyControl(menu, "Return", now), now, 0)
            BY <1>0, <1>a, <2>1, ControlSound DEF Controls
        <3> QED
            BY <1>0, <1>5, <2>1, <2>4, <3>1 DEF Detached, ApplyAfterAction, Inv
    <2> QED
        BY <2>2, <2>3, <2>4 DEF AfterActions
<1>6. ASSUME NEW e \in Execs, NEW success \in BOOLEAN, NEW after \in AfterActions,
             Completed(e, success, after)
      PROVE  Inv'
    <2> DEFINE a == [Activated(menu) EXCEPT !.paused = NoTime]
    <2>0. /\ menu.state = "Pending" /\ now' = now
          /\ menu' = ActionCompleted(menu, e, success, after, now)
          /\ idle' = IF menu'.state = "Pending" \/ (success /\ after = "Stay") THEN idle ELSE 0
        BY <1>6 DEF Completed
    <2>a. Typed(a) /\ a.state = "Active" /\ a.paused = NoTime
        BY <1>0, ActivatedTyped
    <2>1. CASE menu.exec # e \/ menu.control # NoExec
        BY <1>0, <2>0, <2>1 DEF ActionCompleted, Inv
    <2>2. CASE menu.exec = e /\ menu.control = NoExec /\ ~success
        <3>1. menu' = ResetDeadline(a, now)
            BY <2>0, <2>2 DEF ActionCompleted
        <3>2. ResetDeadline(a, now).state = "Active"
            BY <2>a DEF ResetDeadline, Typed, Session
        <3> QED
            BY <1>0, <2>0, <2>2, <2>a, <3>1, <3>2, ResetSound DEF Inv
    <2>3. CASE menu.exec = e /\ menu.control = NoExec /\ success /\ after = "Stay"
        <3>1. menu' = ResumeDeadline(Activated(menu), now)
            BY <2>0, <2>3 DEF ActionCompleted
        <3> QED
            BY <1>0, <2>0, <2>3, <3>1, ResumeSound DEF Inv
    <2>4. CASE menu.exec = e /\ menu.control = NoExec /\ success /\ after = "Quit"
        <3>1. menu' = Dismiss(a)
            BY <2>0, <2>4 DEF ActionCompleted, ApplyAfterAction
        <3> QED
            BY <1>0, <2>0, <2>a, <2>4, <3>1, DismissSound DEF Inv
    <2>5. CASE menu.exec = e /\ menu.control = NoExec /\ success /\ after = "Return"
        <3>1. menu' = ApplyControl(a, "Return", now)
            BY <2>0, <2>5 DEF ActionCompleted, ApplyAfterAction
        <3>2. Sound(menu', now, 0) /\ menu'.state # "Pending"
            BY <1>0, <2>a, <3>1, ControlSound DEF Controls
        <3> QED
            BY <1>0, <2>0, <2>5, <3>2 DEF Inv
    <2> QED
        BY <2>1, <2>2, <2>3, <2>4, <2>5 DEF AfterActions
<1>7. ASSUME NEW e \in Execs, NEW c \in Controls, ControlConfirmed(e, c) PROVE Inv'
    <2> DEFINE b == [Activated(menu) EXCEPT !.control = NoExec, !.paused = NoTime]
    <2>0. /\ menu.state = "Pending" /\ now' = now
          /\ menu' = PendingControlCompleted(menu, e, c, now)
          /\ idle' = IF menu'.state = "Pending" THEN idle ELSE 0
        BY <1>7 DEF ControlConfirmed
    <2>1. CASE menu.exec # e \/ menu.control # c
        BY <1>0, <2>0, <2>1 DEF PendingControlCompleted, Inv
    <2>2. CASE menu.exec = e /\ menu.control = c
        <3>1. menu' = ApplyControl(b, c, now)
            BY <2>0, <2>2 DEF PendingControlCompleted
        <3>2. Typed(b) /\ b.state = "Active" /\ b.paused = NoTime
            BY <1>0, ActivatedTyped
        <3>3. Sound(menu', now, 0) /\ menu'.state # "Pending"
            BY <1>0, <3>1, <3>2, ControlSound
        <3> QED
            BY <1>0, <2>0, <3>3 DEF Inv
    <2> QED
        BY <2>1, <2>2
<1>8. CASE TickDue
    <2>1. menu' = Dismiss(menu) /\ now' = now /\ idle' = idle
        BY <1>8 DEF TickDue, Tick
    <2> QED
        BY <1>0, <2>1, DismissSound DEF Inv
<1>9. CASE Pass
    BY <1>0, <1>9, PassSound DEF Pass, Inv
<1>10. CASE UNCHANGED vars
    BY <1>10 DEF vars, Inv
<1> QED
    BY <1>1, <1>2, <1>3, <1>4, <1>5, <1>6, <1>7, <1>8, <1>9, <1>10 DEF Next

LEMMA InvAlways == Spec => []Inv
BY InvInit, InvStep, PTL DEF Spec

-----------------------------------------------------------------------------

(* The session stays well typed: in particular what is left of a deadline  *)
(* that has passed is recorded as zero, never as a negative interval.      *)
THEOREM MenuTyped == Spec => []TypeOK
<1>1. Inv => TypeOK
    BY DEF Inv, Sound, Typed, TypeOK
<1> QED
    BY <1>1, InvAlways, PTL

(* The deadline of session.rs is exactly what the user's idle time leaves  *)
(* of the current menu's timeout, for any menus, timeouts and actions.     *)
THEOREM DeadlineAlways == Spec => []DeadlineIsIdleTime
<1>1. Inv => DeadlineIsIdleTime
    BY DEF Inv, Sound, Deadline, DeadlineIsIdleTime
<1> QED
    BY <1>1, InvAlways, PTL

(* No deadline and no paused rest outlives the state it belongs to.        *)
THEOREM OneTimerAlways == Spec => []OneTimer
<1>1. Inv => OneTimer
    BY DEF Inv, Sound, Timers, OneTimer
<1> QED
    BY <1>1, InvAlways, PTL

(* tick dismisses only a visible menu, and only after its whole timeout    *)
(* has gone by without a key.                                              *)
THEOREM DismissedAlways == Spec => DismissedOnlyWhenIdle
<1>1. Inv /\ [Next]_vars =>
         [TickDue => /\ menu.state = "Active" /\ idle >= Timeout[Top(menu)]]_vars
    <2> SUFFICES ASSUME Inv, TickDue
                 PROVE  menu.state = "Active" /\ idle >= Timeout[Top(menu)]
        OBVIOUS
    <2>1. menu.state = "Active" /\ menu.deadline # NoTime /\ menu.deadline <= now
        BY DEF TickDue, Tick
    <2>2. /\ Timeout[Top(menu)] \in Times /\ menu.deadline \in Times
          /\ now \in Nat /\ idle \in Nat /\ Deadline(menu, now, idle)
        BY TopTyped DEF Inv, Sound, Typed, Session
    <2> QED
        BY <2>1, <2>2, MenuAssumption DEF Deadline, Times
<1> QED
    BY <1>1, InvAlways, PTL DEF Spec, DismissedOnlyWhenIdle
=============================================================================
