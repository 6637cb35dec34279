---------------------------- MODULE MenuSession ----------------------------
(***************************************************************************)
(* The pure menu state machine of a UI (crates/muxe-core/src/session.rs):  *)
(* caller stack, inactivity deadline and pending action.  Every operator   *)
(* is one event of MenuSession::handle and returns the session after it.   *)
(* What handle returns to the runtime can be read off the result: the menu *)
(* was dismissed when state becomes "Dismissed", and a pending control was *)
(* requested when control becomes set.                                     *)
(***************************************************************************)
EXTENDS Naturals, Sequences

CONSTANTS
    Menus,      \* MenuId
    Timeout,    \* the inactivity timeout of each menu, or NoTime
    Execs,      \* ExecutionId
    NoTime,     \* no deadline, no timeout
    NoExec      \* no pending execution, no requested control

Controls == {"Quit", "Return"}                  \* MenuControl
AfterActions == {"Quit", "Return", "Stay"}      \* AfterAction

Times == Nat \cup {NoTime}

ASSUME MenuAssumption ==
    /\ NoTime \notin Nat
    /\ Timeout \in [Menus -> Times]
    /\ NoExec \notin Execs \cup Controls

Session == [state : {"Active", "Pending", "Dismissed"},
            exec : Execs \cup {NoExec},
            control : Controls \cup {NoExec},
            stack : Seq(Menus),
            deadline : Times,
            paused : Times]

-----------------------------------------------------------------------------

Top(m) == m.stack[Len(m.stack)]

(* reset_deadline for a session whose current menu is x.                   *)
FullDeadline(x, at) == IF Timeout[x] = NoTime THEN NoTime ELSE at + Timeout[x]

NewSession(root, at) ==
    [state |-> "Active", exec |-> NoExec, control |-> NoExec, stack |-> <<root>>,
     deadline |-> FullDeadline(root, at), paused |-> NoTime]

ResetDeadline(m, at) == [m EXCEPT !.deadline = FullDeadline(Top(m), at)]

(* Faulty variant: the remaining interval is copied and not taken.         *)
ResumeKeepsPaused(m, at) ==
    [m EXCEPT !.deadline = IF m.paused = NoTime THEN NoTime ELSE at + m.paused]

(* resume_deadline: the remaining interval is taken.                       *)
ResumeDeadline(m, at) ==
    [m EXCEPT !.deadline = IF m.paused = NoTime THEN NoTime ELSE at + m.paused,
              !.paused = NoTime]

Dismiss(m) == [m EXCEPT !.state = "Dismissed", !.deadline = NoTime, !.paused = NoTime]

ApplyControl(m, c, at) ==
    IF c = "Quit" \/ Len(m.stack) = 1
    THEN Dismiss(m)
    ELSE ResetDeadline([m EXCEPT !.stack = SubSeq(@, 1, Len(@) - 1)], at)

ApplyAfterAction(m, after, at) ==
    CASE after = "Stay" -> m
      [] after = "Quit" -> Dismiss(m)
      [] after = "Return" -> ApplyControl(m, "Return", at)

(* Faulty variant: a key pressed while pending does not restart the        *)
(* interval.                                                               *)
PendingKeyKeepsRest(m, control) ==
    [m EXCEPT !.control = IF @ = NoExec THEN control ELSE @]

(* Key in the Pending state: inactivity is reset though it is paused, and  *)
(* the first control is recorded and requested from the broker.            *)
PendingKey(m, control) ==
    [m EXCEPT !.paused = Timeout[Top(m)],
              !.control = IF @ = NoExec THEN control ELSE @]

(* Key with a binding or an unknown key.                                   *)
KeyOther(m, at) ==
    CASE m.state = "Dismissed" -> m
      [] m.state = "Pending" -> PendingKey(m, NoExec)
      [] m.state = "Active" -> ResetDeadline(m, at)

(* Key with a menu control.                                                *)
KeyControl(m, c, at) ==
    CASE m.state = "Dismissed" -> m
      [] m.state = "Pending" -> PendingKey(m, c)
      [] m.state = "Active" -> ApplyControl(ResetDeadline(m, at), c, at)

(* Faulty variant: the subtraction does not saturate.                      *)
PendingUnsaturated(m, e, at) ==
    IF m.state # "Active" THEN m
    ELSE [m EXCEPT !.state = "Pending", !.exec = e, !.control = NoExec,
                   !.deadline = NoTime,
                   !.paused = IF m.deadline = NoTime THEN NoTime ELSE m.deadline - at]

(* ActionPending: the deadline is paused with what is left of it.          *)
ActionPending(m, e, at) ==
    IF m.state # "Active" THEN m
    ELSE [m EXCEPT !.state = "Pending", !.exec = e, !.control = NoExec,
                   !.deadline = NoTime,
                   !.paused = IF m.deadline = NoTime THEN NoTime
                              ELSE IF m.deadline <= at THEN 0 ELSE m.deadline - at]

(* DetachedAccepted *)
DetachedAccepted(m, after, at) ==
    IF m.state # "Active" THEN m ELSE ApplyAfterAction(m, after, at)

Activated(m) == [m EXCEPT !.state = "Active", !.exec = NoExec]

(* ActionCompleted: a completion of another execution is stale, and a      *)
(* requested control wins over the completion.                             *)
ActionCompleted(m, e, success, after, at) ==
    IF m.state # "Pending" \/ m.exec # e \/ m.control # NoExec THEN m
    ELSE IF ~success
         THEN ResetDeadline([Activated(m) EXCEPT !.paused = NoTime], at)
         ELSE IF after = "Stay"
              THEN ResumeDeadline(Activated(m), at)
              ELSE ApplyAfterAction([Activated(m) EXCEPT !.paused = NoTime], after, at)

(* PendingControlCompleted: the broker confirms exactly the requested      *)
(* control of exactly the pending execution.                               *)
PendingControlCompleted(m, e, c, at) ==
    IF m.state # "Pending" \/ m.exec # e \/ m.control # c THEN m
    ELSE ApplyControl([Activated(m) EXCEPT !.control = NoExec, !.paused = NoTime], c, at)

OpenSubmenu(m, x, at) ==
    IF m.state # "Active" THEN m
    ELSE ResetDeadline([m EXCEPT !.stack = Append(@, x)], at)

(* Faulty variant: the tick fires one instant early.                       *)
TickEarly(m, at) ==
    IF m.state = "Active" /\ m.deadline # NoTime /\ m.deadline <= at + 1 THEN Dismiss(m) ELSE m

Tick(m, at) ==
    IF m.state = "Active" /\ m.deadline # NoTime /\ m.deadline <= at THEN Dismiss(m) ELSE m
=============================================================================
