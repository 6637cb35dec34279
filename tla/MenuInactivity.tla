--------------------------- MODULE MenuInactivity ---------------------------
(***************************************************************************)
(* One menu session over time: the runtime (crates/muxe-ui/src/runtime.rs) *)
(* feeds it keys, broker answers and clock ticks in any order.  idle is a  *)
(* history variable: the time the user has spent in the visible menu since *)
(* the interval last started over, not counting time spent waiting for an  *)
(* action.  It restates, without any deadline arithmetic, when a menu may  *)
(* be dismissed for inactivity.                                            *)
(***************************************************************************)
EXTENDS MenuSession

CONSTANTS
    MaxTime,    \* bound: the clock stops here
    MaxDepth    \* bound: menus on the stack

ASSUME InactivityAssumption == MaxTime \in Nat /\ MaxDepth \in Nat \ {0}

VARIABLES menu, now, idle

vars == <<menu, now, idle>>

TypeOK ==
    /\ menu \in Session
    /\ now \in Nat
    /\ idle \in Nat

Init ==
    /\ \E root \in Menus : menu = NewSession(root, 0)
    /\ now = 0
    /\ idle = 0

-----------------------------------------------------------------------------

(* handle_input_at with a key that selects nothing, or a binding whose     *)
(* invocation is refused.                                                  *)
Key ==
    /\ menu' = KeyOther(menu, now)
    /\ idle' = 0
    /\ UNCHANGED now

Control(c) ==
    /\ menu' = KeyControl(menu, c, now)
    /\ idle' = 0
    /\ UNCHANGED now

Open(x) ==
    /\ menu.state = "Active" /\ Len(menu.stack) < MaxDepth
    /\ menu' = OpenSubmenu(menu, x, now)
    /\ idle' = 0
    /\ UNCHANGED now

(* invocation_accepted.  The key that selected the binding came before the *)
(* broker's answer, so time may have passed since.                         *)
Awaited(e) ==
    /\ menu.state = "Active"
    /\ menu' = ActionPending(menu, e, now)
    /\ UNCHANGED <<now, idle>>

Detached(after) ==
    /\ menu.state = "Active"
    /\ menu' = DetachedAccepted(menu, after, now)
    /\ idle' = IF after = "Stay" THEN idle ELSE 0
    /\ UNCHANGED now

(* on_execution_completed: only a success that stays keeps the interval.   *)
Completed(e, success, after) ==
    /\ menu.state = "Pending"
    /\ menu' = ActionCompleted(menu, e, success, after, now)
    /\ idle' = IF menu'.state = "Pending" \/ (success /\ after = "Stay") THEN idle ELSE 0
    /\ UNCHANGED now

ControlConfirmed(e, c) ==
    /\ menu.state = "Pending"
    /\ menu' = PendingControlCompleted(menu, e, c, now)
    /\ idle' = IF menu'.state = "Pending" THEN idle ELSE 0
    /\ UNCHANGED now

(* The run loop calls tick when its sleep ends, or later.                  *)
TickDue ==
    /\ menu' = Tick(menu, now)
    /\ menu' # menu
    /\ UNCHANGED <<now, idle>>

Pass ==
    /\ now < MaxTime
    /\ menu.state # "Dismissed"
    /\ now' = now + 1
    /\ idle' = IF menu.state = "Active" THEN idle + 1 ELSE idle
    /\ UNCHANGED menu

Next ==
    \/ Key \/ TickDue \/ Pass
    \/ \E c \in Controls : Control(c)
    \/ \E x \in Menus : Open(x)
    \/ \E e \in Execs : Awaited(e)
    \/ \E after \in AfterActions : Detached(after)
    \/ \E e \in Execs, success \in BOOLEAN, after \in AfterActions :
          Completed(e, success, after)
    \/ \E e \in Execs, c \in Controls : ControlConfirmed(e, c)

Spec == Init /\ [][Next]_vars

-----------------------------------------------------------------------------

(* The deadline of a visible menu is what the user's idle time leaves of   *)
(* the current menu's timeout, and a paused menu keeps exactly that rest:  *)
(* over submenus with other timeouts, returns, awaited actions, failures   *)
(* and keys pressed meanwhile, no interval leaks from one to another       *)
(* (README: the timer pauses while an action is awaited; keys reset it).   *)
DeadlineIsIdleTime ==
    LET limit == Timeout[Top(menu)] IN
    /\ menu.state = "Active" =>
          IF limit = NoTime THEN menu.deadline = NoTime
          ELSE IF idle < limit THEN menu.deadline = now + limit - idle
          ELSE menu.deadline # NoTime /\ menu.deadline <= now
    /\ menu.state = "Pending" =>
          menu.paused = IF limit = NoTime THEN NoTime
                        ELSE IF idle < limit THEN limit - idle ELSE 0

(* Inactivity never dismisses a menu that waits for an action, and a tick  *)
(* dismisses only after a full interval without a key.                     *)
DismissedOnlyWhenIdle ==
    [][TickDue => /\ menu.state = "Active"
                  /\ idle >= Timeout[Top(menu)]]_vars

(* No timer survives its state: a pending or dismissed menu has no         *)
(* deadline to fire, and a visible or dismissed one no paused rest that a  *)
(* later action could resume.                                              *)
OneTimer ==
    /\ menu.state # "Active" => menu.deadline = NoTime
    /\ menu.state # "Pending" => menu.paused = NoTime
=============================================================================
