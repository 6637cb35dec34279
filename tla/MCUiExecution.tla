--------------------------- MODULE MCUiExecution ---------------------------
(* TLC instance: menus without timers, and bindings that between them use  *)
(* every kind of work and every execution policy.                          *)
EXTENDS UiExecution, TLC

MCTimeout == [x \in Menus |-> NoTime]

Work(kind, mode, onControl, onTimeout, after) ==
    [kind |-> kind, mode |-> mode, onControl |-> onControl, onTimeout |-> onTimeout,
     cancellable |-> kind = "command" \/ "cancel" \in {onControl, onTimeout}, after |-> after]

HostCancel == Work("host", "await", "cancel", "cancel", "Return")
CommandAwait == Work("command", "await", "cancel", "none", "Stay")
CommandDetach == Work("command", "detach", "detach", "none", "Stay")
CommandTimed == Work("command", "await", "detach", "cancel", "Quit")
Deferred == Work("deferred", "await", "detach", "none", "Quit")
Reload == Work("reload", "await", "detach", "none", "Stay")

AllBindings == {HostCancel, CommandAwait, CommandDetach, CommandTimed, Deferred, Reload}
LiveBindings == {CommandTimed, Deferred}

Faults(losses, hostLosses, drains) ==
    [losses |-> losses, hostLosses |-> hostLosses, drains |-> drains]

OneFault == {Faults(1, 0, 0), Faults(0, 1, 0), Faults(0, 0, 1)}
OneDrain == {Faults(0, 0, 1)}

ExecSymmetry == Permutations(Execs)
=============================================================================
