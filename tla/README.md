# Muxe, in TLA+

Muxe opens a modal menu in a pane of a terminal multiplexer. A *broker* process per multiplexer
server coordinates short-lived *launchers* (the hotkey command), *UIs* (the menu pane), the *host*
(Zellij or Herdr, behind an adapter) and the *activation coordinator* that replaces a broker by a
newer one. Nearly all of the program's difficulty is in the broker: it is one tokio process whose
handlers hold a mutex for short critical sections and await the host, a child process or another
task in between, while connections come and go. This directory models that, checks it with TLC and
proves most of its safety with TLAPS.

Every definition that stands for code is listed in `PROJECT.json` under `map` with the lines it
models. Paths below are relative to the repository.

## 1. Inventory

| Component | State | Operations | Talks to | What makes it correct |
|---|---|---|---|---|
| Launch gate (`muxe-broker/src/gate.rs`) | pending launches by token, owner of each modal scope, attached sessions | prepare, register, bind lease, commit, attach, publish, detach, abort, expire, drain, release dangling owner | called by the broker under its state lock | one pending or ready UI per scope; commit and publication in either order promote exactly once, in the registered pane |
| UI launch in the broker (`broker.rs`, `service.rs`) | token table, gated sessions, session records, readiness channels, host leases | prepare/register/commit/abort a launch, attach, wait for placement, confirm the pane, capture the keyboard, detach, expire, scope failure, drain | launcher and UI connections, adapter, cleanup queue | tables agree with the gate, no pane or capture lease is lost or closed twice, a held request is always answered |
| Execution registry (`broker.rs`, `muxe-core/src/execution.rs`) | execution records, the index of awaited executions, supervised children, deadlines | reserve, dispatch, spawn, activate, complete, time out, menu control, detach, dispatch after dismissal, host loss, drain | UI connections, adapter, child processes | index and registry agree, reservations are settled, policies decide what is cancelled, everything ends |
| Menu session (`muxe-core/src/session.rs`) and UI runtime (`muxe-ui/src/runtime.rs`, `runner.rs`) | menu stack, pending action, requested control, inactivity deadline | keys, submenus, answers, completions, ticks | the broker, through one request at a time and an event queue | the deadline counts idle time only; a pending menu is resolved |
| Host cleanup supervisor (`broker.rs`) | queued leases, a retry task per lease | enqueue, retry with backoff, confirm | adapter | every queued lease is eventually released |
| Process supervision (`broker.rs`, `muxe-process`) | children by execution | spawn, signal the group, reap | operating system | no child outlives its record unnoticed |
| Compatibility rebuild supervisor (`broker.rs`) | generations of native actions | queue, rebuild, publish | adapter | the newest generation wins |
| Broker service (`service.rs`, `client.rs`, `spawn.rs`) | listener, connections, prepared activation | frames, disconnects, prepare/commit/abort activation, retirement | everything | a broker that gave up its listener never serves again |
| Activation lifecycle (`muxe/src/lifecycle`, `main.rs`) | journal and receipts on disk, unit lock, brokers, bridge file | activate, recover, force, retire, the brokers' own recovery watches | all brokers of a unit | one generation serves; every record is true; a decided replacement is finished by whoever survives |
| Cold start, registry (`lifecycle/coldstart.rs`, `registry.rs`) | startup lock, endpoints | start, discover, register | file system | one broker per server |
| Zellij adapter and plugin (`muxe-adapter-zellij`, `muxe-zellij-wasm`) | pipes, client registry, capture leases, the mode to give back | request, answer, event, reconnect, renew and expire a lease | Zellij | the user's input mode is given back whatever fails; a lost capture is reported |
| Herdr adapter (`muxe-adapter-herdr`) | connection, subscription, requests | request, event, reconnect | Herdr | no answer to a request of an older connection |
| Terminal input (`muxe-terminal-input`) | bytes not yet decided | feed, time out | UI | result independent of how input is split |
| Configuration (`muxe-core`, `muxe-broker/src/config.rs`) | last good generation | compile, reload, watch | broker | a bad file never replaces a good one |
| Protocol, rendering, installer, CLI | none that is shared | | | |

Hard behaviours, by the line where they bite, are the `hazards` of `PROJECT.json`. The main ones:
two launchers in one scope; `commit` crossing `attach`; state read before an await of the host and
used after it; a lease granted to a handler whose launch is gone; the activation seal landing
between reservation and activation; completion before acceptance; a menu control crossing the
completion; a drain that fails half-way and reopens; a cleanup entry queued while its task leaves;
a crash between two journal writes, and a request that outlives the coordinator that sent it; a mode
change seen by the plugin after it was overtaken by the plugin's own.

## 2. Modules

```
LaunchGate ─┬─ UiLaunch ── MCUiLaunch            MenuSession ─┬─ MenuInactivity ─┬─ MCMenuInactivity
            └─ LaunchGateProofs                               │                  └─ MenuInactivityProofs
                                                              └─ UiExecution ─┬─ MCUiExecution
UiLaunch, LaunchGateProofs ── UiLaunchProofs                                  └─ UiExecutionProofs

ActivationJournal ── Activation ─┬─ MCActivation
                         ┆       └─ ActivationProofs
                         ┆ implements
                     UnitHandover ── UnitHandoverProofs

HostCleanup ─┬─ MCHostCleanup                 ZellijBridge ── ZellijCapture ─┬─ MCZellijCapture
             └─ HostCleanupProofs                                            └─ ZellijCaptureProofs
```

A line is `EXTENDS`, the dotted one a refinement (`INSTANCE UnitHandover WITH ...`). `UiLaunch`
implements `LaunchGate`'s `GateSpec` as it stands, on the gate's own variables. `MC*` modules give
bindings, timeouts, budgets and symmetry sets for TLC and nothing else.

### LaunchGate

The gate as a data structure: `pending` (token to launch), `scopes` (scope to owning token or
session) and `gateSessions` (session to scope), one action per method, and `GateSpec`, which calls
the methods in any order. This is also the abstract specification of launching: `UiLaunch` may
change these variables only by these actions, which the run `ui_launch` checks as the property
`GateSpec` and `UiLaunchProofs` proves. `PendingLaunch`'s deadline is a choice: `GExpire` may remove
any set of pending launches.

### UiLaunch

The broker around the gate. State: `pendingSessions`, `gated`, `sealed` and `minted`
(`BrokerState`), `records` (`Broker.sessions`), `readiness` (the watch channel of each session), the
program counters `launcher`, `ui` and `tail` of the handlers, `tasks` (running `detach` calls),
`monitor`, `drain`, and the host's side, `paneLease` and `captureLease`.

A handler is split where it awaits. `attach` is `Attach`/`AttachDirect` (first lock), `OriginFailed`
or `OriginCaptured` (host answers), `InsertRecord`, `FinalizeGated`/`FinalizeDirect` (second lock),
`Withdraw`, then the tail `CaptureLookup`, `CaptureHost`, `CaptureStore`, `AttachedResponse`, which
`commit` runs instead when publication came first. `detach` is `DetachUnlink`, `DetachState`,
`DetachFinish`, run by whoever calls it. `service.rs` serves the frames of one connection one after
the other, so a connection has one program counter, and a lost connection is only noticed between
frames. Session identifiers are minted once and never reused, as in the code.

The cleanup supervisor is one step per lease (`PaneClosed`, `CaptureReleased`); `HostCleanup` shows
that it comes. Keyboard capture can
be absent (`SupportsCapture`), a session's outbox can be full (`SlowConsumers`), a scope can fail
(`ScopeUnhealthy`), a drain can fail (`DrainFails`) and can be reopened (`Reopen`).

### MenuSession, MenuInactivity

`MenuSession` is `MenuSession::handle` as functions from a session and an event to a session.
`MenuInactivity` drives one session with keys, answers and a clock, beside a history variable `idle`
that says how long the user has been idle without using any deadline arithmetic.

### UiExecution

The execution registry composed with the menu sessions of the UIs. `Invoke` to `Activation` are
`dispatch_invocation` and what it calls, cut at the seal check, the reservation, the host's
acceptance or the spawn, and the activation. `HostCompletes`, `ChildExits`, `DeadlineFires`,
`HostLost`/`FailLost` end executions. `Control` is `control`, `StopAccepted`/`StopRefused` the answer
of host or supervisor to a cancellation. `detach` is `DetachUnlink`, `DetachState`, `DetachStop`,
`DetachSchedule`, `Late*`: it cancels what the policy says, then dispatches the actions that were
deferred until the menu is gone. `Drain*` is `drain_for_activation`. A UI has one request in flight
and reads its events only between requests, as in `runner.rs` and `client.rs`.

`ASSUME ExecutionAssumption` is what `validate_execution` of the compiler guarantees of a binding.
`RecordAssumption` says that `NoExec`, which stands for the absence of a record, is no record.

### HostCleanup

The supervisor that releases panes and captures at the host. `entry` is the registry
(`BrokerState.cleanup`), `slot` the supervisor's map from lease to claim, `task` the spawned tasks by
claim, `due` whether a retry is due. `Enqueue` inserts and spawns under the caller's lock. A task is
cut at its locks: `TaskLooks` (claim the entry), `TaskRechecks`, `TaskWakes`, the host's answer
(`HostReleases`, `HostFails`), `TaskRemoves`/`TaskBacksOff`, `TaskReleasesSlot`
(`release_slot_unless_requeued`) and `TaskEnds` (`remove_if_claim`). Panes and captures go through two
copies of one loop, so a lease is either. Delays are left out: a backoff may run out, and a sleep end,
at any moment.

### UnitHandover, ActivationJournal, Activation

`UnitHandover` is what an activation promises: a unit's previous brokers stop, the replacement is
decided once or abandoned, and only then does a generation serve. Nothing else is in it.

`ActivationJournal` is the durable record: phases, the progress of each previous broker, of each
replacement and of the bridge, `validate` (what `write_journal` accepts) and `next_rollback_action`,
from which every driver computes what to do next.

`Activation` runs it. Drivers are the coordinator going forward (`Begin` to `RemoveJournal`), the
coordinator rolling back after a failure, a later `muxe activate` that recovers, and a broker's own
recovery watch. Whoever drives holds `lock`, and one of its steps is one durable write or one effect
between two writes (`acted` remembers the effect until it is recorded, and is lost with the driver).
Previous brokers are `old[m]`, replacements `tgt[m]`; both share a member's socket, so a draining
broker, which has no listener, is reached only over the connection that drained it (`sess`). A
`Prepare` sits in `inbox` until the broker handles it, which may be after the coordinator died.
`watch[b]` is the recovery a broker starts when its last control connection closes: look for the
journal, wait for the lock, look again, drive, acknowledge. It is started once. `installed` and
`loaded` are the bridge file and what each Zellij session has loaded. Faults are a crash of the
coordinator, a failed write or request, and the death of a broker, at most `MaxFaults` in a
behaviour. The refinement mapping is at the end of the module: the decision is read off the journal's
phase, and a member is served by whoever accepts menus on its socket.

### ZellijBridge, ZellijCapture

`ZellijBridge` is the plugin and the host's mode: `Began`, `ModeSeen`, `Cancelled` and `Emitted` are
`begin_capture`, `on_mode_update`, `cancel_capture_for_restore` and `emit` as functions of the plugin's
state; `ops` are mode switches the host has not applied, `updates` mode changes the plugin has not
seen.

`ZellijCapture` adds the adapter and what the broker knows of a capture. `table` is the adapter's
capture table, `call` the program counter of a lease: `begin_capture` cut at its awaits, the moment at
which the broker's session stores the capture (`BrokerStores`, "held"), `detach` (`Detaches`) and
`end_capture` run by the cleanup task. `loss` follows a `CaptureLost` after the adapter has read it:
`BrokerHears` is `handle_health_event`, which detaches the session that stores the capture and
ignores the loss when there is none.

The request queue has one request at the plugin, `wire`. `late` holds requests the adapter has given
up on and the plugin may still read: one whose write failed (`WriteFails`; it stays in front of the
queue and is written again, so the plugin may handle it twice), one whose release was not
acknowledged in ten seconds (`RequestLost`), one that was in flight when its registration was retired
(`GivesUp`). `BridgeHandlesLate` handles such a request at any later moment, or never; a new
subscription of the plugin ends them. On the event pipe `AdapterHears` takes a line, and
`AdapterIgnores` drops one of an older channel or of a registration that is gone. Other things that
can happen to a client are expiry, a restarted channel, suspension for an activation, a plugin reload
and the death of the broker. Two guards are wider than the code's: the next request may be sent as
soon as the plugin has handled the last one, where the adapter also waits for the acknowledgement, and
a reply is matched by its lease, where the adapter matches the attempt (`RequestProvenance`).

`userMode` is a history variable: the mode the user chose last. `overtaken` says that the plugin began
a capture while it held another. `Without` is the `queue.retain` by which a `begin_capture` that timed
out takes its unsent request back. `SlotAssumption` and `RequestAssumption` say that `None` is no
capture of the plugin and no request.

## 3. Runs

| Run | Instance | Shows |
|---|---|---|
| `ui_launch` | 2 launches, 1 scope, 2 sessions, 1 UI, symmetry | token table and gate agree, records belong to owners, no dead session is a ready owner; the broker implements the gate (`GateSpec`) |
| `ui_launch_faults` | 1 launch, 1 UI, a scope failure, full outboxes, a drain that may fail and reopen | no pane or capture lease is forgotten, a pane is settled once |
| `ui_launch_live` | 1 launch, 1 UI, a scope failure, fairness | a held `AttachUi` is answered, an abandoned scope becomes free with every lease closed |
| `menu_inactivity` | 3 menus (no timeout, 1, 3), 2 actions, 7 clock steps, depth 3 | the deadline is exactly what idle time leaves, the pause never leaks, only an idle visible menu is dismissed |
| `ui_execution` | 1 UI, 2 executions of six kinds and policies, depth 2, one of drain, lost session, lost host | registry, index, children and events agree; only policy cancels |
| `ui_execution_live` | 1 UI, 2 executions (a timed command, a deferred action), a drain, fairness | the drain ends, executions end, a pending menu is told, a detached UI leaves |
| `host_cleanup` | 2 leases, 4 enqueues, 2 host failures, a drain, fairness | an entry has a task, a lease one worker, forgotten means released, every entry goes |
| `activation` | 2 members with a bridge, 2 faults of any kind | the journal is valid and true, one listener per socket, bridge and broker match; `HandoverSpec`: journal and brokers implement `UnitHandover` |
| `activation_live` | 2 members with a bridge, 1 crash, fairness | an undisturbed activation ends; a decided replacement serves although the coordinator died |
| `zellij_capture` | 2 leases, 2 ticks per lease, one fault, a mode switch by the user, fairness | the mode is given back, a lost capture is ended or about to be, a dead broker's capture ends |
| `activation_converges`, `zellij_left_locked` | smallest instance that shows it | see section 6 |

Each module has a type invariant; `ui_launch` and `menu_inactivity` check theirs, and the other
`TypeOK`s were checked on the same instances and are kept as documentation.

`ui_launch` has no drain, scope failure or full outbox; `ui_launch_faults` has all three and
`ui_launch_live` a scope failure. What `ui_launch` checks of tables, records and scopes is proved for
drains, full outboxes and scope failures too (`LaunchBookAgreesAlways`, `RecordOwnsScopeAlways`,
`BrokerUsesGate`), and `ReadyOwnerAlive` for scope failures (`ReadyOwnerAlwaysAlive`).

**Bounds.** Two launches and one scope are what replacement needs; the scope is the unit of
exclusion, and different scopes meet only in `expire`, `drain` and the gate's maps, about which
`LaunchGateProofs` speaks for any number. Two sessions allow a replaced session beside its successor.
The fault run has one launch, because with two the drain and a scope failure exceed what TLC finishes
in minutes; what a fault can meet is then every step of that launch. In `UiExecution` sessions meet
only through the drain and the loss of the host, both of which treat executions one by one, so one
UI with two executions covers what two sessions could do to each other there. Drains, losses and
scope failures are bounded by constants; a second one starts from a state the first one leaves,
reached also without it. `MaxDepth` 2 has a menu to return to. In `HostCleanup` four enqueues are
what a lease needs to be queued again while its first task leaves, twice, beside a second lease.
Two members are what distinguishes "one" from "all" of a unit, and two faults let a recovery fail
too. In `ZellijCapture` two leases are a capture and its replacement. The user switches the mode at
most once: two, into Locked and out of it, can leave him there (section 6; switches between other
modes cannot, section 4). He does so beside an expiry, a reload or the broker's death; with a failed or
lost request, a broken channel or a suspension, whose aftermath is larger, he keeps the mode, to keep
the instance small. Two ticks per lease are a lease that has been renewed and one about to expire (the
code has `CAPTURE_LEASE_TICKS`, 3).

**Deadlock** is not checked: the broker is idle when nobody connects, and every bounded instance
ends so. That nothing is stuck is what the liveness properties say.

**Fairness.** Weak fairness of every handler and task that can go on (tokio polls them), of the
adapter's answer to a call it was given, of the periodic tick that expires leases (100 ms, a lease
is 60 s), of the cleanup queue, of the UI reading its events, and, in `UiExecution`, of the work
itself: the host reports each dispatch it accepted and a command exits. So "an execution ends" means:
if its work ends, the registry lets it go. In `HostCleanup` the host answers every call and fails only
`MaxHostFailures` times: a host that refuses for ever keeps its entry for ever, as in the code. In
`Activation` drivers, brokers and watches run on, and a watch that waits for the unit lock gets it if
the lock keeps becoming free (strong fairness of `WatchLocks`; the lock is polled). In
`ZellijCapture` only Zellij is fair: it applies the mode switches it is asked for, reports them to the
plugin and fires the plugin's timer, which is all that is left when the broker is dead. Launchers,
users, networks, failures and the start of an activation are not fair.

Each property of a passing run has a mutant in `PROJECT.json`: a faulty variant of one mapped
definition, next to it in the module and marked *Faulty variant*, that violates it.

## 4. Proofs

`LaunchGateProofs` proves, for every set of tokens, scopes, sessions and panes (finite or not) under
`GateAssumption` (tokens and sessions are different identifiers, `None` is a value of its own):

- `GateTyped`: `GateSpec => []GateTypeOK`.
- `PendingOwnsScopeAlways`: every pending launch owns its scope, so a scope never has two. It is
  inductive once the types are known. The step that needs it most is `GPrepare`, which removes the
  launch it replaces: only because the replaced token is the *only* one in that scope is the new
  owner alone.
- `NeverBothRecordedAlways` and `PanesAgreeAlways`, from one invariant over single launches,
  `LaunchesOK`, which is their conjunction said of a launch record: every method replaces one record
  or removes some, so each step is a fact about one record.
- `PromotionAlways`: `GateSpec => PromotionProperty`, the action property, from the types and
  `PendingOwnsScope`: a promotion hands over the scope of its own launch, and that scope is owned by
  that launch's token and by no other, so the owner changes from a token to a session only with the
  session that attached through it.

Each of these proofs has one step per gate method.

`UiLaunchProofs` proves, of the broker around the gate, for every set of tokens, scopes, sessions, panes and
connections, with or without capture, and with scope failures, drains, reopening and full outboxes, under `GateAssumption`, `LaunchAssumption`
and `NoneAssumption` (`None` is no session record and no gated session):

- `LaunchTypesAlways`: `Spec => []TypeOK`.
- `BrokerUsesGate`: `Spec => GateSpec`, the refinement. Every step of the broker is one gate method or
  leaves the gate alone, so the gate's theorems hold of the broker; `BrokerPendingOwnsScope` is the
  most used of them.
- `LaunchBookAgreesAlways`: token table, gated sessions and gate name the same launches.
- `PaneLeaseAccountedAlways` and `PaneSettledOnceAlways`: no pane lease the host granted is forgotten,
  and none is settled twice.
- `CaptureAccountedAlways`: no keyboard capture is forgotten.
- `RecordOwnsScopeAlways`: a session record belongs to the owner of its scope, or to somebody who is
  taking it away.
- `ReadyOwnerAlwaysAlive`, where no drain runs and no outbox is full: the owner of a scope is never a
  session that is gone.

The first three share `BookInv`: typing needs to know that a handler past its first lock knows its
session and scope (`UisKnow`), and agreement of the tables that a token nobody prepared is in none of
them (`Unused`). For pane leases the property only says that a held lease has a holder. Inductive is
the sharper `PaneHeldOnce`: exactly one of five places (the launcher that is binding it, the pending
launch, the gated session, a detach task, a withdrawing attachment) names it. Without *exactly one* a
step that drops its reference, because it passed it on, might drop the last or leave a second that
settles the lease again. `PaneMove` lists the moves a lease may make, and each action is shown to make
one of them. `CaptureInv` says which sessions cannot have a capture yet: an unused identifier is met
by no handler, a launch has one session and its token one holder, so the session that is looked up
before an await of the host is still the one that is stored after it. `RecordInv` adds to
`RecordOwnsScope` who will remove a record that lost its scope, and that this actor's list cannot
lose it.

`ReadyOwnerAlwaysAlive` has two assumptions on constants, `~SlowConsumers` and `MaxDrains = 0`, because
the code leaves such an owner behind when either fails (section 6; TLC finds a behaviour for each
alone). Scope failures, lost captures and failing calls of the host are all allowed. Its invariant is
`ReadyInv`. An owner the gate knows by its scope is `Held`: it has a record, a detach call that has
not told the gate, or an attachment that has still to insert its record; an owner the gate has
forgotten is one that `release_dangling_owner` is about to free (`OwnerKept`). The same is needed of
the session attached to a pending launch, which a commit or a publication will make an owner
(`GuestKept`). A launch can therefore not survive its session: only `scope_unhealthy` detaches a
session before its launch, and it still has to abort that launch (`DetachedEarly`, `ListedHere`). What
remains is that a session which owns its scope while it attaches came without a token
(`AttachingOwner`), and that a session which was announced as ready is no longer reserved for a launch
(`Announced`).

`HostCleanupProofs` proves, for every non-empty set of leases and every number of enqueues and host
failures (`CleanupAssumption`):

- `CleanupTyped`: `Spec => []TypeOK`.
- `EntryOwnedAlways`: the sentence in `CleanupSupervisor`'s comment, that an entry always has a live
  task owning its key.
- `OneWorkerAlways`: a lease never has two working tasks.
- `ForgottenIsReleasedAlways`: a lease leaves the registry only when the host has let go of it.

They share the inductive invariant `Inv`. `EntryOwned` alone is not inductive: skipping a spawn is
right only if a filled slot names a task that has not decided to leave, and starting one is right only
if a task without a slot no longer works. `Claimed` says both, and that claims are used once;
`Slotted` is what remains of `EntryOwned`; `Confirmed` adds to `ForgottenIsReleased` that a task past
the host's answer has been confirmed. Two lemmas carry the steps: a task that moves on and keeps its
slot (`TaskMovesInv`), and a task that gives its slot back (`TaskLeavesInv`).

`UnitHandoverProofs` proves `OneGenerationAlways` for any set of members: no two brokers of a unit
serve different generations. It needs to know that nobody serves the new generation before the
decision and nobody the old one after it.

`ActivationProofs` proves, for every non-empty finite unit and every order of its members, with a bridge or
without one, and for any number of crashes, failed writes and deaths (`UnitAssumption`,
`FaultAssumption`):

- `TypesAlways`, `JournalValidAlways`, `OneListenerAlways`, `ReceiptsTrueAlways`,
  `BridgeMatchesAlways`, `TerminalIsTrueAlways`: the invariants of the run `activation`.
- `ImplementsHandover`: `Spec => HandoverSpec`, the refinement of `UnitHandover`. Initial states map to
  initial states, and each of the 72 actions to a step of the handover or to none.
- `OneGenerationAlways`: no member is served by its previous broker while another is served by its
  replacement.

One invariant, `Inv`, carries all of them. The hard question of this code is what a driver that finds
a journal may conclude from it, and the answer is `Recorded`: whatever the journal says is true of
processes and bridge (`OldRec`, `TargetRec`, `BridgeRec`), although its author may have died at any
point. The other parts are what keeps it true. `LockInv`: one driver at a time, and only the
coordinator of a running activation owns children or connections. `JournalOK`: `validate`, and the
order the writers keep beyond it (`Ordered`); `validate` alone is not inductive, because the coverage
of a reload is reset by the code and not checked by `validate`. `ActedInv`: between an effect and its
record, the effect happened to the member that the interpreter, asked again, will name. `BrokerOK`
and `AtRest` are what is left when there is no journal; they are needed because a `Prepare` of a dead
coordinator may still be handled, and watches run on, after the journal is gone. The proof has a lemma
per kind of step (a write, a step of a previous broker, of a replacement, of the bridge, the end of a
process) that names what such a step must know, and a lemma per group of actions that shows it does.
The refinement then needs only two consequences of `Inv`, `Followed`: after the decision no previous
broker serves, and no replacement serves without it.

Looking for this invariant corrected the model in three places. `Drives` held of a free lock, which no
process holds. Two guards of `NextBridge`'s `CASE` overlapped where the code's match has one arm after
the other, and a TLA+ `CASE` does not take the first. And the coordinator could go on with any
replacement whose commit was intended where both loops of the code go through them in order
(`CommitsNext`). `TerminalIsTrue` was strengthened on the way: a unit recorded as replaced has opened
every replacement (which may have died since).

`MenuInactivityProofs` proves, for every set of menus and actions, every assignment of timeouts and
every bound on clock and depth, under `MenuAssumption` (each menu's timeout is a natural number or
`NoTime`, which is no number; `NoExec` is no execution and no control) and `InactivityAssumption`
(the bounds are natural numbers, the depth at least one):

- `MenuTyped`: `Spec => []TypeOK`.
- `DeadlineAlways`: `Spec => []DeadlineIsIdleTime`, the deadline arithmetic of `session.rs` agrees
  with the idle time counted without it.
- `OneTimerAlways`: `Spec => []OneTimer`.
- `DismissedAlways`: `Spec => DismissedOnlyWhenIdle`, the action property.

They share one inductive invariant, `Inv`, which says `Sound` of the session: typed with a stack that
is never empty, `OneTimer`, and `DeadlineIsIdleTime`. The last is not inductive alone: resuming a
deadline after an action adds the paused rest to the clock, which is right only if that rest was
recorded by the same action (`OneTimer`), and the limit it is compared with is that of the top menu
(a stack that is not empty). `Sound` takes session, time and idle time as arguments, so each session
event has a lemma of its own and the step lemma only puts them together.

`UiExecutionProofs` proves, for every set of UIs, executions, menus and bindings and every bound, under
`ExecutionAssumption`, `RecordAssumption` and `MenuAssumption`:

- `UiExecutionTypes`: `Spec => []TypeOK`.
- `IndexAlwaysAwaited`: the execution in the index entry of a UI has a record, which is awaited and
  attached to that UI.
- `ReservationAlwaysOwned`: a reservation is with the handler or the detach that dispatches it, or it
  is deferred and its UI, or the detach of its UI, still holds it.
- `GoneUiAlwaysReleased`: once a UI is gone it has no index entry, no record is attached to it, and
  each of its deferred actions is on the list of a detach.
- `ChildrenAlwaysRegistered`: a supervised child has a record, and a running command a child.
- `ReportAlwaysFinal`: a completion in a UI's queue is of an execution that is no longer awaited, or of
  a session that is being torn down with its scope.
- `CancelAlwaysFollowsPolicy`, the action property: work is stopped only where the policy of its
  binding, or the seal that met its activation, says so.

They share `Inv`, types (`Types`) and agreement (`Agreement`). No table can be reasoned about alone: a
handler goes on after an await with an identifier it read before, and is right only if everything
that names an execution (the record, the index, the handler, the child, the host, a deferred list, a
stop in flight, a report in a queue) agrees with its binding and its UI (`NamedHome`, `HandlersOk`,
`RecordsOk`, `ChildrenOk`, `TasksOk`, `StopsOk`, `HostOk`), and if an identifier is used once
(`UntouchedUntilReserved`). `Owned` and `DeferredKept` follow a reservation from one holder to the
next: the last one either hands it on or lets it go. `LeftOk` is what a detached UI may still name,
`ArmedOk` which deadlines may run, `ReportsOk` what a queue may say of an execution. The steps of the
menu are lemmas about `MenuSession`'s functions: they keep the type and never empty the stack.

`ZellijCaptureProofs` proves, for every set of leases and modes and every budget of faults, under
`BridgeAssumption`, `SlotAssumption`, `BudgetsAssumption` and `RequestAssumption`:

- `ZellijCaptureTypes`: `Spec => []TypeOK`.
- `LossAlwaysReported`: while broker and registration are up, a capture the adapter counts as captured
  is held by the plugin, or its loss is on the event pipe or on its way to the broker, or the broker is
  ending it. Two cases are excepted in the statement: a loss the broker was told of before its session
  stored the capture (`loss` "ignored", section 6), and a capture that began in the plugin before the
  one it held had ended (`overtaken`, finding 2). A loss the broker acted upon is not excepted: it must
  then be ending the capture.
- `UnlockedUserNotLeftLocked`: `Spec /\ [][userMode' # Locked]_userMode => []GivenBack`. A user who never
  chooses Locked himself is not left in it when captures are over, however often he switches between
  other modes meanwhile, with the same exception.
- `ModeGivenBack`, for budgets with one switch by the user at most (as in the run), into Locked or out
  of it: `Spec => []GivenBack`.

The first two rest on `CaptureInv`: what each lease may have in flight (`LeaseOk`), which state the
table can be in for it (`TableOk`), what is left when a channel is gone (`Unlinked`), one capture at a
time (`OneCapture`), and `Reported`, which is the property at every stage of a lease and not only once
it is captured. Requests that are `late` count among what a lease may have in flight. `KeptInv` adds the mode. Nothing can be said of what the plugin has seen alone, since
it decides by observations that are late; `Phase` is about the plugin and the modes it has still to
see, those Zellij entered (`updates`) and then those it was asked for (`ops`). Locked is at most once
among them, and each of the six stages of a capture says whether it is, and where it matters that the
last one is another mode; `Follows` ties the mode to that last one. A user's switch adds a mode other
than Locked in the middle, which no stage forbids, so the number of switches does not matter. A switch
into Locked does: seen late, the plugin takes it for the answer to its own request, and a second switch
out of Locked for the end of the capture, while its request is still to be applied (TLC, section 6).

Only model-checked: all liveness; fairness and `ENABLED` are beyond the prover.

## 5. Not modelled

- In `UiExecution`: an adapter that acknowledges another execution than the one dispatched, and
  `menu:quit` sent as an invocation; neither the shipped adapters nor the UI do that.
- In `Activation`: forced replacement (`forced.rs`), the registry's rows, journals of older schemas,
  a second activation started on top of an unfinished one, a `Commit` that is handled after its
  sender died, a listener that fails while it drains, the delays before and between recovery
  attempts.
- In `ZellijCapture`: several clients, requests other than the three of a capture, readiness, the
  registry's generations beyond the current one, the acknowledgement of a request's release on the
  event pipe and the attempt a reply belongs to (both only allow less), and the restart of the whole
  pipe after a respawn that failed, which is `ChannelRestarts` right after `WriteFails`.
- Locks taken one right after the other that are one step. In `UiExecution`, `control`'s lock and the
  one of the cancel call it makes (`broker.rs:3847`, `:3864`): an execution that ends in between is
  answered like one that ends during the cancel call; a deadline that fires exactly there is left out.
  There too, a child's exit, where record, event and the supervisor's own entry go together: a cancel
  call that still meets the entry is the order in which it came just before the exit. In `UiLaunch`,
  the readiness failure at the end of `detach` and the caller's closing of its pane (`broker.rs:4013`,
  `fail_pending`): the pane is known to nobody but that caller.
- In `UiLaunch`: `registering` (`broker.rs:2767`), which refuses a second registration of a token while
  the first one is at the host. A token's launcher has one connection, whose frames are served one
  after the other.
- The termination ladder (SIGTERM, grace, SIGKILL) of the process supervisor, the compatibility
  rebuild queue, cold start, the Herdr adapter: the models assume of an adapter only that a call is
  answered, with success or failure, that a completion may overtake the acceptance, and that the host
  may be lost.
- Input parsing, configuration, protocol encoding, rendering, installer and command line: sequential
  code over large data, of which little would be left in a model.

## 6. Findings

1. **A unit that stays drained** (`activation_converges`, `Converges`). `DESIGN.md` says that each
   unit converges to the complete old or the complete target stack, and that an absent target causes
   restoration of the old one. The coordinator dies at `SpawnIntent`, or after the spawn and before
   the replacement has bound its socket. The drained broker's watch finds the journal, takes the lock
   and has to resolve the spawn, for which `resolve_target_spawn` needs an answer from the
   replacement. There is none, the decision is to preserve, and the watch is not started again. A
   later recovery cannot help: only the dead coordinator's connection reached the drained broker.
2. **A client left locked** (`zellij_left_locked`, `NotLeftLocked`). `DESIGN.md` says that a
   replacement snapshots the mode after the release of its predecessor is confirmed, and that capture
   leases never overlap. `end_capture` frees the adapter's table before it queues `EndCapture`; in
   between, a second `begin_capture` may enter the table and its request be queued first. The plugin,
   still holding the first capture, finds the client Locked and records Locked as the mode to give
   back. `GivenBack` says that this is the only way: without such an overtaking, the user is not
   left Locked, under every modelled fault, unless he went into Locked and out of it meanwhile (below).

Observations, seen while modelling and not checked by a run:

- A capture can be confirmed although it is lost. The comment in `begin_capture` (`adapter.rs:3777`)
  says that confirming after a concurrent `CaptureLost` would resurrect a stale lease and that on that
  race the setup fails. It relies on the loss having released the record, which `handle_event_line`
  does not do: it drops the waiter, if the reply was not taken yet, and passes the event on
  (`adapter.rs:1591`). The capture is confirmed, and if no session stores it by then, the broker has
  ignored its loss (`broker.rs:2311`): the menu goes on without its capture until it is dismissed. The
  model does the same, with `loss` "ignored"; `LossReported` excepts this loss and no other, and fails
  without the exception.
- A user who goes into Locked mode and out of it again, both before the plugin has seen either, while
  a capture begins, can be left Locked: the plugin takes the first for the answer to its own request
  and the second for the end of the capture. This is why the run `zellij_capture` and `ModeGivenBack`
  have one switch.
- An attachment without a token that meets the seal leaves its gate entry (`broker.rs:3042`); if the
  drain then fails and admission reopens, the scope is occupied by a session that is gone. The same
  happens when a full outbox detaches a gated session between `InsertRecord` and `FinalizeGated`. So
  `ReadyOwnerAlive` and `AbandonedScopeFreed` are checked without drains and full outboxes.
- A lease granted while a drain runs is queued after the drain returned (`broker.rs:1343`).
- A return with policy *detach* leaves an awaited execution behind; a detached action of the parent
  menu removes its index entry, and a second awaited execution is admitted (`broker.rs:1619`).
- A control that arrives after the execution ended is acknowledged without a completion, and the
  session ignores the completion it had already been sent (`session.rs:254`); `PendingResolved` is
  about executions, not about controls.
- A session torn down because of a full outbox keeps its connection and is told nothing, so
  `DetachedUiLeaves` is checked for drains only.

## 7. Plan

1. *Done*: `LaunchGate`, `UiLaunch`, `MenuSession`, `MenuInactivity`, `UiExecution`, `HostCleanup`,
   `UnitHandover`, `ActivationJournal`, `Activation`, `ZellijBridge`, `ZellijCapture`; the proofs of
   each, with both refinements.
2. `ColdStart`: startup lock, endpoint, registry; one broker per server, from which `Activation`
   takes its exclusive socket.
3. The rest of the Zellij pipes, and `HerdrRuntime`: request ownership over reconnection, what the
   broker models assume of an adapter.
4. `TerminalInput`: the incremental parser against a definition over the whole input.
