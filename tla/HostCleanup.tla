---------------------------- MODULE HostCleanup ----------------------------
(***************************************************************************)
(* The host cleanup supervisor of the broker                               *)
(* (crates/muxe-broker/src/broker.rs): every pane or capture lease the     *)
(* broker no longer needs is put in BrokerState.cleanup and released at    *)
(* the host by one task per lease, which retries with backoff until the    *)
(* host confirms.  An enqueue may arrive at any point of that task's life, *)
(* also for a lease it has just released.                                  *)
(*                                                                         *)
(* Pane and capture leases go through two copies of the same code; a lease *)
(* here is either.  Each critical section of the state lock is one action. *)
(* Time is left out: a backoff may run out at any moment and a sleep may   *)
(* end at any moment, which includes every wake-up by notify().            *)
(***************************************************************************)
EXTENDS Naturals

CONSTANTS
    Leases,             \* typed lease identities (CleanupTaskKey)
    MaxEnqueues,        \* bound: insert_*_cleanup_locked calls
    MaxHostFailures     \* bound: host calls that fail

ASSUME CleanupAssumption ==
    /\ Leases # {}
    /\ MaxEnqueues \in Nat
    /\ MaxHostFailures \in Nat

VARIABLES
    entry,              \* BrokerState.cleanup : phase of each lease's entry, or "none"
    due,                \* next_retry <= now
    slot,               \* CleanupSupervisor.tasks : claim of each lease's task, or 0
    task,               \* the spawned task of each claim
    nextClaim,          \* claim_issuer
    enqueues,           \* inserts so far
    failures,           \* failed host calls so far
    released,           \* leases the host has let go of
    retired,            \* leases that were ever enqueued
    drain               \* await_cleanup_drain of the current activation drain

vars == <<entry, due, slot, task, nextClaim, enqueues, failures, released, retired, drain>>

Claims == 1..MaxEnqueues

TaskPc == {"none", "loop", "recheck", "asleep", "calling", "succeeded", "failed",
           "releasing", "leaving", "ended"}

TypeOK ==
    /\ entry \in [Leases -> {"none", "Ready", "InFlight"}]
    /\ due \in [Leases -> BOOLEAN]
    /\ slot \in [Leases -> Claims \cup {0}]
    /\ task \in [Claims -> [pc : TaskPc, key : Leases]]
    /\ nextClaim \in 1..(MaxEnqueues + 1)
    /\ enqueues \in 0..MaxEnqueues
    /\ failures \in 0..MaxHostFailures
    /\ released \subseteq Leases
    /\ retired \subseteq Leases
    /\ drain \in {"idle", "waiting", "confirmed", "unconfirmed"}

Init ==
    /\ entry = [l \in Leases |-> "none"]
    /\ due = [l \in Leases |-> FALSE]
    /\ slot = [l \in Leases |-> 0]
    /\ task = [c \in Claims |-> [pc |-> "none", key |-> CHOOSE l \in Leases : TRUE]]
    /\ nextClaim = 1
    /\ enqueues = 0
    /\ failures = 0
    /\ released = {}
    /\ retired = {}
    /\ drain = "idle"

-----------------------------------------------------------------------------
(* Enqueueing, under the state lock of the caller.                          *)

(* has_live_task: the slot is filled and its handle has not finished.      *)
HasLiveTask(l) == slot[l] # 0 /\ task[slot[l]].pc # "ended"

(* Faulty variant: a spawn does not look for the task already running.     *)
SpawnAlways(l) ==
    /\ slot' = [slot EXCEPT ![l] = nextClaim]
    /\ task' = [task EXCEPT ![nextClaim] = [pc |-> "loop", key |-> l]]
    /\ nextClaim' = nextClaim + 1

(* spawn_*_cleanup: a lease with a live task is only notified.             *)
Spawn(l) ==
    IF HasLiveTask(l)
    THEN UNCHANGED <<slot, task, nextClaim>>
    ELSE /\ slot' = [slot EXCEPT ![l] = nextClaim]
         /\ task' = [task EXCEPT ![nextClaim] = [pc |-> "loop", key |-> l]]
         /\ nextClaim' = nextClaim + 1

(* insert_pending_pane_cleanup_locked, insert_capture_cleanup_locked: an   *)
(* entry in flight is left to its task; any other is claimed at once.      *)
Enqueue(l) ==
    /\ enqueues < MaxEnqueues
    /\ enqueues' = enqueues + 1
    /\ retired' = retired \cup {l}
    /\ entry' = [entry EXCEPT ![l] = "InFlight"]
    /\ IF entry[l] = "InFlight"
       THEN UNCHANGED <<due, slot, task, nextClaim>>
       ELSE /\ due' = [due EXCEPT ![l] = TRUE]
            /\ Spawn(l)
    /\ UNCHANGED <<failures, released, drain>>

-----------------------------------------------------------------------------
(* run_pending_pane_cleanup, run_capture_cleanup: one task.                 *)

Key(c) == task[c].key
At(c, pc) == c \in Claims /\ task[c].pc = pc
Goto(c, pc) == task' = [task EXCEPT ![c].pc = pc]

(* The head of the loop: claim the entry if it is due.                     *)
TaskLooks(c) ==
    /\ At(c, "loop")
    /\ LET e == entry[Key(c)]
           mine == e = "InFlight" \/ (e = "Ready" /\ due[Key(c)])
       IN /\ entry' = [entry EXCEPT ![Key(c)] = IF mine THEN "InFlight" ELSE e]
          /\ Goto(c, IF e = "none" THEN "releasing" ELSE IF mine THEN "calling" ELSE "recheck")
    /\ UNCHANGED <<due, slot, nextClaim, enqueues, failures, released, retired, drain>>

(* A task with nothing due reads next_retry again under a second lock.     *)
TaskRechecks(c) ==
    /\ At(c, "recheck")
    /\ Goto(c, IF entry[Key(c)] = "none" THEN "releasing" ELSE "asleep")
    /\ UNCHANGED <<entry, due, slot, nextClaim, enqueues, failures, released, retired, drain>>

(* The sleep ends, or wake is notified for this or any other lease.        *)
TaskWakes(c) ==
    /\ At(c, "asleep")
    /\ Goto(c, "loop")
    /\ UNCHANGED <<entry, due, slot, nextClaim, enqueues, failures, released, retired, drain>>

(* close_pending_pane or end_capture answers, outside every lock.          *)
HostReleases(c) ==
    /\ At(c, "calling")
    /\ released' = released \cup {Key(c)}
    /\ Goto(c, "succeeded")
    /\ UNCHANGED <<entry, due, slot, nextClaim, enqueues, failures, retired, drain>>

HostFails(c) ==
    /\ At(c, "calling")
    /\ failures < MaxHostFailures
    /\ failures' = failures + 1
    /\ Goto(c, "failed")
    /\ UNCHANGED <<entry, due, slot, nextClaim, enqueues, released, retired, drain>>

(* The answer is applied under the lock: success removes the entry ...     *)
TaskRemoves(c) ==
    /\ At(c, "succeeded")
    /\ entry' = [entry EXCEPT ![Key(c)] = "none"]
    /\ Goto(c, "releasing")
    /\ UNCHANGED <<due, slot, nextClaim, enqueues, failures, released, retired, drain>>

(* Faulty variant: an error gives the entry up instead of keeping it.      *)
TaskGivesUp(c) ==
    /\ At(c, "failed")
    /\ entry' = [entry EXCEPT ![Key(c)] = "none"]
    /\ Goto(c, "releasing")
    /\ UNCHANGED <<due, slot, nextClaim, enqueues, failures, released, retired, drain>>

(* Faulty variant: an error leaves the entry in flight while its task      *)
(* leaves.                                                                 *)
TaskStops(c) ==
    /\ At(c, "failed")
    /\ Goto(c, "leaving")
    /\ slot' = [slot EXCEPT ![Key(c)] = 0]
    /\ UNCHANGED <<entry, due, nextClaim, enqueues, failures, released, retired, drain>>

(* ... and an error makes it Ready again after a delay.                    *)
TaskBacksOff(c) ==
    /\ At(c, "failed")
    /\ IF entry[Key(c)] = "none"
       THEN Goto(c, "releasing") /\ UNCHANGED <<entry, due>>
       ELSE /\ entry' = [entry EXCEPT ![Key(c)] = "Ready"]
            /\ due' = [due EXCEPT ![Key(c)] = FALSE]
            /\ Goto(c, "asleep")
    /\ UNCHANGED <<slot, nextClaim, enqueues, failures, released, retired, drain>>

(* release_slot_unless_requeued: the exit is decided under the state lock. *)
Releases(c) ==
    /\ slot' = [slot EXCEPT ![Key(c)] = IF @ = c THEN 0 ELSE @]
    /\ Goto(c, "leaving")

(* Faulty variant: the slot is given back without looking for an entry.    *)
TaskReleasesBlindly(c) ==
    /\ At(c, "releasing")
    /\ Releases(c)
    /\ UNCHANGED <<entry, due, nextClaim, enqueues, failures, released, retired, drain>>

TaskReleasesSlot(c) ==
    /\ At(c, "releasing")
    /\ IF entry[Key(c)] # "none"
       THEN Goto(c, "loop") /\ UNCHANGED slot
       ELSE Releases(c)
    /\ UNCHANGED <<entry, due, nextClaim, enqueues, failures, released, retired, drain>>

(* remove_if_claim after the loop: only the task's own claim is removed.   *)
TaskEnds(c) ==
    /\ At(c, "leaving")
    /\ Goto(c, "ended")
    /\ slot' = [slot EXCEPT ![Key(c)] = IF @ = c THEN 0 ELSE @]
    /\ UNCHANGED <<entry, due, nextClaim, enqueues, failures, released, retired, drain>>

(* next_retry of a Ready entry passes.                                     *)
BackoffElapses(l) ==
    /\ entry[l] = "Ready"
    /\ ~ due[l]
    /\ due' = [due EXCEPT ![l] = TRUE]
    /\ UNCHANGED <<entry, slot, task, nextClaim, enqueues, failures, released, retired, drain>>

-----------------------------------------------------------------------------
(* await_cleanup_drain: wait for an empty registry until the deadline.      *)

DrainWaits ==
    /\ drain \in {"idle", "unconfirmed"}
    /\ drain' = "waiting"
    /\ UNCHANGED <<entry, due, slot, task, nextClaim, enqueues, failures, released, retired>>

DrainConfirmed ==
    /\ drain = "waiting"
    /\ \A l \in Leases : entry[l] = "none"
    /\ drain' = "confirmed"
    /\ UNCHANGED <<entry, due, slot, task, nextClaim, enqueues, failures, released, retired>>

DrainDeadline ==
    /\ drain = "waiting"
    /\ \E l \in Leases : entry[l] # "none"
    /\ drain' = "unconfirmed"
    /\ UNCHANGED <<entry, due, slot, task, nextClaim, enqueues, failures, released, retired>>

-----------------------------------------------------------------------------

TaskStep(c) ==
    \/ TaskLooks(c)
    \/ TaskRechecks(c)
    \/ TaskWakes(c)
    \/ TaskRemoves(c)
    \/ TaskBacksOff(c)
    \/ TaskReleasesSlot(c)
    \/ TaskEnds(c)

Next ==
    \/ \E l \in Leases : Enqueue(l) \/ BackoffElapses(l)
    \/ \E c \in Claims : TaskStep(c) \/ HostReleases(c) \/ HostFails(c)
    \/ DrainWaits
    \/ DrainConfirmed
    \/ DrainDeadline

Spec == Init /\ [][Next]_vars

(* Tasks are scheduled, timers fire and the host answers every call, with  *)
(* an error at most MaxHostFailures times.                                 *)
FairSpec ==
    /\ Spec
    /\ \A c \in Claims : WF_vars(TaskStep(c)) /\ WF_vars(HostReleases(c) \/ HostFails(c))
    /\ \A l \in Leases : WF_vars(BackoffElapses(l))

-----------------------------------------------------------------------------
(* Correctness.                                                             *)

Working(c) == task[c].pc \notin {"none", "leaving", "ended"}

(* "An entry present in BrokerState::cleanup always has a live task owning *)
(* its key", whatever the order of enqueue, retry and task exit: the slot  *)
(* names a task of that lease that has not yet decided to leave.           *)
EntryOwned ==
    \A l \in Leases : entry[l] # "none" =>
        /\ slot[l] # 0
        /\ Key(slot[l]) = l
        /\ Working(slot[l])

(* Two tasks never work for one lease, so close_pending_pane or            *)
(* end_capture never runs twice at the same time for it: a task that       *)
(* outlived its slot must not take the slot of its successor with it.      *)
OneWorker ==
    \A c, d \in Claims : Working(c) /\ Working(d) /\ Key(c) = Key(d) => c = d

(* An enqueued lease leaves the registry only once the host let go of it,  *)
(* so a drain that sees the registry empty has really released everything  *)
(* that was handed to the supervisor.                                      *)
ForgottenIsReleased ==
    \A l \in retired : entry[l] = "none" => l \in released

(* A lease in the registry is eventually released and forgotten, provided  *)
(* the host fails only finitely often.                                     *)
EntryReleased == \A l \in Leases : entry[l] # "none" ~> entry[l] = "none"
=============================================================================
