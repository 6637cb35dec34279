----------------------------- MODULE Activation -----------------------------
(***************************************************************************)
(* One `muxe activate` of a unit of brokers: the coordinator that drives   *)
(* the journal (lifecycle/activate.rs), the brokers it drains, starts,     *)
(* commits or resumes (service.rs), and the recovery every broker runs by  *)
(* itself when its last control connection closes (main.rs, service.rs).   *)
(* Whoever advances the journal holds the unit's lock; what it does next   *)
(* follows from the journal alone, so a step of a driver is one durable    *)
(* write or one external effect between two writes.                        *)
(*                                                                         *)
(* The previous and the replacement broker of a member share one socket    *)
(* path.  A draining broker has no listener: only the connection that sent *)
(* the Prepare still reaches it.                                           *)
(***************************************************************************)
EXTENDS ActivationJournal

CONSTANTS
    FaultKinds,  \* which of "crash", "io" and "death" may happen
    MaxFaults    \* bound: how many of them in one behaviour

ASSUME FaultAssumption == FaultKinds \subseteq {"crash", "io", "death"} /\ MaxFaults \in Nat

VARIABLES
    journal,     \* the durable record, or NoJournal
    oldR, tgtR,  \* members with a durable stop-confirmation of that generation
    lock,        \* who holds the unit lock
    coord,       \* the activate process: "idle", "forward", "rollback" or "recover"
    acted,       \* the lock holder has carried out the journalled intent itself
    failed,      \* members whose commit the coordinator could not confirm
    sess,        \* previous brokers the coordinator keeps a connection to
    inbox,       \* previous brokers with a Prepare they have not handled
    owned,       \* replacements the coordinator still owns as child processes
    old,         \* per member, the previous broker
    tgt,         \* per member, the replacement
    watch,       \* per broker, its disconnect recovery
    installed,   \* the bridge file's generation
    loaded,      \* per member, the bridge its session loaded
    faults,
    outcome      \* "none" until the journal is removed, then how it ended

disk == <<journal, oldR, tgtR>>
run  == <<lock, coord, acted, failed, sess, inbox, owned>>
procs == <<old, tgt, watch>>
host == <<installed, loaded>>
vars == <<disk, run, procs, host, faults, outcome>>

NoJournal   == [phase |-> "None"]
Free        == <<"free", NoMember>>
Coordinator == <<"coord", NoMember>>
Brokers     == {"old", "target"} \X Members

TypeOK ==
    /\ journal \in Journal \cup {NoJournal}
    /\ oldR \subseteq Members /\ tgtR \subseteq Members
    /\ lock \in Brokers \cup {Free, Coordinator}
    /\ coord \in {"idle", "forward", "rollback", "recover"}
    /\ acted \in BOOLEAN
    /\ failed \subseteq Members /\ sess \subseteq Members
    /\ inbox \subseteq Members /\ owned \subseteq Members
    /\ old \in [Members -> {"Running", "Draining", "Stopping", "SupervisorOnly",
                            "Exited", "Dead"}]
    /\ tgt \in [Members -> {"none", "Starting", "Checked", "Gated", "Committed",
                            "Retired", "Dead"}]
    /\ watch \in [Brokers -> {"none", "check1", "lock1", "drive1", "check2", "lock2",
                              "drive2", "ack", "drive3", "finish"}]
    /\ installed \in {"old", "target"}
    /\ loaded \in [Members -> {"old", "target"}]
    /\ faults \in 0 .. MaxFaults
    /\ outcome \in {"none", "committed", "rolledBack"}

Init ==
    /\ journal = NoJournal /\ oldR = {} /\ tgtR = {}
    /\ lock = Free /\ coord = "idle" /\ acted = FALSE
    /\ failed = {} /\ sess = {} /\ inbox = {} /\ owned = {}
    /\ old = [m \in Members |-> "Running"]
    /\ tgt = [m \in Members |-> "none"]
    /\ watch = [b \in Brokers |-> "none"]
    /\ installed = "old" /\ loaded = [m \in Members |-> "old"]
    /\ faults = 0 /\ outcome = "none"

(***************************************************************************)
(* Who answers, and who drives.                                            *)
(***************************************************************************)

(* The broker listening on a member's socket. *)
Reach(m) == IF tgt[m] \in {"Gated", "Committed"} THEN "target"
            ELSE IF old[m] = "Running" THEN "old" ELSE "nobody"

(* A closed connection wakes a previous broker that is being replaced. *)
Disconnected(S) ==
    [b \in Brokers |->
       IF /\ b[1] = "old" /\ b[2] \in S \ inbox
          /\ old[b[2]] \in {"Draining", "Stopping", "SupervisorOnly"}
       THEN "check1" ELSE watch[b]]

(* A short connection to a gated replacement wakes it when it closes. *)
Touched(m) == IF tgt[m] = "Gated" /\ watch[<<"target", m>>] = "none"
              THEN [watch EXCEPT ![<<"target", m>>] = "check1"] ELSE watch

(* The coordinator process ends: its connections close, its lock is free. *)
CoordinatorGone ==
    /\ lock' = Free /\ coord' = "idle" /\ acted' = FALSE /\ failed' = {}
    /\ sess' = {} /\ owned' = {}
    /\ UNCHANGED <<disk, inbox, old, host, outcome>>

(* An orderly end kills the replacements it still owns. *)
CoordinatorExits ==
    /\ CoordinatorGone
    /\ tgt' = [m \in Members |-> IF m \in owned THEN "Dead" ELSE tgt[m]]
    /\ watch' = [b \in Brokers |-> IF b[1] = "target" /\ b[2] \in owned
                                   THEN "none" ELSE Disconnected(sess)[b]]

(* A driver gives up and keeps the journal; a broker's watch is not retried. *)
Leave(d) ==
    IF d = Coordinator THEN CoordinatorExits
    ELSE /\ lock' = Free /\ acted' = FALSE
         /\ watch' = [watch EXCEPT ![d] = "none"]
         /\ UNCHANGED <<disk, coord, failed, sess, inbox, owned, old, tgt, host, outcome>>

(* A durable write and nothing else. *)
Write(j) ==
    /\ journal' = j /\ acted' = FALSE
    /\ UNCHANGED <<oldR, tgtR, lock, coord, failed, sess, inbox, owned, procs, host,
                   faults, outcome>>

Forward == lock = Coordinator /\ coord = "forward"

(* A driver that interprets the journal: the failing coordinator, a later    *)
(* activate, or a broker's watch.                                            *)
Drives(d) ==
    /\ lock = d /\ d /= Free
    /\ d = Coordinator => coord \in {"rollback", "recover"}
    /\ d \in Brokers => watch[d] \in {"drive1", "drive2", "drive3"}

(* The members a driver may bring back to service. *)
can_resume(d) == IF d = Coordinator THEN Members
                 ELSE IF d[1] = "old" THEN {d[2]} ELSE {}

(* NormalRollbackActor, as opposed to RecoveryRollbackActor. *)
Normal(d) == d = Coordinator /\ coord = "rollback"

(***************************************************************************)
(* The coordinator's forward path.                                         *)
(***************************************************************************)
Begin ==
    /\ lock = Free /\ coord = "idle" /\ journal = NoJournal /\ outcome = "none"
    /\ \A m \in Members : old[m] = "Running"
    /\ journal' = NewJournal /\ lock' = Coordinator /\ coord' = "forward"
    /\ UNCHANGED <<oldR, tgtR, acted, failed, sess, inbox, owned, procs, host, faults, outcome>>

With(f, v) == [journal EXCEPT ![f] = v]
OldIs(m, v) == [journal EXCEPT !.old[m] = v]
TargetIs(m, v) == [journal EXCEPT !.target[m] = v]
OldAt(p) == {m \in Members : journal.old[m] \in p}
TargetAt(p) == {m \in Members : journal.target[m] \in p}

ArtifactsReady ==
    /\ Forward /\ journal.phase = "Preparing" /\ journal.bridge = "ArtifactsPending"
    /\ Write(With("bridge", "ArtifactsReady"))

PrepareIntent ==
    /\ Forward /\ journal.phase = "Preparing" /\ journal.bridge /= "ArtifactsPending"
    /\ OldAt({"PrepareIntent"}) = {} /\ OldAt({"Pending"}) /= {}
    /\ Write(OldIs(First(OldAt({"Pending"})), "PrepareIntent"))

SendPrepare(m) ==
    /\ Forward /\ journal.phase = "Preparing" /\ journal.old[m] = "PrepareIntent"
    /\ m \notin sess /\ Reach(m) = "old"
    /\ sess' = sess \cup {m} /\ inbox' = inbox \cup {m}
    /\ UNCHANGED <<disk, lock, coord, acted, failed, owned, procs, host, faults, outcome>>

RecordDrained(m) ==
    /\ Forward /\ journal.phase = "Preparing" /\ journal.old[m] = "PrepareIntent"
    /\ m \in sess \ inbox /\ old[m] = "Draining"
    /\ Write(OldIs(m, "Drained"))

(* drain_one cannot tell whether the broker is draining: the journal is kept *)
(* and nothing is rolled back.                                               *)
PrepareAmbiguous(m) ==
    /\ Forward /\ journal.phase = "Preparing" /\ journal.old[m] = "PrepareIntent"
    /\ IF m \in sess THEN old[m] = "Dead" ELSE Reach(m) /= "old"
    /\ CoordinatorExits /\ UNCHANGED faults

EnterActivating ==
    /\ Forward /\ journal.phase = "Preparing" /\ OldAt({"Drained"}) = Members
    /\ Write(With("phase", "Activating"))

SpawnIntent ==
    /\ Forward /\ journal.phase = "Activating"
    /\ TargetAt({"SpawnIntent"}) = {} /\ TargetAt({"Absent"}) /= {}
    /\ Write(TargetIs(First(TargetAt({"Absent"})), "SpawnIntent"))

Spawn(m) ==
    /\ Forward /\ journal.phase = "Activating" /\ journal.target[m] = "SpawnIntent"
    /\ m \notin owned
    /\ tgt' = [tgt EXCEPT ![m] = "Starting"] /\ owned' = owned \cup {m}
    /\ UNCHANGED <<disk, lock, coord, acted, failed, sess, inbox, old, watch, host, faults, outcome>>

RecordGated(m) ==
    /\ Forward /\ journal.target[m] = "SpawnIntent" /\ m \in owned
    /\ Write(TargetIs(m, "Gated"))

(* The next write of install_and_reload. *)
Reloading ==
    LET done == [journal EXCEPT !.completed = @ \cup {journal.active}, !.active = NoMember]
        next == [journal EXCEPT !.active = First(Members \ journal.completed)]
    IN  IF journal.active /= NoMember THEN acted /\ Write(done)
        ELSE journal.completed /= Members /\ Write(next)

BridgeForward ==
    /\ Forward /\ Zellij /\ journal.phase = "Activating"
    /\ TargetAt({"Absent", "SpawnIntent"}) = {}
    /\ CASE journal.bridge = "ArtifactsReady" -> Write(With("bridge", "TargetInstallIntent"))
         [] journal.bridge = "TargetInstallIntent" -> acted /\ Write(With("bridge", "TargetInstalled"))
         [] journal.bridge = "TargetInstalled" -> Write(With("bridge", "TargetReloading"))
         [] journal.bridge = "TargetReloading" ->
              \/ Reloading
              \/ /\ journal.active = NoMember /\ journal.completed = Members
                 /\ Write(With("bridge", "TargetReloaded"))
         [] OTHER -> FALSE

(* wait_ready polls a replacement over short connections. *)
AwaitsReady(m) ==
    /\ Forward /\ journal.phase = "Activating"
    /\ journal.bridge \in {"None", "TargetReloaded"}
    /\ TargetAt({"Absent", "SpawnIntent"}) = {}
    /\ TargetAt({"Gated"}) /= {} /\ m = First(TargetAt({"Gated"}))

Poll(m) ==
    /\ AwaitsReady(m) /\ Touched(m) /= watch
    /\ watch' = Touched(m)
    /\ UNCHANGED <<disk, run, old, tgt, host, faults, outcome>>

RecordReady(m) ==
    /\ AwaitsReady(m) /\ tgt[m] = "Gated"
    /\ journal' = TargetIs(m, "Ready") /\ watch' = Touched(m)
    /\ UNCHANGED <<oldR, tgtR, run, old, tgt, host, faults, outcome>>

(* The point of no return: from here the unit belongs to the replacements,   *)
(* which the coordinator no longer owns.                                     *)
PersistReady ==
    /\ Forward /\ journal.phase = "Activating" /\ TargetAt({"Ready"}) = Members
    /\ \A m \in Members : tgt[m] = "Gated"
    /\ journal' = With("phase", "Ready") /\ owned' = {}
    /\ UNCHANGED <<oldR, tgtR, lock, coord, acted, failed, sess, inbox, procs, host, faults, outcome>>

(* Faulty variant: an error after the decision still rolls back. *)
FailsAtReady ==
    /\ Forward /\ journal.phase \in {"Preparing", "Activating", "Ready"}
    /\ OldAt({"PrepareIntent"}) \cap sess = {} /\ TargetAt({"SpawnIntent"}) \cap owned = {}
    /\ journal' = With("phase", "RollingBack") /\ coord' = "rollback" /\ acted' = FALSE
    /\ UNCHANGED <<oldR, tgtR, lock, failed, sess, inbox, owned, procs, host, faults, outcome>>

(* Any error before that point: the coordinator records the rollback and     *)
(* drives it over the connections and the children it has.                   *)
ForwardFails ==
    /\ Forward /\ journal.phase \in {"Preparing", "Activating"}
    /\ OldAt({"PrepareIntent"}) \cap sess = {} /\ TargetAt({"SpawnIntent"}) \cap owned = {}
    /\ journal' = With("phase", "RollingBack") /\ coord' = "rollback" /\ acted' = FALSE
    /\ UNCHANGED <<oldR, tgtR, lock, failed, sess, inbox, owned, procs, host, faults, outcome>>

(* Its cause when a replacement is gone: the readiness deadline passes, or   *)
(* the final proof fails.                                                    *)
ReadinessLost ==
    /\ ForwardFails
    /\ TargetAt({"Absent", "SpawnIntent"}) = {}
    /\ \E m \in Members : tgt[m] \notin {"Starting", "Checked", "Gated"}

(* Faulty variant: a refusal leaves the drained peers to themselves. *)
RefusedIsAmbiguous(m) ==
    /\ Forward /\ journal.phase = "Preparing" /\ journal.old[m] = "PrepareIntent"
    /\ m \in sess \ inbox /\ old[m] = "Running"
    /\ CoordinatorExits /\ UNCHANGED faults

PrepareRefused(m) ==
    /\ Forward /\ journal.phase = "Preparing" /\ journal.old[m] = "PrepareIntent"
    /\ m \in sess \ inbox /\ old[m] = "Running"
    /\ journal' = With("phase", "RollingBack") /\ coord' = "rollback"
    /\ sess' = sess \ {m} /\ acted' = FALSE
    /\ UNCHANGED <<oldR, tgtR, lock, failed, inbox, owned, procs, host, faults, outcome>>

(***************************************************************************)
(* Effects outside the journal, each between an intent and its outcome.    *)
(***************************************************************************)
Effect ==
    /\ acted' = TRUE
    /\ UNCHANGED <<disk, lock, coord, failed, sess, inbox, owned, watch, faults, outcome>>

(* Faulty variant: the rollback records the old file without installing it. *)
InstallTargetOnly ==
    /\ lock /= Free /\ ~ acted
    /\ \/ Forward /\ journal.bridge = "TargetInstallIntent" /\ installed' = "target"
       \/ Drives(lock) /\ journal.phase = "RollingBack"
          /\ journal.bridge = "OldInstallIntent" /\ UNCHANGED installed
    /\ Effect /\ UNCHANGED <<old, tgt, loaded>>

InstallBridge ==
    /\ lock /= Free /\ ~ acted
    /\ \/ Forward /\ journal.bridge = "TargetInstallIntent" /\ installed' = "target"
       \/ Drives(lock) /\ journal.phase = "RollingBack"
          /\ journal.bridge = "OldInstallIntent" /\ installed' = "old"
    /\ Effect /\ UNCHANGED <<old, tgt, loaded>>

(* The session of the active member loads the file that is installed. *)
ReloadBridge ==
    /\ Forward \/ Drives(lock)
    /\ journal.phase \in {"Activating", "RollingBack"} /\ ~ acted
    /\ journal.bridge = (IF Forward THEN "TargetReloading" ELSE "OldReloading")
    /\ journal.active /= NoMember
    /\ loaded' = [loaded EXCEPT ![journal.active] = installed]
    /\ Effect /\ UNCHANGED <<old, tgt, installed>>

(***************************************************************************)
(* Commit, by the coordinator that decided it.                             *)
(***************************************************************************)
EnterCommitting ==
    /\ Forward \/ Drives(lock)
    /\ journal.phase = "Ready"
    /\ Write(With("phase", "Committing"))

CommitsOld == Forward /\ journal.phase = "Committing" /\ OldAt({"CommitIntent"}) \subseteq failed
CommitsTarget ==
    /\ Forward /\ journal.phase = "Committing" /\ OldAt({"Committed"}) = Members
    /\ TargetAt({"CommitIntent"}) \subseteq failed

OldCommitIntent ==
    /\ CommitsOld /\ OldAt({"Drained"}) /= {}
    /\ Write(OldIs(First(OldAt({"Drained"})), "CommitIntent"))

(* The Commit request reaches the draining broker over the kept connection;  *)
(* it is authorized by the journal's intent and the missing receipt.         *)
CommitOld(m) ==
    /\ Forward /\ journal.phase = "Committing" /\ journal.old[m] = "CommitIntent"
    /\ m \in sess \ oldR /\ old[m] = "Draining"
    /\ old' = [old EXCEPT ![m] = "Stopping"]
    /\ UNCHANGED <<disk, run, tgt, watch, host, faults, outcome>>

RecordOldCommitted(m) ==
    /\ Forward /\ journal.phase = "Committing" /\ journal.old[m] = "CommitIntent"
    /\ m \notin failed /\ m \in oldR
    /\ Write(OldIs(m, "Committed"))

OldCommitFailed(m) ==
    /\ Forward /\ journal.phase = "Committing" /\ journal.old[m] = "CommitIntent"
    /\ m \notin failed
    /\ old[m] = "Dead" \/ (old[m] = "SupervisorOnly" /\ m \notin oldR)
    /\ failed' = failed \cup {m}
    /\ UNCHANGED <<disk, lock, coord, acted, sess, inbox, owned, procs, host, faults, outcome>>

TargetCommitIntent ==
    LET rest == TargetAt({"Ready"}) \ failed IN
    /\ CommitsTarget /\ rest /= {} /\ Reach(First(rest)) = "target"
    /\ Write(TargetIs(First(rest), "CommitIntent"))

(* Both loops go through the replacements in order, past those that failed. *)
CommitsNext(m) ==
    LET rest == TargetAt({"Ready", "CommitIntent"}) \ failed IN
    /\ Forward \/ (Drives(Coordinator) /\ coord = "recover")
    /\ journal.phase = "Committing" /\ journal.target[m] = "CommitIntent"
    /\ m \notin failed /\ m = First(rest)

CommitTarget(m) ==
    /\ CommitsNext(m) /\ ~ acted /\ tgt[m] \in {"Gated", "Committed"}
    /\ tgt' = [tgt EXCEPT ![m] = "Committed"]
    /\ Effect /\ UNCHANGED <<old, host>>

RecordTargetCommitted(m) ==
    /\ CommitsNext(m) /\ acted
    /\ Write(TargetIs(m, "Committed"))

TargetCommitFailed(m) ==
    /\ Forward /\ journal.phase = "Committing" /\ OldAt({"Committed"}) = Members
    /\ m \notin failed /\ ~ acted /\ Reach(m) /= "target"
    /\ \/ journal.target[m] = "CommitIntent"
       \/ TargetAt({"CommitIntent"}) \subseteq failed /\ journal.target[m] = "Ready"
            /\ m = First(TargetAt({"Ready"}) \ failed)
    /\ failed' = failed \cup {m}
    /\ UNCHANGED <<disk, lock, coord, acted, sess, inbox, owned, procs, host, faults, outcome>>

(* Failures are collected per pass; the coordinator then stops. *)
CommitGivesUp ==
    /\ Forward /\ journal.phase = "Committing" /\ failed /= {} /\ ~ acted
    /\ \/ OldAt({"Drained"}) = {} /\ OldAt({"CommitIntent"}) = failed
       \/ OldAt({"Committed"}) = Members /\ TargetAt({"Ready", "CommitIntent"}) = failed
    /\ CoordinatorExits /\ UNCHANGED faults

(***************************************************************************)
(* finish_acknowledged_commit, publish_commit_artifacts and                *)
(* cleanup_terminal_transaction.                                           *)
(***************************************************************************)
AllCommitted == OldAt({"Committed"}) = Members /\ TargetAt({"Committed"}) = Members

(* Faulty variant: the last replacement does not wait for the previous brokers. *)
FinishesEarly(d) ==
    /\ lock = d /\ journal.phase = "Committing" /\ TargetAt({"Committed"}) = Members
    /\ \/ d = Coordinator /\ coord \in {"forward", "recover"}
       \/ d \in Brokers /\ watch[d] = "finish"

Finishes(d) ==
    /\ lock = d /\ journal.phase = "Committing" /\ AllCommitted
    /\ \/ d = Coordinator /\ coord = "forward"
       \/ d = Coordinator /\ coord = "recover" /\ oldR = Members
       \/ d \in Brokers /\ watch[d] = "finish" /\ oldR = Members

Published == [p \in {"TargetReloaded", "PreviousPublishIntent", "PreviousPublished",
                     "ReceiptIntent"} |->
                CASE p = "TargetReloaded" -> "PreviousPublishIntent"
                  [] p = "PreviousPublishIntent" -> "PreviousPublished"
                  [] p = "PreviousPublished" -> "ReceiptIntent"
                  [] OTHER -> "ReceiptPublished"]

PublishCommitArtifacts ==
    /\ Finishes(lock) /\ journal.bridge \in DOMAIN Published
    /\ journal' = With("bridge", Published[journal.bridge])
    /\ UNCHANGED <<oldR, tgtR, run, procs, host, faults, outcome>>

EnterCommitted ==
    /\ Finishes(lock) /\ journal.bridge \in {"None", "ReceiptPublished"}
    /\ journal' = With("phase", "Committed")
    /\ UNCHANGED <<oldR, tgtR, run, procs, host, faults, outcome>>

RemoveReceipts ==
    /\ lock /= Free /\ journal.phase \in {"Committed", "RolledBack"} /\ oldR \cup tgtR /= {}
    /\ oldR' = {} /\ tgtR' = {}
    /\ UNCHANGED <<journal, run, procs, host, faults, outcome>>

(* The journal goes last, and with it the driver's work. *)
RemoveJournal ==
    /\ lock /= Free /\ journal.phase \in {"Committed", "RolledBack"} /\ oldR \cup tgtR = {}
    /\ journal' = NoJournal
    /\ outcome' = (IF journal.phase = "Committed" THEN "committed" ELSE "rolledBack")
    /\ lock' = Free /\ coord' = "idle" /\ acted' = FALSE /\ failed' = {}
    /\ watch' = IF lock = Coordinator THEN Disconnected(sess)
                ELSE [watch EXCEPT ![lock] = "none"]
    /\ sess' = IF lock = Coordinator THEN {} ELSE sess
    /\ UNCHANGED <<oldR, tgtR, inbox, owned, old, tgt, host, faults>>

(***************************************************************************)
(* Rollback: the interpreter of next_rollback_action, shared by all drivers.*)
(***************************************************************************)
Action(d) == next_rollback_action(journal, can_resume(d))

RollsBack(d, what) == /\ Drives(d) /\ journal.phase = "RollingBack" /\ Action(d).do = what

EnterRollback ==
    /\ Drives(lock) /\ journal.phase \in {"Preparing", "Activating"}
    /\ Write(With("phase", "RollingBack"))

ResolvePrepare(d) ==
    LET m == Action(d).m IN
    /\ RollsBack(d, "ResolvePrepare")
    /\ \/ d = <<"old", m>> /\ Write(OldIs(m, "Drained"))
       \/ d /= <<"old", m>> /\ Reach(m) = "old" /\ Write(OldIs(m, "Pending"))

(* The intent names who may stop the replacement: its parent, or anyone who  *)
(* reached it on its socket.                                                 *)
RetireIntent(m, by) ==
    /\ journal' = [journal EXCEPT !.target[m] = "RetireIntent", !.authority[m] = by]
    /\ acted' = FALSE /\ watch' = (IF by = "RemoteServer" THEN Touched(m) ELSE watch)
    /\ UNCHANGED <<oldR, tgtR, lock, coord, failed, sess, inbox, owned, old, tgt, host, faults, outcome>>

ResolveTargetSpawn(d) ==
    LET m == Action(d).m IN
    /\ RollsBack(d, "ResolveTargetSpawn")
    /\ \/ Normal(d) /\ m \notin owned /\ Write(TargetIs(m, "Absent"))
       \/ ~ Normal(d) /\ Reach(m) = "target" /\ RetireIntent(m, "RemoteServer")

BeginRetirement(d) ==
    LET m == Action(d).m IN
    /\ RollsBack(d, "RetireTarget") /\ journal.target[m] /= "RetireIntent"
    /\ \/ Normal(d) /\ m \in owned /\ RetireIntent(m, "OwnedProcess")
       \/ ~ Normal(d) /\ Reach(m) = "target" /\ RetireIntent(m, "RemoteServer")

(* Faulty variant: the parent does not kill its child. *)
ForgetTarget(d) ==
    LET m == Action(d).m IN
    /\ RollsBack(d, "RetireTarget") /\ journal.target[m] = "RetireIntent"
    /\ m \notin tgtR /\ ~ acted /\ acted' = TRUE
    /\ UNCHANGED <<disk, lock, coord, failed, sess, inbox, owned, procs, host, faults, outcome>>

(* The parent kills and reaps its child; anyone else asks it to abort, which *)
(* only a replacement that was never committed accepts.                      *)
RetireTarget(d) ==
    LET m == Action(d).m IN
    /\ RollsBack(d, "RetireTarget") /\ journal.target[m] = "RetireIntent"
    /\ m \notin tgtR /\ ~ acted
    /\ \/ /\ Normal(d) /\ journal.authority[m] = "OwnedProcess"
          /\ tgt' = [tgt EXCEPT ![m] = "Dead"]
          /\ watch' = [watch EXCEPT ![<<"target", m>>] = "none"]
       \/ /\ ~ Normal(d) /\ journal.authority[m] = "RemoteServer" /\ tgt[m] = "Gated"
          /\ tgt' = [tgt EXCEPT ![m] = "Retired"]
          /\ UNCHANGED watch
    /\ acted' = TRUE
    /\ UNCHANGED <<disk, lock, coord, failed, sess, inbox, owned, old, host, faults, outcome>>

(* Faulty variant: the receipt does not wait for the stop. *)
WriteReceiptFirst(d) ==
    LET m == Action(d).m IN
    /\ RollsBack(d, "RetireTarget") /\ journal.target[m] = "RetireIntent" /\ m \notin tgtR
    /\ tgtR' = tgtR \cup {m} /\ owned' = owned \ {m}
    /\ UNCHANGED <<journal, oldR, lock, coord, acted, failed, sess, inbox, procs, host, faults, outcome>>

WriteTargetReceipt(d) ==
    LET m == Action(d).m IN
    /\ RollsBack(d, "RetireTarget") /\ journal.target[m] = "RetireIntent"
    /\ m \notin tgtR /\ acted
    /\ tgtR' = tgtR \cup {m} /\ owned' = owned \ {m}
    /\ UNCHANGED <<journal, oldR, lock, coord, acted, failed, sess, inbox, procs, host, faults, outcome>>

RecordRetired(d) ==
    LET m == Action(d).m IN
    /\ RollsBack(d, "RetireTarget") /\ journal.target[m] = "RetireIntent" /\ m \in tgtR
    /\ Write(TargetIs(m, "Retired"))

(* apply_bridge_rollback_action: the next write of the bridge's restoration. *)
RestoreBridge(d) ==
    LET do == Action(d).do IN
    /\ Drives(d) /\ journal.phase = "RollingBack"
    /\ \/ do = "MarkBridgeRestored" /\ Write(With("bridge", "Restored"))
       \/ /\ do = "InstallOldBridge" /\ journal.bridge /= "OldInstallIntent"
          /\ Write([journal EXCEPT !.bridge = "OldInstallIntent", !.active = NoMember,
                                   !.completed = {}])
       \/ /\ do = "InstallOldBridge" /\ journal.bridge = "OldInstallIntent" /\ acted
          /\ Write(With("bridge", "OldInstalled"))
       \/ /\ do = "PublishTargetPrevious"
          /\ Write(With("bridge", IF journal.bridge = "OldInstalled" THEN "TargetPreviousIntent"
                                  ELSE "TargetPreviousPublished"))
       \/ /\ do = "RestoreOldReceipt"
          /\ Write(With("bridge", IF journal.bridge = "TargetPreviousPublished"
                                  THEN "OldReceiptIntent" ELSE "OldReceiptPublished"))
       \/ do = "BeginOldReload" /\ Write(With("bridge", "OldReloading"))
       \/ do = "ReloadOldBridge" /\ Reloading
       \/ do = "CompleteBridgeRestore" /\ Write(With("bridge", "Restored"))

ResumeIntent(d) ==
    LET m == Action(d).m IN
    /\ RollsBack(d, "ResumeOld") /\ journal.old[m] /= "ResumeIntent"
    /\ Write(OldIs(m, "ResumeIntent"))

(* The coordinator that still has the connection aborts the drain. *)
AbortDrain(d) ==
    LET m == Action(d).m IN
    /\ RollsBack(d, "ResumeOld") /\ journal.old[m] = "ResumeIntent" /\ ~ acted
    /\ Normal(d) /\ m \in sess /\ old[m] \in {"Running", "Draining"}
    /\ old' = [old EXCEPT ![m] = "Running"]
    /\ Effect /\ UNCHANGED <<tgt, host>>

(* Anyone else only finds out whether the broker is already back. *)
RecordResumed(d) ==
    LET m == Action(d).m IN
    /\ RollsBack(d, "ResumeOld") /\ journal.old[m] = "ResumeIntent"
    /\ \/ Normal(d) /\ acted
       \/ ~ Normal(d) /\ d = Coordinator /\ Reach(m) = "old"
    /\ Write(OldIs(m, "Resumed"))

FinishRollback(d) ==
    /\ RollsBack(d, "Finish")
    /\ Write(With("phase", "RolledBack"))

(* The driver has no evidence to go on with, or only a peer can: it stops,   *)
(* and the journal waits for another driver.                                 *)
RollbackStuck(d) ==
    LET m == Action(d).m
        do == Action(d).do
    IN
    /\ Drives(d) /\ journal.phase = "RollingBack" /\ ~ acted
    /\ \/ do = "ResolvePrepare" /\ d /= <<"old", m>> /\ Reach(m) /= "old"
       \/ do = "ResolveTargetSpawn" /\ ~ Normal(d) /\ Reach(m) /= "target"
       \/ /\ do = "RetireTarget" /\ journal.target[m] /= "RetireIntent"
          /\ IF Normal(d) THEN m \notin owned ELSE Reach(m) /= "target"
       \/ /\ do = "RetireTarget" /\ journal.target[m] = "RetireIntent" /\ m \notin tgtR
          /\ IF Normal(d) THEN journal.authority[m] /= "OwnedProcess"
             ELSE journal.authority[m] /= "RemoteServer" \/ tgt[m] /= "Gated"
       \/ /\ do = "ResumeOld" /\ journal.old[m] = "ResumeIntent" /\ d = Coordinator
          /\ IF Normal(d) THEN m \notin sess \/ old[m] \notin {"Running", "Draining"}
             ELSE Reach(m) /= "old"
       \/ do = "AwaitingPeer"
    /\ Leave(d) /\ UNCHANGED faults

(***************************************************************************)
(* A later activate finds the journal: recover, recover_one, recover_commit.*)
(***************************************************************************)
Recover ==
    /\ lock = Free /\ coord = "idle" /\ journal /= NoJournal
    /\ lock' = Coordinator /\ coord' = "recover"
    /\ UNCHANGED <<disk, acted, failed, sess, inbox, owned, procs, host, faults, outcome>>

Recovers == Drives(Coordinator) /\ coord = "recover" /\ journal.phase = "Committing"

RecoverOldCommitted ==
    LET rest == Members \ OldAt({"Committed"}) IN
    /\ Recovers /\ rest /= {}
    /\ journal.old[First(rest)] = "CommitIntent" /\ First(rest) \in oldR
    /\ Write(OldIs(First(rest), "Committed"))

RecoverTargetIntent ==
    LET rest == Members \ TargetAt({"Committed"}) IN
    /\ Recovers /\ OldAt({"Committed"}) = Members /\ rest /= {}
    /\ journal.target[First(rest)] = "Ready" /\ Reach(First(rest)) = "target"
    /\ Write(TargetIs(First(rest), "CommitIntent"))

RecoverStuck ==
    LET rest == Members \ OldAt({"Committed"})
        away == {m \in Members : Reach(m) /= "target"}
    IN
    /\ Recovers /\ ~ acted
    /\ \/ rest /= {} /\ ~ (journal.old[First(rest)] = "CommitIntent" /\ First(rest) \in oldR)
       \/ /\ rest = {} /\ away /= {}
          /\ \A i \in DOMAIN Order : Order[i] = First(away) =>
                \A k \in 1 .. i - 1 : journal.target[Order[k]] = "Committed"
    /\ CoordinatorExits /\ UNCHANGED faults

(***************************************************************************)
(* The previous brokers.                                                   *)
(***************************************************************************)

(* A Prepare that outlived its coordinator is handled all the same; the end  *)
(* of the connection is seen after it.                                       *)
HandlePrepare(m) ==
    /\ m \in inbox /\ old[m] = "Running"
    /\ inbox' = inbox \ {m}
    /\ old' = [old EXCEPT ![m] = "Draining"]
    /\ watch' = IF m \in sess THEN watch ELSE [watch EXCEPT ![<<"old", m>>] = "check1"]
    /\ UNCHANGED <<disk, lock, coord, acted, failed, sess, owned, tgt, host, faults, outcome>>

RefusePrepare(m) ==
    /\ m \in inbox /\ old[m] = "Running"
    /\ inbox' = inbox \ {m}
    /\ UNCHANGED <<disk, lock, coord, acted, failed, sess, owned, procs, host, faults, outcome>>

(* retire_old, after the irreversible stop: the receipt is written last. *)
PublishReceipt(m) ==
    /\ old[m] = "Stopping"
    /\ old' = [old EXCEPT ![m] = "SupervisorOnly"] /\ oldR' = oldR \cup {m}
    /\ UNCHANGED <<journal, tgtR, run, tgt, watch, host, faults, outcome>>

(* A stopped broker ends once its children have; it does not wait for a      *)
(* watch other than the one that stopped it.                                 *)
OldExits(m) ==
    /\ old[m] = "SupervisorOnly" /\ ~ (lock = <<"old", m>> /\ acted)
    /\ old' = [old EXCEPT ![m] = "Exited"]
    /\ watch' = [watch EXCEPT ![<<"old", m>>] = "none"]
    /\ lock' = IF lock = <<"old", m>> THEN Free ELSE lock
    /\ UNCHANGED <<disk, coord, acted, failed, sess, inbox, owned, tgt, host, faults, outcome>>

(***************************************************************************)
(* The replacements.                                                       *)
(***************************************************************************)
TargetChecks(m) ==
    /\ tgt[m] = "Starting"
    /\ tgt' = [tgt EXCEPT ![m] = IF journal.phase = "Activating" THEN "Checked" ELSE "Dead"]
    /\ UNCHANGED <<disk, run, old, watch, host, faults, outcome>>

TargetBinds(m) ==
    /\ tgt[m] = "Checked"
    /\ tgt' = [tgt EXCEPT ![m] = IF old[m] /= "Running" THEN "Gated" ELSE "Dead"]
    /\ UNCHANGED <<disk, run, old, watch, host, faults, outcome>>

TargetExits(m) ==
    /\ tgt[m] = "Retired"
    /\ tgt' = [tgt EXCEPT ![m] = "Dead"]
    /\ watch' = [watch EXCEPT ![<<"target", m>>] = "none"]
    /\ lock' = IF lock = <<"target", m>> THEN Free ELSE lock
    /\ acted' = (acted /\ lock /= <<"target", m>>)
    /\ UNCHANGED <<disk, coord, failed, sess, inbox, owned, old, host, faults, outcome>>

(***************************************************************************)
(* A broker's own recovery: spawn_recovery_watch, run_recovery_watch and   *)
(* recovery_decision.                                                      *)
(***************************************************************************)
WatchIs(b, w) == watch' = [watch EXCEPT ![b] = w]

(* The journal is looked for before the lock.  Without one, a drained broker *)
(* looks twice and resumes, and a gated replacement retires.                 *)
WatchLooks(b) ==
    LET m == b[2] IN
    /\ watch[b] \in {"check1", "check2"}
    /\ b[1] = "old" => old[m] /= "Stopping"
    /\ IF journal /= NoJournal
       THEN WatchIs(b, IF watch[b] = "check1" THEN "lock1" ELSE "lock2") /\ UNCHANGED <<old, tgt>>
       ELSE IF b[1] = "target"
       THEN /\ WatchIs(b, "none") /\ UNCHANGED old
            /\ tgt' = [tgt EXCEPT ![m] = IF @ = "Gated" THEN "Retired" ELSE @]
       ELSE IF watch[b] = "check1" THEN WatchIs(b, "check2") /\ UNCHANGED <<old, tgt>>
       ELSE /\ WatchIs(b, "none") /\ UNCHANGED tgt
            /\ old' = [old EXCEPT ![m] = IF @ = "Draining" THEN "Running" ELSE @]
    /\ UNCHANGED <<disk, run, host, faults, outcome>>

(* A journal that went away while the watch waited leaves the broker as it is. *)
WatchLocks(b) ==
    /\ watch[b] \in {"lock1", "lock2"} /\ lock = Free
    /\ IF journal = NoJournal THEN WatchIs(b, "none") /\ UNCHANGED lock
       ELSE /\ WatchIs(b, IF watch[b] = "lock1" THEN "drive1" ELSE "drive2")
            /\ lock' = b
    /\ UNCHANGED <<disk, coord, acted, failed, sess, inbox, owned, old, tgt, host, faults, outcome>>

(* A drained broker may resume: it first lets go of the journal and decides  *)
(* again, then resumes under the lock and records that it did.               *)
MayResume(m) ==
    LET b == <<"old", m>> IN
    /\ RollsBack(b, "ResumeOld") /\ Action(b).m = m /\ journal.old[m] = "ResumeIntent"

WatchYields(m) ==
    /\ MayResume(m) /\ watch[<<"old", m>>] = "drive1"
    /\ WatchIs(<<"old", m>>, "check2") /\ lock' = Free
    /\ UNCHANGED <<disk, coord, acted, failed, sess, inbox, owned, old, tgt, host, faults, outcome>>

WatchResumes(m) ==
    /\ MayResume(m) /\ watch[<<"old", m>>] = "drive2"
    /\ old' = [old EXCEPT ![m] = "Running"] /\ WatchIs(<<"old", m>>, "ack")
    /\ UNCHANGED <<disk, run, tgt, host, faults, outcome>>

AckResumed(m) ==
    /\ lock = <<"old", m>> /\ watch[lock] = "ack" /\ journal.old[m] = "ResumeIntent"
    /\ journal' = OldIs(m, "Resumed") /\ WatchIs(lock, "drive3")
    /\ UNCHANGED <<oldR, tgtR, run, old, tgt, host, faults, outcome>>

(* A decided commit: the broker carries out its own part. *)
WatchCommits(b) == Drives(b) /\ watch[b] /= "drive3" /\ journal.phase = "Committing"

(* Faulty variant: only the coordinator asks a broker to stop. *)
NoWatchIntent(m) == m \notin Members /\ UNCHANGED vars

WatchOldIntent(m) ==
    /\ WatchCommits(<<"old", m>>) /\ old[m] = "Draining" /\ journal.old[m] = "Drained"
    /\ Write(OldIs(m, "CommitIntent"))

WatchStopsOld(m) ==
    /\ WatchCommits(<<"old", m>>) /\ old[m] = "Draining" /\ journal.old[m] = "CommitIntent"
    /\ m \notin oldR
    /\ old' = [old EXCEPT ![m] = "Stopping"]
    /\ Effect /\ UNCHANGED <<tgt, host>>

AckOldCommitted(m) ==
    /\ WatchCommits(<<"old", m>>) /\ old[m] = "SupervisorOnly" /\ m \in oldR
    /\ journal' = OldIs(m, "Committed") /\ WatchIs(<<"old", m>>, "finish")
    /\ UNCHANGED <<oldR, tgtR, run, old, tgt, host, faults, outcome>>

WatchCommitsTarget(m) ==
    /\ WatchCommits(<<"target", m>>) /\ tgt[m] = "Gated"
    /\ tgt' = [tgt EXCEPT ![m] = "Committed"] /\ WatchIs(<<"target", m>>, "ack")
    /\ UNCHANGED <<disk, run, old, host, faults, outcome>>

AckTargetCommitted(m) ==
    /\ lock = <<"target", m>> /\ watch[lock] = "ack"
    /\ journal' = TargetIs(m, "Committed") /\ WatchIs(lock, "finish")
    /\ UNCHANGED <<oldR, tgtR, run, old, tgt, host, faults, outcome>>

(* Nothing left for this broker to do, or nothing it may do. *)
WatchEnds(b) ==
    LET m == b[2] IN
    /\ lock = b
    /\ \/ WatchCommits(b) /\ b[1] = "old" /\ old[m] = "Draining" /\ m \in oldR
       \/ WatchCommits(b) /\ b[1] = "old" /\ old[m] = "SupervisorOnly" /\ m \notin oldR
       \/ WatchCommits(b) /\ b[1] = "target" /\ tgt[m] /= "Gated"
       \/ watch[b] = "finish" /\ journal.phase = "Committing" /\ ~ Finishes(b)
    /\ Leave(b) /\ UNCHANGED faults

(***************************************************************************)
(* Faults.                                                                 *)
(***************************************************************************)
Fault(kind) == kind \in FaultKinds /\ faults < MaxFaults /\ faults' = faults + 1

CoordinatorCrashes ==
    /\ lock = Coordinator /\ Fault("crash")
    /\ CoordinatorGone /\ watch' = Disconnected(sess) /\ UNCHANGED tgt

(* A write, a reload or a request fails: the driver stops where it is. *)
DriverFails ==
    /\ lock /= Free /\ Fault("io")
    /\ Leave(lock)

ReceiptFails(m) ==
    /\ old[m] = "Stopping" /\ Fault("io")
    /\ old' = [old EXCEPT ![m] = "SupervisorOnly"]
    /\ UNCHANGED <<disk, run, tgt, watch, host, outcome>>

Dies(b) ==
    /\ Fault("death")
    /\ watch' = [watch EXCEPT ![b] = "none"]
    /\ lock' = IF lock = b THEN Free ELSE lock
    /\ acted' = (acted /\ lock /= b)
    /\ inbox' = IF b[1] = "old" THEN inbox \ {b[2]} ELSE inbox
    /\ UNCHANGED <<disk, coord, failed, sess, owned, host, outcome>>

OldDies(m) ==
    /\ old[m] \notin {"Exited", "Dead"}
    /\ old' = [old EXCEPT ![m] = "Dead"] /\ Dies(<<"old", m>>) /\ UNCHANGED tgt

TargetDies(m) ==
    /\ tgt[m] \notin {"none", "Dead"}
    /\ tgt' = [tgt EXCEPT ![m] = "Dead"] /\ Dies(<<"target", m>>) /\ UNCHANGED old

(***************************************************************************)
(* Specification.                                                          *)
(***************************************************************************)
ForwardStep ==
    \/ ArtifactsReady \/ PrepareIntent \/ EnterActivating \/ SpawnIntent \/ BridgeForward
    \/ PersistReady \/ OldCommitIntent \/ TargetCommitIntent \/ CommitGivesUp
    \/ \E m \in Members : SendPrepare(m) \/ RecordDrained(m) \/ PrepareAmbiguous(m)
                          \/ PrepareRefused(m) \/ Spawn(m) \/ RecordGated(m) \/ RecordReady(m)
                          \/ CommitOld(m) \/ RecordOldCommitted(m) \/ OldCommitFailed(m)
                          \/ TargetCommitFailed(m)

DriverStep ==
    \/ InstallBridge \/ ReloadBridge \/ EnterCommitting \/ EnterRollback
    \/ PublishCommitArtifacts \/ EnterCommitted \/ RemoveReceipts \/ RemoveJournal
    \/ RecoverOldCommitted \/ RecoverTargetIntent \/ RecoverStuck
    \/ \E m \in Members : CommitTarget(m) \/ RecordTargetCommitted(m)
    \/ \E d \in Brokers \cup {Coordinator} :
          \/ ResolvePrepare(d) \/ ResolveTargetSpawn(d) \/ BeginRetirement(d)
          \/ RetireTarget(d) \/ WriteTargetReceipt(d) \/ RecordRetired(d)
          \/ RestoreBridge(d) \/ ResumeIntent(d) \/ AbortDrain(d) \/ RecordResumed(d)
          \/ FinishRollback(d) \/ RollbackStuck(d)

BrokerStep(m) ==
    \/ HandlePrepare(m) \/ RefusePrepare(m) \/ PublishReceipt(m)
    \/ TargetChecks(m) \/ TargetBinds(m) \/ TargetExits(m)
    \/ WatchYields(m) \/ WatchResumes(m) \/ AckResumed(m)
    \/ WatchOldIntent(m) \/ WatchStopsOld(m) \/ AckOldCommitted(m)
    \/ WatchCommitsTarget(m) \/ AckTargetCommitted(m)

WatchStep(b) == WatchLooks(b) \/ WatchEnds(b)

FaultStep ==
    \/ CoordinatorCrashes \/ DriverFails
    \/ \E m \in Members : ReceiptFails(m) \/ OldDies(m) \/ TargetDies(m)

Next ==
    \/ Begin \/ Recover \/ ForwardFails \/ FaultStep
    \/ ForwardStep \/ DriverStep
    \/ \E m \in Members : Poll(m) \/ OldExits(m) \/ BrokerStep(m)
    \/ \E b \in Brokers : WatchStep(b) \/ WatchLocks(b)

(* Processes that are not stopped run on; a waiting lock is granted.  No     *)
(* fairness is asked of the user (Begin), of other errors, polls or exits.   *)
Fairness ==
    /\ WF_vars(ForwardStep) /\ WF_vars(ReadinessLost) /\ WF_vars(DriverStep)
    /\ \A m \in Members : WF_vars(BrokerStep(m))
    /\ \A b \in Brokers : WF_vars(WatchStep(b)) /\ SF_vars(WatchLocks(b))

Spec == Init /\ [][Next]_vars

FairSpec == Spec /\ Fairness

(***************************************************************************)
(* Properties.                                                             *)
(***************************************************************************)

(* The durable record is one write_journal accepts, whoever wrote it last    *)
(* and wherever the writer before it was stopped.                            *)
JournalValid == journal /= NoJournal => validate(journal)

(* A member never has two brokers on its socket: a replacement that listens  *)
(* and a previous broker that serves exclude each other.                     *)
OneListener ==
    \A m \in Members : ~ (old[m] = "Running" /\ tgt[m] \in {"Gated", "Committed"})

(* A stop-confirmation file is true: no broker that has one can ever serve,  *)
(* so no later driver skips a stop that did not happen.                      *)
ReceiptsTrue ==
    /\ \A m \in oldR : old[m] \in {"SupervisorOnly", "Exited", "Dead"}
    /\ \A m \in tgtR : tgt[m] \in {"Retired", "Dead"}

(* A session's menus come from a broker and a bridge of one generation: a    *)
(* previous broker is back in service only after its session reloaded the    *)
(* previous bridge, and a replacement opens only behind the new one.         *)
BridgeMatches ==
    Zellij => \A m \in Members :
        /\ old[m] = "Running" => loaded[m] = "old"
        /\ tgt[m] = "Committed" => loaded[m] = "target"

(* The unit counts as replaced only once every previous broker is known to   *)
(* be stopped and every replacement was opened; and as restored only once    *)
(* every replacement is known to be stopped.                                 *)
TerminalIsTrue ==
    /\ journal.phase = "Committed" \/ outcome = "committed" =>
          \A m \in Members : /\ old[m] \in {"SupervisorOnly", "Exited", "Dead"}
                             /\ tgt[m] \in {"Committed", "Dead"}
    /\ journal.phase = "RolledBack" \/ outcome = "rolledBack" =>
          \A m \in Members : tgt[m] \in {"none", "Retired", "Dead"}

(* What the activation promises of the whole unit: module UnitHandover. *)
Decision ==
    CASE journal.phase \in {"Ready", "Committing", "Committed"} -> "commit"
      [] journal.phase \in {"RollingBack", "RolledBack"}        -> "abort"
      [] journal.phase \in {"Preparing", "Activating"}          -> "open"
      [] OTHER -> CASE outcome = "committed"  -> "commit"
                    [] outcome = "rolledBack" -> "abort"
                    [] OTHER                  -> "open"

Serving == [m \in Members |-> IF tgt[m] = "Committed" THEN "target"
                              ELSE IF old[m] = "Running" THEN "old" ELSE "nobody"]

Handover == INSTANCE UnitHandover WITH decision <- Decision, serving <- Serving

(* Whatever crashes, fails or dies in the middle of an activation, the       *)
(* journal, the coordinator and the brokers implement one handover of the    *)
(* unit: decided once, followed by every broker.                             *)
HandoverSpec == Handover!Spec

(* Unless a fault strikes, every activation ends, one way or the other, with *)
(* no record left behind: refused, failed or successful.                     *)
Settles == journal /= NoJournal ~> (journal = NoJournal \/ faults > 0)

(* A decided replacement goes into service even if the coordinator dies at   *)
(* once: the brokers finish it by themselves.                                *)
CommitServes ==
    Decision = "commit" ~>
        \A m \in Members : tgt[m] = "Committed" /\ old[m] \in {"SupervisorOnly", "Exited"}

(* "Each activation unit must converge to the complete old stack or complete *)
(* target stack" (docs/planning/DESIGN.md), after one coordinator crash.     *)
Converges ==
    journal /= NoJournal ~>
        \/ \A m \in Members : old[m] = "Running"
        \/ \A m \in Members : tgt[m] = "Committed"
=============================================================================
