-------------------------- MODULE ActivationJournal --------------------------
(***************************************************************************)
(* The durable record of one activation unit (lifecycle/journal.rs): its   *)
(* phases, what each phase allows to be recorded of the previous broker,   *)
(* of the replacement and of the shared bridge file, and the next step of  *)
(* an interrupted rollback (lifecycle/activate.rs).                        *)
(*                                                                         *)
(* Identities, digests and certificates are left out: a record is always   *)
(* the record of the one activation being modelled.  The schema of a       *)
(* forced replacement (v6) is left out too.                                *)
(***************************************************************************)
EXTENDS Naturals, Sequences, FiniteSets

CONSTANTS
    Members,     \* the brokers of the unit
    Order,       \* the same, in the order the journal lists them
    Zellij,      \* whether the unit shares a bridge file
    NoMember

ASSUME UnitAssumption ==
    /\ IsFiniteSet(Members) /\ Members /= {}
    /\ Order \in Seq(Members)
    /\ \A m \in Members : \E i \in DOMAIN Order : Order[i] = m
    /\ Zellij \in BOOLEAN
    /\ NoMember \notin Members

Phases == {"Preparing", "Activating", "Ready", "Committing", "RollingBack",
           "Committed", "RolledBack"}

OldProgress == {"Pending", "PrepareIntent", "Drained", "CommitIntent", "Committed",
                "ResumeIntent", "Resumed"}

TargetProgress == {"Absent", "SpawnIntent", "Gated", "Ready", "CommitIntent",
                   "Committed", "RetireIntent", "Retired"}

(* Progress of the one bridge file; a Herdr unit has none. *)
BridgeProgress ==
    {"None", "ArtifactsPending", "ArtifactsReady", "TargetInstallIntent",
     "TargetInstalled", "TargetReloading", "TargetReloaded",
     "PreviousPublishIntent", "PreviousPublished", "ReceiptIntent", "ReceiptPublished",
     "OldInstallIntent", "OldInstalled", "TargetPreviousIntent",
     "TargetPreviousPublished", "OldReceiptIntent", "OldReceiptPublished",
     "OldReloading", "Restored"}

(* Who may stop the replacement a RetireIntent names. *)
Authority == {"none", "OwnedProcess", "RemoteServer"}

Journal == [phase     : Phases,
            old       : [Members -> OldProgress],
            target    : [Members -> TargetProgress],
            authority : [Members -> Authority],
            bridge    : BridgeProgress,
            active    : Members \cup {NoMember},   \* the session being reloaded
            completed : SUBSET Members]            \* the sessions reloaded

NewJournal ==
    [phase     |-> "Preparing",
     old       |-> [m \in Members |-> "Pending"],
     target    |-> [m \in Members |-> "Absent"],
     authority |-> [m \in Members |-> "none"],
     bridge    |-> IF Zellij THEN "ArtifactsPending" ELSE "None",
     active    |-> NoMember,
     completed |-> {}]

(* The first listed member of a set. *)
First(S) == LET i == CHOOSE i \in DOMAIN Order :
                       Order[i] \in S /\ \A k \in 1 .. i - 1 : Order[k] \notin S
            IN  Order[i]

TargetsRetired(j) == \A m \in Members : j.target[m] \in {"Absent", "Retired"}

RestoreStarted(j) ==
    j.bridge \in {"OldInstallIntent", "OldInstalled", "TargetPreviousIntent",
                  "TargetPreviousPublished", "OldReceiptIntent", "OldReceiptPublished",
                  "OldReloading", "Restored"}

(* The member states a phase allows. *)
MembersValid(j) ==
    LET Each(olds, targets) ==
            \A m \in Members : j.old[m] \in olds /\ j.target[m] \in targets
    IN CASE j.phase = "Preparing"   -> Each({"Pending", "PrepareIntent", "Drained"}, {"Absent"})
         [] j.phase = "Activating"  -> Each({"Drained"}, {"Absent", "SpawnIntent", "Gated", "Ready"})
         [] j.phase = "Ready"       -> Each({"Drained"}, {"Ready"})
         [] j.phase = "Committing"  -> Each({"Drained", "CommitIntent", "Committed"},
                                            {"Ready", "CommitIntent", "Committed"})
         [] j.phase = "RollingBack" -> Each(OldProgress \ {"CommitIntent", "Committed"}, TargetProgress)
         [] j.phase = "Committed"   -> Each({"Committed"}, {"Committed"})
         [] OTHER                   -> Each({"Pending", "Resumed"}, {"Absent", "Retired"})

(* The bridge states a phase allows; during a rollback, the file is restored *)
(* only behind stopped replacements and brokers resume only behind the file. *)
BridgeValid(j) ==
    Zellij =>
    CASE j.phase = "Preparing"   -> j.bridge \in {"ArtifactsPending", "ArtifactsReady"}
      [] j.phase = "Activating"  -> j.bridge \in {"ArtifactsReady", "TargetInstallIntent",
                                       "TargetInstalled", "TargetReloading", "TargetReloaded"}
      [] j.phase = "Ready"       -> j.bridge = "TargetReloaded"
      [] j.phase = "Committing"  -> j.bridge \in {"TargetReloaded", "PreviousPublishIntent",
                                       "PreviousPublished", "ReceiptIntent", "ReceiptPublished"}
      [] j.phase = "RollingBack" ->
            /\ RestoreStarted(j) => TargetsRetired(j)
            /\ \A m \in Members : j.old[m] \in {"ResumeIntent", "Resumed"} => j.bridge = "Restored"
      [] j.phase = "Committed"   -> j.bridge = "ReceiptPublished"
      [] OTHER                   -> j.bridge = "Restored"

(* A reload is recorded of known sessions, once each; a finished restore     *)
(* either reloaded every session or never touched the unit.                  *)
CoverageValid(j) ==
    /\ j.bridge \in {"TargetReloading", "OldReloading"} => j.active \notin j.completed
    /\ j.bridge = "Restored" =>
          \/ j.completed = Members
          \/ /\ j.completed = {}
             /\ \A m \in Members : j.old[m] = "Pending" /\ j.target[m] = "Absent"

(* No previous broker resumes while a replacement may still run. *)
BarrierValid(j) ==
    j.phase = "RollingBack" =>
        \/ TargetsRetired(j)
        \/ \A m \in Members : j.old[m] \notin {"ResumeIntent", "Resumed"}

(* A stop request is recorded of exactly the replacements being stopped.     *)
AuthorityValid(j) ==
    \A m \in Members :
        j.target[m] \in {"RetireIntent", "Retired"} <=> j.authority[m] /= "none"

(* ActivationJournal::validate: what write_journal and read_journal refuse   *)
(* otherwise.                                                                *)
validate(j) ==
    /\ AuthorityValid(j) /\ CoverageValid(j)
    /\ MembersValid(j) /\ BridgeValid(j) /\ BarrierValid(j)

(* Faulty variant: a replacement that was gated is not looked for again. *)
UnsettledSpawns(j) ==
    {m \in Members : j.old[m] = "PrepareIntent" \/ j.target[m] = "SpawnIntent"}

(***************************************************************************)
(* next_rollback_action, for a driver that may resume the members R.       *)
(***************************************************************************)
Unsettled(j) ==
    {m \in Members : \/ j.old[m] = "PrepareIntent"
                     \/ j.target[m] \in {"SpawnIntent", "Gated", "Ready", "CommitIntent",
                                         "Committed", "RetireIntent"}}

NotResumed(j) == {m \in Members : j.old[m] \notin {"Pending", "Resumed"}}

Untouched(j) == \A m \in Members : j.old[m] = "Pending" /\ j.target[m] = "Absent"

NextResume(j, R) ==
    IF NotResumed(j) \cap R /= {}
    THEN [do |-> "ResumeOld", m |-> First(NotResumed(j) \cap R)]
    ELSE [do |-> IF NotResumed(j) /= {} THEN "AwaitingPeer" ELSE "Finish", m |-> NoMember]

NextBridge(j) ==
    CASE j.bridge = "ArtifactsPending" /\ Untouched(j) -> "MarkBridgeRestored"
      [] j.bridge \in {"OldInstalled", "TargetPreviousIntent"} -> "PublishTargetPrevious"
      [] j.bridge \in {"TargetPreviousPublished", "OldReceiptIntent"} -> "RestoreOldReceipt"
      [] j.bridge = "OldReceiptPublished" -> "BeginOldReload"
      [] j.bridge = "OldReloading" /\ (j.active /= NoMember \/ j.completed /= Members) -> "ReloadOldBridge"
      [] j.bridge = "OldReloading" /\ j.active = NoMember /\ j.completed = Members
            -> "CompleteBridgeRestore"
      [] OTHER -> "InstallOldBridge"

next_rollback_action(j, R) ==
    IF Unsettled(j) /= {}
    THEN LET m == First(Unsettled(j)) IN
         [do |-> IF j.old[m] = "PrepareIntent" THEN "ResolvePrepare"
                 ELSE IF j.target[m] = "SpawnIntent" THEN "ResolveTargetSpawn"
                 ELSE "RetireTarget",
          m  |-> m]
    ELSE IF Zellij /\ j.bridge /= "Restored"
    THEN [do |-> NextBridge(j),
          m  |-> IF NextBridge(j) /= "ReloadOldBridge" THEN NoMember
                 ELSE IF j.active /= NoMember THEN j.active
                 ELSE First(Members \ j.completed)]
    ELSE NextResume(j, R)
=============================================================================
