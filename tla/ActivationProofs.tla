------------------------- MODULE ActivationProofs -------------------------
(***************************************************************************)
(* What module Activation promises, for every unit, every order of its     *)
(* members, Zellij or not, and any number of faults of any kind.           *)
(*                                                                         *)
(* None of the properties is inductive: each follows from one invariant,   *)
(* Inv, which says what the durable record is worth.                       *)
(*   LockInv     whoever drives the journal holds the unit lock, and only  *)
(*               one process does; a process without it keeps no children. *)
(*   BrokerOK    what a member's two brokers are, whatever the journal     *)
(*               says: needed once the journal is gone.                    *)
(*   JournalOK   the record passes validate, and what the writers rely on  *)
(*               beyond it (Ordered): e.g. a replacement is told to commit *)
(*               only after every previous broker is recorded as stopped.  *)
(*   Recorded    what is written is true of the processes and the bridge.  *)
(*               This is what lets a driver that was not there when the    *)
(*               step was taken go on from the record alone.               *)
(*   AtRest      the same before the activation and after its journal went.*)
(*   ActedInv    between an effect and its record, what the effect did.    *)
(* The proof has one lemma per group of actions; each rests on a lemma     *)
(* about the kind of step (a write, a broker's step, the end of a process),*)
(* and those on lemmas about the journal's fields.                         *)
(***************************************************************************)
EXTENDS Activation, WellFoundedInduction, TLAPS

(***************************************************************************)
(* The journal: its fields, its validity, and the interpreter's choice.    *)
(***************************************************************************)

(* A set of positions has a least one. *)
LEMMA LeastIndex ==
  ASSUME NEW I \in SUBSET Nat, I # {}
  PROVE  \E i \in I : \A k \in I : ~ (k < i)
<1> DEFINE R == {ss \in Nat \X Nat : ss[1] < ss[2]}
<1>1. PICK i \in I : \A k \in I : ~ (<<k, i>> \in R)
  <2>1. IsWellFoundedOn(R, Nat)
    BY NatLessThanWellFounded DEF OpToRel
  <2> HIDE DEF R
  <2> QED
    BY <2>1, WFMin
<1>2. \A k \in I : k < i => <<k, i>> \in R
  OBVIOUS
<1> QED
  BY <1>1, <1>2

(* First picks a member of the set, whatever the order of the unit. *)
LEMMA FirstIn ==
  ASSUME NEW S \in SUBSET Members, S # {}
  PROVE  First(S) \in S
<1> DEFINE I == {i \in DOMAIN Order : Order[i] \in S}
<1>1. I \in SUBSET Nat /\ I # {} /\ DOMAIN Order = 1 .. Len(Order) /\ Len(Order) \in Nat
  BY UnitAssumption
<1>2. PICK i \in I : \A k \in I : ~ (k < i)
  BY <1>1, LeastIndex
<1>3. \A k \in 1 .. i - 1 : Order[k] \notin S
  BY <1>1, <1>2
<1>4. \E n \in DOMAIN Order : Order[n] \in S /\ \A k \in 1 .. n - 1 : Order[k] \notin S
  BY <1>2, <1>3
<1> QED
  BY <1>4 DEF First

(* A write of the phase changes no other field. *)
LEMMA PhaseWrite ==
  ASSUME NEW j \in Journal, NEW p \in Phases
  PROVE  LET k == [j EXCEPT !["phase"] = p] IN
         /\ k \in Journal /\ k.phase = p /\ k.old = j.old /\ k.target = j.target
         /\ k.authority = j.authority /\ k.bridge = j.bridge /\ k.active = j.active
         /\ k.completed = j.completed
BY DEF Journal

(* A write of the bridge's progress changes no other field. *)
LEMMA BridgeWrite ==
  ASSUME NEW j \in Journal, NEW b \in BridgeProgress
  PROVE  LET k == [j EXCEPT !["bridge"] = b] IN
         /\ k \in Journal /\ k.phase = j.phase /\ k.old = j.old /\ k.target = j.target
         /\ k.authority = j.authority /\ k.bridge = b /\ k.active = j.active
         /\ k.completed = j.completed
BY DEF Journal

(* A write of one previous broker's progress changes no other field. *)
LEMMA OldWrite ==
  ASSUME NEW j \in Journal, NEW m \in Members, NEW v \in OldProgress
  PROVE  LET k == [j EXCEPT !.old[m] = v] IN
         /\ k \in Journal /\ k.phase = j.phase /\ k.old = [j.old EXCEPT ![m] = v]
         /\ k.target = j.target
         /\ k.authority = j.authority /\ k.bridge = j.bridge /\ k.active = j.active
         /\ k.completed = j.completed
BY DEF Journal

(* A write of one replacement's progress changes no other field. *)
LEMMA TargetWrite ==
  ASSUME NEW j \in Journal, NEW m \in Members, NEW v \in TargetProgress
  PROVE  LET k == [j EXCEPT !.target[m] = v] IN
         /\ k \in Journal /\ k.phase = j.phase /\ k.old = j.old
         /\ k.target = [j.target EXCEPT ![m] = v]
         /\ k.authority = j.authority /\ k.bridge = j.bridge /\ k.active = j.active
         /\ k.completed = j.completed
BY DEF Journal

(* What the writers keep beyond validate: the bridge's progress has its reload  *)
(* fields reset where no reload is under way, nobody is drained before the      *)
(* artifacts exist, a replacement is ready only behind its bridge, and told to  *)
(* commit only behind stopped predecessors.                                     *)
Ordered(j) ==
    /\ Zellij <=> (j.bridge # "None")
    /\ j.bridge \in {"ArtifactsPending", "ArtifactsReady", "TargetInstallIntent",
                     "TargetInstalled", "OldInstallIntent", "OldInstalled",
                     "TargetPreviousIntent", "TargetPreviousPublished",
                     "OldReceiptIntent", "OldReceiptPublished"}
          => j.active = NoMember /\ j.completed = {}
    /\ j.phase = "Preparing" /\ j.bridge = "ArtifactsPending"
          => \A m \in Members : j.old[m] = "Pending"
    /\ j.phase = "Activating" /\ (\E m \in Members : j.target[m] = "Ready")
          => j.bridge \in {"None", "TargetReloaded"}
    /\ j.phase = "Committing" /\ (\E m \in Members : j.target[m] = "CommitIntent")
          => \A m \in Members : j.old[m] = "Committed"

(* A record any driver can go on from. *)
JournalOK(j) == validate(j) /\ Ordered(j)

(* The record an activation starts with is valid. *)
LEMMA NewJournalOK == NewJournal \in Journal /\ JournalOK(NewJournal)
BY UnitAssumption DEF NewJournal, Journal, Phases, OldProgress, TargetProgress, Authority, BridgeProgress,
   JournalOK, validate, Ordered, AuthorityValid, CoverageValid, MembersValid, BridgeValid, BarrierValid

(* What next_rollback_action may ask for, and what the journal then says of *)
(* the member it names. *)
LEMMA Deterministic ==
  ASSUME NEW j \in Journal, NEW R \in SUBSET Members, NEW a, a = next_rollback_action(j, R)
  PROVE  /\ a.do = "ResolvePrepare" => a.m \in Members /\ j.old[a.m] = "PrepareIntent"
         /\ a.do = "ResolveTargetSpawn" =>
               a.m \in Members /\ j.target[a.m] = "SpawnIntent"
         /\ a.do = "RetireTarget" =>
               /\ Unsettled(j) # {} /\ a.m = First(Unsettled(j)) /\ a.m \in Members
               /\ j.old[a.m] # "PrepareIntent"
               /\ j.target[a.m] \in {"Gated", "Ready", "CommitIntent", "Committed", "RetireIntent"}
         /\ a.do \notin {"ResolvePrepare", "ResolveTargetSpawn", "RetireTarget"} =>
               Unsettled(j) = {}
         /\ a.do \in {"ResumeOld", "Finish", "AwaitingPeer"} => ~ (Zellij /\ j.bridge # "Restored")
         /\ a.do = "ResumeOld" => a.m \in NotResumed(j) \cap R
         /\ a.do = "Finish" => NotResumed(j) = {}
         /\ a.do \in {"MarkBridgeRestored", "InstallOldBridge", "PublishTargetPrevious",
                       "RestoreOldReceipt", "BeginOldReload", "ReloadOldBridge",
                       "CompleteBridgeRestore"} =>
               Zellij /\ j.bridge # "Restored" /\ a.do = NextBridge(j)
<1>1. CASE Unsettled(j) # {}
  <2> DEFINE m == First(Unsettled(j))
  <2>1. m \in Unsettled(j)
    BY <1>1, FirstIn DEF Unsettled
  <2>2. a.m = m /\ a.do = (IF j.old[m] = "PrepareIntent" THEN "ResolvePrepare"
                            ELSE IF j.target[m] = "SpawnIntent" THEN "ResolveTargetSpawn"
                            ELSE "RetireTarget")
    BY <1>1 DEF next_rollback_action
  <2> HIDE DEF m
  <2>3. m \in Members /\ (j.old[m] # "PrepareIntent" => j.target[m] \in
            {"SpawnIntent", "Gated", "Ready", "CommitIntent", "Committed", "RetireIntent"})
    BY <2>1 DEF Unsettled
  <2> QED
    BY <1>1, <2>2, <2>3 DEF m
<1>2. CASE Unsettled(j) = {} /\ Zellij /\ j.bridge # "Restored"
  <2>1. a.do = NextBridge(j)
    BY <1>2 DEF next_rollback_action
  <2>2. NextBridge(j) \in {"MarkBridgeRestored", "InstallOldBridge", "PublishTargetPrevious",
                       "RestoreOldReceipt", "BeginOldReload", "ReloadOldBridge",
                       "CompleteBridgeRestore"}
    BY DEF NextBridge
  <2> QED
    BY <1>2, <2>1, <2>2
<1>3. CASE Unsettled(j) = {} /\ ~ (Zellij /\ j.bridge # "Restored")
  <2>1. a = NextResume(j, R)
    BY <1>3 DEF next_rollback_action
  <2>2. CASE NotResumed(j) \cap R # {}
    <3>1. a.do = "ResumeOld" /\ a.m = First(NotResumed(j) \cap R)
      BY <2>1, <2>2 DEF NextResume
    <3>2. First(NotResumed(j) \cap R) \in NotResumed(j) \cap R
      BY <2>2, FirstIn DEF NotResumed
    <3> QED
      BY <1>3, <3>1, <3>2
  <2>3. CASE NotResumed(j) \cap R = {}
    BY <1>3, <2>1, <2>3 DEF NextResume
  <2> QED
    BY <2>2, <2>3
<1> QED
  BY <1>1, <1>2, <1>3

(* Every write of a previous broker's progress keeps the record valid. *)
LEMMA OldWriteOK ==
  ASSUME NEW j \in Journal, JournalOK(j), NEW m \in Members, NEW v \in OldProgress,
         \/ /\ j.phase = "Preparing" /\ j.bridge # "ArtifactsPending"
            /\ v \in {"Pending", "PrepareIntent", "Drained"}
         \/ j.phase = "Committing" /\ (v = "CommitIntent" => j.old[m] = "Drained") /\ v \in {"CommitIntent", "Committed"}
         \/ j.phase = "RollingBack" /\ j.old[m] = "PrepareIntent" /\ v \in {"Pending", "Drained"}
         \/ /\ j.phase = "RollingBack" /\ j.old[m] \notin {"Pending", "Resumed"}
            /\ TargetsRetired(j) /\ (Zellij => j.bridge = "Restored")
            /\ v \in {"ResumeIntent", "Resumed"}
  PROVE  [j EXCEPT !.old[m] = v] \in Journal /\ JournalOK([j EXCEPT !.old[m] = v])
<1> DEFINE k == [j EXCEPT !.old[m] = v]
<1>1. /\ k \in Journal /\ k.phase = j.phase /\ k.old = [j.old EXCEPT ![m] = v]
      /\ k.target = j.target
      /\ k.authority = j.authority /\ k.bridge = j.bridge /\ k.active = j.active
      /\ k.completed = j.completed
  BY OldWrite
<1>2. j.old \in [Members -> OldProgress]
  BY DEF Journal
<1> HIDE DEF k
<1> USE <1>1, <1>2 DEF JournalOK, validate
<1>3. Ordered(k)
  BY DEF Ordered
<1>4. AuthorityValid(k)
  BY DEF AuthorityValid
<1>5. CoverageValid(k)
  BY DEF CoverageValid, Ordered, BridgeValid
<1>6. MembersValid(k)
  BY DEF MembersValid, OldProgress
<1>7. BridgeValid(k)
  BY DEF BridgeValid, RestoreStarted, TargetsRetired, OldProgress
<1>8. BarrierValid(k)
  BY DEF BarrierValid, TargetsRetired
<1> QED
  BY <1>3, <1>4, <1>5, <1>6, <1>7, <1>8 DEF k

(* Every write of a replacement's progress keeps the record valid. *)
LEMMA TargetWriteOK ==
  ASSUME NEW j \in Journal, JournalOK(j), NEW m \in Members, NEW v \in TargetProgress,
         \/ j.phase = "Activating" /\ v \in {"SpawnIntent", "Gated"} /\ j.target[m] \in {"Absent", "SpawnIntent"}
         \/ /\ j.phase = "Activating" /\ v = "Ready" /\ j.target[m] = "Gated"
            /\ j.bridge \in {"None", "TargetReloaded"}
         \/ /\ j.phase = "Committing" /\ v \in {"CommitIntent", "Committed"}
            /\ v = "CommitIntent" => \A n \in Members : j.old[n] = "Committed"
         \/ j.phase = "RollingBack" /\ j.target[m] = "SpawnIntent" /\ v = "Absent"
         \/ j.phase = "RollingBack" /\ j.target[m] = "RetireIntent" /\ v = "Retired"
  PROVE  [j EXCEPT !.target[m] = v] \in Journal /\ JournalOK([j EXCEPT !.target[m] = v])
<1> DEFINE k == [j EXCEPT !.target[m] = v]
<1>1. /\ k \in Journal /\ k.phase = j.phase /\ k.target = [j.target EXCEPT ![m] = v]
      /\ k.old = j.old
      /\ k.authority = j.authority /\ k.bridge = j.bridge /\ k.active = j.active
      /\ k.completed = j.completed
  BY TargetWrite
<1>2. j.target \in [Members -> TargetProgress]
  BY DEF Journal
<1> HIDE DEF k
<1> USE <1>1, <1>2 DEF JournalOK, validate
<1>3. Ordered(k)
  BY DEF Ordered
<1>4. AuthorityValid(k)
  BY DEF AuthorityValid, MembersValid
<1>5. CoverageValid(k)
  BY DEF CoverageValid, Ordered, BridgeValid
<1>6. MembersValid(k)
  BY DEF MembersValid, TargetProgress
<1>7. BridgeValid(k)
  BY DEF BridgeValid, RestoreStarted, TargetsRetired
<1>8. BarrierValid(k)
  BY DEF BarrierValid, TargetsRetired
<1> QED
  BY <1>3, <1>4, <1>5, <1>6, <1>7, <1>8 DEF k

(* The intent to stop a replacement, with its authority, keeps it valid. *)
LEMMA RetireWriteOK ==
  ASSUME NEW j \in Journal, JournalOK(j), NEW m \in Members, NEW a \in Authority, a # "none",
         j.phase = "RollingBack", j.target[m] \notin {"Absent", "Retired"}
  PROVE  LET k == [j EXCEPT !.target[m] = "RetireIntent", !.authority[m] = a] IN
         k \in Journal /\ JournalOK(k)
<1> DEFINE k == [j EXCEPT !.target[m] = "RetireIntent", !.authority[m] = a]
<1>1. /\ k \in Journal /\ k.phase = j.phase /\ k.target = [j.target EXCEPT ![m] = "RetireIntent"]
      /\ k.old = j.old
      /\ k.authority = [j.authority EXCEPT ![m] = a] /\ k.bridge = j.bridge /\ k.active = j.active
      /\ k.completed = j.completed
  BY DEF Journal, TargetProgress
<1>2. j.target \in [Members -> TargetProgress] /\ j.authority \in [Members -> Authority]
  BY DEF Journal
<1> HIDE DEF k
<1> USE <1>1, <1>2 DEF JournalOK, validate
<1>3. Ordered(k)
  BY DEF Ordered
<1>4. AuthorityValid(k)
  BY DEF AuthorityValid
<1>5. CoverageValid(k)
  BY DEF CoverageValid, Ordered, BridgeValid, RestoreStarted, TargetsRetired
<1>6. MembersValid(k)
  BY DEF MembersValid, TargetProgress
<1>7. BridgeValid(k)
  BY DEF BridgeValid, RestoreStarted, TargetsRetired
<1>8. BarrierValid(k)
  BY DEF BarrierValid, TargetsRetired
<1> QED
  BY <1>3, <1>4, <1>5, <1>6, <1>7, <1>8 DEF k

(* Every change of phase keeps the record valid. *)
LEMMA PhaseWriteOK ==
  ASSUME NEW j \in Journal, JournalOK(j), NEW p \in Phases,
         \/ j.phase = "Preparing" /\ p = "Activating" /\ \A m \in Members : j.old[m] = "Drained"
         \/ j.phase = "Activating" /\ p = "Ready" /\ \A m \in Members : j.target[m] = "Ready"
         \/ j.phase = "Ready" /\ p = "Committing"
         \/ j.phase \in {"Preparing", "Activating"} /\ p = "RollingBack"
         \/ /\ j.phase = "Committing" /\ p = "Committed" /\ j.bridge \in {"None", "ReceiptPublished"}
            /\ \A m \in Members : j.old[m] = "Committed" /\ j.target[m] = "Committed"
         \/ /\ j.phase = "RollingBack" /\ p = "RolledBack" /\ (Zellij => j.bridge = "Restored")
            /\ Unsettled(j) = {} /\ NotResumed(j) = {}
  PROVE  [j EXCEPT !["phase"] = p] \in Journal /\ JournalOK([j EXCEPT !["phase"] = p])
<1> DEFINE k == [j EXCEPT !["phase"] = p]
<1>1. /\ k \in Journal /\ k.phase = p /\ k.target = j.target
      /\ k.old = j.old
      /\ k.authority = j.authority /\ k.bridge = j.bridge /\ k.active = j.active
      /\ k.completed = j.completed
  BY PhaseWrite
<1>2. j.target \in [Members -> TargetProgress] /\ j.old \in [Members -> OldProgress]
  BY DEF Journal
<1> HIDE DEF k
<1> USE <1>1, <1>2, UnitAssumption DEF JournalOK, validate
<1>3. Ordered(k)
  BY DEF Ordered, MembersValid
<1>4. AuthorityValid(k)
  BY DEF AuthorityValid, MembersValid
<1>5. CoverageValid(k)
  BY DEF CoverageValid
<1>6. MembersValid(k)
  BY DEF MembersValid, TargetProgress, OldProgress, Unsettled, NotResumed
<1>7. BridgeValid(k)
  BY DEF BridgeValid, RestoreStarted, TargetsRetired, Ordered, MembersValid
<1>8. BarrierValid(k)
  BY DEF BarrierValid, TargetsRetired, MembersValid
<1> QED
  BY <1>3, <1>4, <1>5, <1>6, <1>7, <1>8 DEF k

(* Every write of the bridge's progress keeps the record valid. *)
LEMMA BridgeWriteOK ==
  ASSUME NEW j \in Journal, JournalOK(j), NEW b \in BridgeProgress, Zellij,
         \/ j.phase = "Preparing" /\ j.bridge = "ArtifactsPending" /\ b = "ArtifactsReady"
         \/ /\ j.phase = "Activating"
            /\ \/ j.bridge = "ArtifactsReady" /\ b = "TargetInstallIntent"
               \/ j.bridge = "TargetInstallIntent" /\ b = "TargetInstalled"
               \/ j.bridge = "TargetInstalled" /\ b = "TargetReloading"
               \/ j.bridge = "TargetReloading" /\ b = "TargetReloaded"
         \/ /\ j.phase = "Committing"
            /\ b \in {"PreviousPublishIntent", "PreviousPublished", "ReceiptIntent", "ReceiptPublished"}
         \/ /\ j.phase = "RollingBack" /\ TargetsRetired(j) /\ j.bridge # "Restored"
            /\ \/ j.bridge = "ArtifactsPending" /\ Untouched(j) /\ b = "Restored"
               \/ j.bridge = "OldInstallIntent" /\ b = "OldInstalled"
               \/ j.bridge = "OldInstalled" /\ b = "TargetPreviousIntent"
               \/ j.bridge = "TargetPreviousIntent" /\ b = "TargetPreviousPublished"
               \/ j.bridge = "TargetPreviousPublished" /\ b = "OldReceiptIntent"
               \/ j.bridge = "OldReceiptIntent" /\ b = "OldReceiptPublished"
               \/ j.bridge = "OldReceiptPublished" /\ b = "OldReloading"
               \/ j.bridge = "OldReloading" /\ b = "Restored" /\ j.completed = Members
  PROVE  [j EXCEPT !["bridge"] = b] \in Journal /\ JournalOK([j EXCEPT !["bridge"] = b])
<1> DEFINE k == [j EXCEPT !["bridge"] = b]
<1>1. /\ k \in Journal /\ k.phase = j.phase /\ k.target = j.target
      /\ k.old = j.old
      /\ k.authority = j.authority /\ k.bridge = b /\ k.active = j.active
      /\ k.completed = j.completed
  BY BridgeWrite
<1>2. j.target \in [Members -> TargetProgress] /\ j.old \in [Members -> OldProgress]
  BY DEF Journal
<1> HIDE DEF k
<1> USE <1>1, <1>2, UnitAssumption DEF JournalOK, validate
<1>3. Ordered(k)
  BY DEF Ordered
<1>4. AuthorityValid(k)
  BY DEF AuthorityValid
<1>5. CoverageValid(k)
  BY DEF CoverageValid, Ordered, Untouched
<1>6. MembersValid(k)
  BY DEF MembersValid
<1>7. BridgeValid(k)
  BY DEF BridgeValid, RestoreStarted, TargetsRetired
<1>8. BarrierValid(k)
  BY DEF BarrierValid, TargetsRetired
<1> QED
  BY <1>3, <1>4, <1>5, <1>6, <1>7, <1>8 DEF k

(* Starting the restore over, and recording one reload, keep it valid. *)
LEMMA ReloadWriteOK ==
  ASSUME NEW j \in Journal, JournalOK(j), NEW b \in BridgeProgress,
         NEW a \in Members \cup {NoMember}, NEW C \in SUBSET Members, Zellij,
         \/ /\ j.phase = "RollingBack" /\ TargetsRetired(j) /\ j.bridge # "Restored"
            /\ b = "OldInstallIntent" /\ a = NoMember /\ C = {}
         \/ b = j.bridge /\ b \in {"TargetReloading", "OldReloading"} /\ a \notin C
  PROVE  LET k == [j EXCEPT !.bridge = b, !.active = a, !.completed = C] IN
         k \in Journal /\ JournalOK(k)
<1> DEFINE k == [j EXCEPT !.bridge = b, !.active = a, !.completed = C]
<1>1. /\ k \in Journal /\ k.phase = j.phase /\ k.target = j.target
      /\ k.old = j.old
      /\ k.authority = j.authority /\ k.bridge = b /\ k.active = a
      /\ k.completed = C
  BY DEF Journal
<1>2. j.target \in [Members -> TargetProgress] /\ j.old \in [Members -> OldProgress]
  BY DEF Journal
<1> HIDE DEF k
<1> USE <1>1, <1>2, UnitAssumption DEF JournalOK, validate
<1>3. Ordered(k)
  BY DEF Ordered
<1>4. AuthorityValid(k)
  BY DEF AuthorityValid
<1>5. CoverageValid(k)
  BY DEF CoverageValid
<1>6. MembersValid(k)
  BY DEF MembersValid
<1>7. BridgeValid(k)
  BY DEF BridgeValid, RestoreStarted, TargetsRetired
<1>8. BarrierValid(k)
  BY DEF BarrierValid, TargetsRetired
<1> QED
  BY <1>3, <1>4, <1>5, <1>6, <1>7, <1>8 DEF k

(* Reloading's two writes, in the form of ReloadWriteOK. *)
LEMMA ReloadForms ==
  ASSUME NEW j \in Journal
  PROVE  /\ [j EXCEPT !.completed = @ \cup {j.active}, !.active = NoMember]
                = [j EXCEPT !.bridge = j.bridge, !.active = NoMember,
                            !.completed = j.completed \cup {j.active}]
         /\ \A a : [j EXCEPT !.active = a]
                = [j EXCEPT !.bridge = j.bridge, !.active = a, !.completed = j.completed]
BY DEF Journal

(* Reloading writes a valid record and changes only the reload it is at. *)
LEMMA ReloadingOK ==
  ASSUME NEW j \in Journal, JournalOK(j), Zellij, j.bridge \in {"TargetReloading", "OldReloading"}
  PROVE  /\ j.active # NoMember =>
               LET k == [j EXCEPT !.completed = @ \cup {j.active}, !.active = NoMember] IN
               /\ k \in Journal /\ JournalOK(k) /\ k.phase = j.phase /\ k.target = j.target
               /\ k.old = j.old /\ k.authority = j.authority /\ k.bridge = j.bridge
               /\ k.active = NoMember /\ k.completed = j.completed \cup {j.active}
         /\ j.completed # Members =>
               LET k == [j EXCEPT !.active = First(Members \ j.completed)] IN
               /\ k \in Journal /\ JournalOK(k) /\ k.phase = j.phase /\ k.target = j.target
               /\ k.old = j.old /\ k.authority = j.authority /\ k.bridge = j.bridge
               /\ k.active \in Members \ j.completed /\ k.completed = j.completed
<1>1. /\ j.active \in Members \cup {NoMember} /\ j.completed \in SUBSET Members
      /\ j.bridge \in BridgeProgress
  BY DEF Journal
<1>2. ASSUME j.active # NoMember
      PROVE  LET k == [j EXCEPT !.completed = @ \cup {j.active}, !.active = NoMember] IN
               /\ k \in Journal /\ JournalOK(k) /\ k.phase = j.phase /\ k.target = j.target
               /\ k.old = j.old /\ k.authority = j.authority /\ k.bridge = j.bridge
               /\ k.active = NoMember /\ k.completed = j.completed \cup {j.active}
  <2> DEFINE C == j.completed \cup {j.active}
  <2>0. NoMember \notin Members
    BY UnitAssumption
  <2>1. C \in SUBSET Members /\ NoMember \notin C
    BY <1>1, <1>2, <2>0, Zenon
  <2> HIDE DEF C
  <2>2. [j EXCEPT !.completed = @ \cup {j.active}, !.active = NoMember]
          = [j EXCEPT !.bridge = j.bridge, !.active = NoMember, !.completed = C]
    BY ReloadForms, Zenon DEF C
  <2>3. LET k == [j EXCEPT !.bridge = j.bridge, !.active = NoMember, !.completed = C] IN
        k \in Journal /\ JournalOK(k)
    BY <1>1, <2>1, ReloadWriteOK
  <2>4. LET k == [j EXCEPT !.bridge = j.bridge, !.active = NoMember, !.completed = C] IN
               /\ k.phase = j.phase /\ k.target = j.target
               /\ k.old = j.old /\ k.authority = j.authority /\ k.bridge = j.bridge
               /\ k.active = NoMember /\ k.completed = C
    BY <1>1, <2>1 DEF Journal
  <2> QED
    BY <2>2, <2>3, <2>4 DEF C
<1>3. ASSUME j.completed # Members
      PROVE  LET k == [j EXCEPT !.active = First(Members \ j.completed)] IN
               /\ k \in Journal /\ JournalOK(k) /\ k.phase = j.phase /\ k.target = j.target
               /\ k.old = j.old /\ k.authority = j.authority /\ k.bridge = j.bridge
               /\ k.active \in Members \ j.completed /\ k.completed = j.completed
  <2> DEFINE a == First(Members \ j.completed)
             S == Members \ j.completed
  <2>0. S \in SUBSET Members /\ S # {}
    BY <1>1, <1>3
  <2> HIDE DEF S
  <2>first. First(S) \in S
    BY <2>0, FirstIn
  <2>1. a \in Members \ j.completed
    BY <2>first, Zenon DEF S
  <2> HIDE DEF a
  <2>2. [j EXCEPT !.active = a]
          = [j EXCEPT !.bridge = j.bridge, !.active = a, !.completed = j.completed]
    BY ReloadForms, Zenon
  <2>3. LET k == [j EXCEPT !.bridge = j.bridge, !.active = a, !.completed = j.completed] IN
        k \in Journal /\ JournalOK(k)
    BY <1>1, <2>1, ReloadWriteOK
  <2>4. LET k == [j EXCEPT !.bridge = j.bridge, !.active = a, !.completed = j.completed] IN
               /\ k.phase = j.phase /\ k.target = j.target
               /\ k.old = j.old /\ k.authority = j.authority /\ k.bridge = j.bridge
               /\ k.active = a /\ k.completed = j.completed
    BY <1>1, <2>1 DEF Journal
  <2> QED
    BY <2>1, <2>2, <2>3, <2>4 DEF a
<1> QED
  BY <1>2, <1>3

(***************************************************************************)
(* The inductive invariant.                                                *)
(***************************************************************************)

(* A watch in one of these states holds the lock. *)
Driving == {"drive1", "drive2", "drive3", "ack", "finish"}
(* A previous broker in one of these states never serves again. *)
Gone == {"SupervisorOnly", "Exited", "Dead"}

(* The lock and its holder: a coordinator or a watch that drives holds it, and  *)
(* only a coordinator that started the activation has connections or children.  *)
LockInv ==
    /\ (coord = "idle") <=> (lock # Coordinator)
    /\ lock # Free => journal # NoJournal
    /\ lock = Free => ~ acted
    /\ \A b \in Brokers : (watch[b] \in Driving) <=> (lock = b)
    /\ coord \notin {"forward", "rollback"} => sess = {} /\ owned = {}

(* What holds of a member whatever the journal says. *)
BrokerOK(m) ==
    /\ watch[<<"old", m>>] # "none" => old[m] \notin {"Exited", "Dead"} /\ m \notin inbox
    /\ watch[<<"target", m>>] = "ack" => tgt[m] = "Committed"
    /\ m \in oldR => old[m] \in Gone
    /\ m \in tgtR => tgt[m] \in {"Retired", "Dead"} /\ m \notin owned
    /\ ~ (old[m] = "Running" /\ tgt[m] \in {"Gated", "Committed"})
    /\ Zellij => /\ old[m] = "Running" => loaded[m] = "old"
                 /\ tgt[m] = "Committed" => loaded[m] = "target"

(* The phase and the drivers that are in the middle of it. *)
PhaseRec(j) ==
    /\ coord = "forward" => j.phase \notin {"RollingBack", "RolledBack"}
    /\ coord = "rollback" => j.phase \in {"RollingBack", "RolledBack"}
    /\ \A m \in Members : watch[<<"target", m>>] = "ack" => j.phase = "Committing"

(* A previous broker stops only after the decision, serves again only under a   *)
(* recorded intent, and is recorded as stopped only with its receipt.           *)
OldRec(j, m) ==
    /\ old[m] \in {"Stopping", "SupervisorOnly", "Exited"} => j.phase \in {"Committing", "Committed"}
    /\ watch[<<"old", m>>] # "none" /\ old[m] = "Running" => j.old[m] \in {"ResumeIntent", "Resumed"}
    /\ j.old[m] \in {"Drained", "CommitIntent", "Committed"} => old[m] # "Running"
    /\ j.phase = "Committing" /\ j.old[m] = "Committed" => m \in oldR
    /\ j.phase = "Committed" => old[m] \in Gone

(* A replacement is open only after the decision, and one that is recorded as   *)
(* absent, stopped or committed is: the coordinator that spawns it knows it.    *)
TargetRec(j, m) ==
    /\ m \in tgtR => j.phase \in {"RollingBack", "RolledBack"}
    /\ m \in owned => /\ j.phase \in {"Activating", "RollingBack"}
                      /\ j.target[m] \in {"SpawnIntent", "Gated", "Ready", "RetireIntent"}
    /\ tgt[m] = "Committed" => j.phase \in {"Committing", "Committed"}
    /\ j.target[m] = "Absent" => tgt[m] = "none"
    /\ j.target[m] = "Retired" => tgt[m] \in {"Retired", "Dead"}
    /\ j.target[m] = "Committed" => tgt[m] \in {"Committed", "Dead"}
    /\ coord \in {"forward", "rollback"} /\ j.target[m] = "SpawnIntent" /\ m \notin owned
          => tgt[m] = "none"

(* The bridge file and what each session loaded of it. *)
BridgeRec(j) ==
    /\ j.bridge \in {"TargetInstalled", "TargetReloading", "TargetReloaded"} => installed = "target"
    /\ j.bridge \in {"OldInstalled", "TargetPreviousIntent", "TargetPreviousPublished",
                      "OldReceiptIntent", "OldReceiptPublished", "OldReloading"} => installed = "old"
    /\ j.bridge \in {"ArtifactsPending", "Restored"} => \A m \in Members : loaded[m] = "old"
    /\ j.bridge \in {"TargetReloaded", "PreviousPublishIntent", "PreviousPublished",
                      "ReceiptIntent", "ReceiptPublished"} => \A m \in Members : loaded[m] = "target"
    /\ j.bridge = "TargetReloading" => \A m \in j.completed : loaded[m] = "target"
    /\ j.bridge = "OldReloading" => \A m \in j.completed : loaded[m] = "old"

(* What the journal j says is true. *)
Recorded(j) ==
    PhaseRec(j) /\ BridgeRec(j) /\ \A m \in Members : OldRec(j, m) /\ TargetRec(j, m)

(* Before the activation and after it. *)
AtRest ==
    /\ oldR = {} /\ tgtR = {}
    /\ outcome = "none" =>
          /\ inbox = {} /\ watch = [b \in Brokers |-> "none"]
          /\ \A m \in Members : old[m] \in {"Running", "Dead"} /\ tgt[m] = "none" /\ loaded[m] = "old"
    /\ outcome = "committed" =>
          \A m \in Members : old[m] \in Gone /\ tgt[m] \in {"Committed", "Dead"}
    /\ outcome = "rolledBack" =>
          \A m \in Members : /\ tgt[m] \in {"none", "Retired", "Dead"}
                             /\ old[m] \in {"Running", "Draining", "Dead"}
                             /\ Zellij => loaded[m] = "old"

(* There is a true record, or the unit is at rest. *)
JournalInv ==
    /\ journal # NoJournal => outcome = "none" /\ JournalOK(journal) /\ Recorded(journal)
    /\ journal = NoJournal => AtRest

(* What an effect without its record has achieved: the stopped replacement is   *)
(* the one next_rollback_action still names, the opened one the next in order.  *)
ActedInv ==
    acted =>
        /\ journal.phase = "RollingBack" =>
              /\ \A m \in Members :
                    Unsettled(journal) # {} /\ m = First(Unsettled(journal))
                    /\ journal.target[m] = "RetireIntent" /\ journal.old[m] # "PrepareIntent"
                       => tgt[m] \in {"Retired", "Dead"}
              /\ journal.bridge = "OldInstallIntent" => installed = "old"
              /\ journal.bridge = "OldReloading" /\ journal.active # NoMember
                    => loaded[journal.active] = "old"
              /\ lock \in Brokers => \/ Unsettled(journal) # {}
                                     \/ journal.bridge \in {"OldInstallIntent", "OldReloading"}
        /\ lock = Coordinator /\ journal.phase = "Committing" => \A m \in Members :
              m = First(TargetAt({"Ready", "CommitIntent"}) \ failed) /\ m \notin failed
              /\ journal.target[m] = "CommitIntent"
                 => tgt[m] \in {"Committed", "Dead"}
        /\ journal.phase = "Activating" =>
              /\ journal.bridge = "TargetInstallIntent" => installed = "target"
              /\ journal.bridge = "TargetReloading" /\ journal.active # NoMember
                    => loaded[journal.active] = "target"

(* The inductive invariant. *)
Inv ==
    /\ TypeOK /\ LockInv /\ (\A m \in Members : BrokerOK(m)) /\ JournalInv /\ ActedInv

(* The names of drivers do not clash. *)
LEMMA BrokerNames ==
  /\ Free # Coordinator /\ Free \notin Brokers /\ Coordinator \notin Brokers
  /\ \A m \in Members : <<"old", m>> \in Brokers /\ <<"target", m>> \in Brokers
  /\ \A m, n \in Members : <<"old", m>> # <<"target", n>>
  /\ \A m, n \in Members : (<<"old", m>> = <<"old", n>>) => m = n
  /\ \A m, n \in Members : (<<"target", m>> = <<"target", n>>) => m = n
  /\ \A b \in Brokers : b[2] \in Members /\ (b = <<"old", b[2]>> \/ b = <<"target", b[2]>>)
  /\ \A m \in Members : <<"old", m>> # Coordinator /\ <<"target", m>> # Coordinator
  /\ \A m \in Members : <<"old", m>> # Free /\ <<"target", m>> # Free
BY DEF Free, Coordinator, Brokers

(* The fields of a record that exists. *)
LEMMA JournalFacts ==
  ASSUME TypeOK
  PROVE  /\ journal = NoJournal => journal.phase = "None"
         /\ journal.phase = "None" => journal = NoJournal
         /\ journal # NoJournal =>
              /\ journal \in Journal /\ journal.phase \in Phases
              /\ journal.old \in [Members -> OldProgress]
              /\ journal.target \in [Members -> TargetProgress]
              /\ journal.authority \in [Members -> Authority]
              /\ journal.bridge \in BridgeProgress
              /\ journal.active \in Members \cup {NoMember} /\ journal.completed \in SUBSET Members
<1>1. NoJournal.phase = "None"
  BY DEF NoJournal
<1>2. \A j \in Journal : j.phase \in Phases /\ j.phase # "None"
  BY DEF Journal, Phases
<1> QED
  BY <1>1, <1>2 DEF TypeOK, Journal

(***************************************************************************)
(* Steps that are one write.                                               *)
(***************************************************************************)

(* A write that is valid and true keeps the invariant. *)
LEMMA Written ==
  ASSUME Inv, NEW k \in Journal, JournalOK(k), Recorded(k), lock # Free, Write(k)
  PROVE  Inv'
<1> USE DEF Write, procs, host
<1>0. k # NoJournal /\ journal # NoJournal /\ outcome = "none"
  BY DEF Inv, LockInv, JournalInv, Journal, Phases, NoJournal
<1>1. TypeOK'
  BY DEF Inv, TypeOK
<1>2. LockInv'
  BY <1>0 DEF Inv, LockInv
<1>3. \A m \in Members : BrokerOK(m)'
  BY DEF Inv, BrokerOK
<1>4. JournalInv'
  <2>1. PhaseRec(k)' /\ BridgeRec(k)'
    BY DEF Recorded, PhaseRec, BridgeRec
  <2>2. \A m \in Members : OldRec(k, m)' /\ TargetRec(k, m)'
    BY DEF Recorded, OldRec, TargetRec
  <2> QED
    BY <1>0, <2>1, <2>2 DEF JournalInv, Recorded
<1>5. ActedInv'
  BY DEF ActedInv
<1> QED
  BY <1>1, <1>2, <1>3, <1>4, <1>5 DEF Inv

(* A write of one previous broker's progress. *)
LEMMA OldWritten ==
  ASSUME Inv, lock # Free, NEW m \in Members, NEW v \in OldProgress,
         NEW j, j = journal, Write([j EXCEPT !.old[m] = v]),
         \/ /\ j.phase = "Preparing" /\ j.bridge # "ArtifactsPending"
            /\ v \in {"Pending", "PrepareIntent", "Drained"}
         \/ j.phase = "Committing" /\ (v = "CommitIntent" => j.old[m] = "Drained") /\ v \in {"CommitIntent", "Committed"}
         \/ j.phase = "RollingBack" /\ j.old[m] = "PrepareIntent" /\ v \in {"Pending", "Drained"}
         \/ /\ j.phase = "RollingBack" /\ j.old[m] \notin {"Pending", "Resumed"}
            /\ TargetsRetired(j) /\ (Zellij => j.bridge = "Restored")
            /\ v \in {"ResumeIntent", "Resumed"},
         v \in {"Drained", "CommitIntent", "Committed"} => old[m] # "Running",
         watch[<<"old", m>>] # "none" /\ old[m] = "Running" => v \in {"ResumeIntent", "Resumed"},
         j.phase = "Committing" /\ v = "Committed" => m \in oldR
  PROVE  Inv'
<1> DEFINE k == [j EXCEPT !.old[m] = v]
<1>0. j \in Journal /\ JournalOK(j) /\ Recorded(j) /\ j.old \in [Members -> OldProgress]
  BY JournalFacts DEF Inv, LockInv, JournalInv
<1>1. /\ k \in Journal /\ k.phase = j.phase /\ k.old = [j.old EXCEPT ![m] = v]
      /\ k.target = j.target
      /\ k.authority = j.authority /\ k.bridge = j.bridge /\ k.active = j.active
      /\ k.completed = j.completed
  BY <1>0, OldWrite
<1>2. JournalOK(k)
  BY <1>0, OldWriteOK
<1>3. Write(k)
  OBVIOUS
<1> HIDE DEF k
<1>4. PhaseRec(k) /\ BridgeRec(k)
  BY <1>0, <1>1 DEF Recorded, PhaseRec, BridgeRec
<1>5. ASSUME NEW n \in Members PROVE OldRec(k, n)
  <2>1. OldRec(j, n)
    BY <1>0 DEF Recorded
  <2>2. k.old[n] = IF n = m THEN v ELSE j.old[n]
    BY <1>0, <1>1
  <2> QED
    BY <1>1, <2>1, <2>2 DEF OldRec
<1>6. \A n \in Members : TargetRec(k, n)
  BY <1>0, <1>1 DEF Recorded, TargetRec
<1> QED
  BY <1>1, <1>2, <1>3, <1>4, <1>5, <1>6, Written DEF Recorded

(* A write of one replacement's progress. *)
LEMMA TargetWritten ==
  ASSUME Inv, lock # Free, NEW m \in Members, NEW v \in TargetProgress,
         NEW j, j = journal, Write([j EXCEPT !.target[m] = v]),
         \/ j.phase = "Activating" /\ v \in {"SpawnIntent", "Gated"} /\ j.target[m] \in {"Absent", "SpawnIntent"}
         \/ /\ j.phase = "Activating" /\ v = "Ready" /\ j.target[m] = "Gated"
            /\ j.bridge \in {"None", "TargetReloaded"}
         \/ /\ j.phase = "Committing" /\ v \in {"CommitIntent", "Committed"}
            /\ v = "CommitIntent" => \A n \in Members : j.old[n] = "Committed"
         \/ j.phase = "RollingBack" /\ j.target[m] = "SpawnIntent" /\ v = "Absent"
         \/ j.phase = "RollingBack" /\ j.target[m] = "RetireIntent" /\ v = "Retired",
         v \in {"Absent", "Retired"} => m \notin owned,
         v \in {"Absent", "SpawnIntent"} => tgt[m] = "none",
         v = "Retired" => tgt[m] \in {"Retired", "Dead"},
         v = "Committed" => tgt[m] \in {"Committed", "Dead"}
  PROVE  Inv'
<1> DEFINE k == [j EXCEPT !.target[m] = v]
<1>0. j \in Journal /\ JournalOK(j) /\ Recorded(j) /\ j.target \in [Members -> TargetProgress]
  BY JournalFacts DEF Inv, LockInv, JournalInv
<1>1. /\ k \in Journal /\ k.phase = j.phase /\ k.target = [j.target EXCEPT ![m] = v]
      /\ k.old = j.old
      /\ k.authority = j.authority /\ k.bridge = j.bridge /\ k.active = j.active
      /\ k.completed = j.completed
  BY <1>0, TargetWrite
<1>2. JournalOK(k)
  BY <1>0, TargetWriteOK
<1>3. Write(k)
  OBVIOUS
<1> HIDE DEF k
<1>4. PhaseRec(k) /\ BridgeRec(k)
  BY <1>0, <1>1 DEF Recorded, PhaseRec, BridgeRec
<1>5. \A n \in Members : OldRec(k, n)
  BY <1>0, <1>1 DEF Recorded, OldRec
<1>6. \A n \in Members : TargetRec(k, n)
  BY <1>0, <1>1 DEF Recorded, TargetRec
<1> QED
  BY <1>1, <1>2, <1>3, <1>4, <1>5, <1>6, Written DEF Recorded

(* A phase entered says nothing new of brokers and bridge, but for the last *)
(* one of a commit. *)
LEMMA PhaseRecorded ==
  ASSUME Inv, lock # Free, NEW p \in Phases, NEW j, j = journal, NEW k \in Journal,
         k.phase = p, k.old = j.old, k.target = j.target, k.authority = j.authority,
         k.bridge = j.bridge, k.active = j.active, k.completed = j.completed,
         \/ j.phase = "Preparing" /\ p = "Activating" /\ \A m \in Members : j.old[m] = "Drained"
         \/ j.phase = "Ready" /\ p = "Committing"
         \/ j.phase \in {"Preparing", "Activating"} /\ p = "RollingBack"
         \/ /\ j.phase = "RollingBack" /\ p = "RolledBack" /\ (Zellij => j.bridge = "Restored")
            /\ Unsettled(j) = {} /\ NotResumed(j) = {}
  PROVE  /\ BridgeRec(k) /\ \A m \in Members : OldRec(k, m) /\ TargetRec(k, m)
         /\ \A m \in Members : watch[<<"target", m>>] # "ack"
<1>0. j \in Journal /\ JournalOK(j) /\ Recorded(j)
  BY JournalFacts DEF Inv, LockInv, JournalInv
<1>1. BridgeRec(k)
  BY <1>0 DEF Recorded, BridgeRec
<1>2. \A m \in Members : OldRec(k, m)
  BY <1>0 DEF Recorded, OldRec, JournalOK, validate, MembersValid
<1>3. \A m \in Members : TargetRec(k, m)
  BY <1>0 DEF Recorded, TargetRec, JournalOK, validate, MembersValid, Unsettled
<1>4. \A m \in Members : watch[<<"target", m>>] # "ack"
  BY <1>0 DEF Recorded, PhaseRec
<1> QED
  BY <1>1, <1>2, <1>3, <1>4

(* A write of the phase. *)
LEMMA PhaseWritten ==
  ASSUME Inv, lock # Free, NEW p \in Phases, NEW j, j = journal, Write([j EXCEPT !["phase"] = p]),
         \/ j.phase = "Preparing" /\ p = "Activating" /\ \A m \in Members : j.old[m] = "Drained"
         \/ j.phase = "Ready" /\ p = "Committing"
         \/ j.phase \in {"Preparing", "Activating"} /\ p = "RollingBack"
         \/ /\ j.phase = "RollingBack" /\ p = "RolledBack" /\ (Zellij => j.bridge = "Restored")
            /\ Unsettled(j) = {} /\ NotResumed(j) = {},
         coord = "forward" => p \notin {"RollingBack", "RolledBack"},
         coord = "rollback" => p \in {"RollingBack", "RolledBack"}
  PROVE  Inv'
<1> DEFINE k == [j EXCEPT !["phase"] = p]
<1>0. j \in Journal /\ JournalOK(j)
  BY JournalFacts DEF Inv, LockInv, JournalInv
<1>1. /\ k \in Journal /\ k.phase = p /\ k.target = j.target
      /\ k.old = j.old
      /\ k.authority = j.authority /\ k.bridge = j.bridge /\ k.active = j.active
      /\ k.completed = j.completed
  BY <1>0, PhaseWrite
<1>2. JournalOK(k)
  BY <1>0, PhaseWriteOK
<1>3. Write(k)
  OBVIOUS
<1> HIDE DEF k
<1>4. /\ BridgeRec(k) /\ \A m \in Members : OldRec(k, m) /\ TargetRec(k, m)
      /\ \A m \in Members : watch[<<"target", m>>] # "ack"
  BY <1>1, PhaseRecorded
<1>5. PhaseRec(k)
  BY <1>1, <1>4 DEF PhaseRec
<1> QED
  BY <1>1, <1>2, <1>3, <1>4, <1>5, Written DEF Recorded

(* A write of the bridge's progress: what it claims of the files is true. *)
LEMMA BridgeRecorded ==
  ASSUME Inv, lock # Free, NEW j, j = journal, NEW k \in Journal, JournalOK(k), Write(k),
         k.phase = j.phase, k.old = j.old, k.target = j.target, BridgeRec(k)
  PROVE  Inv'
<1>0. Recorded(j)
  BY DEF Inv, LockInv, JournalInv
<1>1. PhaseRec(k)
  BY <1>0 DEF Recorded, PhaseRec
<1>2. \A m \in Members : OldRec(k, m)
  BY <1>0 DEF Recorded, OldRec
<1>3. \A m \in Members : TargetRec(k, m)
  BY <1>0 DEF Recorded, TargetRec
<1> QED
  BY <1>1, <1>2, <1>3, Written DEF Recorded

(* What the holder of the lock finds. *)
LEMMA HeldFacts ==
  ASSUME Inv, lock # Free, NEW j, j = journal
  PROVE  /\ j # NoJournal /\ j \in Journal /\ JournalOK(j) /\ Recorded(j) /\ outcome = "none"
         /\ j.phase \in Phases /\ j.old \in [Members -> OldProgress]
         /\ j.target \in [Members -> TargetProgress]
         /\ j.bridge \in BridgeProgress /\ j.authority \in [Members -> Authority]
         /\ j.active \in Members \cup {NoMember} /\ j.completed \in SUBSET Members
BY JournalFacts DEF Inv, LockInv, JournalInv

(* What a driver of a rollback is asked to do, and why it may. *)
LEMMA RollbackFacts ==
  ASSUME Inv, NEW d, Drives(d), NEW j, j = journal, j.phase = "RollingBack", NEW a, a = Action(d)
  PROVE  /\ lock = d /\ d # Free /\ d \in Brokers \cup {Coordinator} /\ coord # "forward"
         /\ a.do = "ResolvePrepare" => a.m \in Members /\ j.old[a.m] = "PrepareIntent"
         /\ a.do = "ResolveTargetSpawn" =>
               a.m \in Members /\ j.target[a.m] = "SpawnIntent"
         /\ a.do = "RetireTarget" =>
               /\ Unsettled(j) # {} /\ a.m = First(Unsettled(j)) /\ a.m \in Members
               /\ j.old[a.m] # "PrepareIntent"
               /\ j.target[a.m] \in {"Gated", "Ready", "CommitIntent", "Committed", "RetireIntent"}
         /\ a.do \notin {"ResolvePrepare", "ResolveTargetSpawn", "RetireTarget"} =>
               Unsettled(j) = {} /\ TargetsRetired(j)
         /\ a.do \in {"ResumeOld", "Finish", "AwaitingPeer"} => (Zellij => j.bridge = "Restored")
         /\ a.do = "ResumeOld" => a.m \in Members /\ j.old[a.m] \notin {"Pending", "Resumed"}
         /\ a.do = "Finish" => NotResumed(j) = {}
         /\ a.do \in {"MarkBridgeRestored", "InstallOldBridge", "PublishTargetPrevious",
                       "RestoreOldReceipt", "BeginOldReload", "ReloadOldBridge",
                       "CompleteBridgeRestore"} =>
               Zellij /\ j.bridge # "Restored" /\ a.do = NextBridge(j)
<1>1. lock = d /\ d # Free /\ d \in Brokers \cup {Coordinator}
  BY DEF Drives, Inv, TypeOK
<1>2. j \in Journal /\ Recorded(j) /\ j.target \in [Members -> TargetProgress]
  BY <1>1, HeldFacts
<1>3. coord # "forward"
  BY <1>2 DEF Recorded, PhaseRec
<1>4. can_resume(d) \in SUBSET Members
  BY <1>1, BrokerNames DEF can_resume
<1>5. Unsettled(j) = {} => TargetsRetired(j)
  BY <1>2 DEF Unsettled, TargetsRetired, TargetProgress
<1>6. a = next_rollback_action(j, can_resume(d))
  BY DEF Action
<1> DEFINE R == can_resume(d)
<1> HIDE DEF R
<1>7. R \in SUBSET Members /\ a = next_rollback_action(j, R)
  BY <1>4, <1>6 DEF R
<1>8. NotResumed(j) \subseteq Members /\ \A m \in NotResumed(j) : j.old[m] \notin {"Pending", "Resumed"}
  BY DEF NotResumed
<1> QED
  BY <1>1, <1>2, <1>3, <1>5, <1>7, <1>8, Deterministic

(* The coordinator, a recovering coordinator or a broker's watch records a *)
(* previous broker's progress towards the commit. *)
LEMMA ForwardOldWrites ==
  ASSUME Inv
  PROVE  /\ PrepareIntent => Inv'
         /\ OldCommitIntent => Inv'
         /\ RecoverOldCommitted => Inv'
         /\ \A m \in Members : RecordDrained(m) \/ RecordOldCommitted(m) \/ WatchOldIntent(m) => Inv'
<1> DEFINE j == journal
<1>0. /\ lock # Free => /\ j # NoJournal /\ j \in Journal /\ Recorded(j)
                        /\ j.old \in [Members -> OldProgress]
      /\ Free # Coordinator
  BY HeldFacts, BrokerNames
<1>1. ASSUME PrepareIntent PROVE Inv'
  <2> DEFINE m == First(OldAt({"Pending"}))
  <2>1. lock # Free
    BY <1>0, <1>1 DEF PrepareIntent, Forward
  <2>2. m \in OldAt({"Pending"})
    BY <1>1, FirstIn DEF PrepareIntent, OldAt
  <2>3. m \in Members /\ j.old[m] = "Pending"
    BY <2>2 DEF OldAt
  <2>4. Write([j EXCEPT !.old[m] = "PrepareIntent"]) /\ j.phase = "Preparing" /\ j.bridge # "ArtifactsPending"
    BY <1>1 DEF PrepareIntent, OldIs
  <2> HIDE DEF m
  <2>5. watch[<<"old", m>>] # "none" /\ old[m] = "Running" => FALSE
    BY <1>0, <2>1, <2>3 DEF Recorded, OldRec
  <2> QED
    BY <2>1, <2>3, <2>4, <2>5, OldWritten DEF OldProgress
<1>2. ASSUME OldCommitIntent PROVE Inv'
  <2> DEFINE m == First(OldAt({"Drained"}))
  <2>1. lock # Free
    BY <1>0, <1>2 DEF OldCommitIntent, CommitsOld, Forward
  <2>2. m \in OldAt({"Drained"})
    BY <1>2, FirstIn DEF OldCommitIntent, OldAt
  <2>3. m \in Members /\ j.old[m] = "Drained"
    BY <2>2 DEF OldAt
  <2>4. Write([j EXCEPT !.old[m] = "CommitIntent"]) /\ j.phase = "Committing"
    BY <1>2 DEF OldCommitIntent, OldIs, CommitsOld
  <2> HIDE DEF m
  <2>5. old[m] # "Running"
    BY <1>0, <2>1, <2>3 DEF Recorded, OldRec
  <2> QED
    BY <2>1, <2>3, <2>4, <2>5, OldWritten DEF OldProgress
<1>3. ASSUME RecoverOldCommitted PROVE Inv'
  <2> DEFINE m == First(Members \ OldAt({"Committed"}))
  <2>1. lock # Free
    BY <1>0, <1>3 DEF RecoverOldCommitted, Recovers, Drives
  <2>2. m \in Members \ OldAt({"Committed"})
    BY <1>3, FirstIn DEF RecoverOldCommitted
  <2>3. m \in Members /\ j.old[m] = "CommitIntent" /\ m \in oldR
    BY <1>3, <2>2 DEF RecoverOldCommitted
  <2>4. Write([j EXCEPT !.old[m] = "Committed"]) /\ j.phase = "Committing"
    BY <1>3 DEF RecoverOldCommitted, OldIs, Recovers
  <2> HIDE DEF m
  <2>5. old[m] # "Running"
    BY <1>0, <2>1, <2>3 DEF Recorded, OldRec
  <2> QED
    BY <2>1, <2>3, <2>4, <2>5, OldWritten DEF OldProgress
<1>4. ASSUME NEW m \in Members, RecordDrained(m) PROVE Inv'
  <2>1. lock # Free /\ j.phase = "Preparing" /\ j.old[m] = "PrepareIntent" /\ old[m] = "Draining"
    BY <1>0, <1>4 DEF RecordDrained, Forward
  <2>2. j.bridge # "ArtifactsPending"
    BY <2>1, HeldFacts DEF JournalOK, Ordered
  <2>3. Write([j EXCEPT !.old[m] = "Drained"])
    BY <1>4 DEF RecordDrained, OldIs
  <2> QED
    BY <2>1, <2>2, <2>3, OldWritten DEF OldProgress
<1>5. ASSUME NEW m \in Members, RecordOldCommitted(m) PROVE Inv'
  <2>1. lock # Free /\ j.phase = "Committing" /\ j.old[m] = "CommitIntent" /\ m \in oldR
    BY <1>0, <1>5 DEF RecordOldCommitted, Forward
  <2>2. old[m] # "Running"
    BY <1>0, <2>1 DEF Recorded, OldRec
  <2>3. Write([j EXCEPT !.old[m] = "Committed"])
    BY <1>5 DEF RecordOldCommitted, OldIs
  <2> QED
    BY <2>1, <2>2, <2>3, OldWritten DEF OldProgress
<1>6. ASSUME NEW m \in Members, WatchOldIntent(m) PROVE Inv'
  <2>1. lock # Free /\ j.phase = "Committing" /\ j.old[m] = "Drained" /\ old[m] = "Draining"
    BY <1>6 DEF WatchOldIntent, WatchCommits, Drives
  <2>3. Write([j EXCEPT !.old[m] = "CommitIntent"])
    BY <1>6 DEF WatchOldIntent, OldIs
  <2> QED
    BY <2>1, <2>3, OldWritten DEF OldProgress
<1> QED
  BY <1>1, <1>2, <1>3, <1>4, <1>5, <1>6

(* A rollback records a previous broker's progress. *)
LEMMA RollbackOldWrites ==
  ASSUME Inv, NEW d
  PROVE  (ResolvePrepare(d) \/ ResumeIntent(d) \/ RecordResumed(d)) => Inv'
<1> DEFINE j == journal
           m == Action(d).m
<1>1. ASSUME ResolvePrepare(d) PROVE Inv'
  <2>0. Drives(d) /\ j.phase = "RollingBack" /\ Action(d).do = "ResolvePrepare"
    BY <1>1 DEF ResolvePrepare, RollsBack
  <2>1. lock = d /\ d # Free /\ m \in Members /\ j.old[m] = "PrepareIntent"
    BY <2>0, RollbackFacts
  <2>2. \/ d = <<"old", m>> /\ Write([j EXCEPT !.old[m] = "Drained"])
        \/ Write([j EXCEPT !.old[m] = "Pending"])
    BY <1>1 DEF ResolvePrepare, OldIs
  <2> HIDE DEF m
  <2>3. d = <<"old", m>> => watch[<<"old", m>>] # "none"
    BY <2>0, <2>1, BrokerNames DEF Drives
  <2>4. watch[<<"old", m>>] # "none" => old[m] # "Running"
    BY <2>1, HeldFacts DEF Recorded, OldRec
  <2>5. CASE d = <<"old", m>> /\ Write([j EXCEPT !.old[m] = "Drained"])
    BY <2>0, <2>1, <2>3, <2>4, <2>5, OldWritten DEF OldProgress
  <2>6. CASE Write([j EXCEPT !.old[m] = "Pending"])
    BY <2>0, <2>1, <2>4, <2>6, OldWritten DEF OldProgress
  <2> QED
    BY <2>2, <2>5, <2>6
<1>2. ASSUME NEW v \in {"ResumeIntent", "Resumed"}, RollsBack(d, "ResumeOld"), Write(OldIs(m, v))
      PROVE  Inv'
  <2>0. Drives(d) /\ j.phase = "RollingBack" /\ Action(d).do = "ResumeOld"
    BY <1>2 DEF RollsBack
  <2>1. /\ lock = d /\ d # Free /\ m \in Members /\ j.old[m] \notin {"Pending", "Resumed"}
        /\ TargetsRetired(j) /\ (Zellij => j.bridge = "Restored")
    BY <2>0, RollbackFacts
  <2>2. Write([j EXCEPT !.old[m] = v])
    BY <1>2 DEF OldIs
  <2> HIDE DEF m
  <2> QED
    BY <2>0, <2>1, <2>2, OldWritten DEF OldProgress
<1>3. ASSUME ResumeIntent(d) PROVE Inv'
  BY <1>2, <1>3 DEF ResumeIntent
<1>4. ASSUME RecordResumed(d) PROVE Inv'
  BY <1>2, <1>4 DEF RecordResumed
<1> QED
  BY <1>1, <1>3, <1>4

(* A replacement's progress is recorded on the way forward. *)
LEMMA ForwardTargetWrites ==
  ASSUME Inv
  PROVE  /\ SpawnIntent => Inv'
         /\ TargetCommitIntent => Inv'
         /\ RecoverTargetIntent => Inv'
         /\ \A m \in Members : RecordGated(m) \/ RecordTargetCommitted(m) => Inv'
<1> DEFINE j == journal
<1>0. /\ lock # Free => /\ j # NoJournal /\ j \in Journal /\ Recorded(j) /\ JournalOK(j)
                        /\ j.target \in [Members -> TargetProgress] /\ j.phase \in Phases
      /\ Free # Coordinator
  BY HeldFacts, BrokerNames
<1>1. ASSUME SpawnIntent PROVE Inv'
  <2> DEFINE m == First(TargetAt({"Absent"}))
  <2>1. lock # Free
    BY <1>0, <1>1 DEF SpawnIntent, Forward
  <2>2. m \in TargetAt({"Absent"})
    BY <1>1, FirstIn DEF SpawnIntent, TargetAt
  <2>3. m \in Members /\ j.target[m] = "Absent"
    BY <2>2 DEF TargetAt
  <2>4. Write([j EXCEPT !.target[m] = "SpawnIntent"]) /\ j.phase = "Activating"
    BY <1>1 DEF SpawnIntent, TargetIs
  <2> HIDE DEF m
  <2>5. tgt[m] = "none"
    BY <1>0, <2>1, <2>3 DEF Recorded, TargetRec
  <2> QED
    BY <2>1, <2>3, <2>4, <2>5, TargetWritten DEF TargetProgress
<1>2. ASSUME TargetCommitIntent PROVE Inv'
  <2> DEFINE m == First(TargetAt({"Ready"}) \ failed)
  <2>1. lock # Free
    BY <1>0, <1>2 DEF TargetCommitIntent, CommitsTarget, Forward
  <2>2. m \in TargetAt({"Ready"})
    BY <1>2, FirstIn DEF TargetCommitIntent, TargetAt
  <2>3. m \in Members /\ j.target[m] = "Ready"
    BY <2>2 DEF TargetAt
  <2>4. /\ Write([j EXCEPT !.target[m] = "CommitIntent"]) /\ j.phase = "Committing"
        /\ \A n \in Members : j.old[n] = "Committed"
    BY <1>2 DEF TargetCommitIntent, TargetIs, CommitsTarget, OldAt
  <2> HIDE DEF m
  <2> QED
    BY <2>1, <2>3, <2>4, TargetWritten DEF TargetProgress
<1>3. ASSUME RecoverTargetIntent PROVE Inv'
  <2> DEFINE m == First(Members \ TargetAt({"Committed"}))
  <2>1. lock # Free
    BY <1>0, <1>3 DEF RecoverTargetIntent, Recovers, Drives
  <2>2. m \in Members \ TargetAt({"Committed"})
    BY <1>3, FirstIn DEF RecoverTargetIntent
  <2>3. m \in Members /\ j.target[m] = "Ready"
    BY <1>3, <2>2 DEF RecoverTargetIntent
  <2>4. /\ Write([j EXCEPT !.target[m] = "CommitIntent"]) /\ j.phase = "Committing"
        /\ \A n \in Members : j.old[n] = "Committed"
    BY <1>3 DEF RecoverTargetIntent, TargetIs, Recovers, OldAt
  <2> HIDE DEF m
  <2> QED
    BY <2>1, <2>3, <2>4, TargetWritten DEF TargetProgress
<1>4. ASSUME NEW m \in Members, RecordGated(m) PROVE Inv'
  <2>1. lock # Free /\ j.target[m] = "SpawnIntent" /\ coord = "forward"
    BY <1>0, <1>4 DEF RecordGated, Forward
  <2>2. j.phase \notin {"RollingBack", "RolledBack"}
    BY <1>0, <2>1 DEF Recorded, PhaseRec
  <2>3. j.phase = "Activating"
    BY <1>0, <2>1, <2>2 DEF JournalOK, validate, MembersValid, Phases
  <2>4. Write([j EXCEPT !.target[m] = "Gated"])
    BY <1>4 DEF RecordGated, TargetIs
  <2> QED
    BY <2>1, <2>3, <2>4, TargetWritten DEF TargetProgress
<1>5. ASSUME NEW m \in Members, RecordTargetCommitted(m) PROVE Inv'
  <2>1. /\ lock = Coordinator /\ j.phase = "Committing" /\ j.target[m] = "CommitIntent"
        /\ m \notin failed /\ m = First(TargetAt({"Ready", "CommitIntent"}) \ failed) /\ acted
    BY <1>5 DEF RecordTargetCommitted, CommitsNext, Forward, Drives
  <2>2. tgt[m] \in {"Committed", "Dead"}
    BY <2>1 DEF Inv, ActedInv
  <2>3. Write([j EXCEPT !.target[m] = "Committed"])
    BY <1>5 DEF RecordTargetCommitted, TargetIs
  <2>4. lock # Free
    BY <2>1, <1>0
  <2> QED
    BY <2>1, <2>2, <2>3, <2>4, TargetWritten DEF TargetProgress
<1> QED
  BY <1>1, <1>2, <1>3, <1>4, <1>5

(* A replacement is recorded as stopped only with its receipt. *)
LEMMA RecordRetiredStep ==
  ASSUME Inv, NEW d, RecordRetired(d)
  PROVE  Inv'
<1> DEFINE j == journal
           m == Action(d).m
<1>0. Drives(d) /\ j.phase = "RollingBack" /\ Action(d).do = "RetireTarget"
  BY DEF RecordRetired, RollsBack
<1>1. lock = d /\ d # Free /\ m \in Members /\ j.target[m] = "RetireIntent" /\ m \in tgtR
  BY <1>0, RollbackFacts DEF RecordRetired
<1>2. Write([j EXCEPT !.target[m] = "Retired"])
  BY DEF RecordRetired, TargetIs
<1> HIDE DEF m
<1>3. tgt[m] \in {"Retired", "Dead"} /\ m \notin owned
  BY <1>1 DEF Inv, BrokerOK
<1> QED
  BY <1>0, <1>1, <1>2, <1>3, TargetWritten DEF TargetProgress

(* The phases entered by a write alone. *)
LEMMA PhaseWrites ==
  ASSUME Inv
  PROVE  (EnterActivating \/ EnterCommitting \/ EnterRollback \/ \E d : FinishRollback(d)) => Inv'
<1> DEFINE j == journal
<1>0. /\ lock # Free => /\ j # NoJournal /\ j \in Journal /\ Recorded(j) /\ JournalOK(j)
                        /\ j.target \in [Members -> TargetProgress] /\ j.phase \in Phases
      /\ Free # Coordinator
  BY HeldFacts, BrokerNames
<1>1. ASSUME EnterActivating PROVE Inv'
  <2>1. /\ lock # Free /\ j.phase = "Preparing" /\ coord = "forward"
        /\ \A m \in Members : j.old[m] = "Drained"
    BY <1>0, <1>1 DEF EnterActivating, Forward, OldAt
  <2>2. Write([j EXCEPT !["phase"] = "Activating"])
    BY <1>1 DEF EnterActivating, With
  <2> QED
    BY <2>1, <2>2, PhaseWritten DEF Phases
<1>2. ASSUME EnterCommitting PROVE Inv'
  <2>1. lock # Free /\ j.phase = "Ready"
    BY <1>0, <1>2 DEF EnterCommitting, Forward, Drives
  <2>2. Write([j EXCEPT !["phase"] = "Committing"])
    BY <1>2 DEF EnterCommitting, With
  <2>3. coord # "rollback"
    BY <1>0, <2>1 DEF Recorded, PhaseRec
  <2> QED
    BY <2>1, <2>2, <2>3, PhaseWritten DEF Phases
<1>3. ASSUME EnterRollback PROVE Inv'
  <2>1. lock # Free /\ j.phase \in {"Preparing", "Activating"}
    BY <1>3 DEF EnterRollback, Drives
  <2>2. coord # "forward"
    BY <1>3 DEF EnterRollback, Drives, Inv, LockInv
  <2>3. Write([j EXCEPT !["phase"] = "RollingBack"])
    BY <1>3 DEF EnterRollback, With
  <2> QED
    BY <2>1, <2>2, <2>3, PhaseWritten DEF Phases
<1>4. ASSUME NEW d, FinishRollback(d) PROVE Inv'
  <2>0. Drives(d) /\ j.phase = "RollingBack" /\ Action(d).do = "Finish"
    BY <1>4 DEF FinishRollback, RollsBack
  <2>1. /\ lock = d /\ d # Free /\ Unsettled(j) = {} /\ NotResumed(j) = {}
        /\ (Zellij => j.bridge = "Restored") /\ coord # "forward"
    BY <2>0, RollbackFacts
  <2>2. Write([j EXCEPT !["phase"] = "RolledBack"])
    BY <1>4 DEF FinishRollback, With
  <2> QED
    BY <2>0, <2>1, <2>2, PhaseWritten DEF Phases
<1> QED
  BY <1>1, <1>2, <1>3, <1>4

(* What each bridge state claims was achieved before it is written. *)
LEMMA BridgeClaims ==
  ASSUME Inv, lock # Free, NEW b \in BridgeProgress, Zellij, NEW j, j = journal,
         NEW k \in Journal, k.bridge = b, k.completed = j.completed, k.active = j.active,
         \/ j.phase = "Preparing" /\ j.bridge = "ArtifactsPending" /\ b = "ArtifactsReady"
         \/ /\ j.phase = "Activating"
            /\ \/ j.bridge = "ArtifactsReady" /\ b = "TargetInstallIntent"
               \/ j.bridge = "TargetInstallIntent" /\ b = "TargetInstalled" /\ installed = "target"
               \/ j.bridge = "TargetInstalled" /\ b = "TargetReloading"
               \/ j.bridge = "TargetReloading" /\ b = "TargetReloaded" /\ j.completed = Members
         \/ /\ j.phase = "Committing"
            /\ b \in {"PreviousPublishIntent", "PreviousPublished", "ReceiptIntent", "ReceiptPublished"}
         \/ /\ j.phase = "RollingBack" /\ TargetsRetired(j) /\ j.bridge # "Restored"
            /\ \/ j.bridge = "ArtifactsPending" /\ Untouched(j) /\ b = "Restored"
               \/ j.bridge = "OldInstallIntent" /\ b = "OldInstalled" /\ installed = "old"
               \/ j.bridge = "OldInstalled" /\ b = "TargetPreviousIntent"
               \/ j.bridge = "TargetPreviousIntent" /\ b = "TargetPreviousPublished"
               \/ j.bridge = "TargetPreviousPublished" /\ b = "OldReceiptIntent"
               \/ j.bridge = "OldReceiptIntent" /\ b = "OldReceiptPublished"
               \/ j.bridge = "OldReceiptPublished" /\ b = "OldReloading"
               \/ j.bridge = "OldReloading" /\ b = "Restored" /\ j.completed = Members
  PROVE  BridgeRec(k)
<1>1. j \in Journal /\ JournalOK(j) /\ BridgeRec(j)
  BY HeldFacts DEF Recorded
<1>2. j.bridge \in {"TargetInstalled", "OldReceiptPublished"} => j.completed = {}
  BY <1>1 DEF JournalOK, Ordered
<1>3. j.phase = "Committing" => j.bridge \in {"TargetReloaded", "PreviousPublishIntent",
                                       "PreviousPublished", "ReceiptIntent", "ReceiptPublished"}
  BY <1>1 DEF JournalOK, validate, BridgeValid
<1>4. CASE j.phase = "Committing"
  BY <1>1, <1>3, <1>4 DEF BridgeRec
<1>5. CASE j.phase # "Committing"
  BY <1>1, <1>2, <1>5 DEF BridgeRec
<1> QED
  BY <1>4, <1>5

(* A write of the bridge's progress. *)
LEMMA BridgeWritten ==
  ASSUME Inv, lock # Free, NEW b \in BridgeProgress, Zellij, NEW j, j = journal,
         Write([j EXCEPT !["bridge"] = b]),
         \/ j.phase = "Preparing" /\ j.bridge = "ArtifactsPending" /\ b = "ArtifactsReady"
         \/ /\ j.phase = "Activating"
            /\ \/ j.bridge = "ArtifactsReady" /\ b = "TargetInstallIntent"
               \/ j.bridge = "TargetInstallIntent" /\ b = "TargetInstalled" /\ installed = "target"
               \/ j.bridge = "TargetInstalled" /\ b = "TargetReloading"
               \/ j.bridge = "TargetReloading" /\ b = "TargetReloaded" /\ j.completed = Members
         \/ /\ j.phase = "RollingBack" /\ TargetsRetired(j) /\ j.bridge # "Restored"
            /\ \/ j.bridge = "ArtifactsPending" /\ Untouched(j) /\ b = "Restored"
               \/ j.bridge = "OldInstallIntent" /\ b = "OldInstalled" /\ installed = "old"
               \/ j.bridge = "OldInstalled" /\ b = "TargetPreviousIntent"
               \/ j.bridge = "TargetPreviousIntent" /\ b = "TargetPreviousPublished"
               \/ j.bridge = "TargetPreviousPublished" /\ b = "OldReceiptIntent"
               \/ j.bridge = "OldReceiptIntent" /\ b = "OldReceiptPublished"
               \/ j.bridge = "OldReceiptPublished" /\ b = "OldReloading"
               \/ j.bridge = "OldReloading" /\ b = "Restored" /\ j.completed = Members
  PROVE  Inv'
<1> DEFINE k == [j EXCEPT !["bridge"] = b]
<1>0. j \in Journal /\ JournalOK(j)
  BY HeldFacts
<1>1. /\ k \in Journal /\ k.phase = j.phase /\ k.target = j.target
      /\ k.old = j.old /\ k.bridge = b /\ k.active = j.active
      /\ k.completed = j.completed
  BY <1>0, BridgeWrite
<1>2. JournalOK(k)
  BY <1>0, BridgeWriteOK
<1>3. Write(k)
  OBVIOUS
<1> HIDE DEF k
<1>4. BridgeRec(k)
  BY <1>1, BridgeClaims
<1> QED
  BY <1>1, <1>2, <1>3, <1>4, BridgeRecorded

(* One write of a reload. *)
LEMMA ReloadingStep ==
  ASSUME Inv, lock # Free, Zellij, Reloading, journal.bridge \in {"TargetReloading", "OldReloading"},
         journal.bridge = "TargetReloading" /\ journal.active # NoMember /\ acted
            => loaded[journal.active] = "target",
         journal.bridge = "OldReloading" /\ journal.active # NoMember /\ acted
            => loaded[journal.active] = "old"
  PROVE  Inv'
<1> DEFINE j == journal
<1>0. j \in Journal /\ JournalOK(j) /\ BridgeRec(j)
  BY HeldFacts DEF Recorded
<1>1. CASE j.active # NoMember
  <2> DEFINE k == [j EXCEPT !.completed = @ \cup {j.active}, !.active = NoMember]
  <2>1. /\ k \in Journal /\ JournalOK(k) /\ k.phase = j.phase /\ k.target = j.target
        /\ k.old = j.old /\ k.authority = j.authority /\ k.bridge = j.bridge
        /\ k.active = NoMember /\ k.completed = j.completed \cup {j.active}
    BY <1>0, <1>1, ReloadingOK
  <2>2. Write(k) /\ acted
    BY <1>1 DEF Reloading
  <2> HIDE DEF k
  <2>3. BridgeRec(k)
    BY <1>0, <1>1, <2>1, <2>2 DEF BridgeRec
  <2> QED
    BY <2>1, <2>2, <2>3, BridgeRecorded
<1>2. CASE j.active = NoMember
  <2> DEFINE k == [j EXCEPT !.active = First(Members \ j.completed)]
  <2>0. j.completed # Members /\ Write(k)
    BY <1>2 DEF Reloading
  <2>1. /\ k \in Journal /\ JournalOK(k) /\ k.phase = j.phase /\ k.target = j.target
        /\ k.old = j.old /\ k.authority = j.authority /\ k.bridge = j.bridge
        /\ k.completed = j.completed
    BY <1>0, <2>0, ReloadingOK
  <2> HIDE DEF k
  <2>3. BridgeRec(k)
    BY <1>0, <2>1 DEF BridgeRec
  <2> QED
    BY <2>0, <2>1, <2>3, BridgeRecorded
<1> QED
  BY <1>1, <1>2

(* The coordinator's bridge writes. *)
LEMMA ForwardBridgeWrites ==
  ASSUME Inv
  PROVE  ArtifactsReady \/ BridgeForward => Inv'
<1> DEFINE j == journal
<1>0. Free # Coordinator
  BY BrokerNames
<1>1. ASSUME ArtifactsReady PROVE Inv'
  <2>1. lock # Free /\ j.phase = "Preparing" /\ j.bridge = "ArtifactsPending"
    BY <1>0, <1>1 DEF ArtifactsReady, Forward
  <2>2. Zellij
    BY <2>1, HeldFacts, UnitAssumption DEF JournalOK, Ordered
  <2>3. Write([j EXCEPT !["bridge"] = "ArtifactsReady"])
    BY <1>1 DEF ArtifactsReady, With
  <2> QED
    BY <2>1, <2>2, <2>3, BridgeWritten DEF BridgeProgress
<1>2. ASSUME BridgeForward PROVE Inv'
  <2>1. lock # Free /\ j.phase = "Activating" /\ Zellij
    BY <1>0, <1>2 DEF BridgeForward, Forward
  <2>2. CASE j.bridge = "ArtifactsReady"
    <3>1. Write([j EXCEPT !["bridge"] = "TargetInstallIntent"])
      BY <1>2, <2>2 DEF BridgeForward, With
    <3> QED
      BY <2>1, <2>2, <3>1, BridgeWritten DEF BridgeProgress
  <2>3. CASE j.bridge = "TargetInstallIntent"
    <3>1. Write([j EXCEPT !["bridge"] = "TargetInstalled"]) /\ acted
      BY <1>2, <2>3 DEF BridgeForward, With
    <3>2. installed = "target"
      BY <2>1, <2>3, <3>1 DEF Inv, ActedInv
    <3> QED
      BY <2>1, <2>3, <3>1, <3>2, BridgeWritten DEF BridgeProgress
  <2>4. CASE j.bridge = "TargetInstalled"
    <3>1. Write([j EXCEPT !["bridge"] = "TargetReloading"])
      BY <1>2, <2>4 DEF BridgeForward, With
    <3> QED
      BY <2>1, <2>4, <3>1, BridgeWritten DEF BridgeProgress
  <2>5. CASE j.bridge = "TargetReloading" /\ Reloading
    <3>1. acted /\ j.active # NoMember => loaded[j.active] = "target"
      BY <2>1, <2>5 DEF Inv, ActedInv
    <3> QED
      BY <2>1, <2>5, <3>1, ReloadingStep
  <2>6. CASE j.bridge = "TargetReloading" /\ ~ Reloading
    <3>1. Write([j EXCEPT !["bridge"] = "TargetReloaded"]) /\ j.completed = Members
      BY <1>2, <2>6 DEF BridgeForward, With
    <3> QED
      BY <2>1, <2>6, <3>1, BridgeWritten DEF BridgeProgress
  <2> QED
    BY <1>2, <2>2, <2>3, <2>4, <2>5, <2>6 DEF BridgeForward
<1> QED
  BY <1>1, <1>2

(* A rollback's bridge writes. *)
LEMMA RestoreBridgeStep ==
  ASSUME Inv, NEW d, RestoreBridge(d)
  PROVE  Inv'
<1> DEFINE j == journal
           do == Action(d).do
           Fits == {"MarkBridgeRestored", "InstallOldBridge", "PublishTargetPrevious",
                       "RestoreOldReceipt", "BeginOldReload", "ReloadOldBridge",
                       "CompleteBridgeRestore"}
<1>0. Drives(d) /\ j.phase = "RollingBack" /\ do \in Fits
  BY DEF RestoreBridge
<1>1. /\ lock # Free /\ TargetsRetired(j) /\ Zellij /\ j.bridge # "Restored" /\ do = NextBridge(j)
  BY <1>0, RollbackFacts
<1>2. j \in Journal /\ JournalOK(j)
  BY <1>1, HeldFacts
<1> HIDE DEF do
<1>3. CASE do = "MarkBridgeRestored"
  <2>1. Write([j EXCEPT !["bridge"] = "Restored"])
    BY <1>3 DEF RestoreBridge, With, do
  <2>2. j.bridge = "ArtifactsPending" /\ Untouched(j)
    BY <1>1, <1>3 DEF NextBridge
  <2> QED
    BY <1>0, <1>1, <2>1, <2>2, BridgeWritten DEF BridgeProgress
<1>4. CASE do = "InstallOldBridge" /\ j.bridge # "OldInstallIntent"
  <2> DEFINE k == [j EXCEPT !.bridge = "OldInstallIntent", !.active = NoMember, !.completed = {}]
  <2>1. Write(k)
    BY <1>4 DEF RestoreBridge, do
  <2>2. k \in Journal /\ JournalOK(k)
    BY <1>0, <1>1, <1>2, ReloadWriteOK DEF BridgeProgress
  <2>3. /\ k.phase = j.phase /\ k.target = j.target /\ k.old = j.old /\ k.bridge = "OldInstallIntent"
        /\ k.completed = {}
    BY <1>2 DEF Journal
  <2> HIDE DEF k
  <2>4. BridgeRec(k)
    BY <2>3 DEF BridgeRec
  <2> QED
    BY <1>1, <2>1, <2>2, <2>3, <2>4, BridgeRecorded
<1>5. CASE do = "InstallOldBridge" /\ j.bridge = "OldInstallIntent"
  <2>1. Write([j EXCEPT !["bridge"] = "OldInstalled"]) /\ acted
    BY <1>5 DEF RestoreBridge, With, do
  <2>2. installed = "old"
    BY <1>0, <1>5, <2>1 DEF Inv, ActedInv
  <2> QED
    BY <1>0, <1>1, <1>5, <2>1, <2>2, BridgeWritten DEF BridgeProgress
<1>6. CASE do = "PublishTargetPrevious"
  <2>1. Write([j EXCEPT !["bridge"] = IF j.bridge = "OldInstalled" THEN "TargetPreviousIntent"
                                  ELSE "TargetPreviousPublished"])
    BY <1>6 DEF RestoreBridge, With, do
  <2>2. j.bridge \in {"OldInstalled", "TargetPreviousIntent"}
    BY <1>1, <1>6 DEF NextBridge
  <2>3. CASE j.bridge = "OldInstalled"
    BY <1>0, <1>1, <2>1, <2>3, BridgeWritten DEF BridgeProgress
  <2>4. CASE j.bridge = "TargetPreviousIntent"
    BY <1>0, <1>1, <2>1, <2>4, BridgeWritten DEF BridgeProgress
  <2> QED
    BY <2>2, <2>3, <2>4
<1>7. CASE do = "RestoreOldReceipt"
  <2>1. Write([j EXCEPT !["bridge"] = IF j.bridge = "TargetPreviousPublished"
                                  THEN "OldReceiptIntent" ELSE "OldReceiptPublished"])
    BY <1>7 DEF RestoreBridge, With, do
  <2>2. j.bridge \in {"TargetPreviousPublished", "OldReceiptIntent"}
    BY <1>1, <1>7 DEF NextBridge
  <2>3. CASE j.bridge = "TargetPreviousPublished"
    BY <1>0, <1>1, <2>1, <2>3, BridgeWritten DEF BridgeProgress
  <2>4. CASE j.bridge = "OldReceiptIntent"
    BY <1>0, <1>1, <2>1, <2>4, BridgeWritten DEF BridgeProgress
  <2> QED
    BY <2>2, <2>3, <2>4
<1>8. CASE do = "BeginOldReload"
  <2>1. Write([j EXCEPT !["bridge"] = "OldReloading"])
    BY <1>8 DEF RestoreBridge, With, do
  <2>2. j.bridge = "OldReceiptPublished"
    BY <1>1, <1>8 DEF NextBridge
  <2> QED
    BY <1>0, <1>1, <2>1, <2>2, BridgeWritten DEF BridgeProgress
<1>9. CASE do = "ReloadOldBridge"
  <2>1. Reloading
    BY <1>9 DEF RestoreBridge, do
  <2>2. j.bridge = "OldReloading"
    BY <1>1, <1>9 DEF NextBridge
  <2>3. acted /\ j.active # NoMember => loaded[j.active] = "old"
    BY <1>0, <2>2 DEF Inv, ActedInv
  <2> QED
    BY <1>0, <1>1, <2>1, <2>2, <2>3, ReloadingStep
<1>10. CASE do = "CompleteBridgeRestore"
  <2>1. Write([j EXCEPT !["bridge"] = "Restored"])
    BY <1>10 DEF RestoreBridge, With, do
  <2>2. j.bridge = "OldReloading" /\ j.completed = Members
    BY <1>1, <1>10 DEF NextBridge
  <2> QED
    BY <1>0, <1>1, <2>1, <2>2, BridgeWritten DEF BridgeProgress
<1> QED
  BY <1>0, <1>3, <1>4, <1>5, <1>6, <1>7, <1>8, <1>9, <1>10


(***************************************************************************)
(* Steps that are more than a write.                                       *)
(***************************************************************************)
(* The parts of the invariant while a journal exists. *)
LEMMA Stepped ==
  ASSUME TypeOK', LockInv', \A m \in Members : BrokerOK(m)', ActedInv',
         NEW k, journal' = k, k # NoJournal, outcome' = "none", JournalOK(k),
         PhaseRec(k)', BridgeRec(k)', \A m \in Members : OldRec(k, m)' /\ TargetRec(k, m)'
  PROVE  Inv'
BY DEF Inv, JournalInv, Recorded

(* The parts of the invariant while none does. *)
LEMMA Rested ==
  ASSUME TypeOK', LockInv', \A m \in Members : BrokerOK(m)', ActedInv', journal' = NoJournal, AtRest'
  PROVE  Inv'
BY DEF Inv, JournalInv

(* An effect stays done while its journal and driver stay. *)
LEMMA ActedKept ==
  ASSUME Inv, UNCHANGED <<journal, installed, loaded>>,
         acted' => acted /\ lock' = lock,
         acted' /\ lock = Coordinator => failed' = failed,
         \A m \in Members : tgt[m] \in {"Retired", "Dead"} => tgt'[m] \in {"Retired", "Dead"},
         \A m \in Members : tgt[m] \in {"Committed", "Dead"} => tgt'[m] \in {"Committed", "Dead"}
  PROVE  ActedInv'
<1> SUFFICES ASSUME acted' PROVE ActedInv'
  BY DEF ActedInv
<1>1. ActedInv /\ acted
  BY DEF Inv
<1>2. failed' = failed => (TargetAt({"Ready", "CommitIntent"}) \ failed)' = TargetAt({"Ready", "CommitIntent"}) \ failed
  BY DEF TargetAt
<1>3. Unsettled(journal)' = Unsettled(journal)
  OBVIOUS
<1>4. First(Unsettled(journal))' = First(Unsettled(journal))
  OBVIOUS
<1>5. failed' = failed => First(TargetAt({"Ready", "CommitIntent"}) \ failed)'
            = First(TargetAt({"Ready", "CommitIntent"}) \ failed)
  BY <1>2 DEF TargetAt
<1> QED
  BY <1>1, <1>3, <1>4, <1>5 DEF ActedInv

(* A step that touches neither brokers nor bridge nor the record. *)
LEMMA RunStep ==
  ASSUME Inv, TypeOK', LockInv', ActedInv',
         UNCHANGED <<journal, oldR, tgtR, old, tgt, installed, loaded, outcome>>,
         owned' \subseteq owned,
         coord' \in {"forward", "rollback"} => coord' = coord /\ owned' = owned,
         \A m \in Members : watch'[<<"old", m>>] # "none" =>
             \/ watch[<<"old", m>>] # "none"
             \/ m \notin inbox /\ old[m] \in {"Draining", "Stopping", "SupervisorOnly"},
         \A m \in Members : m \in inbox' => m \in inbox \/ watch'[<<"old", m>>] = "none",
         \A m \in Members : watch'[<<"target", m>>] = "ack" => watch[<<"target", m>>] = "ack",
         journal = NoJournal => inbox' \subseteq inbox /\ (outcome = "none" => watch' = watch)
  PROVE  Inv'
<1>1. \A m \in Members : BrokerOK(m)'
  BY DEF Inv, BrokerOK
<1>2. CASE journal = NoJournal
  <2>1. AtRest'
    BY <1>2 DEF Inv, JournalInv, AtRest
  <2> QED
    BY <1>1, <1>2, <2>1, Rested
<1>3. CASE journal # NoJournal
  <2> DEFINE j == journal
  <2>0. JournalOK(j) /\ Recorded(j) /\ outcome = "none"
    BY <1>3 DEF Inv, JournalInv
  <2>1. PICK k : k = journal
    OBVIOUS
  <2>2. PhaseRec(k)'
    BY <2>0, <2>1 DEF Recorded, PhaseRec
  <2>3. BridgeRec(k)'
    BY <2>0, <2>1 DEF Recorded, BridgeRec
  <2>4. \A m \in Members : OldRec(k, m)'
    BY <2>0, <2>1 DEF Recorded, OldRec
  <2>5. \A m \in Members : TargetRec(k, m)'
    BY <2>0, <2>1 DEF Recorded, TargetRec
  <2> QED
    BY <1>1, <1>3, <2>0, <2>1, <2>2, <2>3, <2>4, <2>5, Stepped
<1> QED
  BY <1>2, <1>3

WatchStates == {"none", "check1", "lock1", "drive1", "check2", "lock2", "drive2", "ack",
                "drive3", "finish"}

(* A short connection that closes wakes at most a gated replacement. *)
LEMMA TouchedWatch ==
  ASSUME Inv, NEW m \in Members, NEW w, w = Touched(m)
  PROVE  /\ w \in [Brokers -> WatchStates]
         /\ \A n \in Members : w[<<"old", n>>] = watch[<<"old", n>>]
         /\ \A b \in Brokers : (w[b] \in Driving) <=> (watch[b] \in Driving)
         /\ \A n \in Members : (w[<<"target", n>>] = "ack") <=> (watch[<<"target", n>>] = "ack")
         /\ tgt[m] # "Gated" => w = watch
<1>1. watch \in [Brokers -> WatchStates]
  BY DEF Inv, TypeOK, WatchStates
<1>2. CASE tgt[m] = "Gated" /\ watch[<<"target", m>>] = "none"
  <2>1. w = [watch EXCEPT ![<<"target", m>>] = "check1"]
    BY <1>2 DEF Touched
  <2> QED
    BY <1>1, <1>2, <2>1, BrokerNames DEF WatchStates, Driving
<1>3. CASE ~ (tgt[m] = "Gated" /\ watch[<<"target", m>>] = "none")
  BY <1>1, <1>3 DEF Touched
<1> QED
  BY <1>2, <1>3

(* A connection that closes wakes only previous brokers being replaced. *)
LEMMA DisconnectedWatch ==
  ASSUME Inv, lock = Coordinator, NEW S \in SUBSET Members, NEW w, w = Disconnected(S)
  PROVE  /\ w \in [Brokers -> WatchStates]
         /\ \A b \in Brokers : w[b] \notin Driving
         /\ \A n \in Members : w[<<"target", n>>] = watch[<<"target", n>>]
         /\ \A n \in Members : w[<<"old", n>>] # "none" =>
                \/ watch[<<"old", n>>] # "none"
                \/ n \notin inbox /\ old[n] \in {"Draining", "Stopping", "SupervisorOnly"}
<1>1. watch \in [Brokers -> WatchStates]
  BY DEF Inv, TypeOK, WatchStates
<1>2. \A b \in Brokers : watch[b] \notin Driving
  BY BrokerNames DEF Inv, LockInv
<1>3. \A b \in Brokers : w[b] = (IF /\ b[1] = "old" /\ b[2] \in S \ inbox
          /\ old[b[2]] \in {"Draining", "Stopping", "SupervisorOnly"}
       THEN "check1" ELSE watch[b])
  BY DEF Disconnected
<1>4. w \in [Brokers -> WatchStates]
  BY <1>1 DEF Disconnected, WatchStates
<1>5. \A b \in Brokers : w[b] \notin Driving
  BY <1>2, <1>3 DEF Driving
<1>6. \A n \in Members : w[<<"target", n>>] = watch[<<"target", n>>]
  BY <1>3, BrokerNames
<1>7. \A n \in Members : w[<<"old", n>>] # "none" =>
                \/ watch[<<"old", n>>] # "none"
                \/ n \notin inbox /\ old[n] \in {"Draining", "Stopping", "SupervisorOnly"}
  BY <1>3, BrokerNames
<1> QED
  BY <1>4, <1>5, <1>6, <1>7

(* The steps that change only what the coordinator knows or has sent. *)
LEMMA CoordinatorNotes ==
  ASSUME Inv, NEW m \in Members
  PROVE  /\ SendPrepare(m) => Inv'
         /\ Poll(m) => Inv'
         /\ OldCommitFailed(m) => Inv'
         /\ TargetCommitFailed(m) => Inv'
         /\ RefusePrepare(m) => Inv'
         /\ Recover => Inv'
<1> USE DEF disk, run, procs, host
<1>0. Free # Coordinator /\ Coordinator \notin Brokers /\ Free \notin Brokers
  BY BrokerNames
<1>1. ASSUME SendPrepare(m) PROVE Inv'
  <2>0. journal # NoJournal
    BY <1>0, <1>1 DEF SendPrepare, Forward, Inv, LockInv
  <2>1. TypeOK'
    BY <1>1 DEF SendPrepare, Inv, TypeOK
  <2>2. LockInv'
    BY <1>0, <1>1 DEF SendPrepare, Forward, Inv, LockInv
  <2>3. ActedInv'
    BY <1>1, ActedKept DEF SendPrepare
  <2>4. old[m] = "Running" /\ journal.old[m] = "PrepareIntent"
    BY <1>1 DEF SendPrepare, Reach
  <2>5. watch[<<"old", m>>] = "none"
    BY <2>0, <2>4 DEF Inv, JournalInv, Recorded, OldRec
  <2> QED
    BY <1>1, <2>0, <2>1, <2>2, <2>3, <2>5, RunStep DEF SendPrepare
<1>2. ASSUME Poll(m) PROVE Inv'
  <2>0. journal # NoJournal
    BY <1>0, <1>2 DEF Poll, AwaitsReady, Forward, Inv, LockInv
  <2>4. PICK w : w = Touched(m)
    OBVIOUS
  <2>5. /\ w \in [Brokers -> WatchStates]
        /\ \A n \in Members : w[<<"old", n>>] = watch[<<"old", n>>]
        /\ \A b \in Brokers : (w[b] \in Driving) <=> (watch[b] \in Driving)
        /\ \A n \in Members : (w[<<"target", n>>] = "ack") <=> (watch[<<"target", n>>] = "ack")
    BY <2>4, TouchedWatch
  <2>6. watch' = w /\ UNCHANGED <<disk, run, old, tgt, host, faults, outcome>>
    BY <1>2, <2>4 DEF Poll
  <2>1. TypeOK'
    BY <2>5, <2>6 DEF Inv, TypeOK, WatchStates
  <2>2. LockInv'
    BY <2>5, <2>6 DEF Inv, LockInv
  <2>3. ActedInv'
    BY <2>6, ActedKept
  <2> QED
    BY <2>0, <2>1, <2>2, <2>3, <2>5, <2>6, RunStep
<1>3. ASSUME OldCommitFailed(m) PROVE Inv'
  <2>0. journal # NoJournal /\ lock # Free /\ journal.old[m] = "CommitIntent" /\ journal.phase = "Committing"
    BY <1>0, <1>3 DEF OldCommitFailed, Forward, Inv, LockInv
  <2>1. TypeOK'
    BY <1>3 DEF OldCommitFailed, Inv, TypeOK
  <2>2. LockInv'
    BY <1>3 DEF OldCommitFailed, Inv, LockInv
  <2>3. ActedInv'
    <3>1. \A n \in Members : journal.target[n] # "CommitIntent"
      BY <2>0, HeldFacts DEF JournalOK, Ordered
    <3>2. UNCHANGED <<journal, installed, loaded, acted, lock, tgt>>
      BY <1>3 DEF OldCommitFailed
    <3> QED
      BY <2>0, <3>1, <3>2 DEF ActedInv
  <2> QED
    BY <1>3, <2>0, <2>1, <2>2, <2>3, RunStep DEF OldCommitFailed
<1>4. ASSUME TargetCommitFailed(m) PROVE Inv'
  <2>0. journal # NoJournal
    BY <1>0, <1>4 DEF TargetCommitFailed, Forward, Inv, LockInv
  <2>1. TypeOK'
    BY <1>4 DEF TargetCommitFailed, Inv, TypeOK
  <2>2. LockInv'
    BY <1>4 DEF TargetCommitFailed, Inv, LockInv
  <2>3. ActedInv'
    BY <1>4 DEF TargetCommitFailed, ActedInv
  <2> QED
    BY <1>4, <2>0, <2>1, <2>2, <2>3, RunStep DEF TargetCommitFailed
<1>5. ASSUME RefusePrepare(m) PROVE Inv'
  <2>1. TypeOK'
    BY <1>5 DEF RefusePrepare, Inv, TypeOK
  <2>2. LockInv'
    BY <1>5 DEF RefusePrepare, Inv, LockInv
  <2>3. ActedInv'
    BY <1>5, ActedKept DEF RefusePrepare
  <2> QED
    BY <1>5, <2>1, <2>2, <2>3, RunStep DEF RefusePrepare
<1>6. ASSUME Recover PROVE Inv'
  <2>1. TypeOK'
    BY <1>6 DEF Recover, Inv, TypeOK
  <2>2. LockInv'
    BY <1>0, <1>6 DEF Recover, Inv, LockInv
  <2>3. ActedInv'
    BY <1>6, <2>2 DEF Recover, ActedInv, Inv, LockInv
  <2> QED
    BY <1>6, <2>1, <2>2, <2>3, RunStep DEF Recover
<1> QED
  BY <1>1, <1>2, <1>3, <1>4, <1>5, <1>6

(* A coordinator that ends kills the replacements it owns, none of them open. *)
LEMMA CoordinatorLeaves ==
  ASSUME Inv, lock = Coordinator, CoordinatorExits, faults' \in 0 .. MaxFaults
  PROVE  Inv'
<1> USE DEF disk, host
<1> DEFINE j == journal
<1>0. lock # Free /\ Free # Coordinator /\ Free \notin Brokers /\ Coordinator \notin Brokers
  BY BrokerNames
<1>1. JournalOK(j) /\ Recorded(j) /\ j # NoJournal /\ outcome = "none"
  BY <1>0, HeldFacts
<1>2. /\ lock' = Free /\ coord' = "idle" /\ acted' = FALSE /\ failed' = {}
      /\ sess' = {} /\ owned' = {}
      /\ UNCHANGED <<journal, oldR, tgtR, inbox, old, installed, loaded, outcome>>
  BY DEF CoordinatorExits, CoordinatorGone
<1>3. tgt' = [m \in Members |-> IF m \in owned THEN "Dead" ELSE tgt[m]]
  BY DEF CoordinatorExits
<1>4. PICK w : w = Disconnected(sess)
  OBVIOUS
<1>5. /\ w \in [Brokers -> WatchStates]
      /\ \A b \in Brokers : w[b] \notin Driving
      /\ \A n \in Members : w[<<"target", n>>] = watch[<<"target", n>>]
      /\ \A n \in Members : w[<<"old", n>>] # "none" =>
                \/ watch[<<"old", n>>] # "none"
                \/ n \notin inbox /\ old[n] \in {"Draining", "Stopping", "SupervisorOnly"}
  BY <1>4, DisconnectedWatch DEF Inv, TypeOK
<1>6. watch' = [b \in Brokers |-> IF b[1] = "target" /\ b[2] \in owned THEN "none" ELSE w[b]]
  BY <1>4 DEF CoordinatorExits
<1>7. /\ \A n \in Members : watch'[<<"old", n>>] = w[<<"old", n>>]
      /\ \A n \in Members : watch'[<<"target", n>>] = IF n \in owned THEN "none" ELSE watch[<<"target", n>>]
      /\ \A b \in Brokers : watch'[b] \notin Driving
      /\ watch' \in [Brokers -> WatchStates]
  BY <1>5, <1>6, BrokerNames DEF Driving, WatchStates
<1>8. TypeOK'
  <2>1. tgt' \in [Members -> {"none", "Starting", "Checked", "Gated", "Committed", "Retired", "Dead"}]
    BY <1>3 DEF Inv, TypeOK
  <2> QED
    BY <1>2, <1>7, <2>1 DEF Inv, TypeOK, WatchStates
<1>9. LockInv'
  BY <1>0, <1>2, <1>7 DEF Inv, LockInv
<1>10. \A m \in Members : BrokerOK(m)'
  BY <1>2, <1>3, <1>5, <1>7 DEF Inv, BrokerOK
<1>11. ActedInv'
  BY <1>2 DEF ActedInv
<1>12. PICK k : k = journal
  OBVIOUS
<1>13. PhaseRec(k)'
  BY <1>1, <1>2, <1>7, <1>12 DEF Recorded, PhaseRec
<1>14. BridgeRec(k)'
  BY <1>1, <1>2, <1>12 DEF Recorded, BridgeRec
<1>15. \A m \in Members : OldRec(k, m)'
  BY <1>1, <1>2, <1>5, <1>7, <1>12 DEF Recorded, OldRec
<1>16. \A m \in Members : TargetRec(k, m)'
  BY <1>1, <1>2, <1>3, <1>12 DEF Recorded, TargetRec
<1> QED
  BY <1>1, <1>2, <1>8, <1>9, <1>10, <1>11, <1>12, <1>13, <1>14, <1>15, <1>16, Stepped

(* A coordinator that crashes leaves them running. *)
LEMMA CoordinatorCrashesStep ==
  ASSUME Inv, CoordinatorCrashes
  PROVE  Inv'
<1> USE DEF disk, host
<1>0. lock # Free /\ lock = Coordinator /\ Free # Coordinator /\ Free \notin Brokers /\ Coordinator \notin Brokers
  BY BrokerNames DEF CoordinatorCrashes
<1>2. /\ lock' = Free /\ coord' = "idle" /\ acted' = FALSE /\ failed' = {}
      /\ sess' = {} /\ owned' = {} /\ faults' \in 0 .. MaxFaults
      /\ UNCHANGED <<journal, oldR, tgtR, inbox, old, tgt, installed, loaded, outcome>>
  BY FaultAssumption DEF CoordinatorCrashes, CoordinatorGone, Fault, Inv, TypeOK
<1>4. PICK w : w = Disconnected(sess)
  OBVIOUS
<1>5. /\ w \in [Brokers -> WatchStates]
      /\ \A b \in Brokers : w[b] \notin Driving
      /\ \A n \in Members : w[<<"target", n>>] = watch[<<"target", n>>]
      /\ \A n \in Members : w[<<"old", n>>] # "none" =>
                \/ watch[<<"old", n>>] # "none"
                \/ n \notin inbox /\ old[n] \in {"Draining", "Stopping", "SupervisorOnly"}
  BY <1>0, <1>4, DisconnectedWatch DEF Inv, TypeOK
<1>6. watch' = w
  BY <1>4 DEF CoordinatorCrashes
<1>8. TypeOK'
  BY <1>2, <1>5, <1>6 DEF Inv, TypeOK, WatchStates
<1>9. LockInv'
  BY <1>0, <1>2, <1>5, <1>6 DEF Inv, LockInv
<1>11. ActedInv'
  BY <1>2 DEF ActedInv
<1>12. journal # NoJournal
  BY <1>0 DEF Inv, LockInv
<1> QED
  BY <1>2, <1>5, <1>6, <1>8, <1>9, <1>11, <1>12, RunStep

(* A watch gives up the journal. *)
LEMMA BrokerLeaves ==
  ASSUME Inv, NEW b \in Brokers, lock = b, lock' = Free, acted' = FALSE,
         NEW v \in WatchStates \ Driving, watch' = [watch EXCEPT ![b] = v],
         UNCHANGED <<disk, coord, failed, sess, inbox, owned, old, tgt, host, outcome>>,
         faults' \in 0 .. MaxFaults
  PROVE  Inv'
<1> USE DEF disk, host
<1>0. lock # Free /\ Free # Coordinator /\ Free \notin Brokers /\ Coordinator \notin Brokers
  BY BrokerNames
<1>1. watch \in [Brokers -> WatchStates] /\ journal # NoJournal /\ watch[b] \in Driving
  BY <1>0 DEF Inv, TypeOK, LockInv, WatchStates
<1>2. TypeOK'
  BY <1>1 DEF Inv, TypeOK, WatchStates
<1>3. LockInv'
  BY <1>0, <1>1 DEF Inv, LockInv
<1>4. ActedInv'
  BY DEF ActedInv
<1>5. \A c \in Brokers : watch'[c] = IF c = b THEN v ELSE watch[c]
  BY <1>1
<1>6. v # "ack" /\ watch[b] # "none"
  BY <1>1 DEF Driving
<1>7. \A m \in Members : watch'[<<"old", m>>] # "none" => watch[<<"old", m>>] # "none"
  BY <1>5, <1>6, BrokerNames
<1>8. \A m \in Members : watch'[<<"target", m>>] = "ack" => watch[<<"target", m>>] = "ack"
  BY <1>5, <1>6, BrokerNames
<1> QED
  BY <1>1, <1>2, <1>3, <1>4, <1>7, <1>8, RunStep

(* Any driver gives up. *)
LEMMA LeaveStep ==
  ASSUME Inv, NEW d, lock = d, d # Free, Leave(d), faults' \in 0 .. MaxFaults
  PROVE  Inv'
<1>1. d = Coordinator \/ d \in Brokers
  BY DEF Inv, TypeOK
<1>2. CASE d = Coordinator
  BY <1>2, CoordinatorLeaves DEF Leave
<1>3. CASE d \in Brokers
  <2>1. /\ lock' = Free /\ acted' = FALSE
        /\ watch' = [watch EXCEPT ![d] = "none"]
        /\ UNCHANGED <<disk, coord, failed, sess, inbox, owned, old, tgt, host, outcome>>
    BY <1>3, BrokerNames DEF Leave
  <2>2. "none" \in WatchStates \ Driving
    BY DEF WatchStates, Driving
  <2> QED
    BY <1>3, <2>1, <2>2, BrokerLeaves
<1> QED
  BY <1>1, <1>2, <1>3

(* The steps in which a driver gives up. *)
LEMMA DriversLeave ==
  ASSUME Inv
  PROVE  /\ \A m \in Members : PrepareAmbiguous(m) => Inv'
         /\ CommitGivesUp => Inv'
         /\ RecoverStuck => Inv'
         /\ DriverFails => Inv'
         /\ \A d : RollbackStuck(d) => Inv'
         /\ \A b \in Brokers : WatchEnds(b) => Inv'
<1>0. faults \in 0 .. MaxFaults
  BY DEF Inv, TypeOK
<1>1. ASSUME NEW m \in Members, PrepareAmbiguous(m) PROVE Inv'
  BY <1>0, <1>1, CoordinatorLeaves DEF PrepareAmbiguous, Forward
<1>2. ASSUME CommitGivesUp PROVE Inv'
  BY <1>0, <1>2, CoordinatorLeaves DEF CommitGivesUp, Forward
<1>3. ASSUME RecoverStuck PROVE Inv'
  BY <1>0, <1>3, CoordinatorLeaves DEF RecoverStuck, Recovers, Drives
<1>4. ASSUME DriverFails PROVE Inv'
  <2>1. faults' \in 0 .. MaxFaults
    BY <1>0, <1>4, FaultAssumption DEF DriverFails, Fault
  <2> QED
    BY <1>4, <2>1, LeaveStep DEF DriverFails
<1>5. ASSUME NEW d, RollbackStuck(d) PROVE Inv'
  BY <1>0, <1>5, LeaveStep DEF RollbackStuck, Drives
<1>6. ASSUME NEW b \in Brokers, WatchEnds(b) PROVE Inv'
  BY <1>0, <1>6, LeaveStep, BrokerNames DEF WatchEnds
<1> QED
  BY <1>1, <1>2, <1>3, <1>4, <1>5, <1>6


(* A watch takes the free lock, if there still is a journal. *)
LEMMA WatchLocksStep ==
  ASSUME Inv, NEW b \in Brokers, WatchLocks(b)
  PROVE  Inv'
<1> USE DEF disk, host
<1>0. Free # Coordinator /\ Free \notin Brokers /\ Coordinator \notin Brokers
  BY BrokerNames
<1>1. watch \in [Brokers -> WatchStates] /\ watch[b] \in {"lock1", "lock2"} /\ lock = Free
  BY DEF Inv, TypeOK, WatchLocks, WatchStates
<1>2. /\ UNCHANGED <<journal, oldR, tgtR, coord, acted, failed, sess, inbox, owned, old, tgt, installed,
                     loaded, faults, outcome>>
      /\ journal = NoJournal => watch' = [watch EXCEPT ![b] = "none"] /\ lock' = lock
      /\ journal # NoJournal => /\ watch' = [watch EXCEPT ![b] = IF watch[b] = "lock1" THEN "drive1" ELSE "drive2"]
                                /\ lock' = b
  BY DEF WatchLocks, WatchIs
<1>3. PICK v \in {"none", "drive1", "drive2"} : watch' = [watch EXCEPT ![b] = v]
                       /\ ((v \in Driving) <=> (lock' = b)) /\ (lock' = b => journal # NoJournal)
                       /\ (lock' # b => lock' = Free)
  BY <1>0, <1>1, <1>2 DEF Driving
<1>4. \A c \in Brokers : watch'[c] = IF c = b THEN v ELSE watch[c]
  BY <1>1, <1>3
<1>5. TypeOK'
  BY <1>1, <1>2, <1>3 DEF Inv, TypeOK, WatchStates
<1>6. ~ acted
  BY <1>1 DEF Inv, LockInv
<1>7. LockInv'
  BY <1>0, <1>1, <1>2, <1>3, <1>4, <1>6 DEF Inv, LockInv
<1>8. ActedInv'
  BY <1>2, <1>6 DEF ActedInv
<1>9. \A m \in Members : watch'[<<"old", m>>] # "none" => watch[<<"old", m>>] # "none"
  BY <1>1, <1>4, BrokerNames
<1>10. \A m \in Members : watch'[<<"target", m>>] = "ack" => watch[<<"target", m>>] = "ack"
  BY <1>3, <1>4, BrokerNames
<1>11. journal = NoJournal => outcome # "none"
  BY <1>1 DEF Inv, JournalInv, AtRest
<1> QED
  BY <1>2, <1>5, <1>7, <1>8, <1>9, <1>10, <1>11, RunStep

(* A watch that may resume its broker finds all replacements stopped and the *)
(* previous bridge back. *)
LEMMA MayResumeFacts ==
  ASSUME Inv, NEW m \in Members, MayResume(m)
  PROVE  /\ lock = <<"old", m>> /\ ~ acted /\ journal.phase = "RollingBack"
         /\ TargetsRetired(journal) /\ (Zellij => journal.bridge = "Restored")
         /\ journal.old[m] = "ResumeIntent" /\ watch[<<"old", m>>] \in Driving
<1> DEFINE j == journal
<1>0. /\ Drives(<<"old", m>>) /\ j.phase = "RollingBack" /\ Action(<<"old", m>>).do = "ResumeOld"
      /\ j.old[m] = "ResumeIntent"
  BY DEF MayResume, RollsBack
<1>1. /\ lock = <<"old", m>> /\ lock # Free /\ Unsettled(j) = {} /\ TargetsRetired(j) /\ (Zellij => j.bridge = "Restored")
  BY <1>0, RollbackFacts
<1>2. ~ Zellij => j.bridge = "None"
  BY <1>1, HeldFacts, UnitAssumption DEF JournalOK, Ordered
<1>3. ~ acted
  BY <1>0, <1>1, <1>2, BrokerNames, UnitAssumption DEF Inv, ActedInv
<1>4. watch[<<"old", m>>] \in Driving
  BY <1>0, BrokerNames DEF Drives, Driving
<1> QED
  BY <1>0, <1>1, <1>3, <1>4

(* A watch lets go of the journal before it decides again. *)
LEMMA WatchYieldsStep ==
  ASSUME Inv, NEW m \in Members, WatchYields(m)
  PROVE  Inv'
<1>1. lock = <<"old", m>> /\ ~ acted
  BY MayResumeFacts DEF WatchYields
<1>2. <<"old", m>> \in Brokers /\ faults \in 0 .. MaxFaults /\ "check2" \in WatchStates \ Driving
      /\ acted \in BOOLEAN
  BY BrokerNames DEF Inv, TypeOK, WatchStates, Driving
<1>3. /\ lock' = Free /\ watch' = [watch EXCEPT ![<<"old", m>>] = "check2"]
      /\ UNCHANGED <<disk, coord, failed, sess, inbox, owned, old, tgt, host, outcome>>
      /\ acted' = acted /\ faults' = faults
  BY DEF WatchYields, WatchIs
<1>4. acted' = FALSE /\ faults' \in 0 .. MaxFaults
  BY <1>1, <1>2, <1>3
<1> QED
  BY <1>1, <1>2, <1>3, <1>4, BrokerLeaves

(* Without a journal a drained broker resumes and a gated replacement retires. *)
LEMMA WatchLooksStep ==
  ASSUME Inv, NEW b \in Brokers, WatchLooks(b)
  PROVE  Inv'
<1> USE DEF disk, run, host
<1> DEFINE m == b[2]
<1>0. /\ Free # Coordinator /\ Free \notin Brokers /\ Coordinator \notin Brokers
      /\ m \in Members /\ (b = <<"old", m>> \/ b = <<"target", m>>)
  BY BrokerNames
<1>1. watch \in [Brokers -> WatchStates] /\ watch[b] \in {"check1", "check2"} /\ watch[b] \notin Driving
  BY DEF Inv, TypeOK, WatchLooks, WatchStates, Driving
<1>2. UNCHANGED <<journal, oldR, tgtR, lock, coord, acted, failed, sess, inbox, owned, installed,
                  loaded, faults, outcome>>
  BY DEF WatchLooks
<1>3. PICK v \in {"none", "check2", "lock1", "lock2"} : watch' = [watch EXCEPT ![b] = v]
  BY DEF WatchLooks, WatchIs
<1>4. \A c \in Brokers : watch'[c] = IF c = b THEN v ELSE watch[c]
  BY <1>1, <1>3
<1>5. watch' \in [Brokers -> WatchStates]
  BY <1>1, <1>3 DEF WatchStates
<1>6. LockInv'
  BY <1>0, <1>1, <1>2, <1>3, <1>4 DEF Inv, LockInv, Driving
<1>7. \A n \in Members : watch'[<<"old", n>>] # "none" => watch[<<"old", n>>] # "none"
  BY <1>1, <1>4, BrokerNames
<1>8. \A n \in Members : watch'[<<"target", n>>] = "ack" => watch[<<"target", n>>] = "ack"
  BY <1>3, <1>4, BrokerNames
<1>9. journal = NoJournal => outcome # "none"
  BY <1>1 DEF Inv, JournalInv, AtRest
<1>10. CASE UNCHANGED <<old, tgt>>
  <2>1. TypeOK'
    BY <1>2, <1>5, <1>10 DEF Inv, TypeOK, WatchStates
  <2>2. ActedInv'
    BY <1>2, <1>10, ActedKept
  <2> QED
    BY <1>2, <1>6, <1>7, <1>8, <1>9, <1>10, <2>1, <2>2, RunStep
<1>11. CASE journal = NoJournal /\ b[1] = "target"
  <2>1. old' = old /\ tgt' = [tgt EXCEPT ![m] = IF @ = "Gated" THEN "Retired" ELSE @]
    BY <1>11 DEF WatchLooks
  <2>2. tgt[m] # "Gated" /\ tgt = [tgt EXCEPT ![m] = tgt[m]]
    BY <1>0, <1>9, <1>11 DEF Inv, TypeOK, JournalInv, AtRest
  <2> QED
    BY <1>10, <2>1, <2>2
<1>12. CASE journal = NoJournal /\ b[1] # "target" /\ ~ UNCHANGED <<old, tgt>>
  <2>1. tgt' = tgt /\ old' = [old EXCEPT ![m] = IF @ = "Draining" THEN "Running" ELSE @] /\ v = "none"
    <3>1. watch' = [watch EXCEPT ![b] = "none"]
      BY <1>12 DEF WatchLooks, WatchIs
    <3>2. v = "none"
      BY <1>1, <1>4, <3>1
    <3> QED
      BY <1>12, <3>2 DEF WatchLooks
  <2>2. b = <<"old", m>>
    BY <1>0, <1>12
  <2> HIDE DEF m
  <2>3. TypeOK'
    BY <1>0, <1>2, <1>5, <2>1 DEF Inv, TypeOK, WatchStates
  <2>4. ActedInv'
    BY <1>2, <2>1, ActedKept
  <2>5. AtRest /\ outcome # "none"
    BY <1>9, <1>12 DEF Inv, JournalInv
  <2>6. old[m] = "Draining" => outcome = "rolledBack"
    BY <1>0, <2>5 DEF Inv, TypeOK, AtRest, Gone
  <2>7. \A n \in Members : old'[n] = IF n = m /\ old[m] = "Draining" THEN "Running" ELSE old[n]
    BY <2>1 DEF Inv, TypeOK
  <2>8. watch'[<<"old", m>>] = "none"
    BY <1>4, <2>1, <2>2
  <2>9. ASSUME NEW n \in Members PROVE BrokerOK(n)'
    <3>1. BrokerOK(n)
      BY DEF Inv
    <3>2. CASE n = m /\ old[m] = "Draining"
      <4>1. tgt[n] \in {"none", "Retired", "Dead"} /\ (Zellij => loaded[n] = "old") /\ oldR = {} /\ tgtR = {}
        BY <2>5, <2>6, <3>2 DEF AtRest
      <4> QED
        BY <1>2, <1>8, <2>1, <2>7, <2>8, <3>1, <3>2, <4>1 DEF BrokerOK
    <3>3. CASE ~ (n = m /\ old[m] = "Draining")
      BY <1>2, <1>7, <1>8, <2>1, <2>7, <3>1, <3>3 DEF BrokerOK
    <3> QED
      BY <3>2, <3>3
  <2>10. AtRest'
    BY <1>2, <2>1, <2>5, <2>6, <2>7 DEF AtRest
  <2> QED
    BY <1>2, <1>6, <1>12, <2>3, <2>4, <2>9, <2>10, Rested
<1> QED
  BY <1>10, <1>11, <1>12 DEF WatchLooks


TargetStates == {"none", "Starting", "Checked", "Gated", "Committed", "Retired", "Dead"}

(* A step of one replacement, and what it needs. *)
LEMMA TargetStep ==
  ASSUME Inv, TypeOK', LockInv', ActedInv', NEW m \in Members, NEW v \in TargetStates,
         tgt' = [tgt EXCEPT ![m] = v],
         UNCHANGED <<journal, oldR, tgtR, old, installed, loaded, outcome, coord, inbox>>,
         \/ owned' = owned
         \/ /\ owned' = owned \cup {m} /\ m \notin tgtR
            /\ journal.phase = "Activating" /\ journal.target[m] = "SpawnIntent",
         \A n \in Members : watch'[<<"old", n>>] # "none" => watch[<<"old", n>>] # "none",
         \A n \in Members : watch'[<<"target", n>>] = "ack" =>
             \/ n # m /\ watch[<<"target", n>>] = "ack"
             \/ n = m /\ v = "Committed" /\ journal.phase = "Committing",
         m \in tgtR => v \in {"Retired", "Dead"},
         v \in {"Gated", "Committed"} => old[m] # "Running",
         v = "Committed" /\ Zellij => loaded[m] = "target",
         v = "Committed" => journal.phase = "Committing",
         journal # NoJournal =>
             /\ journal.target[m] = "Absent" => v = "none"
             /\ journal.target[m] = "Retired" => v \in {"Retired", "Dead"}
             /\ journal.target[m] = "Committed" => v \in {"Committed", "Dead"}
             /\ (coord \in {"forward", "rollback"} /\ journal.target[m] = "SpawnIntent" => m \in owned'),
         journal = NoJournal => outcome # "none" /\ v = "Dead"
  PROVE  Inv'
<1>0. \A n \in Members : tgt'[n] = IF n = m THEN v ELSE tgt[n]
  BY DEF Inv, TypeOK
<1>1. ASSUME NEW n \in Members PROVE BrokerOK(n)'
  <2>1. BrokerOK(n)
    BY DEF Inv
  <2>2. CASE n = m
    BY <1>0, <2>1, <2>2 DEF BrokerOK
  <2>3. CASE n # m
    BY <1>0, <2>1, <2>3 DEF BrokerOK
  <2> QED
    BY <2>2, <2>3
<1>2. CASE journal = NoJournal
  <2>1. AtRest
    BY <1>2 DEF Inv, JournalInv
  <2>2. AtRest'
    BY <1>0, <1>2, <2>1 DEF AtRest
  <2> QED
    BY <1>1, <1>2, <2>2, Rested
<1>3. CASE journal # NoJournal
  <2> DEFINE j == journal
  <2>0. JournalOK(j) /\ Recorded(j) /\ outcome = "none"
    BY <1>3 DEF Inv, JournalInv
  <2>1. PICK k : k = journal
    OBVIOUS
  <2>2. PhaseRec(k)'
    BY <2>0, <2>1 DEF Recorded, PhaseRec
  <2>3. BridgeRec(k)'
    BY <2>0, <2>1 DEF Recorded, BridgeRec
  <2>4. \A n \in Members : OldRec(k, n)'
    BY <2>0, <2>1 DEF Recorded, OldRec
  <2>5. ASSUME NEW n \in Members PROVE TargetRec(k, n)'
    <3>1. TargetRec(j, n)
      BY <2>0 DEF Recorded
    <3>2. CASE n = m
      BY <1>0, <1>3, <2>1, <3>1, <3>2 DEF TargetRec
    <3>3. CASE n # m
      BY <1>0, <2>1, <3>1, <3>3 DEF TargetRec
    <3> QED
      BY <3>2, <3>3
  <2> QED
    BY <1>1, <1>3, <2>0, <2>1, <2>2, <2>3, <2>4, <2>5, Stepped
<1> QED
  BY <1>2, <1>3

(* A replacement that runs and is not open yet, or that is being stopped. *)
LEMMA RunningTarget ==
  ASSUME Inv, NEW m \in Members, tgt[m] \notin {"none", "Dead"}
  PROVE  /\ journal = NoJournal => outcome # "none" /\ tgt[m] \in {"Committed", "Retired"}
         /\ journal # NoJournal =>
             /\ journal.target[m] # "Absent"
             /\ journal.target[m] = "Retired" => tgt[m] = "Retired"
             /\ journal.target[m] = "Committed" => tgt[m] = "Committed"
             /\ (coord \in {"forward", "rollback"} /\ journal.target[m] = "SpawnIntent" => m \in owned)
         /\ m \in tgtR => tgt[m] = "Retired"
<1>1. m \in tgtR => tgt[m] = "Retired"
  BY DEF Inv, BrokerOK
<1>2. CASE journal = NoJournal
  BY <1>1, <1>2 DEF Inv, JournalInv, AtRest, TypeOK
<1>3. CASE journal # NoJournal
  <2>1. TargetRec(journal, m)
    BY <1>3 DEF Inv, JournalInv, Recorded
  <2> QED
    BY <1>1, <1>3, <2>1 DEF TargetRec
<1> QED
  BY <1>2, <1>3

(* A replacement checks the journal, then binds the socket its predecessor left. *)
LEMMA TargetStarts ==
  ASSUME Inv, NEW m \in Members, TargetChecks(m) \/ TargetBinds(m)
  PROVE  Inv'
<1> USE DEF disk, run, host
<1>1. tgt[m] \in {"Starting", "Checked"}
  BY DEF TargetChecks, TargetBinds
<1>2. UNCHANGED <<journal, oldR, tgtR, lock, coord, acted, failed, sess, inbox, owned, old, watch,
                  installed, loaded, faults, outcome>>
  BY DEF TargetChecks, TargetBinds
<1>3. PICK v \in {"Checked", "Gated", "Dead"} :
                 tgt' = [tgt EXCEPT ![m] = v] /\ (v = "Gated" => old[m] # "Running")
  BY DEF TargetChecks, TargetBinds
<1>4. v \in TargetStates
  BY DEF TargetStates
<1>5. TypeOK'
  BY <1>2, <1>3 DEF Inv, TypeOK
<1>6. LockInv'
  BY <1>2 DEF Inv, LockInv
<1>7. \A n \in Members : tgt'[n] = IF n = m THEN v ELSE tgt[n]
  BY <1>3 DEF Inv, TypeOK
<1>8. ActedInv'
  BY <1>1, <1>2, <1>7, ActedKept
<1>9. watch[<<"target", m>>] # "ack"
  BY <1>1 DEF Inv, BrokerOK
<1>10. /\ journal # NoJournal
       /\ journal.target[m] \notin {"Absent", "Retired", "Committed"}
       /\ (coord \in {"forward", "rollback"} /\ journal.target[m] = "SpawnIntent" => m \in owned)
       /\ m \notin tgtR
  BY <1>1, RunningTarget
<1>11. \A n \in Members : watch'[<<"target", n>>] = "ack" => n # m /\ watch[<<"target", n>>] = "ack"
  BY <1>2, <1>9
<1> QED
  BY <1>2, <1>3, <1>4, <1>5, <1>6, <1>8, <1>10, <1>11, TargetStep

(* A replacement ends, with whatever it held. *)
LEMMA TargetEnds ==
  ASSUME Inv, NEW m \in Members, tgt[m] \notin {"none", "Dead"}, tgt' = [tgt EXCEPT ![m] = "Dead"],
         watch' = [watch EXCEPT ![<<"target", m>>] = "none"],
         lock' = (IF lock = <<"target", m>> THEN Free ELSE lock),
         acted' = (acted /\ lock # <<"target", m>>),
         UNCHANGED <<disk, coord, failed, sess, inbox, owned, old, host, outcome>>,
         faults' \in 0 .. MaxFaults
  PROVE  Inv'
<1> USE DEF disk, host
<1>0. /\ Free # Coordinator /\ Free \notin Brokers /\ Coordinator \notin Brokers
      /\ <<"target", m>> \in Brokers /\ <<"target", m>> # Coordinator
  BY BrokerNames
<1>1. "Dead" \in TargetStates /\ watch \in [Brokers -> WatchStates]
  BY DEF TargetStates, Inv, TypeOK, WatchStates
<1>2. \A c \in Brokers : watch'[c] = IF c = <<"target", m>> THEN "none" ELSE watch[c]
  BY <1>1
<1>3. TypeOK'
  BY <1>0 DEF Inv, TypeOK
<1>4. LockInv'
  BY <1>0, <1>1, <1>2 DEF Inv, LockInv, Driving
<1>5. \A n \in Members : tgt'[n] = IF n = m THEN "Dead" ELSE tgt[n]
  BY DEF Inv, TypeOK
<1>6. ActedInv'
  BY <1>5, ActedKept
<1>7. \A n \in Members : watch'[<<"old", n>>] # "none" => watch[<<"old", n>>] # "none"
  BY <1>2, BrokerNames
<1>8. ASSUME NEW n \in Members, watch'[<<"target", n>>] = "ack"
      PROVE  n # m /\ watch[<<"target", n>>] = "ack"
  <2>1. <<"target", n>> \in Brokers /\ (n # m => <<"target", n>> # <<"target", m>>)
    BY BrokerNames
  <2>2. n # m
    BY <1>0, <1>2, <1>8
  <2> QED
    BY <1>2, <1>8, <2>1, <2>2
<1>9. /\ journal = NoJournal => outcome # "none"
      /\ journal # NoJournal =>
             /\ journal.target[m] # "Absent"
             /\ (coord \in {"forward", "rollback"} /\ journal.target[m] = "SpawnIntent" => m \in owned)
  BY RunningTarget
<1> QED
  BY <1>1, <1>3, <1>4, <1>6, <1>7, <1>8, <1>9, TargetStep

(* A retired replacement exits, or any one dies. *)
LEMMA TargetEndsSteps ==
  ASSUME Inv, NEW m \in Members
  PROVE  (TargetExits(m) => Inv') /\ (TargetDies(m) => Inv')
<1>0. faults \in 0 .. MaxFaults
  BY DEF Inv, TypeOK
<1>1. ASSUME TargetExits(m) PROVE Inv'
  BY <1>0, <1>1, TargetEnds DEF TargetExits
<1>2. ASSUME TargetDies(m) PROVE Inv'
  <2>1. faults' \in 0 .. MaxFaults
    BY <1>0, <1>2, FaultAssumption DEF TargetDies, Dies, Fault
  <2>2. inbox' = inbox
    BY <1>2 DEF TargetDies, Dies
  <2> QED
    BY <1>2, <2>1, <2>2, TargetEnds DEF TargetDies, Dies
<1> QED
  BY <1>1, <1>2


(* What the holder of the lock knows of a member once the commit is decided. *)
LEMMA CommittingFacts ==
  ASSUME Inv, lock # Free, journal.phase = "Committing", NEW m \in Members
  PROVE  /\ Zellij => loaded[m] = "target"
         /\ journal.target[m] \in {"Ready", "CommitIntent", "Committed"}
         /\ journal.old[m] \in {"Drained", "CommitIntent", "Committed"}
         /\ old[m] # "Running" /\ m \notin tgtR /\ m \notin owned
         /\ coord # "rollback"
<1> DEFINE j == journal
<1>1. JournalOK(j) /\ Recorded(j)
  BY HeldFacts
<1>2. Zellij => j.bridge \in {"TargetReloaded", "PreviousPublishIntent",
                              "PreviousPublished", "ReceiptIntent", "ReceiptPublished"}
  BY <1>1 DEF JournalOK, validate, BridgeValid
<1>3. /\ j.target[m] \in {"Ready", "CommitIntent", "Committed"}
      /\ j.old[m] \in {"Drained", "CommitIntent", "Committed"}
  BY <1>1 DEF JournalOK, validate, MembersValid
<1>4. Zellij => loaded[m] = "target"
  BY <1>1, <1>2 DEF Recorded, BridgeRec
<1>5. old[m] # "Running" /\ m \notin tgtR /\ m \notin owned /\ coord # "rollback"
  BY <1>1, <1>3 DEF Recorded, OldRec, TargetRec, PhaseRec
<1> QED
  BY <1>3, <1>4, <1>5

(* The coordinator starts a replacement after recording that it will. *)
LEMMA SpawnStep ==
  ASSUME Inv, NEW m \in Members, Spawn(m)
  PROVE  Inv'
<1> USE DEF disk, host
<1> DEFINE j == journal
<1>0. lock = Coordinator /\ lock # Free /\ coord = "forward" /\ j.phase = "Activating" /\ j.target[m] = "SpawnIntent"
      /\ m \notin owned
  BY BrokerNames DEF Spawn, Forward
<1>1. j # NoJournal /\ Recorded(j)
  BY <1>0, HeldFacts
<1>2. tgt[m] = "none" /\ m \notin tgtR
  BY <1>0, <1>1 DEF Recorded, TargetRec
<1>3. /\ tgt' = [tgt EXCEPT ![m] = "Starting"] /\ owned' = owned \cup {m}
      /\ UNCHANGED <<journal, oldR, tgtR, lock, coord, acted, failed, sess, inbox, old, watch,
                     installed, loaded, faults, outcome>>
  BY DEF Spawn
<1>4. TypeOK'
  BY <1>3 DEF Inv, TypeOK
<1>5. LockInv'
  BY <1>0, <1>3 DEF Inv, LockInv
<1>6. \A n \in Members : tgt'[n] = IF n = m THEN "Starting" ELSE tgt[n]
  BY <1>3 DEF Inv, TypeOK
<1>7. ActedInv'
  BY <1>2, <1>3, <1>6, ActedKept
<1>8. watch[<<"target", m>>] # "ack"
  BY <1>0, <1>1 DEF Recorded, PhaseRec
<1>9. \A n \in Members : watch'[<<"target", n>>] = "ack" => n # m /\ watch[<<"target", n>>] = "ack"
  BY <1>3, <1>8
<1> QED
  BY <1>0, <1>1, <1>2, <1>3, <1>4, <1>5, <1>7, <1>9, TargetStep DEF TargetStates

(* The coordinator opens a replacement. *)
LEMMA CommitTargetStep ==
  ASSUME Inv, NEW m \in Members, CommitTarget(m)
  PROVE  Inv'
<1> USE DEF disk, host
<1> DEFINE j == journal
<1>0. /\ lock = Coordinator /\ lock # Free /\ j.phase = "Committing" /\ j.target[m] = "CommitIntent"
      /\ m = First(TargetAt({"Ready", "CommitIntent"}) \ failed)
  BY BrokerNames DEF CommitTarget, CommitsNext, Forward, Drives
<1>1. j # NoJournal /\ Recorded(j)
  BY <1>0, HeldFacts
<1>2. (Zellij => loaded[m] = "target") /\ old[m] # "Running" /\ m \notin tgtR
  BY <1>0, CommittingFacts
<1>3. /\ tgt' = [tgt EXCEPT ![m] = "Committed"] /\ acted' = TRUE
      /\ UNCHANGED <<journal, oldR, tgtR, lock, coord, failed, sess, inbox, owned, old, watch,
                     installed, loaded, faults, outcome>>
  BY DEF CommitTarget, Effect
<1>4. TypeOK'
  BY <1>3 DEF Inv, TypeOK
<1>5. LockInv'
  BY <1>0, <1>3 DEF Inv, LockInv
<1>6. \A n \in Members : tgt'[n] = IF n = m THEN "Committed" ELSE tgt[n]
  BY <1>3 DEF Inv, TypeOK
<1>7. ActedInv'
  <2>1. First(TargetAt({"Ready", "CommitIntent"}) \ failed)' = m
    BY <1>0, <1>3 DEF TargetAt
  <2> QED
    BY <1>0, <1>3, <1>6, <2>1 DEF ActedInv
<1>8. \A n \in Members : watch'[<<"target", n>>] = "ack" =>
         (n # m /\ watch[<<"target", n>>] = "ack") \/ n = m
  BY <1>3
<1> QED
  BY <1>0, <1>1, <1>2, <1>3, <1>4, <1>5, <1>7, <1>8, TargetStep DEF TargetStates

(* A replacement opens itself. *)
LEMMA WatchCommitsTargetStep ==
  ASSUME Inv, NEW m \in Members, WatchCommitsTarget(m)
  PROVE  Inv'
<1> USE DEF disk, run, host
<1> DEFINE j == journal
           b == <<"target", m>>
<1>0. /\ lock = b /\ lock # Free /\ j.phase = "Committing" /\ tgt[m] = "Gated"
      /\ b \in Brokers /\ watch[b] \in Driving
  BY BrokerNames DEF WatchCommitsTarget, WatchCommits, Drives, Driving
<1>1. j # NoJournal /\ Recorded(j)
  BY <1>0, HeldFacts
<1>2. (Zellij => loaded[m] = "target") /\ old[m] # "Running" /\ m \notin tgtR
      /\ j.target[m] \in {"Ready", "CommitIntent", "Committed"}
  BY <1>0, CommittingFacts
<1>3. /\ tgt' = [tgt EXCEPT ![m] = "Committed"] /\ watch' = [watch EXCEPT ![b] = "ack"]
      /\ UNCHANGED <<journal, oldR, tgtR, lock, coord, acted, failed, sess, inbox, owned, old,
                     installed, loaded, faults, outcome>>
  BY DEF WatchCommitsTarget, WatchIs
<1>4. TypeOK'
  BY <1>3 DEF Inv, TypeOK
<1>5. watch \in [Brokers -> WatchStates]
  BY DEF Inv, TypeOK, WatchStates
<1>6. \A c \in Brokers : watch'[c] = IF c = b THEN "ack" ELSE watch[c]
  BY <1>3, <1>5
<1>7. LockInv'
  BY <1>0, <1>3, <1>6 DEF Inv, LockInv, Driving
<1>8. \A n \in Members : tgt'[n] = IF n = m THEN "Committed" ELSE tgt[n]
  BY <1>3 DEF Inv, TypeOK
<1>9. ActedInv'
  BY <1>0, <1>3, <1>8, ActedKept
<1>10. \A n \in Members : watch'[<<"old", n>>] # "none" => watch[<<"old", n>>] # "none"
  BY <1>6, BrokerNames
<1>11. ASSUME NEW n \in Members, watch'[<<"target", n>>] = "ack"
       PROVE  (n # m /\ watch[<<"target", n>>] = "ack") \/ n = m
  <2>1. <<"target", n>> \in Brokers /\ (n # m => <<"target", n>> # b)
    BY BrokerNames
  <2> QED
    BY <1>6, <1>11, <2>1
<1> QED
  BY <1>0, <1>1, <1>2, <1>3, <1>4, <1>7, <1>9, <1>10, <1>11, TargetStep DEF TargetStates

(* A driver stops a replacement. *)
LEMMA RetireTargetStep ==
  ASSUME Inv, NEW d, RetireTarget(d)
  PROVE  Inv'
<1> USE DEF disk, host
<1> DEFINE j == journal
           m == Action(d).m
<1>0. Drives(d) /\ j.phase = "RollingBack" /\ Action(d).do = "RetireTarget"
  BY DEF RetireTarget, RollsBack
<1>1. /\ lock = d /\ d # Free /\ m \in Members /\ j.target[m] = "RetireIntent" /\ m \notin tgtR
      /\ Unsettled(j) # {} /\ m = First(Unsettled(j))
  BY <1>0, RollbackFacts DEF RetireTarget
<1>2. /\ acted' = TRUE
      /\ UNCHANGED <<journal, oldR, tgtR, lock, coord, failed, sess, inbox, owned, old,
                     installed, loaded, faults, outcome>>
      /\ \/ /\ tgt' = [tgt EXCEPT ![m] = "Dead"]
            /\ watch' = [watch EXCEPT ![<<"target", m>>] = "none"] /\ lock = Coordinator
         \/ tgt' = [tgt EXCEPT ![m] = "Retired"] /\ watch' = watch /\ tgt[m] = "Gated"
  BY <1>1 DEF RetireTarget, Normal
<1> HIDE DEF m
<1>3. PICK v \in {"Dead", "Retired"} : tgt' = [tgt EXCEPT ![m] = v]
  BY <1>2
<1>4. j # NoJournal /\ Recorded(j) /\ JournalOK(j)
  BY <1>1, HeldFacts
<1>5. watch \in [Brokers -> WatchStates] /\ <<"target", m>> \in Brokers
  BY <1>1, BrokerNames DEF Inv, TypeOK, WatchStates
<1>6. \A c \in Brokers : watch'[c] = watch[c] \/ (watch'[c] = "none" /\ watch[c] \notin Driving)
  <2>1. CASE watch' = watch
    BY <2>1
  <2>2. CASE watch' = [watch EXCEPT ![<<"target", m>>] = "none"] /\ lock = Coordinator
    <3>1. watch[<<"target", m>>] \notin Driving
      BY <1>5, <2>2, BrokerNames DEF Inv, LockInv
    <3> QED
      BY <1>5, <2>2, <3>1
  <2> QED
    BY <1>2, <2>1, <2>2
<1>7. TypeOK'
  BY <1>2, <1>3, <1>5 DEF Inv, TypeOK
<1>8. LockInv'
  BY <1>1, <1>2, <1>6 DEF Inv, LockInv, Driving
<1>9. \A n \in Members : tgt'[n] = IF n = m THEN v ELSE tgt[n]
  BY <1>3 DEF Inv, TypeOK
<1>10. ActedInv'
  <2>1. First(Unsettled(journal))' = m /\ Unsettled(journal)' = Unsettled(j)
    BY <1>1, <1>2
  <2>2. j.bridge \notin {"OldInstallIntent", "OldReloading"}
    <3>1. ~ TargetsRetired(j)
      BY <1>1 DEF TargetsRetired
    <3> QED
      BY <1>0, <1>4, <3>1, UnitAssumption DEF JournalOK, validate, Ordered, BridgeValid, RestoreStarted
  <2> QED
    BY <1>0, <1>1, <1>2, <1>9, <2>1, <2>2 DEF ActedInv
<1>11. watch[<<"target", m>>] # "ack"
  BY <1>0, <1>1, <1>4 DEF Recorded, PhaseRec
<1>12. \A n \in Members : watch'[<<"target", n>>] = "ack" => n # m /\ watch[<<"target", n>>] = "ack"
  BY <1>6, <1>11, BrokerNames
<1>13. \A n \in Members : watch'[<<"old", n>>] # "none" => watch[<<"old", n>>] # "none"
  BY <1>6, BrokerNames
<1>14. v \in TargetStates
  BY DEF TargetStates
<1> QED
  BY <1>0, <1>1, <1>2, <1>3, <1>4, <1>7, <1>8, <1>10, <1>12, <1>13, <1>14, TargetStep



OldStates == {"Running", "Draining", "Stopping", "SupervisorOnly", "Exited", "Dead"}

(* A step of one previous broker, and what it needs. *)
LEMMA OldStep ==
  ASSUME Inv, TypeOK', LockInv', ActedInv', NEW m \in Members, NEW v \in OldStates,
         old' = [old EXCEPT ![m] = v],
         UNCHANGED <<journal, tgtR, tgt, installed, loaded, outcome, coord, owned>>,
         inbox' \subseteq inbox,
         oldR' = oldR \/ (oldR' = oldR \cup {m} /\ v \in Gone /\ journal # NoJournal),
         \A n \in Members : watch'[<<"target", n>>] = "ack" => watch[<<"target", n>>] = "ack",
         \A n \in Members : n # m /\ watch'[<<"old", n>>] # "none" => watch[<<"old", n>>] # "none",
         watch'[<<"old", m>>] # "none" => v \notin {"Exited", "Dead"} /\ m \notin inbox',
         m \in oldR => v \in Gone,
         v = "Running" => tgt[m] \notin {"Gated", "Committed"} /\ (Zellij => loaded[m] = "old"),
         journal # NoJournal =>
             /\ v \in {"Stopping", "SupervisorOnly", "Exited"} => journal.phase \in {"Committing", "Committed"}
             /\ watch'[<<"old", m>>] # "none" /\ v = "Running" => journal.old[m] \in {"ResumeIntent", "Resumed"}
             /\ journal.old[m] \in {"Drained", "CommitIntent", "Committed"} => v # "Running"
             /\ journal.phase = "Committed" => v \in Gone,
         journal = NoJournal =>
             /\ outcome = "none" => v = "Dead" /\ watch' = watch
             /\ outcome = "committed" => v \in Gone
             /\ outcome = "rolledBack" => v \in {"Running", "Draining", "Dead"}
  PROVE  Inv'
<1>0. \A n \in Members : old'[n] = IF n = m THEN v ELSE old[n]
  BY DEF Inv, TypeOK
<1>1. ASSUME NEW n \in Members PROVE BrokerOK(n)'
  <2>1. BrokerOK(n)
    BY DEF Inv
  <2>2. CASE n = m
    BY <1>0, <2>1, <2>2 DEF BrokerOK
  <2>3. CASE n # m
    BY <1>0, <2>1, <2>3 DEF BrokerOK
  <2> QED
    BY <2>2, <2>3
<1>2. CASE journal = NoJournal
  <2>1. AtRest /\ oldR' = oldR
    BY <1>2 DEF Inv, JournalInv
  <2>2. AtRest'
    BY <1>0, <1>2, <2>1 DEF AtRest
  <2> QED
    BY <1>1, <1>2, <2>2, Rested
<1>3. CASE journal # NoJournal
  <2> DEFINE j == journal
  <2>0. JournalOK(j) /\ Recorded(j) /\ outcome = "none"
    BY <1>3 DEF Inv, JournalInv
  <2>1. PICK k : k = journal
    OBVIOUS
  <2>2. PhaseRec(k)'
    BY <2>0, <2>1 DEF Recorded, PhaseRec
  <2>3. BridgeRec(k)'
    BY <2>0, <2>1 DEF Recorded, BridgeRec
  <2>4. \A n \in Members : TargetRec(k, n)'
    BY <2>0, <2>1 DEF Recorded, TargetRec
  <2>5. ASSUME NEW n \in Members PROVE OldRec(k, n)'
    <3>1. OldRec(j, n)
      BY <2>0 DEF Recorded
    <3>2. CASE n = m
      BY <1>0, <1>3, <2>1, <3>1, <3>2 DEF OldRec
    <3>3. CASE n # m
      BY <1>0, <2>1, <3>1, <3>3 DEF OldRec
    <3> QED
      BY <3>2, <3>3
  <2> QED
    BY <1>1, <1>3, <2>0, <2>1, <2>2, <2>3, <2>4, <2>5, Stepped
<1> QED
  BY <1>2, <1>3

(* A previous broker that stops, or has stopped, after the decision. *)
LEMMA StoppingOld ==
  ASSUME Inv, NEW m \in Members, old[m] \in {"Stopping", "SupervisorOnly", "Exited"}
  PROVE  /\ journal # NoJournal => journal.phase \in {"Committing", "Committed"}
         /\ journal = NoJournal => outcome = "committed" /\ old[m] # "Stopping"
<1>1. journal # NoJournal => OldRec(journal, m)
  BY DEF Inv, JournalInv, Recorded
<1>2. journal = NoJournal => AtRest
  BY DEF Inv, JournalInv
<1> QED
  BY <1>1, <1>2 DEF OldRec, AtRest, Inv, TypeOK, Gone

(* A previous broker is told to stop, and confirms it or fails to. *)
LEMMA OldStops ==
  ASSUME Inv, NEW m \in Members
  PROVE  /\ PublishReceipt(m) => Inv'
         /\ ReceiptFails(m) => Inv'
         /\ CommitOld(m) => Inv'
<1> USE DEF disk, run, host
<1>1. ASSUME PublishReceipt(m) \/ ReceiptFails(m) PROVE Inv'
  <2>0. old[m] = "Stopping" /\ faults' \in 0 .. MaxFaults
    BY <1>1, FaultAssumption DEF PublishReceipt, ReceiptFails, Fault, Inv, TypeOK
  <2>1. /\ old' = [old EXCEPT ![m] = "SupervisorOnly"]
        /\ oldR' = oldR \/ oldR' = oldR \cup {m}
        /\ UNCHANGED <<journal, tgtR, lock, coord, acted, failed, sess, inbox, owned, tgt, watch,
                       installed, loaded, outcome>>
    BY <1>1 DEF PublishReceipt, ReceiptFails
  <2>2. journal # NoJournal /\ journal.phase \in {"Committing", "Committed"}
    BY <2>0, StoppingOld
  <2>3. "SupervisorOnly" \in Gone /\ "SupervisorOnly" \in OldStates
    BY DEF Gone, OldStates
  <2>4. TypeOK'
    BY <2>0, <2>1 DEF Inv, TypeOK
  <2>5. LockInv'
    BY <2>1 DEF Inv, LockInv
  <2>6. ActedInv'
    BY <2>1, ActedKept
  <2>7. watch[<<"old", m>>] # "none" => m \notin inbox
    BY DEF Inv, BrokerOK
  <2> QED
    BY <2>1, <2>2, <2>3, <2>4, <2>5, <2>6, <2>7, OldStep
<1>2. ASSUME CommitOld(m) PROVE Inv'
  <2>0. /\ lock # Free /\ old[m] = "Draining" /\ journal.phase = "Committing" /\ m \notin oldR
    BY <1>2, BrokerNames DEF CommitOld, Forward
  <2>1. /\ old' = [old EXCEPT ![m] = "Stopping"]
        /\ UNCHANGED <<journal, oldR, tgtR, lock, coord, acted, failed, sess, inbox, owned, tgt, watch,
                       installed, loaded, outcome, faults>>
    BY <1>2 DEF CommitOld
  <2>2. journal # NoJournal
    BY <2>0, HeldFacts
  <2>3. "Stopping" \in OldStates
    BY DEF OldStates
  <2>4. TypeOK'
    BY <2>0, <2>1 DEF Inv, TypeOK
  <2>5. LockInv'
    BY <2>1 DEF Inv, LockInv
  <2>6. ActedInv'
    BY <2>1, ActedKept
  <2>7. watch[<<"old", m>>] # "none" => m \notin inbox
    BY DEF Inv, BrokerOK
  <2> QED
    BY <2>0, <2>1, <2>2, <2>3, <2>4, <2>5, <2>6, <2>7, OldStep
<1> QED
  BY <1>1, <1>2

(* A previous broker stops itself. *)
LEMMA WatchStopsOldStep ==
  ASSUME Inv, NEW m \in Members, WatchStopsOld(m)
  PROVE  Inv'
<1> USE DEF disk, host
<1>0. /\ lock # Free /\ lock = <<"old", m>> /\ lock # Coordinator /\ old[m] = "Draining"
      /\ journal.phase = "Committing" /\ m \notin oldR
  BY BrokerNames DEF WatchStopsOld, WatchCommits, Drives
<1>1. /\ old' = [old EXCEPT ![m] = "Stopping"] /\ acted' = TRUE
      /\ UNCHANGED <<journal, oldR, tgtR, lock, coord, failed, sess, inbox, owned, tgt, watch,
                     installed, loaded, outcome, faults>>
  BY DEF WatchStopsOld, Effect
<1>2. journal # NoJournal
  BY <1>0, HeldFacts
<1>3. "Stopping" \in OldStates
  BY DEF OldStates
<1>4. TypeOK'
  BY <1>0, <1>1 DEF Inv, TypeOK
<1>5. LockInv'
  BY <1>0, <1>1 DEF Inv, LockInv
<1>6. ActedInv'
  BY <1>0, <1>1 DEF ActedInv
<1>7. watch[<<"old", m>>] # "none" => m \notin inbox
  BY DEF Inv, BrokerOK
<1> QED
  BY <1>0, <1>1, <1>2, <1>3, <1>4, <1>5, <1>6, <1>7, OldStep

(* A previous broker drains, even for a coordinator that is gone. *)
LEMMA HandlePrepareStep ==
  ASSUME Inv, NEW m \in Members, HandlePrepare(m)
  PROVE  Inv'
<1> USE DEF disk, host
<1>0. m \in inbox /\ old[m] = "Running" /\ inbox' = inbox \ {m}
  BY DEF HandlePrepare
<1>1. /\ old' = [old EXCEPT ![m] = "Draining"]
      /\ watch' = (IF m \in sess THEN watch ELSE [watch EXCEPT ![<<"old", m>>] = "check1"])
      /\ UNCHANGED <<journal, oldR, tgtR, lock, coord, acted, failed, sess, owned, tgt,
                     installed, loaded, outcome, faults>>
  BY DEF HandlePrepare
<1>2. watch[<<"old", m>>] = "none" /\ m \notin oldR
  BY <1>0 DEF Inv, BrokerOK, Gone
<1>3. watch \in [Brokers -> WatchStates] /\ <<"old", m>> \in Brokers
  BY BrokerNames DEF Inv, TypeOK, WatchStates
<1>4. PICK v \in {"none", "check1"} : \A c \in Brokers : watch'[c] = IF c = <<"old", m>> THEN v ELSE watch[c]
  <2>1. CASE m \in sess
    BY <1>1, <1>2, <2>1
  <2>2. CASE m \notin sess
    BY <1>1, <1>3, <2>2
  <2> QED
    BY <2>1, <2>2
<1>5. TypeOK'
  <2>1. watch' \in [Brokers -> WatchStates]
    BY <1>1, <1>3 DEF WatchStates
  <2> QED
    BY <1>0, <1>1, <2>1 DEF Inv, TypeOK, WatchStates
<1>6. LockInv'
  BY <1>1, <1>2, <1>3, <1>4 DEF Inv, LockInv, Driving
<1>7. ActedInv'
  BY <1>1, ActedKept
<1>8. \A n \in Members : watch'[<<"target", n>>] = "ack" => watch[<<"target", n>>] = "ack"
  BY <1>4, BrokerNames
<1>9. \A n \in Members : n # m /\ watch'[<<"old", n>>] # "none" => watch[<<"old", n>>] # "none"
  BY <1>4, BrokerNames
<1>10. journal # NoJournal => journal.phase # "Committed"
  BY <1>0 DEF Inv, JournalInv, Recorded, OldRec, Gone
<1>11. journal = NoJournal => outcome \notin {"none", "committed"}
  BY <1>0 DEF Inv, JournalInv, AtRest, Gone
<1>12. "Draining" \in OldStates
  BY DEF OldStates
<1> QED
  BY <1>0, <1>1, <1>2, <1>5, <1>6, <1>7, <1>8, <1>9, <1>10, <1>11, <1>12, OldStep

(* A stopped broker exits, or any one dies. *)
LEMMA OldEnds ==
  ASSUME Inv, NEW m \in Members
  PROVE  (OldExits(m) => Inv') /\ (OldDies(m) => Inv')
<1> USE DEF disk, host
<1>0. /\ Free # Coordinator /\ Free \notin Brokers /\ Coordinator \notin Brokers
      /\ <<"old", m>> \in Brokers /\ <<"old", m>> # Coordinator
  BY BrokerNames
<1>1. watch \in [Brokers -> WatchStates]
  BY DEF Inv, TypeOK, WatchStates
<1>2. ASSUME NEW v \in {"Exited", "Dead"}, old' = [old EXCEPT ![m] = v],
             watch' = [watch EXCEPT ![<<"old", m>>] = "none"],
             lock' = (IF lock = <<"old", m>> THEN Free ELSE lock),
             acted' = (acted /\ lock # <<"old", m>>), inbox' \subseteq inbox,
             UNCHANGED <<journal, oldR, tgtR, coord, failed, sess, owned, tgt, installed, loaded, outcome>>,
             faults' \in 0 .. MaxFaults, v = "Exited" => old[m] = "SupervisorOnly",
             old[m] # "Exited"
      PROVE  Inv'
  <2>1. v \in Gone /\ v \in OldStates
    BY DEF Gone, OldStates
  <2>2. \A c \in Brokers : watch'[c] = IF c = <<"old", m>> THEN "none" ELSE watch[c]
    BY <1>1, <1>2
  <2>3. TypeOK'
    BY <1>0, <1>2 DEF Inv, TypeOK
  <2>4. LockInv'
    BY <1>0, <1>1, <1>2, <2>2 DEF Inv, LockInv, Driving
  <2>5. ActedInv'
    BY <1>2, ActedKept
  <2>6. \A n \in Members : watch'[<<"target", n>>] = "ack" => watch[<<"target", n>>] = "ack"
    BY <2>2, BrokerNames
  <2>7. \A n \in Members : watch'[<<"old", n>>] # "none" => watch[<<"old", n>>] # "none"
    BY <2>2, BrokerNames
  <2>8. watch'[<<"old", m>>] = "none"
    BY <1>0, <2>2
  <2>9. v = "Exited" => /\ journal # NoJournal => journal.phase \in {"Committing", "Committed"}
                        /\ journal = NoJournal => outcome = "committed"
    BY <1>2, StoppingOld
  <2>10. journal = NoJournal /\ outcome = "none" => watch' = watch
    <3>1. journal = NoJournal /\ outcome = "none" => watch = [b \in Brokers |-> "none"]
      BY DEF Inv, JournalInv, AtRest
    <3> QED
      BY <1>0, <1>2, <3>1
  <2> QED
    BY <1>2, <2>1, <2>3, <2>4, <2>5, <2>6, <2>7, <2>8, <2>9, <2>10, OldStep
<1>3. ASSUME OldExits(m) PROVE Inv'
  <2>1. acted' = (acted /\ lock # <<"old", m>>)
    BY <1>3 DEF OldExits, Inv, TypeOK
  <2>2. faults' \in 0 .. MaxFaults
    BY <1>3 DEF OldExits, Inv, TypeOK
  <2> QED
    BY <1>2, <1>3, <2>1, <2>2 DEF OldExits
<1>4. ASSUME OldDies(m) PROVE Inv'
  <2>1. faults' \in 0 .. MaxFaults
    BY <1>4, FaultAssumption DEF OldDies, Dies, Fault, Inv, TypeOK
  <2>2. inbox' \subseteq inbox
    BY <1>4 DEF OldDies, Dies
  <2> QED
    BY <1>2, <1>4, <2>1, <2>2 DEF OldDies, Dies
<1> QED
  BY <1>3, <1>4

(* What a journal that lets a previous broker resume says of its member. *)
LEMMA ResumableFacts ==
  ASSUME Inv, lock # Free, NEW m \in Members, journal.phase = "RollingBack", TargetsRetired(journal),
         Zellij => journal.bridge = "Restored"
  PROVE  /\ tgt[m] \notin {"Gated", "Committed"} /\ (Zellij => loaded[m] = "old")
         /\ old[m] \notin {"Stopping", "SupervisorOnly", "Exited"}
         /\ Zellij \/ journal.bridge = "None"
<1>1. Recorded(journal) /\ JournalOK(journal)
  BY HeldFacts
<1>2. TargetRec(journal, m) /\ OldRec(journal, m) /\ BridgeRec(journal)
  BY <1>1 DEF Recorded
<1>3. journal.target[m] \in {"Absent", "Retired"}
  BY DEF TargetsRetired
<1> QED
  BY <1>1, <1>2, <1>3, UnitAssumption DEF TargetRec, OldRec, BridgeRec, JournalOK, Ordered

(* A previous broker resumes itself under the lock. *)
LEMMA WatchResumesStep ==
  ASSUME Inv, NEW m \in Members, WatchResumes(m)
  PROVE  Inv'
<1> USE DEF disk, run, host
<1> DEFINE b == <<"old", m>>
<1>0. /\ lock = b /\ lock # Free /\ ~ acted /\ journal.phase = "RollingBack"
      /\ TargetsRetired(journal) /\ (Zellij => journal.bridge = "Restored")
      /\ journal.old[m] = "ResumeIntent" /\ watch[b] \in Driving /\ b \in Brokers
  BY MayResumeFacts, BrokerNames DEF WatchResumes
<1>1. /\ old' = [old EXCEPT ![m] = "Running"] /\ watch' = [watch EXCEPT ![b] = "ack"]
      /\ UNCHANGED <<journal, oldR, tgtR, lock, coord, acted, failed, sess, inbox, owned, tgt,
                     installed, loaded, outcome, faults>>
  BY DEF WatchResumes, WatchIs
<1>2. /\ tgt[m] \notin {"Gated", "Committed"} /\ (Zellij => loaded[m] = "old")
      /\ old[m] \notin {"Stopping", "SupervisorOnly", "Exited"}
  BY <1>0, ResumableFacts
<1>3. watch[b] # "none"
  BY <1>0 DEF Driving
<1>4. m \notin inbox /\ m \notin oldR
  BY <1>2, <1>3 DEF Inv, BrokerOK, Gone
<1>5. watch \in [Brokers -> WatchStates] /\ journal # NoJournal
  BY <1>0 DEF Inv, TypeOK, WatchStates, LockInv
<1>6. \A c \in Brokers : watch'[c] = IF c = b THEN "ack" ELSE watch[c]
  BY <1>1, <1>5
<1>7. TypeOK'
  BY <1>1 DEF Inv, TypeOK
<1>8. LockInv'
  BY <1>0, <1>1, <1>6 DEF Inv, LockInv, Driving
<1>9. ActedInv'
  BY <1>0, <1>1 DEF ActedInv
<1>10. \A n \in Members : watch'[<<"target", n>>] = "ack" => watch[<<"target", n>>] = "ack"
  BY <1>6, BrokerNames
<1>11. \A n \in Members : n # m /\ watch'[<<"old", n>>] # "none" => watch[<<"old", n>>] # "none"
  BY <1>3, <1>6, BrokerNames
<1>12. "Running" \in OldStates
  BY DEF OldStates
<1> QED
  BY <1>0, <1>1, <1>2, <1>4, <1>5, <1>7, <1>8, <1>9, <1>10, <1>11, <1>12, OldStep

(* The coordinator resumes a previous broker. *)
LEMMA AbortDrainStep ==
  ASSUME Inv, NEW d, AbortDrain(d)
  PROVE  Inv'
<1> USE DEF disk, host
<1> DEFINE j == journal
           m == Action(d).m
<1>0. Drives(d) /\ j.phase = "RollingBack" /\ Action(d).do = "ResumeOld"
  BY DEF AbortDrain, RollsBack
<1>1. /\ lock = d /\ d # Free /\ m \in Members /\ Unsettled(j) = {}
      /\ TargetsRetired(j) /\ (Zellij => j.bridge = "Restored")
  BY <1>0, RollbackFacts
<1>2. /\ old' = [old EXCEPT ![m] = "Running"] /\ acted' = TRUE /\ d = Coordinator
      /\ UNCHANGED <<journal, oldR, tgtR, lock, coord, failed, sess, inbox, owned, watch, tgt,
                     installed, loaded, faults, outcome>>
      /\ old[m] \in {"Running", "Draining"} /\ j.old[m] = "ResumeIntent"
  BY DEF AbortDrain, Normal, Effect
<1> HIDE DEF m
<1>3. /\ tgt[m] \notin {"Gated", "Committed"} /\ (Zellij => loaded[m] = "old")
      /\ Zellij \/ j.bridge = "None"
  BY <1>0, <1>1, ResumableFacts
<1>4. m \notin oldR /\ (watch[<<"old", m>>] # "none" => m \notin inbox)
  BY <1>1, <1>2 DEF Inv, BrokerOK, Gone
<1>5. j # NoJournal
  BY <1>1 DEF Inv, LockInv
<1>6. TypeOK'
  BY <1>1, <1>2 DEF Inv, TypeOK
<1>7. LockInv'
  BY <1>1, <1>2 DEF Inv, LockInv
<1>8. ActedInv'
  BY <1>0, <1>1, <1>2, <1>3, BrokerNames DEF ActedInv
<1>9. "Running" \in OldStates
  BY DEF OldStates
<1> QED
  BY <1>0, <1>1, <1>2, <1>3, <1>4, <1>5, <1>6, <1>7, <1>8, <1>9, OldStep

(* A bridge file is installed, or a session reloads it. *)
LEMMA HostStep ==
  ASSUME Inv, lock # Free, TypeOK', LockInv', ActedInv',
         UNCHANGED <<disk, coord, failed, sess, inbox, owned, watch, old, tgt, outcome>>,
         NEW j, j = journal, BridgeRec(j)',
         Zellij => \A m \in Members : /\ old[m] = "Running" => loaded'[m] = "old"
                                      /\ tgt[m] = "Committed" => loaded'[m] = "target"
  PROVE  Inv'
<1> USE DEF disk
<1>1. \A m \in Members : BrokerOK(m)'
  BY DEF Inv, BrokerOK
<1>2. JournalOK(j) /\ Recorded(j) /\ outcome = "none" /\ j # NoJournal
  BY HeldFacts
<1>3. PhaseRec(j)'
  BY <1>2 DEF Recorded, PhaseRec
<1>4. \A n \in Members : TargetRec(j, n)'
  BY <1>2 DEF Recorded, TargetRec
<1>5. \A n \in Members : OldRec(j, n)'
  BY <1>2 DEF Recorded, OldRec
<1> QED
  BY <1>1, <1>2, <1>3, <1>4, <1>5, Stepped

(* The bridge file is replaced. *)
LEMMA InstallBridgeStep ==
  ASSUME Inv, InstallBridge
  PROVE  Inv'
<1>0. /\ lock # Free /\ acted' = TRUE
      /\ UNCHANGED <<disk, lock, coord, failed, sess, inbox, owned, watch, old, tgt, loaded, faults, outcome>>
      /\ \/ coord = "forward" /\ journal.bridge = "TargetInstallIntent" /\ installed' = "target"
         \/ journal.phase = "RollingBack" /\ journal.bridge = "OldInstallIntent" /\ installed' = "old"
  BY DEF InstallBridge, Effect, Forward
<1> USE DEF disk
<1>1. PICK j : j = journal
  OBVIOUS
<1>2. JournalOK(j) /\ Recorded(j) /\ Zellij
  BY <1>0, <1>1, HeldFacts, UnitAssumption DEF JournalOK, Ordered
<1>3. BridgeRec(j)'
  BY <1>0, <1>1, <1>2 DEF Recorded, BridgeRec
<1>4. TypeOK'
  BY <1>0 DEF Inv, TypeOK
<1>5. LockInv'
  BY <1>0 DEF Inv, LockInv
<1>6. ActedInv'
  <2>1. CASE coord = "forward" /\ j.bridge = "TargetInstallIntent" /\ installed' = "target"
    <3>1. j.phase # "RollingBack"
      BY <1>2, <2>1 DEF Recorded, PhaseRec
    <3>2. j.phase # "Committing"
      BY <1>2, <2>1 DEF JournalOK, validate, BridgeValid
    <3> QED
      BY <1>0, <1>1, <2>1, <3>1, <3>2 DEF ActedInv
  <2>2. CASE j.phase = "RollingBack" /\ j.bridge = "OldInstallIntent" /\ installed' = "old"
    <3>1. TargetsRetired(j)
      BY <1>2, <2>2 DEF JournalOK, validate, BridgeValid, RestoreStarted
    <3>2. \A m \in Members : j.target[m] # "RetireIntent"
      BY <3>1 DEF TargetsRetired
    <3> QED
      BY <1>0, <1>1, <2>2, <3>2 DEF ActedInv
  <2> QED
    BY <1>0, <1>1, <2>1, <2>2
<1>7. Zellij => \A m \in Members : /\ old[m] = "Running" => loaded'[m] = "old"
                                   /\ tgt[m] = "Committed" => loaded'[m] = "target"
  BY <1>0 DEF Inv, BrokerOK
<1> QED
  BY <1>0, <1>1, <1>3, <1>4, <1>5, <1>6, <1>7, HostStep

(* A session reloads it. *)
LEMMA ReloadBridgeStep ==
  ASSUME Inv, ReloadBridge
  PROVE  Inv'
<1>0. lock # Free /\ Free # Coordinator
  BY BrokerNames DEF ReloadBridge, Forward, Drives
<1> USE DEF disk
<1>1. PICK j : j = journal
  OBVIOUS
<1>2. /\ acted' = TRUE /\ j.active # NoMember /\ j.phase \in {"Activating", "RollingBack"}
      /\ UNCHANGED <<disk, lock, coord, failed, sess, inbox, owned, watch, old, tgt, installed, faults, outcome>>
      /\ loaded' = [loaded EXCEPT ![j.active] = installed]
      /\ j.bridge = (IF Forward THEN "TargetReloading" ELSE "OldReloading")
  BY <1>1 DEF ReloadBridge, Effect
<1>3. JournalOK(j) /\ Recorded(j) /\ Zellij /\ j.active \in Members
  BY <1>0, <1>1, <1>2, HeldFacts, UnitAssumption DEF JournalOK, Ordered
<1>4. PICK a \in Members : a = j.active
  BY <1>3
<1>5. \A n \in Members : loaded'[n] = IF n = a THEN installed ELSE loaded[n]
  BY <1>2, <1>4 DEF Inv, TypeOK
<1>6. TypeOK'
  BY <1>2, <1>4 DEF Inv, TypeOK
<1>7. LockInv'
  BY <1>0, <1>2 DEF Inv, LockInv
<1>8. CASE Forward
  <2>1. j.bridge = "TargetReloading" /\ j.phase = "Activating" /\ installed = "target"
    BY <1>2, <1>3, <1>8 DEF Forward, Recorded, PhaseRec, BridgeRec
  <2>2. old[a] # "Running"
    BY <1>3, <2>1 DEF JournalOK, validate, MembersValid, Recorded, OldRec
  <2>3. BridgeRec(j)'
    BY <1>2, <1>3, <1>5, <2>1 DEF Recorded, BridgeRec
  <2>4. ActedInv'
    BY <1>1, <1>2, <1>4, <1>5, <2>1 DEF ActedInv
  <2>5. \A m \in Members : /\ old[m] = "Running" => loaded'[m] = "old"
                           /\ tgt[m] = "Committed" => loaded'[m] = "target"
    BY <1>3, <1>5, <2>1, <2>2 DEF Inv, BrokerOK
  <2> QED
    BY <1>0, <1>1, <1>2, <1>6, <1>7, <2>3, <2>4, <2>5, HostStep
<1>9. CASE ~ Forward
  <2>1. j.bridge = "OldReloading" /\ installed = "old"
    BY <1>2, <1>3, <1>9 DEF Recorded, BridgeRec
  <2>2. j.phase = "RollingBack"
    BY <1>2, <1>3, <2>1 DEF JournalOK, validate, BridgeValid
  <2>3. TargetsRetired(j)
    BY <1>3, <2>1, <2>2 DEF JournalOK, validate, BridgeValid, RestoreStarted
  <2>4. \A m \in Members : j.target[m] # "RetireIntent"
    BY <2>3 DEF TargetsRetired
  <2>5. tgt[a] # "Committed"
    BY <1>3, <2>2 DEF Recorded, TargetRec
  <2>6. BridgeRec(j)'
    BY <1>2, <1>3, <1>5, <2>1 DEF Recorded, BridgeRec
  <2>7. ActedInv'
    BY <1>1, <1>2, <1>4, <1>5, <2>1, <2>2, <2>4 DEF ActedInv
  <2>8. \A m \in Members : /\ old[m] = "Running" => loaded'[m] = "old"
                           /\ tgt[m] = "Committed" => loaded'[m] = "target"
    BY <1>3, <1>5, <2>1, <2>5 DEF Inv, BrokerOK
  <2> QED
    BY <1>0, <1>1, <1>2, <1>6, <1>7, <2>6, <2>7, <2>8, HostStep
<1> QED
  BY <1>8, <1>9

(* A stopped replacement gets its receipt. *)
LEMMA WriteTargetReceiptStep ==
  ASSUME Inv, NEW d, WriteTargetReceipt(d)
  PROVE  Inv'
<1> USE DEF disk, host, procs
<1> DEFINE j == journal
           m == Action(d).m
<1>0. Drives(d) /\ j.phase = "RollingBack" /\ Action(d).do = "RetireTarget"
  BY DEF WriteTargetReceipt, RollsBack
<1>1. /\ lock = d /\ d # Free /\ m \in Members /\ j.target[m] = "RetireIntent" /\ acted
      /\ Unsettled(j) # {} /\ m = First(Unsettled(j)) /\ j.old[m] # "PrepareIntent"
  BY <1>0, RollbackFacts DEF WriteTargetReceipt
<1>2. /\ tgtR' = tgtR \cup {m} /\ owned' = owned \ {m}
      /\ UNCHANGED <<journal, oldR, lock, coord, acted, failed, sess, inbox, old, tgt, watch,
                     installed, loaded, faults, outcome>>
  BY DEF WriteTargetReceipt
<1> HIDE DEF m
<1>3. tgt[m] \in {"Retired", "Dead"}
  BY <1>0, <1>1 DEF Inv, ActedInv
<1>4. PICK k : k = journal
  OBVIOUS
<1>5. JournalOK(k) /\ Recorded(k) /\ k # NoJournal /\ outcome = "none"
  BY <1>1, <1>4, HeldFacts
<1>6. TypeOK'
  BY <1>1, <1>2 DEF Inv, TypeOK
<1>7. LockInv'
  BY <1>2 DEF Inv, LockInv
<1>8. ActedInv'
  BY <1>2, ActedKept
<1>9. \A n \in Members : BrokerOK(n)'
  BY <1>2, <1>3 DEF Inv, BrokerOK
<1>10. PhaseRec(k)' /\ BridgeRec(k)'
  BY <1>2, <1>5 DEF Recorded, PhaseRec, BridgeRec
<1>11. \A n \in Members : OldRec(k, n)'
  BY <1>2, <1>5 DEF Recorded, OldRec
<1>12. \A n \in Members : TargetRec(k, n)'
  BY <1>0, <1>1, <1>2, <1>4, <1>5 DEF Recorded, TargetRec
<1> QED
  BY <1>2, <1>4, <1>5, <1>6, <1>7, <1>8, <1>9, <1>10, <1>11, <1>12, Stepped

(* A terminal journal needs no receipts. *)
LEMMA RemoveReceiptsStep ==
  ASSUME Inv, RemoveReceipts
  PROVE  Inv'
<1> USE DEF disk, host, procs, run
<1>2. /\ lock # Free /\ journal.phase \in {"Committed", "RolledBack"}
      /\ oldR' = {} /\ tgtR' = {}
      /\ UNCHANGED <<journal, lock, coord, acted, failed, sess, inbox, owned, old, tgt, watch,
                     installed, loaded, faults, outcome>>
  BY DEF RemoveReceipts
<1>4. PICK k : k = journal
  OBVIOUS
<1>5. JournalOK(k) /\ Recorded(k) /\ k # NoJournal /\ outcome = "none"
  BY <1>2, <1>4, HeldFacts
<1>6. TypeOK'
  BY <1>2 DEF Inv, TypeOK
<1>7. LockInv'
  BY <1>2 DEF Inv, LockInv
<1>8. ActedInv'
  BY <1>2, ActedKept
<1>9. \A n \in Members : BrokerOK(n)'
  BY <1>2 DEF Inv, BrokerOK
<1>10. PhaseRec(k)' /\ BridgeRec(k)'
  BY <1>2, <1>5 DEF Recorded, PhaseRec, BridgeRec
<1>11. \A n \in Members : OldRec(k, n)'
  BY <1>2, <1>4, <1>5 DEF Recorded, OldRec
<1>12. \A n \in Members : TargetRec(k, n)'
  BY <1>2, <1>4, <1>5 DEF Recorded, TargetRec
<1> QED
  BY <1>2, <1>4, <1>5, <1>6, <1>7, <1>8, <1>9, <1>10, <1>11, <1>12, Stepped

(* What a terminal journal said stays true without it. *)
LEMMA RemoveJournalStep ==
  ASSUME Inv, RemoveJournal
  PROVE  Inv'
<1> USE DEF disk, host, procs, run
<1>0. /\ Free # Coordinator /\ Free \notin Brokers /\ Coordinator \notin Brokers
  BY BrokerNames
<1>1. /\ lock # Free /\ journal.phase \in {"Committed", "RolledBack"} /\ oldR = {} /\ tgtR = {}
      /\ journal' = NoJournal /\ lock' = Free /\ coord' = "idle" /\ acted' = FALSE /\ failed' = {}
      /\ outcome' = (IF journal.phase = "Committed" THEN "committed" ELSE "rolledBack")
      /\ watch' = (IF lock = Coordinator THEN Disconnected(sess) ELSE [watch EXCEPT ![lock] = "none"])
      /\ sess' = (IF lock = Coordinator THEN {} ELSE sess)
      /\ UNCHANGED <<oldR, tgtR, inbox, owned, old, tgt, installed, loaded, faults>>
  BY DEF RemoveJournal
<1>2. JournalOK(journal) /\ Recorded(journal)
  BY <1>1, HeldFacts
<1>3. lock = Coordinator \/ lock \in Brokers
  BY <1>1 DEF Inv, TypeOK
<1>4. watch \in [Brokers -> WatchStates]
  BY DEF Inv, TypeOK, WatchStates
<1>5. /\ watch' \in [Brokers -> WatchStates]
      /\ \A b \in Brokers : watch'[b] \notin Driving
      /\ \A n \in Members : watch'[<<"target", n>>] = "ack" => watch[<<"target", n>>] = "ack"
      /\ \A n \in Members : watch'[<<"old", n>>] # "none" =>
                \/ watch[<<"old", n>>] # "none"
                \/ n \notin inbox /\ old[n] \in {"Draining", "Stopping", "SupervisorOnly"}
  <2>1. CASE lock = Coordinator
    <3>1. PICK w : w = Disconnected(sess)
      OBVIOUS
    <3>2. watch' = w /\ sess \in SUBSET Members
      BY <1>1, <2>1, <3>1 DEF Inv, TypeOK
    <3> QED
      BY <2>1, <3>1, <3>2, DisconnectedWatch
  <2>2. CASE lock \in Brokers
    <3>1. watch' = [watch EXCEPT ![lock] = "none"]
      BY <1>0, <1>1, <2>2
    <3>2. \A c \in Brokers : watch'[c] = IF c = lock THEN "none" ELSE watch[c]
      BY <1>4, <3>1
    <3>3. watch' \in [Brokers -> WatchStates]
      BY <1>4, <3>1 DEF WatchStates
    <3>4. \A b \in Brokers : watch'[b] \notin Driving
      BY <3>2 DEF Inv, LockInv, Driving
    <3> QED
      BY <3>2, <3>3, <3>4, BrokerNames
  <2> QED
    BY <1>3, <2>1, <2>2
<1>6. TypeOK'
  BY <1>1, <1>5 DEF Inv, TypeOK, WatchStates
<1>7. owned = {}
  <2>1. \A m \in Members : m \notin owned
    BY <1>1, <1>2 DEF Recorded, TargetRec
  <2> QED
    BY <2>1 DEF Inv, TypeOK
<1>8. LockInv'
  <2>1. sess' = {}
    BY <1>0, <1>1, <1>3 DEF Inv, LockInv
  <2> QED
    BY <1>0, <1>1, <1>5, <1>7, <2>1 DEF LockInv
<1>9. ActedInv'
  BY <1>1 DEF ActedInv
<1>10. \A n \in Members : BrokerOK(n)'
  BY <1>1, <1>5 DEF Inv, BrokerOK
<1>11. AtRest'
  <2>1. CASE journal.phase = "Committed"
    <3>1. \A m \in Members : old[m] \in Gone /\ tgt[m] \in {"Committed", "Dead"}
      BY <1>2, <2>1 DEF Recorded, OldRec, TargetRec, JournalOK, validate, MembersValid
    <3> QED
      BY <1>1, <2>1, <3>1 DEF AtRest
  <2>2. CASE journal.phase = "RolledBack"
    <3>1. \A m \in Members : /\ tgt[m] \in {"none", "Retired", "Dead"}
                             /\ old[m] \in {"Running", "Draining", "Dead"}
      <4>1. \A m \in Members : journal.target[m] \in {"Absent", "Retired"}
        BY <1>2, <2>2 DEF JournalOK, validate, MembersValid
      <4>2. \A m \in Members : OldRec(journal, m) /\ TargetRec(journal, m)
        BY <1>2 DEF Recorded
      <4>3. old \in [Members -> OldStates]
        BY DEF Inv, TypeOK, OldStates
      <4> QED
        BY <2>2, <4>1, <4>2, <4>3 DEF OldRec, TargetRec, OldStates
    <3>2. Zellij => \A m \in Members : loaded[m] = "old"
      BY <1>2, <2>2 DEF Recorded, BridgeRec, JournalOK, validate, BridgeValid
    <3> QED
      BY <1>1, <2>2, <3>1, <3>2 DEF AtRest
  <2> QED
    BY <1>1, <2>1, <2>2
<1> QED
  BY <1>1, <1>6, <1>8, <1>9, <1>10, <1>11, Rested

(* An activation starts from a unit in service. *)
LEMMA BeginStep ==
  ASSUME Inv, Begin
  PROVE  Inv'
<1> USE DEF disk, host, procs
<1>0. Free # Coordinator /\ Free \notin Brokers /\ Coordinator \notin Brokers
  BY BrokerNames
<1>1. /\ lock = Free /\ coord = "idle" /\ journal = NoJournal /\ outcome = "none"
      /\ \A m \in Members : old[m] = "Running"
      /\ journal' = NewJournal /\ lock' = Coordinator /\ coord' = "forward"
      /\ UNCHANGED <<oldR, tgtR, acted, failed, sess, inbox, owned, old, tgt, watch, installed, loaded,
                     faults, outcome>>
  BY DEF Begin
<1>2. AtRest /\ ~ acted
  BY <1>1 DEF Inv, JournalInv, LockInv
<1>3. /\ oldR = {} /\ tgtR = {} /\ (\A b \in Brokers : watch[b] = "none") /\ sess = {} /\ owned = {}
      /\ \A m \in Members : tgt[m] = "none" /\ loaded[m] = "old"
  BY <1>1, <1>2 DEF AtRest, Inv, LockInv
<1>4. PICK k : k = NewJournal
  OBVIOUS
<1>5. /\ k.phase = "Preparing" /\ k.bridge \in {"ArtifactsPending", "None"}
      /\ \A m \in Members : k.old[m] = "Pending" /\ k.target[m] = "Absent"
  BY <1>4 DEF NewJournal
<1>6. k \in Journal /\ JournalOK(k) /\ k # NoJournal
  BY <1>4, <1>5, NewJournalOK DEF NoJournal
<1>7. TypeOK'
  BY <1>1, <1>4, <1>6 DEF Inv, TypeOK
<1>8. LockInv'
  BY <1>0, <1>1, <1>3, <1>4, <1>6 DEF LockInv, Driving
<1>9. ActedInv'
  BY <1>1, <1>2 DEF ActedInv
<1>10. \A m \in Members : BrokerOK(m)'
  BY <1>1 DEF Inv, BrokerOK
<1>11. PhaseRec(k)'
  BY <1>1, <1>3, <1>5, BrokerNames DEF PhaseRec
<1>12. BridgeRec(k)'
  BY <1>1, <1>3, <1>5 DEF BridgeRec
<1>13. \A m \in Members : OldRec(k, m)'
  BY <1>1, <1>3, <1>5, BrokerNames DEF OldRec
<1>14. \A m \in Members : TargetRec(k, m)'
  BY <1>1, <1>3, <1>5 DEF TargetRec
<1> QED
  BY <1>1, <1>4, <1>6, <1>7, <1>8, <1>9, <1>10, <1>11, <1>12, <1>13, <1>14, Stepped

(* A write together with a change of the driver's own state. *)
LEMMA JournalStep ==
  ASSUME Inv, lock # Free, NEW k \in Journal, JournalOK(k), journal' = k, LockInv', ActedInv',
         UNCHANGED <<oldR, tgtR, inbox, old, tgt, installed, loaded, outcome, lock, failed, faults>>,
         owned' \subseteq owned, sess' \subseteq sess, acted' \in BOOLEAN,
         coord' \in {"idle", "forward", "rollback", "recover"},
         watch' \in [Brokers -> WatchStates],
         \A n \in Members : watch'[<<"old", n>>] # "none" => watch[<<"old", n>>] # "none",
         \A n \in Members : watch'[<<"target", n>>] = "ack" => watch[<<"target", n>>] = "ack",
         PhaseRec(k)', BridgeRec(k), \A m \in Members : OldRec(k, m)' /\ TargetRec(k, m)'
  PROVE  Inv'
<1>1. TypeOK'
  BY DEF Inv, TypeOK, WatchStates
<1>2. \A m \in Members : BrokerOK(m)'
  BY DEF Inv, BrokerOK
<1>3. BridgeRec(k)'
  BY DEF BridgeRec
<1>4. k # NoJournal /\ outcome = "none"
  BY HeldFacts DEF Journal, Phases, NoJournal
<1> QED
  BY <1>1, <1>2, <1>3, <1>4, Stepped

(* A replacement that answers is recorded as ready. *)
LEMMA RecordReadyStep ==
  ASSUME Inv, NEW m \in Members, RecordReady(m)
  PROVE  Inv'
<1> USE DEF disk, host, procs, run
<1>0. /\ lock # Free /\ journal.phase = "Activating" /\ journal.bridge \in {"None", "TargetReloaded"}
      /\ journal.target[m] = "Gated" /\ tgt[m] = "Gated"
  <2>1. m \in TargetAt({"Gated"})
    BY FirstIn DEF RecordReady, AwaitsReady, TargetAt
  <2> QED
    BY <2>1, BrokerNames DEF RecordReady, AwaitsReady, Forward, TargetAt
<1>1. PICK j : j = journal
  OBVIOUS
<1>2. PICK k : k = [j EXCEPT !.target[m] = "Ready"]
  OBVIOUS
<1>3. j \in Journal /\ JournalOK(j) /\ Recorded(j) /\ j.target \in [Members -> TargetProgress]
  BY <1>0, <1>1, HeldFacts
<1>4. "Ready" \in TargetProgress
  BY DEF TargetProgress
<1>5. /\ k \in Journal /\ k.phase = j.phase /\ k.old = j.old
      /\ k.target = [j.target EXCEPT ![m] = "Ready"]
      /\ k.bridge = j.bridge /\ k.active = j.active /\ k.completed = j.completed
  BY <1>2, <1>3, <1>4, TargetWrite
<1>6. JournalOK(k)
  BY <1>0, <1>1, <1>2, <1>3, <1>4, TargetWriteOK
<1>7. PICK w : w = Touched(m)
  OBVIOUS
<1>8. /\ journal' = k /\ watch' = w
      /\ UNCHANGED <<oldR, tgtR, lock, coord, acted, failed, sess, inbox, owned, old, tgt, installed,
                     loaded, faults, outcome>>
  BY <1>1, <1>2, <1>7 DEF RecordReady, TargetIs
<1>9. /\ w \in [Brokers -> WatchStates]
      /\ \A n \in Members : w[<<"old", n>>] = watch[<<"old", n>>]
      /\ \A b \in Brokers : (w[b] \in Driving) <=> (watch[b] \in Driving)
      /\ \A n \in Members : (w[<<"target", n>>] = "ack") <=> (watch[<<"target", n>>] = "ack")
  BY <1>7, TouchedWatch
<1>10. LockInv'
  <2>1. k # NoJournal
    BY <1>5 DEF Journal, Phases, NoJournal
  <2> QED
    BY <1>8, <1>9, <2>1 DEF Inv, LockInv
<1>11. ActedInv'
  BY <1>0, <1>1, <1>5, <1>8 DEF ActedInv
<1>12. PhaseRec(k)'
  BY <1>3, <1>5, <1>8, <1>9 DEF Recorded, PhaseRec
<1>13. BridgeRec(k)
  BY <1>3, <1>5 DEF Recorded, BridgeRec
<1>14. ASSUME NEW n \in Members PROVE OldRec(k, n)'
  <2>1. OldRec(j, n)
    BY <1>3 DEF Recorded
  <2>2. watch'[<<"old", n>>] = watch[<<"old", n>>]
    BY <1>8, <1>9
  <2> QED
    BY <1>5, <1>8, <2>1, <2>2 DEF OldRec
<1>15. \A n \in Members : TargetRec(k, n)'
  BY <1>3, <1>5, <1>8 DEF Recorded, TargetRec
<1>16. acted \in BOOLEAN /\ coord \in {"idle", "forward", "rollback", "recover"}
  BY DEF Inv, TypeOK
<1> QED
  BY <1>0, <1>5, <1>6, <1>8, <1>9, <1>10, <1>11, <1>12, <1>13, <1>14, <1>15, <1>16, JournalStep

(* The decision: the unit belongs to the replacements. *)
LEMMA PersistReadyStep ==
  ASSUME Inv, PersistReady
  PROVE  Inv'
<1> USE DEF disk, host, procs
<1>0. /\ lock # Free /\ journal.phase = "Activating" /\ coord = "forward"
      /\ \A m \in Members : journal.target[m] = "Ready" /\ tgt[m] = "Gated"
  BY BrokerNames DEF PersistReady, Forward, TargetAt
<1>1. PICK j : j = journal
  OBVIOUS
<1>2. PICK k : k = [j EXCEPT !["phase"] = "Ready"]
  OBVIOUS
<1>3. j \in Journal /\ JournalOK(j) /\ Recorded(j)
  BY <1>0, <1>1, HeldFacts
<1>4. "Ready" \in Phases
  BY DEF Phases
<1>5. /\ k \in Journal /\ k.phase = "Ready" /\ k.old = j.old /\ k.target = j.target
      /\ k.bridge = j.bridge /\ k.active = j.active /\ k.completed = j.completed
  BY <1>2, <1>3, <1>4, PhaseWrite
<1>6. JournalOK(k)
  BY <1>0, <1>1, <1>2, <1>3, <1>4, PhaseWriteOK
<1>8. /\ journal' = k /\ owned' = {}
      /\ UNCHANGED <<oldR, tgtR, lock, coord, acted, failed, sess, inbox, old, tgt, watch, installed,
                     loaded, faults, outcome>>
  BY <1>1, <1>2 DEF PersistReady, With
<1>10. LockInv'
  <2>1. k # NoJournal
    BY <1>5 DEF Journal, Phases, NoJournal
  <2> QED
    BY <1>8, <2>1 DEF Inv, LockInv
<1>11. ActedInv'
  BY <1>5, <1>8 DEF ActedInv
<1>12. PhaseRec(k)'
  BY <1>0, <1>1, <1>3, <1>5, <1>8 DEF Recorded, PhaseRec
<1>13. BridgeRec(k)
  BY <1>3, <1>5 DEF Recorded, BridgeRec
<1>14. \A n \in Members : OldRec(k, n)'
  BY <1>0, <1>1, <1>3, <1>5, <1>8 DEF Recorded, OldRec
<1>15. \A n \in Members : TargetRec(k, n)'
  BY <1>0, <1>1, <1>3, <1>5, <1>8 DEF Recorded, TargetRec
<1>16. /\ acted \in BOOLEAN /\ coord \in {"idle", "forward", "rollback", "recover"}
       /\ watch \in [Brokers -> WatchStates]
  BY DEF Inv, TypeOK, WatchStates
<1> QED
  BY <1>0, <1>5, <1>6, <1>8, <1>10, <1>11, <1>12, <1>13, <1>14, <1>15, <1>16, JournalStep

(* A coordinator that fails before the decision turns to the rollback. *)
LEMMA ForwardGivesUp ==
  ASSUME Inv, Forward, journal.phase \in {"Preparing", "Activating"},
         journal' = With("phase", "RollingBack"), coord' = "rollback", acted' = FALSE, sess' \subseteq sess,
         UNCHANGED <<oldR, tgtR, lock, failed, inbox, owned, procs, host, faults, outcome>>
  PROVE  Inv'
<1> USE DEF disk, host, procs
<1>0. lock # Free /\ coord = "forward" /\ lock = Coordinator
  BY BrokerNames DEF Forward
<1>1. PICK j : j = journal
  OBVIOUS
<1>2. PICK k : k = [j EXCEPT !["phase"] = "RollingBack"]
  OBVIOUS
<1>3. j \in Journal /\ JournalOK(j) /\ Recorded(j)
  BY <1>0, <1>1, HeldFacts
<1>4. "RollingBack" \in Phases
  BY DEF Phases
<1>5. /\ k \in Journal /\ k.phase = "RollingBack" /\ k.old = j.old /\ k.target = j.target
      /\ k.authority = j.authority
      /\ k.bridge = j.bridge /\ k.active = j.active /\ k.completed = j.completed
  BY <1>2, <1>3, <1>4, PhaseWrite
<1>6. JournalOK(k)
  BY <1>1, <1>2, <1>3, <1>4, PhaseWriteOK
<1>7. /\ BridgeRec(k) /\ \A m \in Members : OldRec(k, m) /\ TargetRec(k, m)
      /\ \A m \in Members : watch[<<"target", m>>] # "ack"
  BY <1>0, <1>1, <1>4, <1>5, PhaseRecorded
<1>8. journal' = k
  BY <1>1, <1>2 DEF With
<1>10. LockInv'
  <2>1. k # NoJournal
    BY <1>5 DEF Journal, Phases, NoJournal
  <2> QED
    BY <1>0, <1>8, <2>1 DEF Inv, LockInv
<1>11. ActedInv'
  BY DEF ActedInv
<1>12. PhaseRec(k)'
  BY <1>5, <1>7 DEF PhaseRec
<1>14. \A n \in Members : OldRec(k, n)'
  BY <1>7 DEF OldRec
<1>15. \A n \in Members : TargetRec(k, n)'
  BY <1>0, <1>7 DEF TargetRec
<1>16. watch \in [Brokers -> WatchStates]
  BY DEF Inv, TypeOK, WatchStates
<1> QED
  BY <1>0, <1>5, <1>6, <1>7, <1>8, <1>10, <1>11, <1>12, <1>14, <1>15, <1>16, JournalStep

(* The two ways it does. *)
LEMMA ForwardFailsSteps ==
  ASSUME Inv
  PROVE  (ForwardFails => Inv') /\ \A m \in Members : PrepareRefused(m) => Inv'
<1>1. ASSUME ForwardFails PROVE Inv'
  BY <1>1, ForwardGivesUp DEF ForwardFails
<1>2. ASSUME NEW m \in Members, PrepareRefused(m) PROVE Inv'
  BY <1>2, ForwardGivesUp DEF PrepareRefused
<1> QED
  BY <1>1, <1>2

(* Whoever finishes the commit waits for no acknowledgement. *)
LEMMA FinishesFacts ==
  ASSUME Inv, Finishes(lock)
  PROVE  /\ lock # Free /\ journal.phase = "Committing"
         /\ \A m \in Members : journal.old[m] = "Committed" /\ journal.target[m] = "Committed"
         /\ \A m \in Members : watch[<<"target", m>>] # "ack"
<1>1. /\ lock # Free /\ journal.phase = "Committing" /\ Coordinator \notin Brokers
      /\ \A m \in Members : journal.old[m] = "Committed" /\ journal.target[m] = "Committed"
      /\ lock \in Brokers => watch[lock] = "finish"
  BY BrokerNames DEF Finishes, AllCommitted, OldAt, TargetAt
<1>2. ASSUME NEW m \in Members, watch[<<"target", m>>] = "ack" PROVE FALSE
  <2>1. lock = <<"target", m>>
    BY <1>2, BrokerNames DEF Inv, LockInv, Driving
  <2> QED
    BY <1>1, <1>2, <2>1, BrokerNames
<1> QED
  BY <1>1, <1>2

(* The commit is published and ended. *)
LEMMA FinishSteps ==
  ASSUME Inv
  PROVE  (PublishCommitArtifacts => Inv') /\ (EnterCommitted => Inv')
<1> USE DEF disk, host, procs, run
<1>1. PICK j : j = journal
  OBVIOUS
<1>2. /\ acted \in BOOLEAN /\ coord \in {"idle", "forward", "rollback", "recover"}
      /\ watch \in [Brokers -> WatchStates]
  BY DEF Inv, TypeOK, WatchStates
<1>3. ASSUME PublishCommitArtifacts PROVE Inv'
  <2>0. /\ lock # Free /\ j.phase = "Committing"
        /\ \A m \in Members : j.old[m] = "Committed" /\ j.target[m] = "Committed"
    BY <1>1, <1>3, FinishesFacts DEF PublishCommitArtifacts
  <2>1. PICK b : b = Published[j.bridge]
    OBVIOUS
  <2>2. /\ b \in {"PreviousPublishIntent", "PreviousPublished", "ReceiptIntent", "ReceiptPublished"}
        /\ j.bridge # "None"
    BY <1>1, <1>3, <2>1 DEF PublishCommitArtifacts, Published
  <2>3. b \in BridgeProgress
    BY <2>2 DEF BridgeProgress
  <2>4. j \in Journal /\ JournalOK(j) /\ Recorded(j)
    BY <1>1, <2>0, HeldFacts
  <2>5. Zellij
    BY <2>2, <2>4, UnitAssumption DEF JournalOK, Ordered
  <2>6. PICK k : k = [j EXCEPT !["bridge"] = b]
    OBVIOUS
  <2>7. /\ k \in Journal /\ k.phase = j.phase /\ k.old = j.old /\ k.target = j.target
        /\ k.bridge = b /\ k.active = j.active /\ k.completed = j.completed
    BY <2>3, <2>4, <2>6, BridgeWrite
  <2>8. JournalOK(k)
    BY <2>0, <2>2, <2>3, <2>4, <2>5, <2>6, BridgeWriteOK
  <2>9. BridgeRec(k)
    BY <1>1, <2>0, <2>2, <2>3, <2>5, <2>7, BridgeClaims
  <2>10. /\ journal' = k
         /\ UNCHANGED <<oldR, tgtR, lock, coord, acted, failed, sess, inbox, owned, old, tgt, watch,
                        installed, loaded, faults, outcome>>
    BY <1>1, <1>3, <2>1, <2>6 DEF PublishCommitArtifacts, With
  <2>11. LockInv'
    <3>1. k # NoJournal
      BY <2>7 DEF Journal, Phases, NoJournal
    <3> QED
      BY <2>10, <3>1 DEF Inv, LockInv
  <2>12. ActedInv'
    BY <2>0, <2>7, <2>10 DEF ActedInv
  <2>13. PhaseRec(k)'
    BY <2>4, <2>7, <2>10 DEF Recorded, PhaseRec
  <2>14. \A n \in Members : OldRec(k, n)'
    BY <2>4, <2>7, <2>10 DEF Recorded, OldRec
  <2>15. \A n \in Members : TargetRec(k, n)'
    BY <2>4, <2>7, <2>10 DEF Recorded, TargetRec
  <2> QED
    BY <1>2, <2>0, <2>7, <2>8, <2>9, <2>10, <2>11, <2>12, <2>13, <2>14, <2>15, JournalStep
<1>4. ASSUME EnterCommitted PROVE Inv'
  <2>0. /\ lock # Free /\ j.phase = "Committing" /\ j.bridge \in {"None", "ReceiptPublished"}
        /\ \A m \in Members : j.old[m] = "Committed" /\ j.target[m] = "Committed"
        /\ \A m \in Members : watch[<<"target", m>>] # "ack"
    BY <1>1, <1>4, FinishesFacts DEF EnterCommitted
  <2>3. "Committed" \in Phases
    BY DEF Phases
  <2>4. j \in Journal /\ JournalOK(j) /\ Recorded(j)
    BY <1>1, <2>0, HeldFacts
  <2>5. \A m \in Members : m \in oldR /\ m \notin tgtR /\ m \notin owned
    BY <1>1, <2>0, <2>4, CommittingFacts DEF Recorded, OldRec
  <2>6. PICK k : k = [j EXCEPT !["phase"] = "Committed"]
    OBVIOUS
  <2>7. /\ k \in Journal /\ k.phase = "Committed" /\ k.old = j.old /\ k.target = j.target
        /\ k.bridge = j.bridge /\ k.active = j.active /\ k.completed = j.completed
    BY <2>3, <2>4, <2>6, PhaseWrite
  <2>8. JournalOK(k)
    BY <2>0, <2>3, <2>4, <2>6, PhaseWriteOK
  <2>9. BridgeRec(k)
    BY <2>4, <2>7 DEF Recorded, BridgeRec
  <2>10. /\ journal' = k
         /\ UNCHANGED <<oldR, tgtR, lock, coord, acted, failed, sess, inbox, owned, old, tgt, watch,
                        installed, loaded, faults, outcome>>
    BY <1>1, <1>4, <2>6 DEF EnterCommitted, With
  <2>11. LockInv'
    <3>1. k # NoJournal
      BY <2>7 DEF Journal, Phases, NoJournal
    <3> QED
      BY <2>10, <3>1 DEF Inv, LockInv
  <2>12. ActedInv'
    BY <2>7, <2>10 DEF ActedInv
  <2>13. PhaseRec(k)'
    BY <2>0, <2>4, <2>7, <2>10 DEF Recorded, PhaseRec
  <2>14. \A n \in Members : OldRec(k, n)'
    <3>1. \A n \in Members : old[n] \in Gone
      BY <2>5 DEF Inv, BrokerOK
    <3> QED
      BY <2>4, <2>7, <2>10, <3>1 DEF Recorded, OldRec
  <2>15. \A n \in Members : TargetRec(k, n)'
    BY <2>4, <2>5, <2>7, <2>10 DEF Recorded, TargetRec
  <2> QED
    BY <1>2, <2>0, <2>7, <2>8, <2>9, <2>10, <2>11, <2>12, <2>13, <2>14, <2>15, JournalStep
<1> QED
  BY <1>3, <1>4

(* The intent to stop a replacement. *)
LEMMA RetireIntentStep ==
  ASSUME Inv, lock # Free, NEW m \in Members, NEW by \in {"OwnedProcess", "RemoteServer"},
         journal.phase = "RollingBack", journal.target[m] \notin {"Absent", "Retired"},
         RetireIntent(m, by)
  PROVE  Inv'
<1> USE DEF disk, host, procs, run
<1>1. PICK j : j = journal
  OBVIOUS
<1>2. PICK k : k = [j EXCEPT !.target[m] = "RetireIntent", !.authority[m] = by]
  OBVIOUS
<1>3. j \in Journal /\ JournalOK(j) /\ Recorded(j) /\ j.target \in [Members -> TargetProgress]
  BY <1>1, HeldFacts
<1>4. by \in Authority /\ by # "none"
  BY DEF Authority
<1>5. /\ k \in Journal /\ k.phase = j.phase /\ k.old = j.old
      /\ k.target = [j.target EXCEPT ![m] = "RetireIntent"]
      /\ k.bridge = j.bridge /\ k.active = j.active /\ k.completed = j.completed
  BY <1>2, <1>3, <1>4 DEF Journal, TargetProgress
<1>6. JournalOK(k)
  BY <1>1, <1>2, <1>3, <1>4, RetireWriteOK
<1>7. PICK w : w = (IF by = "RemoteServer" THEN Touched(m) ELSE watch)
  OBVIOUS
<1>8. /\ journal' = k /\ watch' = w /\ acted' = FALSE
      /\ UNCHANGED <<oldR, tgtR, lock, coord, failed, sess, inbox, owned, old, tgt, installed,
                     loaded, faults, outcome>>
  BY <1>1, <1>2, <1>7 DEF RetireIntent
<1>9. /\ w \in [Brokers -> WatchStates]
      /\ \A n \in Members : w[<<"old", n>>] = watch[<<"old", n>>]
      /\ \A b \in Brokers : (w[b] \in Driving) <=> (watch[b] \in Driving)
      /\ \A n \in Members : (w[<<"target", n>>] = "ack") <=> (watch[<<"target", n>>] = "ack")
  <2>1. CASE by = "RemoteServer"
    BY <1>7, <2>1, TouchedWatch
  <2>2. CASE by # "RemoteServer"
    BY <1>7, <2>2 DEF Inv, TypeOK, WatchStates
  <2> QED
    BY <2>1, <2>2
<1>10. LockInv'
  <2>1. k # NoJournal
    BY <1>5 DEF Journal, Phases, NoJournal
  <2> QED
    BY <1>8, <1>9, <2>1 DEF Inv, LockInv
<1>11. ActedInv'
  BY <1>8 DEF ActedInv
<1>12. PhaseRec(k)'
  BY <1>3, <1>5, <1>8, <1>9 DEF Recorded, PhaseRec
<1>13. BridgeRec(k)
  BY <1>3, <1>5 DEF Recorded, BridgeRec
<1>14. ASSUME NEW n \in Members PROVE OldRec(k, n)'
  <2>1. OldRec(j, n)
    BY <1>3 DEF Recorded
  <2>2. watch'[<<"old", n>>] = watch[<<"old", n>>]
    BY <1>8, <1>9
  <2> QED
    BY <1>5, <1>8, <2>1, <2>2 DEF OldRec
<1>15. \A n \in Members : TargetRec(k, n)'
  BY <1>3, <1>5, <1>8 DEF Recorded, TargetRec
<1>16. coord \in {"idle", "forward", "rollback", "recover"}
  BY DEF Inv, TypeOK
<1> QED
  BY <1>5, <1>6, <1>8, <1>9, <1>10, <1>11, <1>12, <1>13, <1>14, <1>15, <1>16, JournalStep

(* A rollback finds a replacement to stop, or that none was started. *)
LEMMA RetirementBegins ==
  ASSUME Inv, NEW d
  PROVE  (ResolveTargetSpawn(d) => Inv') /\ (BeginRetirement(d) => Inv')
<1> DEFINE j == journal
           m == Action(d).m
<1>1. ASSUME ResolveTargetSpawn(d) PROVE Inv'
  <2>0. Drives(d) /\ j.phase = "RollingBack" /\ Action(d).do = "ResolveTargetSpawn"
    BY <1>1 DEF ResolveTargetSpawn, RollsBack
  <2>1. lock = d /\ d # Free /\ m \in Members /\ j.target[m] = "SpawnIntent"
    BY <2>0, RollbackFacts
  <2>2. \/ coord = "rollback" /\ m \notin owned /\ Write([j EXCEPT !.target[m] = "Absent"])
        \/ RetireIntent(m, "RemoteServer")
    BY <1>1 DEF ResolveTargetSpawn, TargetIs, Normal
  <2> HIDE DEF m
  <2>3. CASE coord = "rollback" /\ m \notin owned /\ Write([j EXCEPT !.target[m] = "Absent"])
    <3>1. tgt[m] = "none"
      BY <2>1, <2>3, HeldFacts DEF Recorded, TargetRec
    <3> QED
      BY <2>0, <2>1, <2>3, <3>1, TargetWritten DEF TargetProgress
  <2>4. CASE RetireIntent(m, "RemoteServer")
    BY <2>0, <2>1, <2>4, RetireIntentStep
  <2> QED
    BY <2>2, <2>3, <2>4
<1>2. ASSUME BeginRetirement(d) PROVE Inv'
  <2>0. Drives(d) /\ j.phase = "RollingBack" /\ Action(d).do = "RetireTarget"
    BY <1>2 DEF BeginRetirement, RollsBack
  <2>1. /\ lock = d /\ d # Free /\ m \in Members
        /\ j.target[m] \in {"Gated", "Ready", "CommitIntent", "Committed", "RetireIntent"}
    BY <2>0, RollbackFacts
  <2>2. RetireIntent(m, "OwnedProcess") \/ RetireIntent(m, "RemoteServer")
    BY <1>2 DEF BeginRetirement
  <2> HIDE DEF m
  <2>3. j.target[m] \notin {"Absent", "Retired"}
    BY <2>1
  <2> QED
    BY <2>0, <2>1, <2>2, <2>3, RetireIntentStep
<1> QED
  BY <1>1, <1>2

(* A broker's watch records what it did. *)
LEMMA AckStep ==
  ASSUME Inv, NEW b \in Brokers, lock = b, NEW k \in Journal, JournalOK(k), journal' = k, ActedInv',
         NEW v \in {"drive3", "finish"}, watch' = [watch EXCEPT ![b] = v],
         UNCHANGED <<oldR, tgtR, run, old, tgt, host, faults, outcome>>,
         PhaseRec(k), BridgeRec(k), \A m \in Members : OldRec(k, m) /\ TargetRec(k, m)
  PROVE  Inv'
<1> USE DEF host, run
<1>1. /\ acted \in BOOLEAN /\ coord \in {"idle", "forward", "rollback", "recover"}
      /\ watch \in [Brokers -> WatchStates]
  BY DEF Inv, TypeOK, WatchStates
<1>2. watch' \in [Brokers -> WatchStates]
  BY <1>1 DEF WatchStates
<1>3. \A c \in Brokers : watch'[c] = IF c = b THEN v ELSE watch[c]
  BY <1>1
<1>4. watch[b] \in Driving /\ v \in Driving /\ lock # Free /\ watch[b] # "none" /\ v # "ack"
  BY BrokerNames DEF Inv, LockInv, Driving
<1>5. LockInv'
  <2>1. k # NoJournal
    BY DEF Journal, Phases, NoJournal
  <2> QED
    BY <1>3, <1>4, <2>1 DEF Inv, LockInv
<1>6. \A n \in Members : watch'[<<"old", n>>] # "none" => watch[<<"old", n>>] # "none"
  BY <1>3, <1>4, BrokerNames
<1>7. \A n \in Members : watch'[<<"target", n>>] = "ack" => watch[<<"target", n>>] = "ack"
  BY <1>3, <1>4, BrokerNames
<1>8. PhaseRec(k)'
  BY <1>7 DEF PhaseRec
<1>9. \A n \in Members : OldRec(k, n)'
  BY <1>6 DEF OldRec
<1>10. \A n \in Members : TargetRec(k, n)'
  BY DEF TargetRec
<1> QED
  BY <1>1, <1>2, <1>4, <1>5, <1>6, <1>7, <1>8, <1>9, <1>10, JournalStep

(* A resumed broker says so. *)
LEMMA AckResumedStep ==
  ASSUME Inv, NEW m \in Members, AckResumed(m)
  PROVE  Inv'
<1> USE DEF run, host
<1>0. lock = <<"old", m>> /\ lock \in Brokers /\ lock # Free /\ journal.old[m] = "ResumeIntent"
  BY BrokerNames DEF AckResumed
<1>1. PICK j : j = journal
  OBVIOUS
<1>2. /\ j \in Journal /\ JournalOK(j) /\ Recorded(j) /\ j.phase \in Phases
      /\ j.old \in [Members -> OldProgress]
  BY <1>0, <1>1, HeldFacts
<1>3. j.phase = "RollingBack"
  BY <1>0, <1>1, <1>2 DEF JournalOK, validate, MembersValid, Phases
<1>4. TargetsRetired(j) /\ (Zellij => j.bridge = "Restored")
  BY <1>0, <1>1, <1>2, <1>3 DEF JournalOK, validate, BarrierValid, BridgeValid
<1>5. PICK k : k = [j EXCEPT !.old[m] = "Resumed"]
  OBVIOUS
<1>6. "Resumed" \in OldProgress
  BY DEF OldProgress
<1>7. /\ k \in Journal /\ k.phase = j.phase /\ k.old = [j.old EXCEPT ![m] = "Resumed"]
      /\ k.target = j.target /\ k.bridge = j.bridge /\ k.active = j.active
      /\ k.completed = j.completed
  BY <1>2, <1>5, <1>6, OldWrite
<1>8. JournalOK(k)
  BY <1>0, <1>1, <1>2, <1>3, <1>4, <1>5, <1>6, OldWriteOK
<1>9. /\ journal' = k /\ watch' = [watch EXCEPT ![lock] = "drive3"]
      /\ UNCHANGED <<oldR, tgtR, run, old, tgt, host, faults, outcome>>
  BY <1>1, <1>5 DEF AckResumed, OldIs, WatchIs
<1>10. ActedInv'
  <2>1. Unsettled(k) = Unsettled(j)
    BY <1>0, <1>1, <1>2, <1>7 DEF Unsettled
  <2>2. \A n \in Members : k.target[n] # "RetireIntent"
    BY <1>4, <1>7 DEF TargetsRetired
  <2>3. j.bridge \notin {"OldInstallIntent", "OldReloading"}
    BY <1>2, <1>4 DEF JournalOK, Ordered
  <2>4. acted => Unsettled(j) # {}
    BY <1>0, <1>1, <1>3, <2>3 DEF Inv, ActedInv
  <2>5. k.phase = "RollingBack" /\ k.bridge \notin {"OldInstallIntent", "OldReloading"}
    BY <1>3, <1>7, <2>3
  <2> QED
    BY <1>9, <2>1, <2>2, <2>4, <2>5 DEF ActedInv
<1>11. PhaseRec(k) /\ BridgeRec(k)
  BY <1>2, <1>7 DEF Recorded, PhaseRec, BridgeRec
<1>12. \A n \in Members : OldRec(k, n)
  BY <1>2, <1>3, <1>7 DEF Recorded, OldRec
<1>13. \A n \in Members : TargetRec(k, n)
  BY <1>2, <1>7 DEF Recorded, TargetRec
<1> QED
  BY <1>0, <1>7, <1>8, <1>9, <1>10, <1>11, <1>12, <1>13, AckStep

(* A stopped broker says so. *)
LEMMA AckOldCommittedStep ==
  ASSUME Inv, NEW m \in Members, AckOldCommitted(m)
  PROVE  Inv'
<1> USE DEF run, host
<1>0. /\ lock = <<"old", m>> /\ lock \in Brokers /\ lock # Free /\ lock # Coordinator
      /\ journal.phase = "Committing" /\ old[m] = "SupervisorOnly" /\ m \in oldR
  BY BrokerNames DEF AckOldCommitted, WatchCommits, Drives
<1>1. PICK j : j = journal
  OBVIOUS
<1>2. /\ j \in Journal /\ JournalOK(j) /\ Recorded(j) /\ j.old \in [Members -> OldProgress]
  BY <1>0, <1>1, HeldFacts
<1>5. PICK k : k = [j EXCEPT !.old[m] = "Committed"]
  OBVIOUS
<1>6. "Committed" \in OldProgress
  BY DEF OldProgress
<1>7. /\ k \in Journal /\ k.phase = j.phase /\ k.old = [j.old EXCEPT ![m] = "Committed"]
      /\ k.target = j.target /\ k.bridge = j.bridge /\ k.active = j.active
      /\ k.completed = j.completed
  BY <1>2, <1>5, <1>6, OldWrite
<1>8. JournalOK(k)
  BY <1>0, <1>1, <1>2, <1>5, <1>6, OldWriteOK
<1>9. /\ journal' = k /\ watch' = [watch EXCEPT ![lock] = "finish"]
      /\ UNCHANGED <<oldR, tgtR, run, old, tgt, host, faults, outcome>>
  BY <1>0, <1>1, <1>5 DEF AckOldCommitted, OldIs, WatchIs
<1>10. ActedInv'
  BY <1>0, <1>1, <1>7, <1>9 DEF ActedInv
<1>11. PhaseRec(k) /\ BridgeRec(k)
  BY <1>2, <1>7 DEF Recorded, PhaseRec, BridgeRec
<1>12. \A n \in Members : OldRec(k, n)
  BY <1>0, <1>1, <1>2, <1>7 DEF Recorded, OldRec
<1>13. \A n \in Members : TargetRec(k, n)
  BY <1>2, <1>7 DEF Recorded, TargetRec
<1> QED
  BY <1>0, <1>7, <1>8, <1>9, <1>10, <1>11, <1>12, <1>13, AckStep

(* An opened replacement says so. *)
LEMMA AckTargetCommittedStep ==
  ASSUME Inv, NEW m \in Members, AckTargetCommitted(m)
  PROVE  Inv'
<1> USE DEF run, host
<1>0. /\ lock = <<"target", m>> /\ lock \in Brokers /\ lock # Free /\ lock # Coordinator
      /\ watch[<<"target", m>>] = "ack"
  BY BrokerNames DEF AckTargetCommitted
<1>1. PICK j : j = journal
  OBVIOUS
<1>2. /\ j \in Journal /\ JournalOK(j) /\ Recorded(j) /\ j.target \in [Members -> TargetProgress]
  BY <1>0, <1>1, HeldFacts
<1>3. j.phase = "Committing" /\ tgt[m] = "Committed" /\ m \notin owned
  BY <1>0, <1>1, <1>2 DEF Recorded, PhaseRec, TargetRec, Inv, BrokerOK
<1>5. PICK k : k = [j EXCEPT !.target[m] = "Committed"]
  OBVIOUS
<1>6. "Committed" \in TargetProgress
  BY DEF TargetProgress
<1>7. /\ k \in Journal /\ k.phase = j.phase /\ k.target = [j.target EXCEPT ![m] = "Committed"]
      /\ k.old = j.old /\ k.bridge = j.bridge /\ k.active = j.active
      /\ k.completed = j.completed
  BY <1>2, <1>5, <1>6, TargetWrite
<1>8. JournalOK(k)
  BY <1>2, <1>3, <1>5, <1>6, TargetWriteOK
<1>9. /\ journal' = k /\ watch' = [watch EXCEPT ![lock] = "finish"]
      /\ UNCHANGED <<oldR, tgtR, run, old, tgt, host, faults, outcome>>
  BY <1>1, <1>5 DEF AckTargetCommitted, TargetIs, WatchIs
<1>10. ActedInv'
  BY <1>0, <1>3, <1>7, <1>9 DEF ActedInv
<1>11. PhaseRec(k) /\ BridgeRec(k)
  BY <1>2, <1>7 DEF Recorded, PhaseRec, BridgeRec
<1>12. \A n \in Members : OldRec(k, n)
  BY <1>2, <1>7 DEF Recorded, OldRec
<1>13. \A n \in Members : TargetRec(k, n)
  BY <1>2, <1>3, <1>7 DEF Recorded, TargetRec
<1> QED
  BY <1>0, <1>7, <1>8, <1>9, <1>10, <1>11, <1>12, <1>13, AckStep

(***************************************************************************)
(* The whole next-state relation.                                          *)
(***************************************************************************)

(* The invariant holds before the first activation. *)
LEMMA InitInv == Init => Inv
<1> SUFFICES ASSUME Init PROVE Inv
  OBVIOUS
<1> USE DEF Init
<1>1. TypeOK
  <2>1. faults \in 0 .. MaxFaults
    BY FaultAssumption
  <2>2. acted \in BOOLEAN
    OBVIOUS
  <2>3. /\ old \in [Members -> {"Running", "Draining", "Stopping", "SupervisorOnly", "Exited", "Dead"}]
        /\ tgt \in [Members -> {"none", "Starting", "Checked", "Gated", "Committed", "Retired", "Dead"}]
        /\ watch \in [Brokers -> WatchStates]
        /\ loaded \in [Members -> {"old", "target"}]
    BY DEF WatchStates
  <2> QED
    BY <2>1, <2>2, <2>3 DEF TypeOK, WatchStates
<1>2. LockInv
  BY BrokerNames DEF LockInv, Driving
<1>3. \A m \in Members : BrokerOK(m)
  BY BrokerNames DEF BrokerOK
<1>4. JournalInv
  BY DEF JournalInv, AtRest
<1>5. ActedInv
  BY DEF ActedInv
<1> QED
  BY <1>1, <1>2, <1>3, <1>4, <1>5 DEF Inv

(* Nothing changes. *)
LEMMA InvStutters ==
  ASSUME Inv, UNCHANGED vars
  PROVE  Inv'
<1> USE DEF vars, disk, run, procs, host
<1>1. TypeOK'
  BY DEF Inv, TypeOK
<1>2. LockInv'
  BY DEF Inv, LockInv
<1>3. ActedInv'
  BY ActedKept
<1> QED
  BY <1>1, <1>2, <1>3, RunStep DEF Inv, BrokerOK

(* Every step keeps the invariant, one group of actions at a time. *)
LEMMA InvStep ==
  ASSUME Inv, [Next]_vars
  PROVE  Inv'
<1>1. ASSUME ForwardStep PROVE Inv'
  <2>1. CASE \E m \in Members : SendPrepare(m) \/ RecordDrained(m) \/ PrepareAmbiguous(m)
                          \/ PrepareRefused(m) \/ Spawn(m) \/ RecordGated(m) \/ RecordReady(m)
                          \/ CommitOld(m) \/ RecordOldCommitted(m) \/ OldCommitFailed(m)
                          \/ TargetCommitFailed(m)
    BY <2>1, CoordinatorNotes, ForwardOldWrites, DriversLeave, ForwardFailsSteps, SpawnStep,
       ForwardTargetWrites, RecordReadyStep, OldStops
  <2> QED
    BY <1>1, <2>1, ForwardBridgeWrites, ForwardOldWrites, PhaseWrites, ForwardTargetWrites,
       PersistReadyStep, DriversLeave DEF ForwardStep
<1>2. ASSUME DriverStep PROVE Inv'
  <2>1. CASE \E m \in Members : CommitTarget(m) \/ RecordTargetCommitted(m)
    BY <2>1, CommitTargetStep, ForwardTargetWrites
  <2>2. CASE \E d \in Brokers \cup {Coordinator} :
          \/ ResolvePrepare(d) \/ ResolveTargetSpawn(d) \/ BeginRetirement(d)
          \/ RetireTarget(d) \/ WriteTargetReceipt(d) \/ RecordRetired(d)
          \/ RestoreBridge(d) \/ ResumeIntent(d) \/ AbortDrain(d) \/ RecordResumed(d)
          \/ FinishRollback(d) \/ RollbackStuck(d)
    BY <2>2, RollbackOldWrites, RetirementBegins, RetireTargetStep, WriteTargetReceiptStep,
       RecordRetiredStep, RestoreBridgeStep, AbortDrainStep, PhaseWrites, DriversLeave
  <2> QED
    BY <1>2, <2>1, <2>2, InstallBridgeStep, ReloadBridgeStep, PhaseWrites, FinishSteps,
       RemoveReceiptsStep, RemoveJournalStep, ForwardOldWrites, ForwardTargetWrites, DriversLeave
       DEF DriverStep
<1>3. ASSUME NEW m \in Members, BrokerStep(m) PROVE Inv'
  BY <1>3, HandlePrepareStep, CoordinatorNotes, OldStops, TargetStarts, TargetEndsSteps,
     WatchYieldsStep, WatchResumesStep, AckResumedStep, ForwardOldWrites, WatchStopsOldStep,
     AckOldCommittedStep, WatchCommitsTargetStep, AckTargetCommittedStep DEF BrokerStep
<1>4. ASSUME FaultStep PROVE Inv'
  BY <1>4, CoordinatorCrashesStep, DriversLeave, OldStops, OldEnds, TargetEndsSteps DEF FaultStep
<1>5. ASSUME NEW b \in Brokers, WatchStep(b) \/ WatchLocks(b) PROVE Inv'
  BY <1>5, WatchLooksStep, WatchLocksStep, DriversLeave DEF WatchStep
<1>6. ASSUME NEW m \in Members, Poll(m) \/ OldExits(m) PROVE Inv'
  BY <1>6, CoordinatorNotes, OldEnds
<1>7. ASSUME Recover PROVE Inv'
  BY <1>7, CoordinatorNotes, UnitAssumption
<1> QED
  BY <1>1, <1>2, <1>3, <1>4, <1>5, <1>6, <1>7, BeginStep, ForwardFailsSteps, InvStutters DEF Next


(* The inductive invariant holds in every reachable state. *)
LEMMA InvAlways == Spec => []Inv
BY InitInv, InvStep, PTL DEF Spec

(***************************************************************************)
(* The refinement: every step maps to a step of UnitHandover or to none.   *)
(***************************************************************************)
(* What a step of the activation may do to the handover. *)
HandoverStep == [Handover!Next]_(Handover!vars)

(* The decision is in the phase while there is a journal, in the outcome after. *)
LEMMA DecisionIs ==
  ASSUME Inv
  PROVE  /\ journal # NoJournal =>
              /\ (Decision = "commit") <=> (journal.phase \in {"Ready", "Committing", "Committed"})
              /\ (Decision = "abort") <=> (journal.phase \in {"RollingBack", "RolledBack"})
              /\ (Decision = "open") <=> (journal.phase \in {"Preparing", "Activating"})
         /\ journal = NoJournal =>
              /\ (Decision = "commit") <=> (outcome = "committed")
              /\ (Decision = "abort") <=> (outcome = "rolledBack")
              /\ (Decision = "open") <=> (outcome = "none")
<1>1. TypeOK
  BY DEF Inv
<1>2. CASE journal # NoJournal
  <2>1. journal.phase \in Phases
    BY <1>1, <1>2, JournalFacts
  <2> QED
    BY <1>2, <2>1 DEF Decision, Phases
<1>3. CASE journal = NoJournal
  <2>1. journal.phase = "None"
    BY <1>1, <1>3, JournalFacts
  <2>2. outcome \in {"none", "committed", "rolledBack"}
    BY <1>1 DEF TypeOK
  <2> QED
    BY <1>3, <2>1, <2>2 DEF Decision
<1> QED
  BY <1>2, <1>3

(* A step that changes neither the decision nor who serves. *)
LEMMA Quiet ==
  ASSUME Decision' = Decision,
         \A m \in Members : (tgt'[m] = "Committed") <=> (tgt[m] = "Committed"),
         \A m \in Members : tgt[m] # "Committed" => ((old'[m] = "Running") <=> (old[m] = "Running"))
  PROVE  HandoverStep
<1>1. Serving' = Serving
  BY DEF Serving
<1> QED
  BY <1>1 DEF HandoverStep, Handover!vars

(* The same for a step that leaves phase, outcome and brokers alone. *)
LEMMA QuietRun ==
  ASSUME journal'.phase = journal.phase, UNCHANGED <<outcome, old, tgt>>
  PROVE  HandoverStep
<1>1. Decision' = Decision
  BY DEF Decision
<1> QED
  BY <1>1, Quiet

(* Brokers follow the decision: no previous broker serves after a commit, no *)
(* replacement without one. *)
LEMMA Followed ==
  ASSUME Inv, NEW m \in Members
  PROVE  /\ Decision = "commit" => old[m] # "Running"
         /\ tgt[m] = "Committed" => Decision = "commit"
<1>1. TypeOK /\ JournalInv
  BY DEF Inv
<1>2. CASE journal # NoJournal
  <2>1. JournalOK(journal) /\ OldRec(journal, m) /\ TargetRec(journal, m)
    BY <1>1, <1>2 DEF JournalInv, Recorded
  <2>2. journal.phase \in {"Ready", "Committing", "Committed"} =>
            journal.old[m] \in {"Drained", "CommitIntent", "Committed"}
    BY <2>1 DEF JournalOK, validate, MembersValid
  <2> QED
    BY <1>2, <2>1, <2>2, DecisionIs DEF OldRec, TargetRec
<1>3. CASE journal = NoJournal
  <2>1. AtRest /\ outcome \in {"none", "committed", "rolledBack"}
    BY <1>1, <1>3 DEF JournalInv, TypeOK
  <2> QED
    BY <1>3, <2>1, DecisionIs DEF AtRest, Gone
<1> QED
  BY <1>2, <1>3

(* The decision is the journal's. *)
LEMMA SamePhase ==
  ASSUME UNCHANGED <<journal, outcome>>
  PROVE  Decision' = Decision
BY DEF Decision

(* A previous broker that stops serving is one the unit loses. *)
LEMMA OldLost ==
  ASSUME Inv, NEW m \in Members, NEW x \in OldStates, x # "Running",
         UNCHANGED <<journal, outcome, tgt>>, old' = [old EXCEPT ![m] = x]
  PROVE  HandoverStep
<1>1. Decision' = Decision
  BY SamePhase
<1>2. old \in [Members -> OldStates]
  BY DEF Inv, TypeOK, OldStates
<1>3. CASE old[m] # "Running" \/ tgt[m] = "Committed"
  BY <1>1, <1>2, <1>3, Quiet
<1>4. CASE old[m] = "Running" /\ tgt[m] # "Committed"
  <2>1. Serving[m] = "old"
    BY <1>4 DEF Serving
  <2>2. Serving' = [Serving EXCEPT ![m] = "nobody"]
    BY <1>2, <1>4 DEF Serving
  <2>3. Handover!Lose(m)
    BY <1>1, <2>1, <2>2 DEF Handover!Lose
  <2> QED
    BY <2>3 DEF HandoverStep, Handover!Next
<1> QED
  BY <1>3, <1>4

(* A replacement that stops serving is one the unit loses. *)
LEMMA TargetLost ==
  ASSUME Inv, NEW m \in Members, NEW x \in TargetStates, x # "Committed",
         UNCHANGED <<journal, outcome, old>>, tgt' = [tgt EXCEPT ![m] = x]
  PROVE  HandoverStep
<1>1. Decision' = Decision
  BY SamePhase
<1>2. tgt \in [Members -> TargetStates]
  BY DEF Inv, TypeOK, TargetStates
<1>3. CASE tgt[m] # "Committed"
  BY <1>1, <1>2, <1>3, Quiet
<1>4. CASE tgt[m] = "Committed"
  <2>1. Serving[m] = "target" /\ old[m] # "Running"
    BY <1>4, Followed DEF Serving
  <2>2. Serving' = [Serving EXCEPT ![m] = "nobody"]
    BY <1>2, <1>4, <2>1 DEF Serving
  <2>3. Handover!Lose(m)
    BY <1>1, <2>1, <2>2 DEF Handover!Lose
  <2> QED
    BY <2>3 DEF HandoverStep, Handover!Next
<1> QED
  BY <1>3, <1>4

(* A previous broker serves again. *)
LEMMA ServesAgain ==
  ASSUME Inv, NEW m \in Members, UNCHANGED <<journal, outcome, tgt>>, Decision # "commit",
         old' = [old EXCEPT ![m] = "Running"]
  PROVE  HandoverStep
<1>1. Decision' = Decision
  BY SamePhase
<1>2. old \in [Members -> OldStates]
  BY DEF Inv, TypeOK, OldStates
<1>3. tgt[m] # "Committed"
  BY Followed
<1>4. CASE old[m] = "Running"
  BY <1>1, <1>2, <1>4, Quiet
<1>5. CASE old[m] # "Running"
  <2>1. Serving[m] = "nobody"
    BY <1>3, <1>5 DEF Serving
  <2>2. Serving' = [Serving EXCEPT ![m] = "old"]
    BY <1>2, <1>3 DEF Serving
  <2>3. Handover!Resume(m)
    BY <1>1, <2>1, <2>2 DEF Handover!Resume
  <2> QED
    BY <2>3 DEF HandoverStep, Handover!Next
<1> QED
  BY <1>4, <1>5

(* A replacement opens. *)
LEMMA Opens ==
  ASSUME Inv, NEW m \in Members, UNCHANGED <<journal, outcome, old>>, Decision = "commit",
         tgt' = [tgt EXCEPT ![m] = "Committed"]
  PROVE  HandoverStep
<1>1. Decision' = Decision
  BY SamePhase
<1>2. tgt \in [Members -> TargetStates]
  BY DEF Inv, TypeOK, TargetStates
<1>3. old[m] # "Running"
  BY Followed
<1>4. CASE tgt[m] = "Committed"
  BY <1>1, <1>2, <1>4, Quiet
<1>5. CASE tgt[m] # "Committed"
  <2>1. Serving[m] = "nobody"
    BY <1>3, <1>5 DEF Serving
  <2>2. Serving' = [Serving EXCEPT ![m] = "target"]
    BY <1>2 DEF Serving
  <2>3. Handover!Open(m)
    BY <1>1, <2>1, <2>2 DEF Handover!Open
  <2> QED
    BY <2>3 DEF HandoverStep, Handover!Next
<1> QED
  BY <1>4, <1>5

(* A change of phase decides the handover at most once. *)
LEMMA Decides ==
  ASSUME Inv, NEW p \in Phases, lock # Free, journal' = With("phase", p),
         UNCHANGED <<outcome, old, tgt>>,
         \/ journal.phase \in {"Preparing", "Activating"} /\ p = "RollingBack"
         \/ /\ journal.phase = "Activating" /\ p = "Ready"
            /\ \A m \in Members : tgt[m] = "Gated"
         \/ journal.phase = "Preparing" /\ p = "Activating"
         \/ journal.phase = "Ready" /\ p = "Committing"
         \/ journal.phase = "Committing" /\ p = "Committed"
         \/ journal.phase = "RollingBack" /\ p = "RolledBack"
  PROVE  HandoverStep
<1>1. journal \in Journal /\ JournalOK(journal) /\ Recorded(journal)
  BY HeldFacts
<1>2. journal'.phase = p
  BY <1>1, PhaseWrite DEF With
<1>3. Serving' = Serving
  BY DEF Serving
<1>4. CASE journal.phase \in {"Preparing", "Activating"} /\ p = "RollingBack"
  <2>1. Decision = "open" /\ Decision' = "abort"
    BY <1>2, <1>4 DEF Decision
  <2>2. Handover!Abandon
    BY <1>3, <2>1 DEF Handover!Abandon
  <2> QED
    BY <2>2 DEF HandoverStep, Handover!Next
<1>5. CASE journal.phase = "Activating" /\ p = "Ready" /\ \A m \in Members : tgt[m] = "Gated"
  <2>1. Decision = "open" /\ Decision' = "commit"
    BY <1>2, <1>5 DEF Decision
  <2>2. \A m \in Members : old[m] # "Running"
    BY <1>1, <1>5 DEF Recorded, OldRec, JournalOK, validate, MembersValid
  <2>3. \A m \in Members : Serving[m] = "nobody"
    BY <1>5, <2>2 DEF Serving
  <2>4. Handover!Commit
    BY <1>3, <2>1, <2>3 DEF Handover!Commit
  <2> QED
    BY <2>4 DEF HandoverStep, Handover!Next
<1>6. CASE \/ journal.phase = "Preparing" /\ p = "Activating"
           \/ journal.phase = "Ready" /\ p = "Committing"
           \/ journal.phase = "Committing" /\ p = "Committed"
           \/ journal.phase = "RollingBack" /\ p = "RolledBack"
  <2>1. Decision' = Decision
    BY <1>2, <1>6 DEF Decision
  <2> QED
    BY <1>3, <2>1 DEF HandoverStep, Handover!vars
<1> QED
  BY <1>4, <1>5, <1>6


(* A write of anything but the phase decides nothing. *)
LEMMA JournalQuiet ==
  ASSUME Inv, lock # Free, UNCHANGED <<outcome, old, tgt>>,
         \/ \E v : journal' = With("bridge", v)
         \/ \E m, v : journal' = OldIs(m, v)
         \/ \E m, v : journal' = TargetIs(m, v)
         \/ \E m, v, a : journal' = [journal EXCEPT !.target[m] = v, !.authority[m] = a]
         \/ \E a, c : journal' = [journal EXCEPT !.completed = c, !.active = a]
         \/ \E a : journal' = [journal EXCEPT !.active = a]
         \/ \E b, a, c : journal' = [journal EXCEPT !.bridge = b, !.active = a, !.completed = c]
  PROVE  HandoverStep
<1>1. journal \in Journal
  BY HeldFacts
<1>2. CASE \/ \E v : journal' = With("bridge", v)
           \/ \E m, v : journal' = OldIs(m, v)
           \/ \E m, v : journal' = TargetIs(m, v)
  <2>1. journal'.phase = journal.phase
    BY <1>1, <1>2 DEF With, OldIs, TargetIs, Journal
  <2> QED
    BY <2>1, QuietRun
<1>3. CASE \/ \E m, v, a : journal' = [journal EXCEPT !.target[m] = v, !.authority[m] = a]
           \/ \E a, c : journal' = [journal EXCEPT !.completed = c, !.active = a]
           \/ \E a : journal' = [journal EXCEPT !.active = a]
           \/ \E b, a, c : journal' = [journal EXCEPT !.bridge = b, !.active = a, !.completed = c]
  <2>1. journal'.phase = journal.phase
    BY <1>1, <1>3 DEF Journal
  <2> QED
    BY <2>1, QuietRun
<1> QED
  BY <1>2, <1>3

(* So does the record of a reload. *)
LEMMA ReloadingQuiet ==
  ASSUME Inv, lock # Free, Reloading
  PROVE  HandoverStep
<1>1. UNCHANGED <<outcome, old, tgt>>
  BY DEF Reloading, Write, procs
<1>2. CASE journal.active = NoMember
  <2>1. journal' = [journal EXCEPT !.active = First(Members \ journal.completed)]
    BY <1>2 DEF Reloading, Write
  <2> QED
    BY <1>1, <2>1, JournalQuiet
<1>3. CASE journal.active # NoMember
  <2>1. journal' = [journal EXCEPT !.completed = @ \cup {journal.active}, !.active = NoMember]
    BY <1>3 DEF Reloading, Write
  <2> QED
    BY <1>1, <2>1, JournalQuiet
<1> QED
  BY <1>2, <1>3

(* The writes of the forward path, and of a commit. *)
LEMMA ForwardQuiet ==
  ASSUME Inv, \/ ArtifactsReady \/ PrepareIntent \/ SpawnIntent \/ BridgeForward
              \/ OldCommitIntent \/ TargetCommitIntent \/ RecoverOldCommitted \/ RecoverTargetIntent
              \/ \E m \in Members : \/ RecordDrained(m) \/ RecordGated(m) \/ RecordReady(m)
                                    \/ RecordOldCommitted(m) \/ RecordTargetCommitted(m)
                                    \/ WatchOldIntent(m)
  PROVE  HandoverStep
<1>1. Coordinator # Free /\ \A m \in Members : <<"old", m>> # Free
  BY BrokerNames
<1>2. CASE ArtifactsReady \/ PrepareIntent \/ SpawnIntent
  BY <1>1, <1>2, JournalQuiet DEF ArtifactsReady, PrepareIntent, SpawnIntent, Forward, Write, procs
<1>3. CASE BridgeForward
  <2>1. lock # Free
    BY <1>1, <1>3 DEF BridgeForward, Forward
  <2>2. ASSUME NEW v, Write(With("bridge", v)) PROVE HandoverStep
    BY <2>1, <2>2, JournalQuiet DEF Write, procs
  <2>3. ASSUME Reloading PROVE HandoverStep
    BY <2>1, <2>3, ReloadingQuiet
  <2> HIDE DEF HandoverStep
  <2> QED
    BY <1>3, <2>2, <2>3 DEF BridgeForward
<1>4. CASE OldCommitIntent \/ TargetCommitIntent
  BY <1>1, <1>4, JournalQuiet
     DEF OldCommitIntent, TargetCommitIntent, CommitsOld, CommitsTarget, Forward, Write, procs
<1>5. CASE RecoverOldCommitted \/ RecoverTargetIntent
  BY <1>1, <1>5, JournalQuiet
     DEF RecoverOldCommitted, RecoverTargetIntent, Recovers, Drives, Write, procs
<1>6. ASSUME NEW m \in Members,
             RecordDrained(m) \/ RecordGated(m) \/ RecordReady(m) \/ RecordOldCommitted(m)
      PROVE  HandoverStep
  BY <1>1, <1>6, JournalQuiet DEF RecordDrained, RecordGated, RecordReady, RecordOldCommitted,
     AwaitsReady, Forward, Write, procs, run
<1>7. ASSUME NEW m \in Members, RecordTargetCommitted(m) \/ WatchOldIntent(m)
      PROVE  HandoverStep
  <2>1. lock # Free
    BY <1>1, <1>7 DEF RecordTargetCommitted, CommitsNext, WatchOldIntent, WatchCommits, Drives, Forward
  <2>2. Write(TargetIs(m, "Committed")) \/ Write(OldIs(m, "CommitIntent"))
    BY <1>7 DEF RecordTargetCommitted, WatchOldIntent
  <2> QED
    BY <2>1, <2>2, JournalQuiet DEF Write, procs
<1> QED
  BY <1>2, <1>3, <1>4, <1>5, <1>6, <1>7


(* The writes of a rollback. *)
LEMMA RollbackQuiet ==
  ASSUME Inv, NEW d, \/ ResolvePrepare(d) \/ ResolveTargetSpawn(d) \/ BeginRetirement(d)
                     \/ RecordRetired(d) \/ RestoreBridge(d) \/ ResumeIntent(d) \/ RecordResumed(d)
  PROVE  HandoverStep
<1>1. lock # Free
  BY DEF ResolvePrepare, ResolveTargetSpawn, BeginRetirement, RecordRetired, RestoreBridge,
     ResumeIntent, RecordResumed, RollsBack, Drives
<1>2. ASSUME NEW m, NEW v, Write(OldIs(m, v)) PROVE HandoverStep
  BY <1>1, <1>2, JournalQuiet DEF Write, procs
<1>3. ASSUME NEW m, NEW v, Write(TargetIs(m, v)) PROVE HandoverStep
  BY <1>1, <1>3, JournalQuiet DEF Write, procs
<1>4. ASSUME NEW v, Write(With("bridge", v)) PROVE HandoverStep
  BY <1>1, <1>4, JournalQuiet DEF Write, procs
<1>5. ASSUME NEW m, NEW a, RetireIntent(m, a) PROVE HandoverStep
  BY <1>1, <1>5, JournalQuiet DEF RetireIntent
<1>6. ASSUME Write([journal EXCEPT !.bridge = "OldInstallIntent", !.active = NoMember,
                                   !.completed = {}])
      PROVE HandoverStep
  BY <1>1, <1>6, JournalQuiet DEF Write, procs
<1>7. CASE ResolvePrepare(d) \/ RecordRetired(d) \/ ResumeIntent(d) \/ RecordResumed(d)
  BY <1>2, <1>3, <1>7 DEF ResolvePrepare, RecordRetired, ResumeIntent, RecordResumed
<1>8. CASE ResolveTargetSpawn(d) \/ BeginRetirement(d)
  BY <1>3, <1>5, <1>8 DEF ResolveTargetSpawn, BeginRetirement
<1>9. CASE RestoreBridge(d)
  BY <1>1, <1>4, <1>6, <1>9, ReloadingQuiet DEF RestoreBridge
<1> QED
  BY <1>7, <1>8, <1>9

(* The steps that enter a phase. *)
LEMMA PhaseSteps ==
  ASSUME Inv, \/ EnterActivating \/ PersistReady \/ EnterCommitting \/ EnterRollback \/ EnterCommitted
              \/ ForwardFails \/ \E m \in Members : PrepareRefused(m)
              \/ \E d \in Brokers \cup {Coordinator} : FinishRollback(d)
  PROVE  HandoverStep
<1> USE DEF Write, procs
<1>0. /\ Coordinator # Free
      /\ {"Activating", "Ready", "Committing", "RollingBack", "Committed", "RolledBack"} \subseteq Phases
  BY BrokerNames DEF Phases
<1>1. CASE EnterActivating
  BY <1>0, <1>1, Decides DEF EnterActivating, Forward
<1>2. CASE PersistReady
  BY <1>0, <1>2, Decides DEF PersistReady, Forward
<1>3. CASE EnterCommitting
  BY <1>0, <1>3, Decides DEF EnterCommitting, Forward, Drives
<1>4. CASE EnterRollback
  BY <1>0, <1>4, Decides DEF EnterRollback, Drives
<1>5. CASE EnterCommitted
  <2>1. lock # Free /\ journal.phase = "Committing"
    BY <1>5, FinishesFacts DEF EnterCommitted
  <2> QED
    BY <1>0, <1>5, <2>1, Decides DEF EnterCommitted
<1>6. CASE ForwardFails
  BY <1>0, <1>6, Decides DEF ForwardFails, Forward
<1>7. ASSUME NEW m \in Members, PrepareRefused(m) PROVE HandoverStep
  BY <1>0, <1>7, Decides DEF PrepareRefused, Forward
<1>8. ASSUME NEW d, FinishRollback(d) PROVE HandoverStep
  BY <1>0, <1>8, Decides DEF FinishRollback, RollsBack, Drives
<1> QED
  BY <1>1, <1>2, <1>3, <1>4, <1>5, <1>6, <1>7, <1>8

(* A driver that leaves stops no broker in service. *)
LEMMA LeavingQuiet ==
  ASSUME Inv, lock # Free, CoordinatorExits \/ \E d : d # Coordinator /\ Leave(d)
  PROVE  HandoverStep
<1>1. UNCHANGED <<journal, outcome, old>>
  BY DEF CoordinatorExits, CoordinatorGone, Leave, disk
<1>2. Decision' = Decision
  BY <1>1, SamePhase
<1>3. ASSUME NEW m \in Members, m \in owned PROVE tgt[m] # "Committed"
  BY <1>3, HeldFacts DEF Recorded, TargetRec
<1>4. CASE CoordinatorExits
  <2>1. \A m \in Members : tgt'[m] = IF m \in owned THEN "Dead" ELSE tgt[m]
    BY <1>4 DEF CoordinatorExits
  <2> QED
    BY <1>1, <1>2, <1>3, <2>1, Quiet
<1>5. CASE \E d : d # Coordinator /\ Leave(d)
  <2>1. UNCHANGED tgt
    BY <1>5 DEF Leave
  <2> QED
    BY <1>1, <1>2, <2>1, Quiet
<1> QED
  BY <1>4, <1>5

(* The steps in which it does. *)
LEMMA EndsQuiet ==
  ASSUME Inv, \/ CommitGivesUp \/ RecoverStuck \/ DriverFails
              \/ \E m \in Members : PrepareAmbiguous(m)
              \/ \E d \in Brokers \cup {Coordinator} : RollbackStuck(d)
              \/ \E b \in Brokers : WatchEnds(b)
  PROVE  HandoverStep
<1>0. Coordinator # Free /\ Coordinator \notin Brokers /\ Free \notin Brokers
  BY BrokerNames
<1>1. CASE CommitGivesUp \/ \E m \in Members : PrepareAmbiguous(m)
  BY <1>0, <1>1, LeavingQuiet DEF CommitGivesUp, PrepareAmbiguous, Forward
<1>2. CASE RecoverStuck
  BY <1>0, <1>2, LeavingQuiet DEF RecoverStuck, Recovers, Drives
<1>3. ASSUME NEW d, lock # Free, Leave(d) PROVE HandoverStep
  <2>1. CASE d = Coordinator
    <3>1. CoordinatorExits
      BY <1>3, <2>1 DEF Leave
    <3> QED
      BY <1>3, <3>1, LeavingQuiet
  <2> QED
    BY <1>3, <2>1, LeavingQuiet
<1>4. CASE DriverFails
  BY <1>3, <1>4 DEF DriverFails
<1>5. ASSUME NEW d, RollbackStuck(d) PROVE HandoverStep
  BY <1>3, <1>5 DEF RollbackStuck, Drives
<1>6. ASSUME NEW b \in Brokers, WatchEnds(b) PROVE HandoverStep
  BY <1>0, <1>3, <1>6 DEF WatchEnds
<1> QED
  BY <1>1, <1>2, <1>4, <1>5, <1>6

(* The steps that touch neither the record nor the brokers. *)
LEMMA NotesQuiet ==
  ASSUME Inv, \/ Recover \/ InstallBridge \/ ReloadBridge \/ RemoveReceipts \/ CoordinatorCrashes
              \/ \E m \in Members : \/ SendPrepare(m) \/ OldCommitFailed(m) \/ TargetCommitFailed(m)
                                    \/ Poll(m) \/ RefusePrepare(m) \/ WatchYields(m)
              \/ \E d : WriteTargetReceipt(d)
              \/ \E b \in Brokers : WatchLocks(b)
  PROVE  HandoverStep
<1> USE DEF disk, procs, run, host
<1>1. UNCHANGED <<journal, outcome, old, tgt>>
  <2>1. CASE Recover \/ InstallBridge \/ ReloadBridge \/ RemoveReceipts \/ CoordinatorCrashes
    BY <2>1 DEF Recover, InstallBridge, ReloadBridge, RemoveReceipts, CoordinatorCrashes,
       CoordinatorGone, Effect
  <2>2. CASE \E m \in Members : SendPrepare(m) \/ OldCommitFailed(m) \/ TargetCommitFailed(m)
    BY <2>2 DEF SendPrepare, OldCommitFailed, TargetCommitFailed
  <2>3. CASE \E m \in Members : Poll(m) \/ RefusePrepare(m) \/ WatchYields(m)
    BY <2>3 DEF Poll, RefusePrepare, WatchYields
  <2>4. CASE \/ \E d : WriteTargetReceipt(d)
             \/ \E b \in Brokers : WatchLocks(b)
    BY <2>4 DEF WriteTargetReceipt, WatchLocks
  <2> QED
    BY <2>1, <2>2, <2>3, <2>4
<1> QED
  BY <1>1, QuietRun

(* The first and the last write, and the acknowledgements. *)
LEMMA RecordsQuiet ==
  ASSUME Inv, \/ PublishCommitArtifacts \/ Begin \/ RemoveJournal
              \/ \E m \in Members : AckResumed(m) \/ AckOldCommitted(m) \/ AckTargetCommitted(m)
  PROVE  HandoverStep
<1> USE DEF procs, run
<1>1. CASE PublishCommitArtifacts
  <2>1. lock # Free
    BY <1>1, FinishesFacts DEF PublishCommitArtifacts
  <2> QED
    BY <1>1, <2>1, JournalQuiet DEF PublishCommitArtifacts
<1>2. CASE Begin
  <2>1. journal'.phase = "Preparing" /\ UNCHANGED <<outcome, old, tgt>> /\ journal = NoJournal /\ outcome = "none"
    BY <1>2 DEF Begin, NewJournal
  <2>2. Decision = "open" /\ Decision' = "open"
    BY <2>1, JournalFacts DEF Decision, NoJournal
  <2> QED
    BY <2>1, <2>2, Quiet
<1>3. CASE RemoveJournal
  <2>1. /\ journal' = NoJournal /\ journal.phase \in {"Committed", "RolledBack"}
        /\ outcome' = (IF journal.phase = "Committed" THEN "committed" ELSE "rolledBack")
        /\ UNCHANGED <<old, tgt>>
    BY <1>3 DEF RemoveJournal
  <2>2. journal'.phase = "None"
    BY <2>1 DEF NoJournal
  <2>3. Decision' = Decision
    BY <2>1, <2>2 DEF Decision
  <2> QED
    BY <2>1, <2>3, Quiet
<1>4. ASSUME NEW m \in Members, AckResumed(m) \/ AckTargetCommitted(m) PROVE HandoverStep
  <2>1. lock # Free
    BY <1>4, BrokerNames DEF AckResumed, AckTargetCommitted
  <2> QED
    BY <1>4, <2>1, JournalQuiet DEF AckResumed, AckTargetCommitted
<1>5. ASSUME NEW m \in Members, AckOldCommitted(m) PROVE HandoverStep
  <2>1. lock # Free
    BY <1>5 DEF AckOldCommitted, WatchCommits, Drives
  <2> QED
    BY <1>5, <2>1, JournalQuiet DEF AckOldCommitted
<1> QED
  BY <1>1, <1>2, <1>3, <1>4, <1>5

(* The steps in which a previous broker drains, stops or ends. *)
LEMMA OldSteps ==
  ASSUME Inv, NEW m \in Members,
         \/ HandlePrepare(m) \/ CommitOld(m) \/ PublishReceipt(m) \/ ReceiptFails(m) \/ OldExits(m)
         \/ WatchStopsOld(m) \/ OldDies(m)
  PROVE  HandoverStep
<1> USE DEF disk, run, host
<1>1. /\ UNCHANGED <<journal, outcome, tgt>>
      /\ \E x \in {"Draining", "Stopping", "SupervisorOnly", "Exited", "Dead"} :
            old' = [old EXCEPT ![m] = x]
  <2>1. CASE HandlePrepare(m) \/ CommitOld(m) \/ PublishReceipt(m) \/ ReceiptFails(m)
    BY <2>1 DEF HandlePrepare, CommitOld, PublishReceipt, ReceiptFails
  <2>2. CASE OldExits(m) \/ WatchStopsOld(m) \/ OldDies(m)
    BY <2>2 DEF OldExits, WatchStopsOld, Effect, OldDies, Dies
  <2> QED
    BY <2>1, <2>2
<1> QED
  BY <1>1, OldLost DEF OldStates

(* The steps in which a replacement starts, stops or ends. *)
LEMMA TargetSteps ==
  ASSUME Inv, \/ \E m \in Members : \/ Spawn(m) \/ TargetChecks(m) \/ TargetBinds(m)
                                    \/ TargetExits(m) \/ TargetDies(m)
              \/ \E d \in Brokers \cup {Coordinator} : RetireTarget(d)
  PROVE  HandoverStep
<1> USE DEF disk, run
<1>1. /\ UNCHANGED <<journal, outcome, old>>
      /\ \E m \in Members : \E x \in {"Starting", "Checked", "Gated", "Retired", "Dead"} :
            tgt' = [tgt EXCEPT ![m] = x]
  <2>1. CASE \E m \in Members : Spawn(m) \/ TargetChecks(m) \/ TargetBinds(m)
    BY <2>1 DEF Spawn, TargetChecks, TargetBinds
  <2>2. CASE \E m \in Members : TargetExits(m) \/ TargetDies(m)
    BY <2>2 DEF TargetExits, TargetDies, Dies
  <2>3. ASSUME NEW d \in Brokers \cup {Coordinator}, RetireTarget(d)
        PROVE  /\ UNCHANGED <<journal, outcome, old>>
               /\ \E x \in {"Retired", "Dead"} : tgt' = [tgt EXCEPT ![Action(d).m] = x]
               /\ Action(d).m \in Members
    <3>1. Drives(d) /\ journal.phase = "RollingBack" /\ Action(d).do = "RetireTarget"
      BY <2>3 DEF RetireTarget, RollsBack
    <3>2. Action(d).m \in Members
      BY <3>1, RollbackFacts
    <3>3. UNCHANGED <<journal, outcome, old>>
      BY <2>3 DEF RetireTarget
    <3>4. \E x \in {"Retired", "Dead"} : tgt' = [tgt EXCEPT ![Action(d).m] = x]
      BY <2>3 DEF RetireTarget
    <3> QED
      BY <3>2, <3>3, <3>4
  <2> QED
    BY <2>1, <2>2, <2>3
<1> QED
  BY <1>1, TargetLost DEF TargetStates

(* The steps in which a broker goes into service. *)
LEMMA ServiceSteps ==
  ASSUME Inv, \/ \E m \in Members : CommitTarget(m) \/ WatchCommitsTarget(m) \/ WatchResumes(m)
              \/ \E d : AbortDrain(d)
  PROVE  HandoverStep
<1> USE DEF disk, run, host
<1>0. Coordinator # Free
  BY BrokerNames
<1>1. ASSUME NEW m \in Members, CommitTarget(m) \/ WatchCommitsTarget(m) PROVE HandoverStep
  <2>1. /\ tgt' = [tgt EXCEPT ![m] = "Committed"] /\ UNCHANGED <<journal, outcome, old>>
        /\ journal.phase = "Committing"
    BY <1>1 DEF CommitTarget, WatchCommitsTarget, WatchCommits, CommitsNext, Effect
  <2>2. Decision = "commit"
    BY <2>1 DEF Decision
  <2> QED
    BY <2>1, <2>2, Opens
<1>2. ASSUME NEW m \in Members, old' = [old EXCEPT ![m] = "Running"],
             UNCHANGED <<journal, outcome, tgt>>, journal.phase = "RollingBack"
      PROVE  HandoverStep
  <2>1. Decision = "abort"
    BY <1>2 DEF Decision
  <2> QED
    BY <1>2, <2>1, ServesAgain
<1>3. ASSUME NEW m \in Members, WatchResumes(m) PROVE HandoverStep
  BY <1>2, <1>3, MayResumeFacts DEF WatchResumes
<1>4. ASSUME NEW d, AbortDrain(d) PROVE HandoverStep
  <2>1. Drives(d) /\ journal.phase = "RollingBack" /\ Action(d).do = "ResumeOld"
    BY <1>4 DEF AbortDrain, RollsBack
  <2>2. Action(d).m \in Members
    BY <2>1, RollbackFacts
  <2>3. UNCHANGED <<journal, outcome, tgt>> /\ old' = [old EXCEPT ![Action(d).m] = "Running"]
    BY <1>4 DEF AbortDrain, Effect
  <2> QED
    BY <1>2, <2>1, <2>2, <2>3
<1> QED
  BY <1>1, <1>3, <1>4

(* Without a journal, only a unit that was not replaced is resumed. *)
LEMMA WatchLooksServes ==
  ASSUME Inv, NEW b \in Brokers, WatchLooks(b)
  PROVE  HandoverStep
<1> USE DEF disk, run
<1> DEFINE m == b[2]
<1>1. UNCHANGED <<journal, outcome>> /\ m \in Members
  BY BrokerNames DEF WatchLooks
<1>2. Decision' = Decision
  BY <1>1, SamePhase
<1>3. CASE UNCHANGED <<old, tgt>>
  BY <1>2, <1>3, Quiet
<1>4. CASE UNCHANGED old /\ tgt' = [tgt EXCEPT ![m] = IF @ = "Gated" THEN "Retired" ELSE @]
  <2>1. tgt \in [Members -> TargetStates]
    BY DEF Inv, TypeOK, TargetStates
  <2>2. \A n \in Members : (tgt'[n] = "Committed") <=> (tgt[n] = "Committed")
    BY <1>1, <1>4, <2>1
  <2> QED
    BY <1>2, <1>4, <2>2, Quiet
<1>5. CASE /\ UNCHANGED tgt /\ old' = [old EXCEPT ![m] = IF @ = "Draining" THEN "Running" ELSE @]
           /\ journal = NoJournal /\ b[1] = "old"
  <2>1. old \in [Members -> OldStates]
    BY DEF Inv, TypeOK, OldStates
  <2>2. CASE old[m] # "Draining"
    BY <1>1, <1>2, <1>5, <2>1, <2>2, Quiet
  <2>3. CASE old[m] = "Draining"
    <3>1. AtRest
      BY <1>5 DEF Inv, JournalInv
    <3>2. Decision # "commit"
      BY <1>1, <1>5, <2>3, <3>1, DecisionIs DEF AtRest, Gone
    <3>3. old' = [old EXCEPT ![m] = "Running"]
      BY <1>5, <2>3
    <3> QED
      BY <1>1, <1>5, <3>2, <3>3, ServesAgain
  <2> QED
    BY <2>2, <2>3
<1> QED
  BY <1>3, <1>4, <1>5, BrokerNames DEF WatchLooks

(* Every step is a step of the handover, or none. *)
LEMMA StepHandsOver ==
  ASSUME Inv, [Next]_vars
  PROVE  HandoverStep
<1>1. ASSUME ForwardStep PROVE HandoverStep
  <2>1. CASE \E m \in Members : SendPrepare(m) \/ RecordDrained(m) \/ PrepareAmbiguous(m)
                          \/ PrepareRefused(m) \/ Spawn(m) \/ RecordGated(m) \/ RecordReady(m)
                          \/ CommitOld(m) \/ RecordOldCommitted(m) \/ OldCommitFailed(m)
                          \/ TargetCommitFailed(m)
    BY <2>1, NotesQuiet, ForwardQuiet, EndsQuiet, PhaseSteps, TargetSteps, OldSteps
  <2> QED
    BY <1>1, <2>1, ForwardQuiet, PhaseSteps, EndsQuiet DEF ForwardStep
<1>2. ASSUME DriverStep PROVE HandoverStep
  <2>1. CASE \E m \in Members : CommitTarget(m) \/ RecordTargetCommitted(m)
    BY <2>1, ServiceSteps, ForwardQuiet
  <2>2. CASE \E d \in Brokers \cup {Coordinator} :
          \/ ResolvePrepare(d) \/ ResolveTargetSpawn(d) \/ BeginRetirement(d)
          \/ RetireTarget(d) \/ WriteTargetReceipt(d) \/ RecordRetired(d)
          \/ RestoreBridge(d) \/ ResumeIntent(d) \/ AbortDrain(d) \/ RecordResumed(d)
          \/ FinishRollback(d) \/ RollbackStuck(d)
    BY <2>2, RollbackQuiet, TargetSteps, NotesQuiet, ServiceSteps, PhaseSteps, EndsQuiet
  <2> QED
    BY <1>2, <2>1, <2>2, NotesQuiet, PhaseSteps, RecordsQuiet, ForwardQuiet, EndsQuiet
       DEF DriverStep
<1>3. ASSUME NEW m \in Members, BrokerStep(m) PROVE HandoverStep
  BY <1>3, OldSteps, NotesQuiet, TargetSteps, ServiceSteps, RecordsQuiet, ForwardQuiet DEF BrokerStep
<1>4. ASSUME FaultStep PROVE HandoverStep
  BY <1>4, NotesQuiet, EndsQuiet, OldSteps, TargetSteps DEF FaultStep
<1>5. ASSUME NEW b \in Brokers, WatchStep(b) \/ WatchLocks(b) PROVE HandoverStep
  BY <1>5, WatchLooksServes, EndsQuiet, NotesQuiet DEF WatchStep
<1>6. ASSUME NEW m \in Members, Poll(m) \/ OldExits(m) PROVE HandoverStep
  BY <1>6, NotesQuiet, OldSteps
<1>7. CASE UNCHANGED vars
  BY <1>7, QuietRun DEF vars, disk, run, procs, host
<1> QED
  BY <1>1, <1>2, <1>3, <1>4, <1>5, <1>6, <1>7, NotesQuiet, RecordsQuiet, PhaseSteps DEF Next

(* A unit in service, nothing decided. *)
LEMMA InitHandsOver == Init => Handover!Init
<1> SUFFICES ASSUME Init PROVE Handover!Init
  OBVIOUS
<1>1. Decision = "open"
  BY DEF Init, Decision, NoJournal
<1>2. Serving = [m \in Members |-> "old"]
  BY DEF Init, Serving
<1> QED
  BY <1>1, <1>2 DEF Handover!Init

(* The journal, the coordinator, the brokers and their watches implement the *)
(* handover of UnitHandover: whatever crashes, fails to be written or dies, the *)
(* replacement is decided at most once and only in a quiet unit, replacements *)
(* open only after that decision, and previous brokers resume only without it. *)
THEOREM ImplementsHandover == Spec => HandoverSpec
<1>1. Init => Handover!Init
  BY InitHandsOver
<1>2. Inv /\ [Next]_vars => [Handover!Next]_(Handover!vars)
  BY StepHandsOver DEF HandoverStep
<1> QED
  BY <1>1, <1>2, InvAlways, PTL DEF Spec, HandoverSpec, Handover!Spec

(***************************************************************************)
(* The invariants the runs check.                                          *)
(***************************************************************************)

(* Every variable of the activation keeps its type. *)
THEOREM TypesAlways == Spec => []TypeOK
<1>1. Inv => TypeOK
  BY DEF Inv
<1> QED
  BY <1>1, InvAlways, PTL

(* No driver ever writes a record that read_journal would refuse, and none is *)
(* stranded by one: validate holds of the journal in every reachable state. *)
THEOREM JournalValidAlways == Spec => []JournalValid
<1>1. Inv => JournalValid
  BY DEF Inv, JournalInv, JournalOK, JournalValid
<1> QED
  BY <1>1, InvAlways, PTL

(* A replacement that listens and a previous broker that serves never share a *)
(* member's socket. *)
THEOREM OneListenerAlways == Spec => []OneListener
<1>1. Inv => OneListener
  BY DEF Inv, BrokerOK, OneListener
<1> QED
  BY <1>1, InvAlways, PTL

(* A stop-confirmation, on disk for a later driver to rely on, is always true: *)
(* the broker it names is stopped for good. *)
THEOREM ReceiptsTrueAlways == Spec => []ReceiptsTrue
<1>1. Inv => ReceiptsTrue
  BY DEF Inv, TypeOK, BrokerOK, ReceiptsTrue, Gone
<1> QED
  BY <1>1, InvAlways, PTL

(* A broker in service faces a session that loaded the bridge of its own *)
(* generation, through the reloads of an activation and of its rollback. *)
THEOREM BridgeMatchesAlways == Spec => []BridgeMatches
<1>1. Inv => BridgeMatches
  BY DEF Inv, BrokerOK, BridgeMatches
<1> QED
  BY <1>1, InvAlways, PTL

(* A unit recorded as replaced has every previous broker stopped and opened every *)
(* replacement; one recorded as restored has no replacement left running. *)
THEOREM TerminalIsTrueAlways == Spec => []TerminalIsTrue
<1>1. ASSUME Inv PROVE TerminalIsTrue
  <2>1. TypeOK /\ JournalInv
    BY <1>1 DEF Inv
  <2>2. CASE journal = NoJournal
    <3>1. journal.phase = "None" /\ AtRest
      BY <2>1, <2>2, JournalFacts DEF JournalInv
    <3> QED
      BY <3>1 DEF TerminalIsTrue, AtRest, Gone
  <2>3. CASE journal # NoJournal
    <3>1. outcome = "none" /\ MembersValid(journal)
          /\ \A m \in Members : OldRec(journal, m) /\ TargetRec(journal, m)
      BY <2>1, <2>3 DEF JournalInv, JournalOK, validate, Recorded
    <3>2. journal.phase = "Committed" => \A m \in Members : journal.target[m] = "Committed"
      BY <3>1 DEF MembersValid
    <3>3. journal.phase = "RolledBack" => \A m \in Members : journal.target[m] \in {"Absent", "Retired"}
      BY <3>1 DEF MembersValid
    <3> QED
      BY <3>1, <3>2, <3>3 DEF TerminalIsTrue, OldRec, TargetRec, Gone
  <2> QED
    BY <2>2, <2>3
<1> QED
  BY <1>1, InvAlways, PTL

(* No member is served by its previous broker while another is served by its *)
(* replacement. *)
THEOREM OneGenerationAlways == Spec => []Handover!OneGeneration
<1>1. ASSUME Inv PROVE Handover!OneGeneration
  <2>1. SUFFICES ASSUME NEW m \in Members, NEW n \in Members, Serving[m] = "old", Serving[n] = "target"
                 PROVE  FALSE
    BY DEF Handover!OneGeneration
  <2>2. old[m] = "Running" /\ tgt[n] = "Committed"
    BY <2>1 DEF Serving
  <2> QED
    BY <1>1, <2>2, Followed
<1> QED
  BY <1>1, InvAlways, PTL







===========================================================================
