---------------------------- MODULE PackageUpdate ----------------------------
(***************************************************************************)
(* Unattended package updates of the persistent root: the updater          *)
(* (initramfs/rog5-update: run, commit, rollback) on a running system, and *)
(* the part of persistent-root-init that a boot runs before it mounts the  *)
(* overlay (apply_update_rollback).                                        *)
(*                                                                         *)
(* Both work on the overlay file system, one journaling file system whose  *)
(* changes reach the disk in order: fs is what is seen, disk what power    *)
(* loss may leave.  A step whose predecessor was followed by sync starts   *)
(* from a settled disk.  The name of a new file may reach the disk before  *)
(* its content (LateData); a rename over an existing file may not.         *)
(***************************************************************************)
EXTENDS Naturals, Integers, FiniteSets

CONSTANTS
    MaxUpdates,   \* updates that are started
    Paths,        \* user-data paths that snapshots exclude
    MaxCrashes,   \* power losses
    LateData,     \* whether a new file's name may survive without its content
    Disturbances  \* subset of {"user", "kill", "damage", "io"}: what else happens

ASSUME BoundsAssumption == MaxUpdates \in Nat /\ MaxCrashes \in Nat

VARIABLES
    fs, disk,     \* the overlay file system
    phase,        \* off | init | up
    pc,           \* the next step of the init or of the updater's action
    id,           \* the update that the step is about
    used,         \* update ids given out
    commitFailed, \* /run/rog5-update-commit.failed
    crashes,
    damaged,      \* history: a snapshot was damaged from outside
    boots         \* history: boots of each update while it was pending

vars == <<fs, disk, phase, pc, id, used, commitFailed, crashes, damaged, boots>>

Ids == 1..MaxUpdates

\* A root tree: the update that made it, whether a transaction is unfinished
\* in it (the user's own, or the updater's) or power loss took contents that a
\* finished one wrote (lost), and the user data in it.
Trees == [sys : 0..MaxUpdates, state : {"whole", "user", "update", "lost"},
          user : SUBSET Paths]
NoTree == [sys |-> -1, state |-> "whole", user |-> {}]

None == 0
TornRecord == -1
Pacman == -2          \* db.lck of a pacman transaction

NoPending == [id |-> None, action |-> "none"]
NoAttempt == [id |-> None, kind |-> "none"]
NoJournal == [id |-> None, reason |-> "none"]
NoSnap == [copy |-> NoTree, failed |-> NoTree, seal |-> FALSE]

\* Every variable has its type.
TypeOK ==
    /\ \A f \in disk \cup {fs} :
          /\ {f.upper, f.tmp} \subseteq Trees \cup {NoTree}
          /\ \A i \in Ids : {f.snap[i].copy, f.snap[i].failed} \subseteq Trees \cup {NoTree}
          /\ f.pending \in [id : 0..MaxUpdates, action : {"none", "torn", "verify", "restore"}]
          /\ f.attempt \in [id : 0..MaxUpdates, kind : {"none", "torn", "this", "earlier"}]
          /\ f.journal \in [id : 0..MaxUpdates,
                            reason : {"none", "torn", "restore-requested",
                                      "boot-not-committed", "attempt-unrecorded"}]
          /\ f.result \in [id : 0..MaxUpdates,
                           value : {"none", "committed", "rolled-back", "refused"}]
          /\ f.targets \in 0..MaxUpdates
          /\ f.lastGood \in {TornRecord} \cup 0..MaxUpdates
          /\ f.snapLock \in {TornRecord} \cup 0..MaxUpdates
          /\ f.lck \in {Pacman} \cup 0..MaxUpdates
          /\ f.failures \in 0..3
    /\ phase \in {"off", "init", "up"}
    /\ id \in 0..MaxUpdates /\ used \in 0..MaxUpdates
    /\ commitFailed \in BOOLEAN /\ damaged \in BOOLEAN
    /\ crashes \in 0..MaxCrashes
    /\ boots \in [Ids -> Nat]

Init ==
    /\ fs = [upper |-> [sys |-> 0, state |-> "whole", user |-> Paths],
             snap |-> [i \in Ids |-> NoSnap], tmp |-> NoTree,
             pending |-> NoPending, attempt |-> NoAttempt, journal |-> NoJournal,
             result |-> [id |-> None, value |-> "none"], lastGood |-> None,
             targets |-> None, failures |-> 0, snapLock |-> None, lck |-> None]
    /\ disk = {fs}
    /\ phase = "off" /\ pc = "off" /\ id = None /\ used = 0
    /\ commitFailed = FALSE /\ crashes = 0 /\ damaged = FALSE
    /\ boots = [i \in Ids |-> 0]

-----------------------------------------------------------------------------
(* The file system.                                                         *)

\* A change without a sync since the last one, and one that follows a sync.
Op(f) == fs' = f /\ disk' = disk \cup {f}
AfterSync(f) == fs' = f /\ disk' = {fs, f}
Sync == disk' = {fs} /\ UNCHANGED fs

\* write_record and write_update_record of a record that did not exist: the
\* mv; torn is the record with its name alone.  The sync comes with the next
\* step.
NewRecord(f, torn) == fs' = f /\ disk' = {fs, f} \cup (IF LateData THEN {torn} ELSE {})

\* verify_update_snapshot and snapshot_valid.
SnapshotExact(i) == fs.snap[i].seal /\ fs.snap[i].copy # NoTree

\* A step of the process that runs: the init, or the updater's action, which
\* holds the updater's lock.
Step(from, to) == pc = from /\ pc' = to

env == <<used, commitFailed, crashes, damaged, boots>>

-----------------------------------------------------------------------------
(* persistent-root-init: apply_update_rollback.                             *)

Boot ==
    /\ phase = "off"
    /\ phase' = "init"
    /\ pc' = "apply"
    /\ UNCHANGED <<fs, disk, id, env>>

\* What the records ask for.  A journal that is not exact stops the boot.
ApplyRollback ==
    /\ pc = "apply"
    /\ IF fs.journal # NoJournal
       THEN IF fs.journal.reason = "torn" THEN pc' = "stopped" /\ UNCHANGED id
            ELSE pc' = "moveFailed" /\ id' = fs.journal.id
       ELSE IF fs.pending.action \in {"none", "torn"}
       THEN pc' = "mount" /\ UNCHANGED id
       ELSE /\ id' = fs.pending.id
            /\ pc' = IF fs.pending.action = "restore" \/ fs.attempt # NoAttempt
                     THEN "journal" ELSE "attempt"
    /\ UNCHANGED <<fs, disk, phase, env>>

\* Mutant of WriteAttempt: the record is not synced.
MutWriteAttemptUnsynced ==
    /\ pc = "attempt"
    /\ LET f == [fs EXCEPT !.attempt = [id |-> id, kind |-> "this"]] IN
       fs' = f /\ disk' = {fs, f}
    /\ phase' = "up" /\ pc' = "idle"
    /\ boots' = [boots EXCEPT ![id] = @ + 1]
    /\ UNCHANGED <<id, used, commitFailed, crashes, damaged>>

\* The first boot of an update is recorded; if it cannot be, the update is
\* not tried.
WriteAttempt ==
    /\ pc = "attempt"
    /\ \/ /\ NewRecord([fs EXCEPT !.attempt = [id |-> id, kind |-> "this"]],
                       [fs EXCEPT !.attempt = [id |-> id, kind |-> "torn"]])
          /\ pc' = "mount"
       \/ UNCHANGED <<fs, disk>> /\ pc' = "journal"
    /\ UNCHANGED <<phase, id, env>>

Reason == IF fs.pending.action = "restore" THEN "restore-requested"
          ELSE IF fs.attempt # NoAttempt THEN "boot-not-committed" ELSE "attempt-unrecorded"

\* restore_update_snapshot until its journal.
WriteJournal ==
    /\ pc = "journal"
    /\ IF fs.snap[id].failed # NoTree \/ ~SnapshotExact(id)
       THEN pc' = "refuse" /\ UNCHANGED <<fs, disk>>
       ELSE /\ NewRecord([fs EXCEPT !.journal = [id |-> id, reason |-> Reason]],
                         [fs EXCEPT !.journal = [id |-> id, reason |-> "torn"]])
            /\ pc' = "moveFailed"
    /\ UNCHANGED <<phase, id, env>>

\* upper becomes failed-upper.
MoveFailed ==
    /\ pc = "moveFailed"
    /\ IF fs.upper # NoTree /\ fs.snap[id].failed = NoTree
       THEN IF SnapshotExact(id)
            THEN /\ AfterSync([fs EXCEPT !.snap[id].failed = fs.upper, !.upper = NoTree])
                 /\ pc' = "moveCopy"
            ELSE /\ AfterSync([fs EXCEPT !.journal = NoJournal])
                 /\ pc' = "refuse"
       ELSE pc' = "moveCopy" /\ Sync
    /\ UNCHANGED <<phase, id, env>>

\* The copy becomes upper; if it does not verify any more, the restore is
\* undone.  db.lck is part of upper and is not copied.
MoveCopy ==
    /\ pc = "moveCopy"
    /\ IF fs.upper = NoTree /\ fs.snap[id].failed # NoTree
       THEN IF SnapshotExact(id)
            THEN /\ AfterSync([fs EXCEPT !.upper = fs.snap[id].copy,
                                         !.snap[id].copy = NoTree, !.lck = None])
                 /\ pc' = "userData"
            ELSE /\ AfterSync([fs EXCEPT !.upper = fs.snap[id].failed,
                                         !.snap[id].failed = NoTree])
                 /\ pc' = "undone"
       ELSE pc' = "userData" /\ Sync
    /\ UNCHANGED <<phase, id, env>>

UndoJournal ==
    /\ Step("undone", "refuse")
    /\ AfterSync([fs EXCEPT !.journal = NoJournal])
    /\ UNCHANGED <<phase, id, env>>

\* restore_update_user_data: the seal is read again, then one rename and a sync
\* for each path; one that is in both roots stops the boot.
MoveUserData ==
    LET failed == fs.snap[id].failed IN
    /\ pc = "userData"
    /\ IF \/ fs.upper = NoTree \/ failed = NoTree \/ fs.snap[id].copy # NoTree
          \/ ~fs.snap[id].seal \/ fs.upper.user \cap failed.user # {}
       THEN pc' = "stopped" /\ UNCHANGED <<fs, disk>>
       ELSE IF failed.user = {}
       THEN Sync /\ pc' = "result"
       ELSE \E p \in failed.user :
               /\ AfterSync([fs EXCEPT !.upper.user = @ \cup {p},
                                       !.snap[id].failed.user = @ \ {p}])
               /\ pc' = "userData"
    /\ UNCHANGED <<phase, id, env>>

\* last-result; the records go before the journal does.
WriteResult ==
    /\ Step("result", "clear")
    /\ AfterSync([fs EXCEPT !.result = [id |-> id, value |-> "rolled-back"]])
    /\ UNCHANGED <<phase, id, env>>

ClearPending ==
    /\ Step("clear", "clearAttempt")
    /\ AfterSync([fs EXCEPT !.pending = NoPending])
    /\ UNCHANGED <<phase, id, env>>

ClearAttempt ==
    /\ Step("clearAttempt", "clearJournal")
    /\ Op([fs EXCEPT !.attempt = NoAttempt])
    /\ UNCHANGED <<phase, id, env>>

\* Mutant of ClearJournal: the journal is kept.
MutClearJournalKept ==
    /\ Step("clearJournal", "mount")
    /\ Sync
    /\ UNCHANGED <<phase, id, env>>

ClearJournal ==
    /\ Step("clearJournal", "mount")
    /\ AfterSync([fs EXCEPT !.journal = NoJournal])
    /\ UNCHANGED <<phase, id, env>>

\* Case 2 of apply_update_rollback: the updated root is booted unchanged.
RefuseRestore ==
    /\ Step("refuse", "refused")
    /\ AfterSync([fs EXCEPT !.result = [id |-> id, value |-> "refused"]])
    /\ UNCHANGED <<phase, id, env>>

RefuseClearPending ==
    /\ Step("refused", "refusedAttempt")
    /\ AfterSync([fs EXCEPT !.pending = NoPending])
    /\ UNCHANGED <<phase, id, env>>

RefuseClearAttempt ==
    /\ Step("refusedAttempt", "mount")
    /\ Op([fs EXCEPT !.attempt = NoAttempt])
    /\ UNCHANGED <<phase, id, env>>

\* A command of the init fails: apply_update_rollback returns 1 and the boot
\* stops.
InitFails ==
    /\ phase = "init" /\ pc \notin {"apply", "mount", "stopped"} /\ "io" \in Disturbances
    /\ pc' = "stopped"
    /\ UNCHANGED <<fs, disk, phase, id, env>>

\* The overlay is mounted and the system runs.
MountRoot ==
    /\ Step("mount", "idle")
    /\ phase' = "up"
    /\ Sync
    /\ commitFailed' = FALSE
    /\ boots' = IF fs.pending.action = "verify" /\ fs.attempt.kind = "this"
                THEN [boots EXCEPT ![fs.pending.id] = @ + 1] ELSE boots
    /\ id' = None /\ UNCHANGED <<used, crashes, damaged>>

-----------------------------------------------------------------------------
(* rog5-update run: bookkeeping and recovery.                               *)

\* A step of an action of the updater.
Action(from, to) == phase = "up" /\ Step(from, to)

RunBegin ==
    /\ Action("idle", "settle")
    /\ UNCHANGED <<fs, disk, phase, id, env>>

\* settle_previous: an update that was not committed is counted.
Settle ==
    /\ phase = "up" /\ pc = "settle"
    /\ IF fs.targets = None \/ fs.targets # fs.result.id \/ fs.pending.action # "none"
       THEN pc' = "recover" /\ UNCHANGED <<fs, disk>>
       ELSE IF fs.result.value = "committed"
       THEN pc' = "recover" /\ Op([fs EXCEPT !.targets = None])
       ELSE pc' = "settled" /\ Op([fs EXCEPT !.failures = IF @ < 3 THEN @ + 1 ELSE @])
    /\ UNCHANGED <<phase, id, env>>

SettleTargets ==
    /\ Action("settled", "recover")
    /\ Op([fs EXCEPT !.targets = None])
    /\ UNCHANGED <<phase, id, env>>

\* Mutant of RecoverLock: any db.lck is taken for the interrupted copy's.
MutRecoverLockAny ==
    /\ phase = "up" /\ pc = "recover"
    /\ IF fs.snapLock = TornRecord
       THEN pc' = "idle" /\ UNCHANGED <<fs, disk>>
       ELSE /\ pc' = "recoverRecord"
            /\ IF fs.snapLock # None THEN Op([fs EXCEPT !.lck = None]) ELSE UNCHANGED <<fs, disk>>
    /\ UNCHANGED <<phase, id, env>>

\* recover_interrupted_snapshot: only a db.lck with the recorded token goes.
RecoverLock ==
    /\ phase = "up" /\ pc = "recover"
    /\ IF fs.snapLock = TornRecord
       THEN pc' = "idle" /\ UNCHANGED <<fs, disk>>
       ELSE /\ pc' = "recoverRecord"
            /\ IF fs.snapLock # None /\ fs.lck = fs.snapLock
               THEN Op([fs EXCEPT !.lck = None]) ELSE UNCHANGED <<fs, disk>>
    /\ UNCHANGED <<phase, id, env>>

RecoverRecord ==
    /\ Action("recoverRecord", "recoverTmp")
    /\ Op([fs EXCEPT !.snapLock = None])
    /\ UNCHANGED <<phase, id, env>>

RecoverTmp ==
    /\ Action("recoverTmp", "pending")
    /\ Op([fs EXCEPT !.tmp = NoTree])
    /\ UNCHANGED <<phase, id, env>>

\* With a pending update, run only reboots: into its first boot or its
\* restore, or, after a failed commit, into the restore that follows.
RunPending ==
    /\ phase = "up" /\ pc = "pending"
    /\ \/ fs.pending.action = "none" /\ pc' = "admit"
       \/ fs.pending.action # "none" /\ pc' = "idle"
       \/ /\ fs.pending.action \in {"verify", "restore"}
          /\ fs.attempt = NoAttempt \/ commitFailed
          /\ pc' = "reboot"
    /\ UNCHANGED <<fs, disk, phase, id, env>>

\* The pause after three failures, and every other reason not to update now.
Admit ==
    /\ phase = "up" /\ pc = "admit"
    /\ \/ pc' = "idle" /\ UNCHANGED <<id, used>>
       \/ /\ fs.failures < 3 /\ fs.lck = None /\ used < MaxUpdates
          /\ used' = used + 1 /\ id' = used'
          /\ pc' = "mkdir"
    /\ UNCHANGED <<fs, disk, phase, commitFailed, crashes, damaged, boots>>

-----------------------------------------------------------------------------
(* make_snapshot.                                                           *)

MakeTmp ==
    /\ Action("mkdir", "record")
    /\ Op([fs EXCEPT !.tmp = [NoTree EXCEPT !.sys = 0]])
    /\ UNCHANGED <<phase, id, env>>

\* The token is recorded, durably, before db.lck can hold it.
RecordLock ==
    /\ Action("record", "link")
    /\ fs' = [fs EXCEPT !.snapLock = id]
    /\ disk' = disk \cup {fs'} \cup
               (IF LateData THEN {[fs EXCEPT !.snapLock = TornRecord]} ELSE {})
    /\ UNCHANGED <<phase, id, env>>

\* Mutant of LinkLock: a failed ln does not end the copy.
MutLinkLockIgnored ==
    /\ phase = "up" /\ pc = "link"
    /\ IF fs.lck = None THEN AfterSync([fs EXCEPT !.lck = id]) ELSE Sync
    /\ pc' = "copy"
    /\ UNCHANGED <<phase, id, env>>

\* ln of db.lck, which fails while a pacman transaction runs.
LinkLock ==
    /\ phase = "up" /\ pc = "link"
    /\ IF fs.lck = None
       THEN AfterSync([fs EXCEPT !.lck = id]) /\ pc' = "copy"
       ELSE AfterSync([fs EXCEPT !.snapLock = None]) /\ pc' = "discard"
    /\ UNCHANGED <<phase, id, env>>

\* tar of upper without the user data; it may fail.
CopyUpper ==
    /\ phase = "up" /\ pc = "copy"
    /\ \/ AfterSync([fs EXCEPT !.tmp = [fs.upper EXCEPT !.user = {}]]) /\ pc' = "release"
       \/ UNCHANGED <<fs, disk>> /\ pc' = "releaseFailed"
    /\ UNCHANGED <<phase, id, env>>

\* release_snapshot_lock, then the record.
ReleaseLock(from, to) ==
    /\ Action(from, to)
    /\ Op([fs EXCEPT !.lck = IF @ = id THEN None ELSE @])
    /\ UNCHANGED <<phase, id, env>>

Unrecord(from, to) ==
    /\ Action(from, to)
    /\ Op([fs EXCEPT !.snapLock = None])
    /\ UNCHANGED <<phase, id, env>>

ReleaseCopied == ReleaseLock("release", "unrecord") \/ Unrecord("unrecord", "seal")
ReleaseFailed == ReleaseLock("releaseFailed", "unrecordFailed")
                 \/ Unrecord("unrecordFailed", "discard")

\* rm -rf of the partial copy.
Discard ==
    /\ Action("discard", "idle")
    /\ Op([fs EXCEPT !.tmp = NoTree])
    /\ id' = None /\ UNCHANGED <<phase, env>>

\* The seal and its sync, the rename to the snapshot's name, and its sync.
SealSnapshot ==
    /\ Action("seal", "targets")
    /\ AfterSync([fs EXCEPT !.tmp = NoTree,
                            !.snap[id] = [NoSnap EXCEPT !.copy = fs.tmp, !.seal = TRUE]])
    /\ UNCHANGED <<phase, id, env>>

\* HUP, INT or TERM while the trap is set.
Interrupted ==
    /\ phase = "up" /\ pc \in {"link", "copy"}
    /\ pc' = "idle"
    /\ fs' = [fs EXCEPT !.lck = IF @ = id THEN None ELSE @, !.snapLock = None]
    /\ disk' = disk \cup {fs', [fs EXCEPT !.lck = fs'.lck]}
    /\ id' = None /\ UNCHANGED <<phase, env>>

-----------------------------------------------------------------------------
(* The upgrade.                                                             *)

WriteTargets ==
    /\ Action("targets", "arm")
    /\ AfterSync([fs EXCEPT !.targets = id])
    /\ UNCHANGED <<phase, id, env>>

\* Mutant of ArmRestore: pending is written only after the upgrade.
MutArmRestoreLate ==
    /\ Action("arm", "upgrade")
    /\ UNCHANGED <<fs, disk, phase, id, env>>

\* arm_pending restore: any interruption from here restores.
ArmRestore ==
    /\ Action("arm", "upgrade")
    /\ fs' = [fs EXCEPT !.pending = [id |-> id, action |-> "restore"]]
    /\ disk' = disk \cup {fs'} \cup
               (IF LateData THEN {[fs EXCEPT !.pending = [id |-> id, action |-> "torn"]]}
                ELSE {})
    /\ UNCHANGED <<phase, id, env>>

\* pacman takes its own lock and changes the root, or fails at once: -S of a new
\* keyring in a transaction of its own, or -Su.
UpgradeBegin ==
    /\ phase = "up" /\ pc = "upgrade"
    /\ \/ /\ fs.lck = None
          /\ AfterSync([fs EXCEPT !.lck = Pacman, !.upper.sys = id, !.upper.state = "update"])
          /\ pc' \in {"keyring", "upgrading"}
       \/ Sync /\ pc' = "failed"
    /\ UNCHANGED <<phase, id, env>>

KeyringEnd ==
    /\ phase = "up" /\ pc = "keyring"
    /\ Op([fs EXCEPT !.lck = None])
    /\ pc' \in {"upgradeRest", "failed"}
    /\ UNCHANGED <<phase, id, env>>

\* pacman -Su after the keyring, unless a user's pacman was faster.
UpgradeRest ==
    /\ phase = "up" /\ pc = "upgradeRest"
    /\ \/ /\ fs.lck = None
          /\ Op([fs EXCEPT !.lck = Pacman])
          /\ pc' = "upgrading"
       \/ UNCHANGED <<fs, disk>> /\ pc' = "failed"
    /\ UNCHANGED <<phase, id, env>>

\* The transaction ends, or fails in the middle; pacman's lock is released.
UpgradeEnd ==
    /\ phase = "up" /\ pc = "upgrading"
    /\ \/ /\ Op([fs EXCEPT !.lck = None, !.upper.state = "whole"])
          /\ pc' = "verify"
       \/ /\ Op([fs EXCEPT !.lck = None])
          /\ pc' = "failed"
    /\ UNCHANGED <<phase, id, env>>

\* verify-root, then arm_pending verify, over the record that is there: the
\* upgraded files reach the disk no earlier than the sync after it.
ArmVerify ==
    /\ phase = "up" /\ pc = "verify"
    /\ \/ /\ fs' = [fs EXCEPT !.pending = [id |-> id, action |-> "verify"]]
          /\ disk' = disk \cup {fs', [fs' EXCEPT !.upper.state = "lost"]}
          /\ pc' = "verified"
       \/ UNCHANGED <<fs, disk>> /\ pc' = "failed"
    /\ UNCHANGED <<phase, id, env>>

\* reboot_now if the policy and the idle system allow it.
RunEnds ==
    /\ phase = "up" /\ pc \in {"verified", "failed"}
    /\ Sync
    /\ pc' \in {"reboot", "idle"}
    /\ id' = None /\ UNCHANGED <<phase, env>>

-----------------------------------------------------------------------------
(* rog5-update commit and rollback.                                         *)

\* The checks of action_commit until the boot is healthy.
CommitBegin ==
    /\ phase = "up" /\ pc = "idle"
    /\ IF fs.pending.action \in {"none", "torn"}
       THEN pc' = "idle" /\ commitFailed' = FALSE /\ UNCHANGED id
       ELSE \/ pc' = "idle" /\ commitFailed' = TRUE /\ UNCHANGED id
            \/ /\ fs.pending.action = "verify"
               /\ fs.attempt = [id |-> fs.pending.id, kind |-> "this"]
               /\ pc' = "commit" /\ commitFailed' = FALSE
               /\ id' = fs.pending.id
    /\ UNCHANGED <<fs, disk, phase, used, crashes, damaged, boots>>

\* verify-root again; a root that fails it is armed for restore.
CommitVerify ==
    /\ phase = "up" /\ pc = "commit"
    /\ \/ /\ fs' = [fs EXCEPT !.lastGood = id]
          /\ disk' = {fs, fs'} \cup (IF LateData /\ fs.lastGood = None
                                    THEN {[fs EXCEPT !.lastGood = TornRecord]} ELSE {})
          /\ pc' = "commitResult"
       \/ /\ AfterSync([fs EXCEPT !.pending = [id |-> id, action |-> "restore"]])
          /\ pc' = "armedAgain"
    /\ UNCHANGED <<phase, id, env>>

\* The restore is armed: reboot_now, or the mark of a failed commit.
CommitFails ==
    /\ phase = "up" /\ pc = "armedAgain"
    /\ Sync
    /\ \/ pc' = "reboot" /\ UNCHANGED commitFailed
       \/ pc' = "idle" /\ commitFailed' = TRUE
    /\ id' = None
    /\ UNCHANGED <<phase, used, crashes, damaged, boots>>

CommitResult ==
    /\ Action("commitResult", "commitPending")
    /\ AfterSync([fs EXCEPT !.result = [id |-> id, value |-> "committed"]])
    /\ UNCHANGED <<phase, id, env>>

\* One rm -f, which unlinks in this order.
CommitPending ==
    /\ Action("commitPending", "commitAttempt")
    /\ AfterSync([fs EXCEPT !.pending = NoPending])
    /\ UNCHANGED <<phase, id, env>>

CommitAttempt ==
    /\ Action("commitAttempt", "commitTargets")
    /\ Op([fs EXCEPT !.attempt = NoAttempt])
    /\ UNCHANGED <<phase, id, env>>

CommitTargets ==
    /\ Action("commitTargets", "commitFailures")
    /\ Op([fs EXCEPT !.targets = None])
    /\ UNCHANGED <<phase, id, env>>

CommitFailures ==
    /\ Action("commitFailures", "commitSync")
    /\ Op([fs EXCEPT !.failures = 0])
    /\ UNCHANGED <<phase, id, env>>

CommitSync ==
    /\ Action("commitSync", "prune")
    /\ Sync
    /\ UNCHANGED <<phase, id, env>>

\* Mutant of Prune: snapshots that a restore consumed go as well.
MutPruneAll ==
    /\ phase = "up" /\ pc = "prune"
    /\ \/ /\ \E i \in Ids \ {id} : Op([fs EXCEPT !.snap[i] = NoSnap])
          /\ UNCHANGED <<pc, id>>
       \/ pc' = "idle" /\ id' = None /\ UNCHANGED <<fs, disk>>
    /\ UNCHANGED <<phase, env>>

\* prune_snapshots keeps this update's snapshot and every failed root; rm -rf
\* takes the others one after the other, and from each its seal first or last.
\* A failure is only logged.
Prune ==
    /\ phase = "up" /\ pc = "prune"
    /\ \/ /\ \/ \E i \in Ids \ {id} :
                   /\ fs.snap[i] # NoSnap /\ fs.snap[i].failed = NoTree
                   /\ \E rest \in {NoSnap, [fs.snap[i] EXCEPT !.seal = FALSE]} :
                         Op([fs EXCEPT !.snap[i] = rest])
             \/ Op([fs EXCEPT !.tmp = NoTree])
          /\ UNCHANGED <<pc, id>>
       \/ pc' = "idle" /\ id' = None /\ UNCHANGED <<fs, disk>>
    /\ UNCHANGED <<phase, env>>

\* action_rollback: the last good snapshot, or the only one that is kept.
Rollback ==
    LET kept == {i \in Ids : fs.snap[i].copy # NoTree /\ fs.snap[i].failed = NoTree} IN
    /\ phase = "up" /\ pc = "idle"
    /\ fs.pending = NoPending
    /\ \E i \in IF fs.lastGood # None THEN {fs.lastGood} \cap kept
                ELSE IF Cardinality(kept) = 1 THEN kept ELSE {} :
          /\ SnapshotExact(i)
          /\ id' = i
          /\ NewRecord([fs EXCEPT !.pending = [id |-> i, action |-> "restore"]],
                       [fs EXCEPT !.pending = [id |-> i, action |-> "torn"]])
    /\ pc' = "rollback"
    /\ UNCHANGED <<phase, used, commitFailed, crashes, damaged, boots>>

RollbackEnds ==
    /\ Action("rollback", "idle")
    /\ Sync
    /\ id' = None /\ UNCHANGED <<phase, env>>

\* rog5-update resume.
Resume ==
    /\ phase = "up" /\ pc = "idle" /\ fs.failures > 0
    /\ Op([fs EXCEPT !.failures = 0])
    /\ UNCHANGED <<phase, pc, id, env>>

-----------------------------------------------------------------------------
(* The user, shutdown and power loss.                                       *)

\* A pacman transaction of the user, from the lock to its end.
UserPacman ==
    /\ phase = "up" /\ "user" \in Disturbances
    /\ \/ fs.lck = None /\ Op([fs EXCEPT !.lck = Pacman, !.upper.state =
                                      IF @ = "whole" THEN "user" ELSE @])
       \/ /\ fs.lck = Pacman /\ pc \notin {"keyring", "upgrading"}
          /\ Op([fs EXCEPT !.lck = None, !.upper.state = IF @ = "user" THEN "whole" ELSE @])
    /\ UNCHANGED <<phase, pc, id, env>>

\* SIGKILL of the updater's action, or a command of it that fails.
KillAction ==
    /\ phase = "up" /\ pc # "idle" /\ "kill" \in Disturbances
    /\ pc' = "idle"
    /\ id' = None /\ UNCHANGED <<fs, disk, phase, env>>

\* A snapshot is damaged from outside.
Damage ==
    /\ ~damaged /\ "damage" \in Disturbances
    /\ \E i \in Ids : /\ fs.snap[i].seal
                      /\ fs' = [fs EXCEPT !.snap[i].seal = FALSE]
                      /\ disk' = {[f EXCEPT !.snap[i].seal = FALSE] : f \in disk}
    /\ damaged' = TRUE
    /\ UNCHANGED <<phase, pc, id, used, commitFailed, crashes, boots>>

\* /run is gone and the attempt was an earlier boot's.
Ended(f) ==
    /\ fs' = IF f.attempt.kind = "this" THEN [f EXCEPT !.attempt.kind = "earlier"] ELSE f
    /\ disk' = {fs'}
    /\ phase' = "off" /\ pc' = "off" /\ id' = None /\ commitFailed' = FALSE
    /\ UNCHANGED <<used, damaged, boots>>

\* A clean reboot, by the updater or the user; a boot that stops ends as well.
Shutdown ==
    /\ pc \in {"idle", "reboot", "stopped"}
    /\ Ended(fs)
    /\ UNCHANGED crashes

\* systemctl reboot is refused.
RebootRefused ==
    /\ Action("reboot", "idle")
    /\ id' = None /\ UNCHANGED <<fs, disk, phase, env>>

PowerLoss ==
    /\ phase # "off" /\ crashes < MaxCrashes
    /\ crashes' = crashes + 1
    /\ \E f \in disk : Ended(f)

InitSteps ==
    \/ ApplyRollback \/ WriteAttempt \/ WriteJournal \/ MoveFailed \/ MoveCopy
    \/ UndoJournal \/ MoveUserData \/ WriteResult \/ ClearPending \/ ClearAttempt
    \/ ClearJournal \/ RefuseRestore \/ RefuseClearPending \/ RefuseClearAttempt
    \/ MountRoot

RunSteps ==
    \/ Settle \/ SettleTargets \/ RecoverLock \/ RecoverRecord \/ RecoverTmp
    \/ RunPending \/ Admit \/ MakeTmp \/ RecordLock \/ LinkLock \/ CopyUpper
    \/ ReleaseCopied \/ ReleaseFailed \/ Discard \/ SealSnapshot \/ WriteTargets
    \/ ArmRestore \/ UpgradeBegin \/ KeyringEnd \/ UpgradeRest \/ UpgradeEnd \/ ArmVerify \/ RunEnds

CommitSteps ==
    \/ CommitVerify \/ CommitFails \/ CommitResult \/ CommitPending \/ CommitAttempt
    \/ CommitTargets \/ CommitFailures \/ CommitSync \/ Prune \/ RollbackEnds

Next ==
    \/ Boot \/ InitSteps \/ InitFails \/ RunBegin \/ RunSteps \/ Interrupted \/ CommitBegin
    \/ CommitSteps \/ Rollback \/ Resume \/ UserPacman \/ KillAction \/ Damage
    \/ Shutdown \/ RebootRefused \/ PowerLoss

Spec == Init /\ [][Next]_vars

\* The phone is booted again, and the init runs to its end or to a power loss.
FairSpec == Spec /\ WF_vars(Boot) /\ WF_vars(InitSteps) /\ WF_vars(pc = "stopped" /\ Shutdown)

-----------------------------------------------------------------------------
(* Properties.                                                              *)

\* No root, one with an unfinished upgrade, or one with lost contents that was
\* not yet booted to be judged.
Unfinished(f) ==
    \/ f.upper = NoTree \/ f.upper.state = "update"
    \/ f.upper.state = "lost" /\ boots[f.upper.sys] = 0

\* The next boot restores the snapshot, or boots the verified update to judge it:
\* an exact journal, or none and an exact pending record, whose sealed copy is there.
WayBack(f) ==
    LET i == IF f.journal # NoJournal THEN f.journal.id ELSE f.pending.id IN
    Unfinished(f) =>
        /\ f.journal.reason # "torn"
        /\ f.journal = NoJournal =>
              /\ f.upper # NoTree
              /\ f.pending.action \in IF f.upper.state = "update" THEN {"restore"}
                                     ELSE {"verify", "restore"}
        /\ f.snap[i].seal /\ f.snap[i].copy # NoTree
        /\ f.snap[i].failed = NoTree <=> f.upper # NoTree

\* User data is in exactly one root ("a rollback no longer reverts /home").
UserDataKept(f) ==
    \A p \in Paths :
        /\ p \in f.upper.user \/ \E i \in Ids : p \in f.snap[i].failed.user
        /\ \A i \in Ids : ~(p \in f.upper.user /\ p \in f.snap[i].failed.user)

\* "Until verify-root passes, any interruption restores at the next boot": when
\* the phone is off, an update that did not end has a way back.
InterruptionRestores == phase = "off" /\ ~damaged => WayBack(fs)

\* At every moment, and after every power loss, neither the system nor the
\* owner's data is lost: an upgrade that did not end has a way back, or would
\* have it without a torn journal, which stops every boot with all still in its
\* place; and user data is in one root, the mounted one while the system runs.
NothingLost ==
    /\ \A f \in disk \cup {fs} :
          /\ UserDataKept(f)
          /\ ~damaged => \/ WayBack(f)
                         \/ f.journal.reason = "torn" /\ WayBack([f EXCEPT !.journal = NoJournal])
    /\ phase = "up" => fs.upper.user = Paths

\* A pending update is booted at most once before it is committed or restored.
PendingBootsOnce == \A i \in Ids : boots[i] <= 1

\* Every sealed snapshot is a root without an unfinished transaction: none ran
\* while it was copied ("Hold pacman's own lock so no transaction runs").
SnapshotsAreWhole ==
    ~damaged => \A f \in disk \cup {fs}, i \in Ids : f.snap[i].copy.state \in {"whole", "lost"}

\* The updater never removes the lock of a user's transaction that runs ("only a
\* db.lck holding the recorded token is ever removed").
UserLockKept ==
    [][phase = "up" /\ fs.upper.state = "user" /\ fs.lck = Pacman /\ fs'.upper.state = "user"
          => fs'.lck = Pacman]_vars

\* The root that a rollback replaced stays until the owner removes it
\* ("the failed upper is kept as snapshots/$id/failed-upper"): without damage
\* only an undone restore takes it away again.
FailedRootKept ==
    [][\A i \in Ids : phase = "up" /\ fs.snap[i].failed # NoTree /\ phase' = "up"
          => fs'.snap[i].failed = fs.snap[i].failed]_vars

\* A restore whose journal is durable ends: a later boot finishes or undoes
\* what a reset interrupted.
RestoreEnds ==
    (\A f \in disk : f.journal.reason \notin {"none", "torn"}) ~> fs.journal = NoJournal

\* "A pending update boots once.  If that boot did not commit it ... the sealed
\* snapshot replaces upper": a restore for a boot that did not commit is
\* one after an attempt to boot that very update.
RestoredAfterItsBoot ==
    fs.journal.reason = "boot-not-committed" => fs.attempt.id \in {fs.journal.id, None}

\* What the two comments say of apply_update_rollback: it restores whenever an
\* update was interrupted, and an update whose boot did not commit only after
\* that boot.
RestoresWhenDue == InterruptionRestores /\ RestoredAfterItsBoot
=============================================================================
