------------------------- MODULE PackageUpdateProofs -------------------------
(***************************************************************************)
(* Package updates, for any number of updates and power losses, any user   *)
(* data paths, every subset of the disturbances and either kind of file    *)
(* system: nothing is lost, a pending update boots once, snapshots are     *)
(* whole roots, a user's lock is kept and so is a root that was replaced.  *)
(***************************************************************************)
EXTENDS PackageUpdate, TLAPS

\* Leaves are left to Zenon; the ones with arithmetic or many cases name SMT.
USE ZenonT(30)

-----------------------------------------------------------------------------
(* What any state of the file system is, whenever power is lost.            *)

AnyTree == Trees \cup {NoTree}
Snapshots == [copy : AnyTree, failed : AnyTree, seal : BOOLEAN]
Pendings == [id : 0..MaxUpdates, action : {"none", "torn", "verify", "restore"}]
Attempts == [id : 0..MaxUpdates, kind : {"none", "torn", "this", "earlier"}]
Journals == [id : 0..MaxUpdates,
             reason : {"none", "torn", "restore-requested", "boot-not-committed",
                       "attempt-unrecorded"}]
Results == [id : 0..MaxUpdates, value : {"none", "committed", "rolled-back", "refused"}]

FileSystems ==
    [upper : AnyTree, snap : [Ids -> Snapshots], tmp : AnyTree, pending : Pendings,
     attempt : Attempts, journal : Journals, result : Results,
     lastGood : {TornRecord} \cup 0..MaxUpdates, targets : 0..MaxUpdates, failures : 0..3,
     snapLock : {TornRecord} \cup 0..MaxUpdates, lck : {Pacman} \cup 0..MaxUpdates]

\* A root that needs no way back: no upgrade is unfinished in it, and lost
\* contents were booted.  u, b and d below are used, boots and damaged.
Settled(t, b) ==
    /\ t.state # "update"
    /\ t.state = "lost" => t.sys \in Ids /\ b[t.sys] # 0

Armed(f) == f.pending.action \in {"verify", "restore"}
Exact(s) == s.seal /\ s.copy # NoTree

\* Records name updates that were started; later ones left nothing.
Fresh(f, u) ==
    /\ \A i \in Ids : i > u => f.snap[i] = NoSnap
    /\ Armed(f) => f.pending.id \in 1..u
    /\ f.journal # NoJournal => f.journal.id \in 1..u

\* Copies hold no user data, were made beside no transaction and, without
\* damage, of a settled root.
Copied(t, b, d) == t.user = {} /\ t.state # "user" /\ (~d => Settled(t, b))
Copies(f, b, d) == Copied(f.tmp, b, d) /\ \A i \in Ids : Copied(f.snap[i].copy, b, d)

\* User data is in upper, or divided between upper and the failed root of the
\* restore that the journal names.
Divided(f) ==
    /\ \A i \in Ids : f.snap[i].failed.user # {} => f.journal.id = i
    /\ IF f.journal = NoJournal
       THEN f.upper # NoTree /\ f.upper.user = Paths
       ELSE /\ f.upper.user \cap f.snap[f.journal.id].failed.user = {}
            /\ f.upper.user \cup f.snap[f.journal.id].failed.user = Paths
            /\ f.upper = NoTree => f.snap[f.journal.id].failed # NoTree

\* A user's transaction in a root that is, or may become, upper has its lock.
Locked(f) ==
    /\ f.upper.state = "user" => f.lck = Pacman
    /\ f.journal # NoJournal /\ f.upper = NoTree /\ f.snap[f.journal.id].failed.state = "user"
          => f.lck = Pacman

\* The three states of a restore: upper still to be moved, the copy still to be
\* moved, both moved.
Restorable(f, s, b) ==
    \/ s.failed = NoTree /\ f.upper # NoTree /\ Exact(s)
    \/ s.failed # NoTree /\ f.upper = NoTree /\ Exact(s)
    \/ s.failed # NoTree /\ f.upper # NoTree /\ s.copy = NoTree /\ Settled(f.upper, b)

\* An armed update can be restored, one armed for verification is whole, and
\* without a record the root is settled.
Revertible(f, b) ==
    IF f.journal # NoJournal THEN Restorable(f, f.snap[f.journal.id], b)
    ELSE IF Armed(f)
    THEN /\ Exact(f.snap[f.pending.id]) /\ f.snap[f.pending.id].failed = NoTree
         /\ f.pending.action = "verify" =>
               f.upper.state # "update" /\ f.upper.sys = f.pending.id
    ELSE Settled(f.upper, b)

\* A pending update that was booted has its attempt recorded.
Attempted(f, b) ==
    f.pending.action = "verify" /\ b[f.pending.id] # 0 => f.attempt # NoAttempt

Durable(f, u, b, d) ==
    /\ f \in FileSystems
    /\ Fresh(f, u) /\ Copies(f, b, d) /\ Divided(f) /\ Locked(f) /\ Attempted(f, b)
    /\ ~d => Revertible(f, b)

DiskInv == \A f \in disk \cup {fs} : Durable(f, used, boots, damaged)

-----------------------------------------------------------------------------
(* What else holds at each step.                                            *)

Restoring == {"moveFailed", "moveCopy", "undone", "userData", "result", "clear",
              "clearAttempt", "clearJournal"}
Restored == {"result", "clear", "clearAttempt", "clearJournal"}
Refusing == {"refuse", "refused", "refusedAttempt"}
InInit == {"apply", "attempt", "journal", "mount", "stopped"} \cup Restoring \cup Refusing

Copying == {"mkdir", "record", "link", "copy", "release", "unrecord", "releaseFailed",
            "unrecordFailed", "discard", "seal"}
Preparing == {"targets", "arm"}
Upgrading == {"upgrade", "keyring", "upgradeRest", "upgrading", "verify"}
Committing == {"commit", "commitResult", "commitPending"}
Committed == {"commitAttempt", "commitTargets", "commitFailures", "commitSync", "prune"}
InUpdater == {"idle", "settle", "settled", "recover", "recoverRecord", "recoverTmp",
              "pending", "admit", "verified", "failed", "reboot", "armedAgain", "rollback"}
             \cup Copying \cup Preparing \cup Upgrading \cup Committing \cup Committed

PhaseInv ==
    /\ phase \in {"off", "init", "up"}
    /\ phase = "off" <=> pc = "off"
    /\ phase = "init" <=> pc \in InInit
    /\ phase = "up" <=> pc \in InUpdater
    /\ used \in 0..MaxUpdates /\ id \in 0..used
    /\ commitFailed \in BOOLEAN /\ damaged \in BOOLEAN
    /\ crashes \in 0..MaxCrashes
    /\ boots \in [Ids -> 0..1]
    /\ \A i \in Ids : i > used => boots[i] = 0

\* The init: a restore has its journal, and is refused only after damage.
InitInv ==
    /\ pc \in {"attempt", "journal", "mount"} \cup Refusing => fs.journal = NoJournal
    /\ pc = "attempt" => fs.attempt = NoAttempt /\ fs.pending = [id |-> id, action |-> "verify"]
    /\ pc = "journal" => Armed(fs) /\ fs.pending.id = id
    /\ pc \in Restoring => fs.journal # NoJournal /\ fs.journal.id = id
    /\ pc \in Restoring \ {"moveFailed", "undone"} => fs.snap[id].failed # NoTree
    /\ pc = "undone" => fs.snap[id].failed = NoTree
    /\ pc \in Restored \cup {"userData", "undone"} => fs.upper # NoTree
    /\ pc \in Restored => fs.snap[id].failed.user = {} /\ fs.snap[id].copy = NoTree
    /\ pc \in {"clearAttempt", "clearJournal", "refusedAttempt"} => fs.pending = NoPending
    /\ pc \in Refusing \cup {"undone"} => damaged
    /\ pc = "mount" /\ Armed(fs) =>
          fs.pending.action = "verify" /\ fs.attempt.kind = "this" /\ boots[fs.pending.id] = 0

\* The updater: an update is new until its first boot, and is armed before the
\* upgrade and disarmed before its snapshot may go.
UpInv ==
    /\ phase = "up" => fs.journal = NoJournal
    /\ phase = "up" /\ ~damaged /\ fs.upper.state = "lost" => Settled(fs.upper, boots)
    /\ pc \in Copying \cup Preparing \cup {"admit"} => fs.pending.action = "none"
    /\ pc \in Copying \cup Preparing \cup Upgrading => id = used /\ id # 0 /\ boots[id] = 0
    /\ pc \in Copying => fs.snap[id].failed = NoTree
    /\ pc \in {"release", "unrecord", "seal"} => fs.tmp # NoTree
    /\ pc = "copy" => fs.lck = id
    /\ pc \in Preparing /\ ~damaged => Exact(fs.snap[id]) /\ fs.snap[id].failed = NoTree
    /\ pc \in Upgrading => fs.pending = [id |-> id, action |-> "restore"]
    /\ pc \in {"keyring", "upgrading"} => fs.lck = Pacman
    /\ pc \in {"keyring", "upgradeRest", "upgrading"} => fs.upper.state = "update"
    /\ pc = "verify" => fs.upper.state \in {"whole", "user"}
    /\ pc \in {"keyring", "upgradeRest", "upgrading", "verify"} => fs.upper.sys = id
    /\ pc \in Committing => fs.pending = [id |-> id, action |-> "verify"]
    /\ pc \in Committed => fs.pending = NoPending

IInv == DiskInv /\ PhaseInv /\ InitInv /\ UpInv

-----------------------------------------------------------------------------
(* What a write leaves as it is.                                            *)

\* Update ids are natural numbers, and the constants are in their types.
LEMMA Constants ==
    /\ Ids \subseteq Nat /\ 0 \notin Ids
    /\ \A u \in 0..MaxUpdates : 1..u \subseteq Ids /\ 0..u \subseteq 0..MaxUpdates
    /\ NoSnap \in Snapshots /\ NoTree \notin Trees
    /\ NoPending \in Pendings /\ NoAttempt \in Attempts /\ NoJournal \in Journals
    /\ NoTree.user = {} /\ NoTree.state = "whole" /\ NoJournal.id = 0
    /\ NoSnap.copy = NoTree /\ NoSnap.failed = NoTree /\ NoPending.action = "none"
  <1>1. NoTree \notin Trees /\ NoTree.user = {} /\ NoTree.state = "whole"
    BY SMT DEF NoTree, Trees
  <1> QED BY <1>1, BoundsAssumption, SMT
    DEF Ids, NoSnap, Snapshots, AnyTree, NoPending, NoAttempt, NoJournal, None, Pendings,
        Attempts, Journals

SameRoots(f, g) == g.upper = f.upper /\ g.snap = f.snap /\ g.tmp = f.tmp /\ g.lck = f.lck
SameRecords(f, g) ==
    g.pending = f.pending /\ g.attempt = f.attempt /\ g.journal = f.journal

\* Bookkeeping, a lock that is not a user's and the unfinished copy matter to
\* no root.
LEMMA Bookkeeping ==
    ASSUME NEW u, NEW b, NEW d, NEW f, Durable(f, u, b, d), NEW g \in FileSystems,
           SameRecords(f, g), g.upper = f.upper, g.snap = f.snap,
           g.tmp = f.tmp \/ Copied(g.tmp, b, d), g.lck = f.lck \/ f.lck # Pacman
    PROVE  Durable(g, u, b, d)
  <1> USE DEF SameRecords
  <1>1. Fresh(g, u) /\ Divided(g)
    BY DEF Durable, Fresh, Divided, Armed
  <1>2. Copies(g, b, d)
    BY DEF Durable, Copies
  <1>3. Locked(g)
    BY DEF Durable, Locked
  <1>4. Attempted(g, b) /\ (~d => Revertible(g, b))
    BY DEF Durable, Attempted, Revertible, Restorable, Armed
  <1> QED BY <1>1, <1>2, <1>3, <1>4 DEF Durable

\* A write after which every state that power loss may leave is the new one,
\* torn or another one that was there before.
LEMMA Written ==
    ASSUME DiskInv, UNCHANGED <<used, boots, damaged>>,
           Durable(fs', used, boots, damaged),
           NEW torn, Durable(torn, used, boots, damaged),
           disk' \subseteq disk \cup {fs, fs', torn}
    PROVE  DiskInv'
  BY DEF DiskInv

\* A change, with or without a sync before it.
LEMMA Wrote ==
    ASSUME DiskInv, UNCHANGED <<used, boots, damaged>>,
           NEW g, Durable(g, used, boots, damaged), Op(g) \/ AfterSync(g)
    PROVE  DiskInv' /\ fs' = g
  BY Written DEF Op, AfterSync

\* A record that did not exist.
LEMMA WroteNew ==
    ASSUME DiskInv, UNCHANGED <<used, boots, damaged>>,
           NEW g, Durable(g, used, boots, damaged),
           NEW t, Durable(t, used, boots, damaged), NewRecord(g, t)
    PROVE  DiskInv' /\ fs' = g
  BY Written DEF NewRecord

\* No change, or a sync alone.
LEMMA Unwritten ==
    ASSUME DiskInv, UNCHANGED <<used, boots, damaged>>, UNCHANGED <<fs, disk>> \/ Sync
    PROVE  DiskInv' /\ fs' = fs
  BY DEF DiskInv, Sync

\* pending goes: under a journal, from a settled root or after damage.
LEMMA PendingCleared ==
    ASSUME NEW u \in 0..MaxUpdates, NEW b, NEW d, NEW f, Durable(f, u, b, d),
           f.journal # NoJournal \/ d \/ Settled(f.upper, b),
           NEW g, g = [f EXCEPT !.pending = NoPending]
    PROVE  /\ Durable(g, u, b, d) /\ SameRoots(f, g) /\ g.pending = NoPending
           /\ g.journal = f.journal /\ g.attempt = f.attempt
  <1>1. /\ g \in FileSystems /\ SameRoots(f, g) /\ g.pending = NoPending
        /\ g.journal = f.journal /\ g.attempt = f.attempt
    BY Constants, SMT DEF Durable, FileSystems, SameRoots
  <1>2. Fresh(g, u) /\ Copies(g, b, d) /\ Divided(g)
    BY <1>1, Constants DEF Durable, Fresh, Copies, Divided, Armed, SameRoots
  <1>3. Locked(g) /\ Attempted(g, b) /\ (~d => Revertible(g, b))
    BY <1>1, Constants
       DEF Durable, Locked, Attempted, Revertible, Restorable, Armed, SameRoots
  <1> QED BY <1>1, <1>2, <1>3 DEF Durable

\* The attempt goes after the pending record.
LEMMA AttemptCleared ==
    ASSUME NEW u \in 0..MaxUpdates, NEW b, NEW d, NEW f, Durable(f, u, b, d),
           f.pending.action # "verify", NEW g, g = [f EXCEPT !.attempt = NoAttempt]
    PROVE  /\ Durable(g, u, b, d) /\ SameRoots(f, g) /\ g.pending = f.pending
           /\ g.journal = f.journal
  <1>1. /\ g \in FileSystems /\ SameRoots(f, g) /\ g.pending = f.pending
        /\ g.journal = f.journal
    BY Constants, SMT DEF Durable, FileSystems, SameRoots
  <1> QED BY <1>1, SMT
        DEF Durable, Fresh, Copies, Divided, Locked, Attempted, Revertible, Restorable, Armed,
            SameRoots

\* The journal goes when all user data is back in upper.
LEMMA JournalCleared ==
    ASSUME NEW u \in 0..MaxUpdates, NEW b, NEW d, NEW f, Durable(f, u, b, d),
           f.journal # NoJournal, f.snap[f.journal.id].failed.user = {}, f.upper # NoTree,
           d \/ (Settled(f.upper, b) /\ ~Armed(f)),
           NEW g, g = [f EXCEPT !.journal = NoJournal]
    PROVE  /\ Durable(g, u, b, d) /\ SameRoots(f, g) /\ g.pending = f.pending
           /\ g.attempt = f.attempt /\ g.journal = NoJournal
  <1>1. /\ g \in FileSystems /\ SameRoots(f, g) /\ g.pending = f.pending
        /\ g.attempt = f.attempt /\ g.journal = NoJournal
    BY Constants, SMT DEF Durable, FileSystems, SameRoots
  <1>2. Divided(g)
    <2>1. f.journal.id \in Ids
      BY Constants DEF Durable, Fresh
    <2>2. \A i \in Ids : f.snap[i].failed.user = {}
      BY <2>1 DEF Durable, Divided
    <2>3. f.upper.user = Paths
      BY <2>2 DEF Durable, Divided
    <2> QED BY <1>1, <2>2, <2>3 DEF Divided, SameRoots
  <1>3. Fresh(g, u) /\ Copies(g, b, d) /\ Locked(g)
    BY <1>1 DEF Durable, Fresh, Copies, Locked, Armed, SameRoots
  <1>4. Attempted(g, b) /\ (~d => Revertible(g, b))
    BY <1>1 DEF Durable, Attempted, Revertible, Armed, SameRoots
  <1> QED BY <1>1, <1>2, <1>3, <1>4 DEF Durable

-----------------------------------------------------------------------------
(* The init preserves the invariant.                                        *)

\* The facts about the file system that is seen.
LEMMA Seen ==
    ASSUME IInv
    PROVE  /\ Durable(fs, used, boots, damaged) /\ fs \in FileSystems
           /\ fs.upper \in AnyTree /\ fs.tmp \in AnyTree /\ fs.snap \in [Ids -> Snapshots]
           /\ fs.pending \in Pendings /\ fs.attempt \in Attempts /\ fs.journal \in Journals
           /\ 1..used \subseteq Ids /\ id \in 0..MaxUpdates
  BY Constants, SMT DEF IInv, DiskInv, Durable, FileSystems, PhaseInv

\* apply_update_rollback decides: nothing is written.
LEMMA ApplyInv == IInv /\ ApplyRollback => IInv'
  <1> SUFFICES ASSUME IInv, ApplyRollback PROVE IInv'
    OBVIOUS
  <1>1. DiskInv' /\ fs' = fs
    BY Unwritten DEF IInv, ApplyRollback, env
  <1>2. PhaseInv'
    BY Seen, Constants, SMT
       DEF IInv, ApplyRollback, env, PhaseInv, InInit, InUpdater, Restoring, Refusing, Durable,
           Fresh, Armed, Copying, Preparing, Upgrading, Committing, Committed, Pendings
  <1>3. InitInv' /\ UpInv'
    <2>1. CASE fs.journal # NoJournal
      BY <1>1, <2>1, Seen, SMT
         DEF IInv, ApplyRollback, env, PhaseInv, InitInv, UpInv, Restoring, Restored, Refusing,
             InInit, InUpdater, Copying, Preparing, Upgrading, Committing, Committed
    <2>2. CASE fs.journal = NoJournal /\ fs.pending.action \in {"none", "torn"}
      BY <1>1, <2>2, Seen, SMT
         DEF IInv, ApplyRollback, env, PhaseInv, InitInv, UpInv, Restoring, Restored, Refusing,
             InInit, InUpdater, Copying, Preparing, Upgrading, Committing, Committed, Armed
    <2>3. CASE fs.journal = NoJournal /\ Armed(fs)
      BY <1>1, <2>3, Seen, SMT
         DEF IInv, ApplyRollback, env, PhaseInv, InitInv, UpInv, Restoring, Restored, Refusing,
             InInit, InUpdater, Copying, Preparing, Upgrading, Committing, Committed, Armed,
             Pendings
    <2> QED BY <2>1, <2>2, <2>3, Seen DEF Armed, Pendings
  <1> QED BY <1>1, <1>2, <1>3 DEF IInv

\* The first boot of an update is recorded, or the restore is prepared.
LEMMA AttemptInv == IInv /\ WriteAttempt => IInv'
  <1> SUFFICES ASSUME IInv, WriteAttempt PROVE IInv'
    OBVIOUS
  <1> USE DEF InInit, InUpdater, Restoring, Restored, Refusing, Copying, Preparing, Upgrading,
              Committing, Committed
  <1> DEFINE With(k) == [fs EXCEPT !.attempt = [id |-> id, kind |-> k]]
  <1>1. ASSUME NEW k \in {"this", "torn"}
        PROVE  /\ Durable(With(k), used, boots, damaged)
               /\ SameRoots(fs, With(k)) /\ With(k).pending = fs.pending
               /\ With(k).journal = fs.journal /\ With(k).attempt.kind = k
    <2>1. With(k) \in FileSystems /\ SameRoots(fs, With(k)) /\ With(k).pending = fs.pending
          /\ With(k).journal = fs.journal /\ With(k).attempt = [id |-> id, kind |-> k]
      BY <1>1, Seen DEF FileSystems, Attempts, SameRoots
    <2>2. With(k).attempt # NoAttempt
      BY <1>1, <2>1, SMT DEF NoAttempt
    <2> HIDE DEF With
    <2>3. Fresh(With(k), used) /\ Copies(With(k), boots, damaged)
      BY <2>1, Seen DEF Durable, Fresh, Copies, Armed, SameRoots
    <2>4. Divided(With(k)) /\ Locked(With(k))
      BY <2>1, Seen DEF Durable, Divided, Locked, SameRoots
    <2>5. ~damaged => Revertible(With(k), boots)
      BY <2>1, Seen DEF Durable, Revertible, Restorable, Armed, SameRoots
    <2> QED BY <1>1, <2>1, <2>2, <2>3, <2>4, <2>5, SMT DEF Durable, Attempted
  <1> HIDE DEF With
  <1>2. CASE NewRecord(With("this"), With("torn")) /\ pc' = "mount"
    <2>1. DiskInv' /\ fs' = With("this")
      BY <1>1, <1>2, WroteNew DEF IInv, WriteAttempt, env
    <2> QED BY <1>1, <1>2, <2>1, Seen, SMT
          DEF IInv, WriteAttempt, env, PhaseInv, InitInv, UpInv, Armed, Durable, Attempted
  <1>3. CASE UNCHANGED <<fs, disk>> /\ pc' = "journal"
    <2>1. DiskInv' /\ fs' = fs
      BY <1>3, Unwritten DEF IInv, WriteAttempt, env
    <2> QED BY <1>3, <2>1, SMT DEF IInv, WriteAttempt, env, PhaseInv, InitInv, UpInv, Armed
  <1> QED BY <1>2, <1>3 DEF WriteAttempt, With

\* The journal is written, of a snapshot that is exact.
LEMMA JournalInv == IInv /\ WriteJournal => IInv'
  <1> SUFFICES ASSUME IInv, WriteJournal PROVE IInv'
    OBVIOUS
  <1> USE DEF InInit, InUpdater, Restoring, Restored, Refusing, Copying, Preparing, Upgrading,
              Committing, Committed
  <1> DEFINE With(r) == [fs EXCEPT !.journal = [id |-> id, reason |-> r]]
  <1>0. /\ pc = "journal" /\ fs.journal = NoJournal /\ Armed(fs) /\ fs.pending.id = id
        /\ id \in 1..used /\ id \in Ids /\ fs.upper # NoTree
    BY Seen DEF WriteJournal, IInv, InitInv, Durable, Fresh, Divided
  <1>1. CASE fs.snap[id].failed # NoTree \/ ~SnapshotExact(id)
    <2>1. DiskInv' /\ fs' = fs
      BY <1>1, Unwritten DEF IInv, WriteJournal, env
    <2>2. damaged
      BY <1>0, <1>1, Seen DEF IInv, PhaseInv, Durable, Revertible, Exact, SnapshotExact
    <2> QED BY <1>0, <1>1, <2>1, <2>2, SMT
          DEF IInv, WriteJournal, env, PhaseInv, InitInv, UpInv
  <1>2. CASE fs.snap[id].failed = NoTree /\ SnapshotExact(id)
    <2>1. Reason \in {"restore-requested", "boot-not-committed", "attempt-unrecorded"}
      BY DEF Reason
    <2>2. ASSUME NEW r \in {"torn", "restore-requested", "boot-not-committed",
                            "attempt-unrecorded"}
          PROVE  /\ Durable(With(r), used, boots, damaged)
                 /\ With(r).journal.id = id /\ With(r).journal # NoJournal
                 /\ SameRoots(fs, With(r))
      <3>1. With(r) \in FileSystems /\ SameRoots(fs, With(r)) /\ With(r).pending = fs.pending
            /\ With(r).attempt = fs.attempt /\ With(r).journal = [id |-> id, reason |-> r]
        BY <2>2, Seen DEF FileSystems, Journals, SameRoots
      <3>2. With(r).journal # NoJournal /\ With(r).journal.id = id
        BY <2>2, <3>1, SMT DEF NoJournal
      <3> HIDE DEF With
      <3>3. Divided(With(r))
        <4>1. \A i \in Ids : fs.snap[i].failed.user = {}
          BY <1>0, Seen, Constants DEF Durable, Divided
        <4> QED BY <1>0, <3>1, <3>2, <4>1, Seen DEF Durable, Divided, SameRoots
      <3>4. Locked(With(r)) /\ (~damaged => Revertible(With(r), boots))
        BY <1>0, <1>2, <3>1, <3>2, Seen
           DEF Durable, Locked, Revertible, Restorable, SameRoots, SnapshotExact, Exact
      <3> QED BY <1>0, <3>1, <3>2, <3>3, <3>4, Seen
            DEF Durable, Fresh, Copies, Attempted, Armed, SameRoots
    <2> HIDE DEF With
    <2>3. NewRecord(With(Reason), With("torn")) /\ pc' = "moveFailed"
      BY <1>2 DEF WriteJournal, With
    <2>4. DiskInv' /\ fs' = With(Reason)
      <3> HIDE DEF Reason
      <3> QED BY <2>1, <2>2, <2>3, WroteNew DEF IInv, WriteJournal, env
    <2>5. fs'.journal # NoJournal /\ fs'.journal.id = id
      BY <2>1, <2>2, <2>4
    <2> QED BY <2>3, <2>4, <2>5
          DEF IInv, WriteJournal, env, PhaseInv, InitInv, UpInv
  <1> QED BY <1>1, <1>2

\* upper becomes the failed root of the restore.
LEMMA MoveFailedInv == IInv /\ MoveFailed => IInv'
  <1> SUFFICES ASSUME IInv, MoveFailed PROVE IInv'
    OBVIOUS
  <1> USE DEF InInit, InUpdater, Restoring, Restored, Refusing, Copying, Preparing, Upgrading,
              Committing, Committed
  <1>0. /\ pc = "moveFailed" /\ fs.journal # NoJournal /\ fs.journal.id = id
        /\ id \in 1..used /\ id \in Ids
    BY Seen DEF MoveFailed, IInv, InitInv, Durable, Fresh
  <1>1. CASE fs.upper # NoTree /\ fs.snap[id].failed = NoTree /\ SnapshotExact(id)
    <2> DEFINE g == [fs EXCEPT !.snap[id].failed = fs.upper, !.upper = NoTree]
    <2>1. /\ g \in FileSystems /\ SameRecords(fs, g) /\ g.tmp = fs.tmp /\ g.lck = fs.lck
          /\ g.upper = NoTree /\ g.snap[id].failed = fs.upper
          /\ g.snap[id].copy = fs.snap[id].copy /\ g.snap[id].seal = fs.snap[id].seal
          /\ \A i \in Ids : i # id => g.snap[i] = fs.snap[i]
      <3>1. [fs.snap[id] EXCEPT !.failed = fs.upper] \in Snapshots
        BY <1>0, Seen DEF Snapshots
      <3>2. g = [fs EXCEPT !.snap = [fs.snap EXCEPT ![id] =
                                         [fs.snap[id] EXCEPT !.failed = fs.upper]],
                           !.upper = NoTree]
        BY <1>0, Seen DEF FileSystems
      <3> HIDE DEF g
      <3> QED BY <1>0, <3>1, <3>2, Seen
            DEF FileSystems, SameRecords, AnyTree, Snapshots
    <2> HIDE DEF g
    <2>2. Durable(g, used, boots, damaged)
      <3>1. Fresh(g, used) /\ Copies(g, boots, damaged) /\ Attempted(g, boots)
        <4>1. \A i \in Ids : i > used => i # id
          BY <1>0, Constants, SMT DEF IInv, PhaseInv
        <4>2. \A i \in Ids : g.snap[i].copy = fs.snap[i].copy
          BY <2>1
        <4> QED BY <2>1, <4>1, <4>2, Seen
              DEF Durable, Fresh, Copies, Attempted, Armed, SameRecords
      <3>2. Divided(g)
        <4>1. \A i \in Ids : i # id => g.snap[i].failed.user = {}
          BY <1>0, <2>1, Seen DEF Durable, Divided
        <4>2. fs.snap[id].failed.user = {} /\ fs.upper.user = Paths
          BY <1>0, <1>1, Seen, Constants DEF Durable, Divided
        <4> QED BY <1>0, <1>1, <2>1, <4>1, <4>2, Constants, SMT DEF Divided, SameRecords
      <3>4. Locked(g)
        BY <1>0, <2>1, Seen, Constants DEF Durable, Locked, SameRecords
      <3>3. ~damaged => Revertible(g, boots)
        BY <1>0, <1>1, <2>1, Seen
           DEF Durable, Revertible, Restorable, SameRecords, Exact, SnapshotExact
      <3> QED BY <2>1, <3>1, <3>2, <3>3, <3>4 DEF Durable
    <2>3. AfterSync(g) /\ pc' = "moveCopy"
      BY <1>1 DEF MoveFailed, g
    <2>4. DiskInv' /\ fs' = g
      BY <2>2, <2>3, Wrote DEF IInv, MoveFailed, env
    <2> QED BY <1>0, <1>1, <2>1, <2>3, <2>4
          DEF IInv, MoveFailed, env, PhaseInv, InitInv, UpInv, SameRecords
  <1>2. CASE fs.upper # NoTree /\ fs.snap[id].failed = NoTree /\ ~SnapshotExact(id)
    <2> DEFINE g == [fs EXCEPT !.journal = NoJournal]
    <2>1. /\ g \in FileSystems /\ SameRoots(fs, g) /\ g.pending = fs.pending
          /\ g.attempt = fs.attempt /\ g.journal = NoJournal
      BY Seen, Constants DEF FileSystems, SameRoots
    <2> HIDE DEF g
    <2>2. damaged
      BY <1>0, <1>2, Seen
         DEF IInv, PhaseInv, Durable, Revertible, Restorable, Exact, SnapshotExact
    <2>3. Durable(g, used, boots, damaged)
      <3>1. Divided(g)
        <4>1. \A i \in Ids : fs.snap[i].failed.user = {}
          BY <1>0, <1>2, Seen, Constants DEF Durable, Divided
        <4>2. fs.upper.user = Paths
          BY <1>0, <4>1, Seen DEF Durable, Divided
        <4> QED BY <1>2, <2>1, <4>1, <4>2 DEF Divided, SameRoots
      <3> QED BY <1>0, <2>1, <2>2, <3>1, Seen
            DEF Durable, Fresh, Copies, Locked, Attempted, Armed, SameRoots
    <2>4. AfterSync(g) /\ pc' = "refuse"
      BY <1>2 DEF MoveFailed, g
    <2>5. DiskInv' /\ fs' = g
      BY <2>3, <2>4, Wrote DEF IInv, MoveFailed, env
    <2> QED BY <2>1, <2>2, <2>4, <2>5 DEF IInv, MoveFailed, env, PhaseInv, InitInv, UpInv
  <1>3. CASE fs.upper = NoTree \/ fs.snap[id].failed # NoTree
    <2>1. Sync /\ pc' = "moveCopy"
      BY <1>3 DEF MoveFailed
    <2>2. DiskInv' /\ fs' = fs
      BY <2>1, Unwritten DEF IInv, MoveFailed, env
    <2>3. fs.snap[id].failed # NoTree
      BY <1>0, <1>3, Seen DEF Durable, Divided
    <2> QED BY <1>0, <2>1, <2>2, <2>3 DEF IInv, MoveFailed, env, PhaseInv, InitInv, UpInv
  <1> QED BY <1>1, <1>2, <1>3

\* The copy becomes upper, or a damaged restore is undone.
LEMMA MoveCopyInv == IInv /\ MoveCopy => IInv'
  <1> SUFFICES ASSUME IInv, MoveCopy PROVE IInv'
    OBVIOUS
  <1> USE DEF InInit, InUpdater, Restoring, Restored, Refusing, Copying, Preparing, Upgrading,
              Committing, Committed
  <1>0. /\ pc = "moveCopy" /\ fs.journal # NoJournal /\ fs.journal.id = id
        /\ id \in 1..used /\ id \in Ids /\ fs.snap[id].failed # NoTree
    BY Seen DEF MoveCopy, IInv, InitInv, Durable, Fresh
  <1>1. \A i \in Ids : i > used => i # id
    BY <1>0, Constants, SMT DEF IInv, PhaseInv
  <1>2. CASE fs.upper = NoTree /\ SnapshotExact(id)
    <2> DEFINE g == [fs EXCEPT !.upper = fs.snap[id].copy, !.snap[id].copy = NoTree,
                               !.lck = None]
    <2>1. /\ g \in FileSystems /\ SameRecords(fs, g) /\ g.tmp = fs.tmp
          /\ g.upper = fs.snap[id].copy /\ g.snap[id].failed = fs.snap[id].failed
          /\ g.snap[id].copy = NoTree
          /\ \A i \in Ids : i # id => g.snap[i] = fs.snap[i]
      <3>1. [fs.snap[id] EXCEPT !.copy = NoTree] \in Snapshots /\ fs.snap[id].copy \in AnyTree
        BY <1>0, Seen DEF Snapshots, AnyTree
      <3>2. g = [fs EXCEPT !.upper = fs.snap[id].copy,
                           !.snap = [fs.snap EXCEPT ![id] = [fs.snap[id] EXCEPT !.copy = NoTree]],
                           !.lck = None]
        BY <1>0, Seen DEF FileSystems
      <3>3. None \in 0..MaxUpdates
        BY BoundsAssumption, SMT DEF None
      <3> HIDE DEF g
      <3> QED BY <1>0, <3>1, <3>2, <3>3, Seen DEF FileSystems, SameRecords, Snapshots
    <2> HIDE DEF g
    <2>2. Copied(fs.snap[id].copy, boots, damaged) /\ g.upper # NoTree
      BY <1>0, <1>2, <2>1, Seen DEF Durable, Copies, SnapshotExact
    <2>3. Durable(g, used, boots, damaged)
      <3>1. Fresh(g, used) /\ Attempted(g, boots)
        BY <1>1, <2>1, Seen DEF Durable, Fresh, Attempted, Armed, SameRecords
      <3>2. Copies(g, boots, damaged)
        <4>1. Copied(NoTree, boots, damaged)
          BY Constants DEF Copied, Settled
        <4> QED BY <2>1, <4>1, Seen DEF Durable, Copies
      <3>3. Divided(g)
        <4>1. \A i \in Ids : g.snap[i].failed = fs.snap[i].failed
          BY <2>1
        <4>2. fs.snap[id].failed.user = Paths
          BY <1>0, <1>2, Seen, Constants DEF Durable, Divided
        <4> QED BY <1>0, <2>1, <2>2, <4>1, <4>2, Seen, SMT
              DEF Durable, Divided, SameRecords, Copied
      <3>4. Locked(g)
        BY <2>1, <2>2 DEF Locked, Copied
      <3>5. ~damaged => Revertible(g, boots)
        BY <1>0, <2>1, <2>2 DEF Revertible, Restorable, SameRecords, Copied
      <3> QED BY <2>1, <3>1, <3>2, <3>3, <3>4, <3>5 DEF Durable
    <2>4. AfterSync(g) /\ pc' = "userData"
      BY <1>0, <1>2 DEF MoveCopy, g
    <2>5. DiskInv' /\ fs' = g
      BY <2>3, <2>4, Wrote DEF IInv, MoveCopy, env
    <2> QED BY <1>0, <2>1, <2>2, <2>4, <2>5
          DEF IInv, MoveCopy, env, PhaseInv, InitInv, UpInv, SameRecords
  <1>3. CASE fs.upper = NoTree /\ ~SnapshotExact(id)
    <2> DEFINE g == [fs EXCEPT !.upper = fs.snap[id].failed, !.snap[id].failed = NoTree]
    <2>1. /\ g \in FileSystems /\ SameRecords(fs, g) /\ g.tmp = fs.tmp /\ g.lck = fs.lck
          /\ g.upper = fs.snap[id].failed /\ g.snap[id].failed = NoTree
          /\ \A i \in Ids : g.snap[i].copy = fs.snap[i].copy
          /\ \A i \in Ids : i # id => g.snap[i] = fs.snap[i]
      <3>1. [fs.snap[id] EXCEPT !.failed = NoTree] \in Snapshots /\ fs.snap[id].failed \in AnyTree
        BY <1>0, Seen DEF Snapshots, AnyTree
      <3>2. g = [fs EXCEPT !.upper = fs.snap[id].failed,
                           !.snap = [fs.snap EXCEPT ![id] = [fs.snap[id] EXCEPT !.failed = NoTree]]]
        BY <1>0, Seen DEF FileSystems
      <3> HIDE DEF g
      <3> QED BY <1>0, <3>1, <3>2, Seen DEF FileSystems, SameRecords, Snapshots
    <2> HIDE DEF g
    <2>2. damaged
      BY <1>0, <1>3, Seen
         DEF IInv, PhaseInv, Durable, Revertible, Restorable, Exact, SnapshotExact
    <2>3. Durable(g, used, boots, damaged)
      <3>1. Fresh(g, used) /\ Attempted(g, boots) /\ Copies(g, boots, damaged)
        BY <1>1, <2>1, Seen DEF Durable, Fresh, Attempted, Copies, Armed, SameRecords
      <3>2. Divided(g)
        <4>1. fs.snap[id].failed.user = Paths
          BY <1>0, <1>3, Seen, Constants DEF Durable, Divided
        <4>2. \A i \in Ids : g.snap[i].failed.user = {}
          BY <1>0, <2>1, Seen, Constants DEF Durable, Divided
        <4> QED BY <1>0, <2>1, <4>1, <4>2 DEF Divided, SameRecords
      <3>3. Locked(g)
        BY <1>0, <1>3, <2>1, Seen, Constants DEF Durable, Locked, SameRecords
      <3> QED BY <2>1, <2>2, <3>1, <3>2, <3>3 DEF Durable
    <2>4. AfterSync(g) /\ pc' = "undone"
      BY <1>0, <1>3 DEF MoveCopy, g
    <2>5. DiskInv' /\ fs' = g
      BY <2>3, <2>4, Wrote DEF IInv, MoveCopy, env
    <2> QED BY <1>0, <2>1, <2>2, <2>4, <2>5
          DEF IInv, MoveCopy, env, PhaseInv, InitInv, UpInv, SameRecords
  <1>4. CASE fs.upper # NoTree
    <2>1. Sync /\ pc' = "userData"
      BY <1>4 DEF MoveCopy
    <2>2. DiskInv' /\ fs' = fs
      BY <2>1, Unwritten DEF IInv, MoveCopy, env
    <2> QED BY <1>0, <1>4, <2>1, <2>2 DEF IInv, MoveCopy, env, PhaseInv, InitInv, UpInv
  <1> QED BY <1>2, <1>3, <1>4

\* One path of the user data moves, or all have.
LEMMA MoveUserDataInv == IInv /\ MoveUserData => IInv'
  <1> SUFFICES ASSUME IInv, MoveUserData PROVE IInv'
    OBVIOUS
  <1> USE DEF InInit, InUpdater, Restoring, Restored, Refusing, Copying, Preparing, Upgrading,
              Committing, Committed
  <1>0. /\ pc = "userData" /\ fs.journal # NoJournal /\ fs.journal.id = id
        /\ id \in 1..used /\ id \in Ids /\ fs.snap[id].failed # NoTree /\ fs.upper # NoTree
    BY Seen DEF MoveUserData, IInv, InitInv, Durable, Fresh
  <1> DEFINE Bad == \/ fs.upper = NoTree \/ fs.snap[id].failed = NoTree
                    \/ fs.snap[id].copy # NoTree \/ ~fs.snap[id].seal
                    \/ fs.upper.user \cap fs.snap[id].failed.user # {}
  <1>1. CASE Bad
    <2>1. UNCHANGED <<fs, disk>> /\ pc' = "stopped"
      BY <1>1 DEF MoveUserData
    <2>2. DiskInv' /\ fs' = fs
      BY <2>1, Unwritten DEF IInv, MoveUserData, env
    <2> QED BY <1>0, <2>1, <2>2 DEF IInv, MoveUserData, env, PhaseInv, InitInv, UpInv
  <1>2. CASE ~Bad /\ fs.snap[id].failed.user = {}
    <2>1. Sync /\ pc' = "result"
      BY <1>0, <1>2 DEF MoveUserData
    <2>2. DiskInv' /\ fs' = fs
      BY <2>1, Unwritten DEF IInv, MoveUserData, env
    <2> QED BY <1>0, <1>2, <2>1, <2>2 DEF IInv, MoveUserData, env, PhaseInv, InitInv, UpInv
  <1>3. CASE ~Bad /\ fs.snap[id].failed.user # {}
    <2>1. PICK p \in fs.snap[id].failed.user :
             /\ AfterSync([fs EXCEPT !.upper.user = @ \cup {p},
                                     !.snap[id].failed.user = @ \ {p}])
             /\ pc' = "userData"
      BY <1>0, <1>3 DEF MoveUserData
    <2> DEFINE g == [fs EXCEPT !.upper.user = @ \cup {p}, !.snap[id].failed.user = @ \ {p}]
               t == [fs.upper EXCEPT !.user = @ \cup {p}]
               s == [fs.snap[id].failed EXCEPT !.user = @ \ {p}]
    <2>2. /\ fs.upper \in Trees /\ fs.snap[id].failed \in Trees
          /\ fs.snap[id] \in Snapshots
      BY <1>0, Seen DEF AnyTree, Snapshots
    <2>3. /\ t \in Trees /\ t.user = fs.upper.user \cup {p}
          /\ t.state = fs.upper.state /\ t.sys = fs.upper.sys
          /\ s \in Trees /\ s.user = fs.snap[id].failed.user \ {p}
      BY <2>1, <2>2 DEF Trees
    <2>4. /\ g \in FileSystems /\ SameRecords(fs, g) /\ g.tmp = fs.tmp /\ g.lck = fs.lck
          /\ g.upper = t /\ g.snap[id].failed = s
          /\ g.snap[id].copy = NoTree
          /\ \A i \in Ids : i # id => g.snap[i] = fs.snap[i]
      <3>1. [fs.snap[id] EXCEPT !.failed = s] \in Snapshots
        BY <2>2, <2>3 DEF Snapshots, AnyTree
      <3>2. g = [fs EXCEPT !.upper = t,
                           !.snap = [fs.snap EXCEPT ![id] = [fs.snap[id] EXCEPT !.failed = s]]]
        BY <1>0, Seen DEF FileSystems
      <3> DEFINE r == [fs.snap[id] EXCEPT !.failed = s]
                 m == [fs.snap EXCEPT ![id] = r]
      <3>3. r.failed = s /\ r.copy = NoTree
        BY <1>3, <2>2 DEF Snapshots
      <3> HIDE DEF r, s, t
      <3>4. /\ m \in [Ids -> Snapshots] /\ m[id] = r
            /\ \A i \in Ids : i # id => m[i] = fs.snap[i]
        BY <1>0, <3>1, Seen DEF r
      <3>5. g = [fs EXCEPT !.upper = t, !.snap = m] /\ t \in AnyTree
        BY <2>3, <3>2 DEF r, AnyTree
      <3> HIDE DEF g, m
      <3>6. /\ g \in FileSystems /\ SameRecords(fs, g) /\ g.tmp = fs.tmp /\ g.lck = fs.lck
            /\ g.upper = t /\ g.snap = m
        BY <3>4, <3>5, Seen DEF FileSystems, SameRecords
      <3> QED BY <3>3, <3>4, <3>6
    <2> HIDE DEF g, s, t
    <2>5. g.upper # NoTree /\ g.snap[id].failed # NoTree
      BY <2>3, <2>4, Constants
    <2>6. Durable(g, used, boots, damaged)
      <3>1. Fresh(g, used) /\ Attempted(g, boots)
        <4>1. \A i \in Ids : i > used => i # id
          BY <1>0, Constants, SMT DEF IInv, PhaseInv
        <4> QED BY <2>4, <4>1, Seen DEF Durable, Fresh, Attempted, Armed, SameRecords
      <3>2. Copies(g, boots, damaged)
        BY <1>3, <2>4, Seen DEF Durable, Copies
      <3>3. Divided(g)
        <4>1. \A i \in Ids : g.snap[i].failed.user # {} => i = id
          BY <1>0, <2>4, Seen DEF Durable, Divided
        <4>2. /\ fs.upper.user \cap fs.snap[id].failed.user = {}
              /\ fs.upper.user \cup fs.snap[id].failed.user = Paths
          BY <1>0, Seen DEF Durable, Divided
        <4> QED BY <1>0, <2>3, <2>4, <2>5, <4>1, <4>2, SMT DEF Divided, SameRecords
      <3>4. Locked(g)
        BY <2>3, <2>4, <2>5, Seen DEF Durable, Locked
      <3>5. ~damaged => Revertible(g, boots)
        <4>1. ~damaged => Settled(fs.upper, boots)
          BY <1>0, <1>3, Seen DEF Durable, Revertible, Restorable, Exact
        <4> QED BY <1>0, <2>3, <2>4, <2>5, <4>1 DEF Revertible, Restorable, Settled, SameRecords
      <3> QED BY <2>4, <3>1, <3>2, <3>3, <3>4, <3>5 DEF Durable
    <2>7. DiskInv' /\ fs' = g
      BY <2>1, <2>6, Wrote DEF IInv, MoveUserData, env, g
    <2> QED BY <1>0, <2>1, <2>4, <2>5, <2>7
          DEF IInv, MoveUserData, env, PhaseInv, InitInv, UpInv, SameRecords
  <1> QED BY <1>1, <1>2, <1>3

\* A restore ends, or is refused: the records go in their order.
LEMMA ClearInv ==
    ASSUME IInv,
           \/ UndoJournal \/ WriteResult \/ ClearPending \/ ClearAttempt \/ ClearJournal
           \/ RefuseRestore \/ RefuseClearPending \/ RefuseClearAttempt
    PROVE  IInv'
  <1> USE DEF InInit, InUpdater, Restoring, Restored, Refusing, Copying, Preparing, Upgrading,
              Committing, Committed
  <1>0. used \in 0..MaxUpdates /\ (pc \in Restoring => id \in 1..used /\ id \in Ids)
    BY Seen DEF IInv, PhaseInv, InitInv, Durable, Fresh
  <1>1. CASE UndoJournal
    <2>1. /\ fs.journal # NoJournal /\ fs.journal.id = id /\ fs.snap[id].failed = NoTree
          /\ fs.upper # NoTree /\ damaged /\ fs.snap[fs.journal.id].failed.user = {}
      BY <1>1, Constants DEF UndoJournal, Step, IInv, InitInv
    <2>2. PICK g : g = [fs EXCEPT !.journal = NoJournal]
      OBVIOUS
    <2>3. /\ Durable(g, used, boots, damaged) /\ SameRoots(fs, g) /\ g.pending = fs.pending
          /\ g.journal = NoJournal
      <3>1. damaged \/ (Settled(fs.upper, boots) /\ ~Armed(fs))
        BY <2>1
      <3>2. /\ Durable(fs, used, boots, damaged) /\ fs.journal # NoJournal /\ fs.upper # NoTree
            /\ fs.snap[fs.journal.id].failed.user = {} /\ used \in 0..MaxUpdates
        BY <1>0, <2>1, Seen
      <3> QED BY <2>2, <3>1, <3>2, JournalCleared, SMT
    <2>4. DiskInv' /\ fs' = g
      BY <1>1, <2>2, <2>3, Wrote DEF IInv, UndoJournal, env
    <2> QED BY <1>1, <2>1, <2>3, <2>4
          DEF IInv, UndoJournal, Step, env, PhaseInv, InitInv, UpInv
  <1>2. CASE WriteResult \/ RefuseRestore
    <2>0. PICK v \in {"rolled-back", "refused"} :
             AfterSync([fs EXCEPT !.result = [id |-> id, value |-> v]])
      BY <1>2 DEF WriteResult, RefuseRestore
    <2>1. PICK g : g = [fs EXCEPT !.result = [id |-> id, value |-> v]] /\ AfterSync(g)
      BY <2>0
    <2>2. g \in FileSystems /\ SameRoots(fs, g) /\ SameRecords(fs, g)
      BY <2>1, Seen DEF FileSystems, Results, SameRoots, SameRecords
    <2>3. DiskInv' /\ fs' = g
      BY <1>2, <2>1, <2>2, Seen, Bookkeeping, Wrote
         DEF IInv, WriteResult, RefuseRestore, env, SameRoots
    <2> QED BY <1>2, <2>2, <2>3, SMT
          DEF IInv, WriteResult, RefuseRestore, Step, env, PhaseInv, InitInv, UpInv, SameRoots,
              SameRecords, Armed
  <1>3. CASE ClearPending \/ RefuseClearPending
    <2>1. fs.journal # NoJournal \/ damaged
      BY <1>3 DEF ClearPending, RefuseClearPending, Step, IInv, InitInv
    <2>2. PICK g : g = [fs EXCEPT !.pending = NoPending]
      OBVIOUS
    <2>3. /\ Durable(g, used, boots, damaged) /\ SameRoots(fs, g) /\ g.pending = NoPending
          /\ g.journal = fs.journal
      BY <1>0, <2>1, <2>2, PendingCleared, Seen, SMT
    <2>4. DiskInv' /\ fs' = g
      BY <1>3, <2>2, <2>3, Wrote DEF IInv, ClearPending, RefuseClearPending, env
    <2> QED BY <1>3, <2>3, <2>4, SMT
          DEF IInv, ClearPending, RefuseClearPending, Step, env, PhaseInv, InitInv, UpInv,
              SameRoots
  <1>4. CASE ClearAttempt \/ RefuseClearAttempt
    <2>1. fs.pending = NoPending /\ fs.pending.action = "none"
      BY <1>4, Constants DEF ClearAttempt, RefuseClearAttempt, Step, IInv, InitInv
    <2>2. PICK g : g = [fs EXCEPT !.attempt = NoAttempt]
      OBVIOUS
    <2>3. /\ Durable(g, used, boots, damaged) /\ SameRoots(fs, g) /\ g.pending = fs.pending
          /\ g.journal = fs.journal
      BY <1>0, <2>1, <2>2, AttemptCleared, Seen, SMT
    <2>4. DiskInv' /\ fs' = g
      BY <1>4, <2>2, <2>3, Wrote DEF IInv, ClearAttempt, RefuseClearAttempt, env
    <2> QED BY <1>4, <2>1, <2>3, <2>4, SMT
          DEF IInv, ClearAttempt, RefuseClearAttempt, Step, env, PhaseInv, InitInv, UpInv,
              SameRoots, Armed
  <1>5. CASE ClearJournal
    <2>1. /\ fs.journal # NoJournal /\ fs.journal.id = id /\ fs.snap[id].failed # NoTree
          /\ fs.snap[id].failed.user = {} /\ fs.snap[id].copy = NoTree /\ fs.upper # NoTree
          /\ fs.pending = NoPending /\ ~Armed(fs)
      BY <1>5, Constants DEF ClearJournal, Step, IInv, InitInv, Armed
    <2>2. damaged \/ Settled(fs.upper, boots)
      BY <2>1, Seen DEF IInv, PhaseInv, Durable, Revertible, Restorable, Exact
    <2>3. PICK g : g = [fs EXCEPT !.journal = NoJournal]
      OBVIOUS
    <2>4. /\ Durable(g, used, boots, damaged) /\ SameRoots(fs, g) /\ g.pending = fs.pending
          /\ g.journal = NoJournal
      BY <1>0, <2>1, <2>2, <2>3, JournalCleared, Seen, SMT
    <2>5. DiskInv' /\ fs' = g
      BY <1>5, <2>3, <2>4, Wrote DEF IInv, ClearJournal, env
    <2> QED BY <1>5, <2>1, <2>4, <2>5
          DEF IInv, ClearJournal, Step, env, PhaseInv, InitInv, UpInv, Armed
  <1> QED BY <1>1, <1>2, <1>3, <1>4, <1>5

\* The overlay is mounted, and the boot of a pending update is counted.
LEMMA MountInv == IInv /\ MountRoot => IInv'
  <1> SUFFICES ASSUME IInv, MountRoot PROVE IInv'
    OBVIOUS
  <1> USE DEF InInit, InUpdater, Restoring, Restored, Refusing, Copying, Preparing, Upgrading,
              Committing, Committed
  <1>0. /\ pc = "mount" /\ phase = "init" /\ fs.journal = NoJournal
        /\ fs' = fs /\ disk' = {fs} /\ used' = used /\ damaged' = damaged
        /\ phase' = "up" /\ pc' = "idle" /\ id' = 0 /\ crashes' = crashes
    BY DEF IInv, PhaseInv, InitInv, MountRoot, Step, Sync, None
  <1>b. commitFailed' \in BOOLEAN
    BY DEF MountRoot
  <1>c. id' \in 0..used'
    BY <1>0, Constants, BoundsAssumption, SMT DEF IInv, PhaseInv
  <1>1. CASE fs.pending.action = "verify"
    <2>1. /\ fs.attempt.kind = "this" /\ boots[fs.pending.id] = 0 /\ fs.pending.id \in Ids
          /\ boots' = [boots EXCEPT ![fs.pending.id] = @ + 1]
      BY <1>0, <1>1, Seen
         DEF IInv, InitInv, Armed, MountRoot, Durable, Fresh
    <2>2. /\ boots' \in [Ids -> 0..1] /\ boots'[fs.pending.id] = 1
          /\ \A i \in Ids : boots[i] # 0 => boots'[i] # 0
      BY <2>1, SMT DEF IInv, PhaseInv
    <2>8. \A i \in Ids : i > used => boots'[i] = 0
      <3>1. fs.pending.id \in 1..used
        BY <1>1, Seen DEF Durable, Fresh, Armed
      <3>2. \A i \in Ids : i > used => i # fs.pending.id
        BY <3>1, Constants, SMT DEF IInv, PhaseInv
      <3> QED BY <2>1, <3>2 DEF IInv, PhaseInv
    <2>3. \A t : Settled(t, boots) => Settled(t, boots')
      BY <2>2 DEF Settled
    <2>4. ~damaged /\ fs.upper.state = "lost" => Settled(fs.upper, boots')
      BY <1>0, <1>1, <2>1, <2>2, Seen, SMT DEF Durable, Revertible, Armed, Settled
    <2>5. Durable(fs, used, boots', damaged)
      <3>1. Copies(fs, boots', damaged)
        BY <2>3, Seen DEF Durable, Copies, Copied
      <3>2. Attempted(fs, boots')
        BY <2>1, SMT DEF Attempted, NoAttempt
      <3>3. ~damaged => Revertible(fs, boots')
        BY <1>0, <1>1, Seen DEF Durable, Revertible, Armed
      <3> QED BY <3>1, <3>2, <3>3, Seen DEF Durable
    <2>6. DiskInv'
      BY <1>0, <2>5 DEF DiskInv
    <2>7. PhaseInv'
      BY <1>0, <1>b, <1>c, <2>2, <2>8 DEF IInv, PhaseInv
    <2> QED BY <1>0, <2>2, <2>4, <2>6, <2>7 DEF IInv, InitInv, UpInv
  <1>2. CASE fs.pending.action # "verify"
    <2>1. boots' = boots /\ ~Armed(fs)
      BY <1>0, <1>2 DEF MountRoot, IInv, InitInv
    <2>2. DiskInv'
      BY <1>0, <2>1 DEF IInv, DiskInv
    <2>3. ~damaged => Settled(fs.upper, boots)
      BY <1>0, <2>1, Seen DEF Durable, Revertible
    <2>4. PhaseInv'
      BY <1>0, <1>b, <1>c, <2>1 DEF IInv, PhaseInv
    <2> QED BY <1>0, <2>1, <2>2, <2>3, <2>4 DEF IInv, InitInv, UpInv
  <1> QED BY <1>1, <1>2

\* The phone is booted, and a boot that fails stops.
LEMMA BootInv == IInv /\ (Boot \/ InitFails) => IInv'
  <1> SUFFICES ASSUME IInv, Boot \/ InitFails PROVE IInv'
    OBVIOUS
  <1>1. DiskInv' /\ fs' = fs
    BY Unwritten DEF IInv, Boot, InitFails, env
  <1> QED BY <1>1, SMT
        DEF IInv, Boot, InitFails, env, PhaseInv, InitInv, UpInv, InInit, InUpdater, Restoring,
            Restored, Refusing, Copying, Preparing, Upgrading, Committing, Committed

\* Every step of the init.
LEMMA InitStepsInv == IInv /\ InitSteps => IInv'
  BY ApplyInv, AttemptInv, JournalInv, MoveFailedInv, MoveCopyInv, MoveUserDataInv, ClearInv,
     MountInv DEF InitSteps

-----------------------------------------------------------------------------
(* The updater preserves the invariant.                                     *)

\* A step that changes bookkeeping, the copy or a lock that is not a user's,
\* with or without a sync, or nothing.
LEMMA Noted ==
    ASSUME IInv, UNCHANGED <<used, boots, damaged>>, NEW g \in FileSystems,
           SameRecords(fs, g), g.upper = fs.upper, g.snap = fs.snap,
           g.tmp = fs.tmp \/ Copied(g.tmp, boots, damaged), g.lck = fs.lck \/ fs.lck # Pacman,
           Op(g) \/ AfterSync(g)
    PROVE  DiskInv' /\ fs' = g
  <1>1. Durable(g, used, boots, damaged)
    BY Seen, Bookkeeping
  <1> QED BY <1>1, Wrote DEF IInv

\* Steps that write nothing.
LEMMA ReadInv ==
    ASSUME IInv,
           \/ RunBegin \/ RunPending \/ Admit \/ RunEnds \/ CommitBegin \/ CommitFails
           \/ RollbackEnds \/ KillAction \/ RebootRefused \/ CommitSync
    PROVE  IInv'
  <1> USE DEF InInit, InUpdater, Restoring, Restored, Refusing, Copying, Preparing, Upgrading,
              Committing, Committed
  <1>1. CASE RunBegin \/ RunPending \/ KillAction \/ RebootRefused \/ RunEnds \/ RollbackEnds
    <2>1. DiskInv' /\ fs' = fs
      BY <1>1, Unwritten
         DEF IInv, RunBegin, RunPending, KillAction, RebootRefused, RunEnds, RollbackEnds, env
    <2>2. id' \in 0..used
      BY <1>1, SMT
         DEF IInv, PhaseInv, RunBegin, RunPending, KillAction, RebootRefused, RunEnds,
             RollbackEnds, None
    <2> QED BY <1>1, <2>1, <2>2, SMT
          DEF IInv, PhaseInv, InitInv, UpInv, RunBegin, RunPending, KillAction, RebootRefused,
              RunEnds, RollbackEnds, Action, Step, env
  <1>2. CASE Admit
    <2>1. CASE pc' = "idle" /\ UNCHANGED <<id, used>>
      <3>1. DiskInv' /\ fs' = fs
        BY <1>2, <2>1, Unwritten DEF IInv, Admit
      <3> QED BY <1>2, <2>1, <3>1 DEF IInv, PhaseInv, InitInv, UpInv, Admit
    <2>2. CASE /\ used < MaxUpdates /\ used' = used + 1 /\ id' = used' /\ pc' = "mkdir"
      <3>1. /\ used' \in 0..MaxUpdates /\ used' \in Ids /\ used' # 0 /\ used' > used
            /\ 1..used \subseteq 1..used' /\ \A i \in Ids : i > used' => i > used
        BY <2>2, Constants, BoundsAssumption, SMT DEF IInv, PhaseInv, Ids
      <3>2. \A f : Fresh(f, used) => Fresh(f, used')
        BY <3>1 DEF Fresh
      <3>3. DiskInv' /\ fs' = fs
        BY <1>2, <3>2 DEF IInv, DiskInv, Admit, Durable
      <3>4. fs.snap[id'].failed = NoTree
        <4>1. fs.snap[id'] = NoSnap
          BY <2>2, <3>1, Seen DEF Durable, Fresh
        <4> QED BY <4>1, Constants
      <3>5. boots[id'] = 0
        BY <1>2, <2>2, <3>1 DEF IInv, UpInv, PhaseInv
      <3> QED BY <1>2, <2>2, <3>1, <3>3, <3>4, <3>5, SMT
            DEF IInv, PhaseInv, InitInv, UpInv, Admit
    <2> QED BY <1>2, <2>1, <2>2 DEF Admit
  <1>3. CASE CommitBegin
    <2>1. DiskInv' /\ fs' = fs
      BY <1>3, Unwritten DEF IInv, CommitBegin
    <2>2. commitFailed' \in BOOLEAN
      BY <1>3 DEF CommitBegin
    <2>3. id' \in 0..used /\ (pc' = "commit" => fs.pending = [id |-> id', action |-> "verify"])
          /\ pc' \in {"idle", "commit"}
      <3>1. CASE pc' = "idle" /\ UNCHANGED id
        BY <3>1 DEF IInv, PhaseInv
      <3>2. CASE fs.pending.action = "verify" /\ pc' = "commit" /\ id' = fs.pending.id
        BY <3>2, Seen, SMT DEF IInv, PhaseInv, Pendings, Durable, Fresh, Armed
      <3> QED BY <1>3, <3>1, <3>2 DEF CommitBegin
    <2> QED BY <1>3, <2>1, <2>2, <2>3 DEF IInv, PhaseInv, InitInv, UpInv, CommitBegin
  <1>4. CASE CommitFails
    <2>1. DiskInv' /\ fs' = fs
      BY <1>4, Unwritten DEF IInv, CommitFails
    <2>2. commitFailed' \in BOOLEAN
      BY <1>4 DEF CommitFails, IInv, PhaseInv
    <2> QED BY <1>4, <2>1, <2>2, SMT DEF IInv, PhaseInv, InitInv, UpInv, CommitFails, None
  <1>5. CASE CommitSync
    <2>1. DiskInv' /\ fs' = fs
      BY <1>5, Unwritten DEF IInv, CommitSync, env
    <2> QED BY <1>5, <2>1
          DEF IInv, PhaseInv, InitInv, UpInv, CommitSync, Action, Step, env
  <1> QED BY <1>1, <1>2, <1>3, <1>4, <1>5

\* Bookkeeping of the updater, outside of a copy.
LEMMA NoteInv ==
    ASSUME IInv,
           \/ Settle \/ SettleTargets \/ RecoverRecord \/ WriteTargets \/ CommitResult
           \/ CommitTargets \/ CommitFailures \/ Resume
    PROVE  IInv'
  <1> USE DEF InInit, InUpdater, Restoring, Restored, Refusing, Copying, Preparing, Upgrading,
              Committing, Committed
  <1> DEFINE Notes(g) == /\ g \in FileSystems /\ SameRoots(fs, g) /\ SameRecords(fs, g)
  <1>1. ASSUME UNCHANGED <<fs, disk>> \/ \E g : Notes(g) /\ (Op(g) \/ AfterSync(g)),
               UNCHANGED <<used, boots, damaged>>
        PROVE  DiskInv' /\ SameRoots(fs, fs') /\ SameRecords(fs, fs')
    BY <1>1, Noted, Unwritten DEF IInv, SameRoots, SameRecords
  <1>2. \A v \in 0..MaxUpdates : Notes([fs EXCEPT !.targets = v])
    BY Seen DEF FileSystems, SameRoots, SameRecords
  <1>3. \A v \in 0..3 : Notes([fs EXCEPT !.failures = v])
    BY Seen DEF FileSystems, SameRoots, SameRecords
  <1>4. None \in 0..MaxUpdates /\ None \in 0..3
    BY BoundsAssumption, SMT DEF None
  <1>5. CASE Settle
    <2>1. (IF fs.failures < 3 THEN fs.failures + 1 ELSE fs.failures) \in 0..3
      BY Seen, SMT DEF FileSystems
    <2>2. DiskInv' /\ SameRoots(fs, fs') /\ SameRecords(fs, fs')
      <3> HIDE DEF Notes
      <3>1. (\E g : Notes(g) /\ (Op(g) \/ AfterSync(g))) \/ UNCHANGED <<fs, disk>>
        BY <1>2, <1>3, <1>4, <1>5, <2>1 DEF Settle
      <3> QED BY <1>1, <1>5, <3>1 DEF Settle, env
    <2> QED BY <1>5, <2>2, SMT
          DEF IInv, PhaseInv, InitInv, UpInv, Settle, env, SameRoots, SameRecords, Armed
  <1>6. CASE SettleTargets \/ WriteTargets
    <2>1. DiskInv' /\ SameRoots(fs, fs') /\ SameRecords(fs, fs')
      <3> HIDE DEF Notes
      <3>1. \E g : Notes(g) /\ (Op(g) \/ AfterSync(g))
        BY <1>2, <1>4, <1>6, Seen DEF SettleTargets, WriteTargets
      <3> QED BY <1>1, <1>6, <3>1 DEF SettleTargets, WriteTargets, env
    <2> QED BY <1>6, <2>1, SMT
          DEF IInv, PhaseInv, InitInv, UpInv, SettleTargets, WriteTargets, Action, Step, env,
              SameRoots, SameRecords, Armed
  <1>7. CASE RecoverRecord
    <2>1. Notes([fs EXCEPT !.snapLock = None])
      BY <1>4, Seen DEF FileSystems, SameRoots, SameRecords
    <2>2. DiskInv' /\ SameRoots(fs, fs') /\ SameRecords(fs, fs')
      <3> HIDE DEF Notes
      <3> QED BY <1>1, <1>7, <2>1 DEF RecoverRecord, env
    <2> QED BY <1>7, <2>2
          DEF IInv, PhaseInv, InitInv, UpInv, RecoverRecord, Action, Step, env, SameRoots,
              SameRecords, Armed
  <1>8. CASE CommitResult
    <2>1. Notes([fs EXCEPT !.result = [id |-> id, value |-> "committed"]])
      BY Seen DEF FileSystems, Results, SameRoots, SameRecords
    <2>2. DiskInv' /\ SameRoots(fs, fs') /\ SameRecords(fs, fs')
      <3> HIDE DEF Notes
      <3> QED BY <1>1, <1>8, <2>1 DEF CommitResult, env
    <2> QED BY <1>8, <2>2
          DEF IInv, PhaseInv, InitInv, UpInv, CommitResult, Action, Step, env, SameRoots,
              SameRecords, Armed
  <1>9. CASE CommitTargets \/ CommitFailures
    <2>1. 0 \in 0..3
      BY SMT
    <2>2. DiskInv' /\ SameRoots(fs, fs') /\ SameRecords(fs, fs')
      <3> HIDE DEF Notes
      <3>1. \E g : Notes(g) /\ (Op(g) \/ AfterSync(g))
        BY <1>2, <1>3, <1>4, <1>9, <2>1 DEF CommitTargets, CommitFailures
      <3> QED BY <1>1, <1>9, <3>1 DEF CommitTargets, CommitFailures, env
    <2> QED BY <1>9, <2>2
          DEF IInv, PhaseInv, InitInv, UpInv, CommitTargets, CommitFailures, Action, Step, env,
              SameRoots, SameRecords, Armed
  <1>10. CASE Resume
    <2>1. DiskInv' /\ SameRoots(fs, fs') /\ SameRecords(fs, fs')
      <3> HIDE DEF Notes
      <3> QED BY <1>1, <1>3, <1>10, SMT DEF Resume, env
    <2> QED BY <1>10, <2>1
          DEF IInv, PhaseInv, InitInv, UpInv, Resume, env, SameRoots, SameRecords, Armed
  <1> QED BY <1>5, <1>6, <1>7, <1>8, <1>9, <1>10

\* In a running system upper is there, and holds all user data.
LEMMA Mounted ==
    ASSUME IInv, phase = "up"
    PROVE  /\ fs.journal = NoJournal /\ fs.upper # NoTree /\ fs.upper \in Trees
           /\ fs.upper.user = Paths
  BY Seen DEF IInv, UpInv, Durable, Divided, AnyTree

\* What an interrupted copy left goes: a lock with its token, and the copy.
LEMMA RecoverInv == IInv /\ (RecoverLock \/ RecoverTmp \/ Discard) => IInv'
  <1> SUFFICES ASSUME IInv, RecoverLock \/ RecoverTmp \/ Discard PROVE IInv'
    OBVIOUS
  <1> USE DEF InInit, InUpdater, Restoring, Restored, Refusing, Copying, Preparing, Upgrading,
              Committing, Committed
  <1>1. None \in 0..MaxUpdates /\ Copied(NoTree, boots, damaged)
    BY BoundsAssumption, Constants, SMT DEF None, Copied, Settled
  <1>2. CASE RecoverLock
    <2>1. CASE UNCHANGED <<fs, disk>>
      <3>1. DiskInv' /\ fs' = fs
        BY <1>2, <2>1, Unwritten DEF IInv, RecoverLock, env
      <3> QED BY <1>2, <3>1, SMT DEF IInv, PhaseInv, InitInv, UpInv, RecoverLock, env
    <2>2. CASE /\ fs.snapLock # TornRecord /\ fs.lck = fs.snapLock
               /\ Op([fs EXCEPT !.lck = None])
      <3>1. PICK g : g = [fs EXCEPT !.lck = None]
        OBVIOUS
      <3>2. g \in FileSystems /\ SameRecords(fs, g) /\ g.upper = fs.upper /\ g.snap = fs.snap
            /\ g.tmp = fs.tmp
        BY <1>1, <3>1, Seen DEF FileSystems, SameRecords
      <3>3. fs.lck # Pacman
        BY <2>2, Seen, SMT DEF FileSystems, Pacman, TornRecord
      <3>4. DiskInv' /\ fs' = g
        BY <1>2, <2>2, <3>1, <3>2, <3>3, Noted DEF RecoverLock, env
      <3> QED BY <1>2, <3>2, <3>4, SMT
            DEF IInv, PhaseInv, InitInv, UpInv, RecoverLock, env, SameRecords, Armed
    <2> QED BY <1>2, <2>1, <2>2 DEF RecoverLock
  <1>3. CASE RecoverTmp \/ Discard
    <2>1. PICK g : g = [fs EXCEPT !.tmp = NoTree]
      OBVIOUS
    <2>2. g \in FileSystems /\ SameRecords(fs, g) /\ g.upper = fs.upper /\ g.snap = fs.snap
          /\ g.tmp = NoTree /\ g.lck = fs.lck
      BY <2>1, Seen DEF FileSystems, SameRecords, AnyTree
    <2>3. DiskInv' /\ fs' = g
      BY <1>1, <1>3, <2>1, <2>2, Noted DEF RecoverTmp, Discard, env
    <2>4. id' \in 0..used
      BY <1>3, SMT DEF IInv, PhaseInv, RecoverTmp, Discard, None
    <2> QED BY <1>3, <2>2, <2>3, <2>4, SMT
          DEF IInv, PhaseInv, InitInv, UpInv, RecoverTmp, Discard, Action, Step, env,
              SameRecords, Armed
  <1> QED BY <1>2, <1>3

\* The lock and its record, around a copy.
LEMMA LockInv ==
    ASSUME IInv, RecordLock \/ LinkLock \/ ReleaseCopied \/ ReleaseFailed \/ Interrupted
    PROVE  IInv'
  <1> USE DEF InInit, InUpdater, Restoring, Restored, Refusing, Copying, Preparing, Upgrading,
              Committing, Committed
  <1>0. /\ id \in Ids /\ id \in 0..MaxUpdates /\ id # Pacman /\ None # Pacman
        /\ None \in 0..MaxUpdates /\ TornRecord \in {TornRecord} /\ pc \in Copying
        /\ phase = "up" /\ fs.journal = NoJournal
    BY Seen, BoundsAssumption, SMT
       DEF IInv, PhaseInv, UpInv, None, Pacman, Ids, RecordLock, LinkLock, ReleaseCopied,
           ReleaseFailed, ReleaseLock, Unrecord, Action, Step, Interrupted
  <1> DEFINE Framed(g) == /\ g \in FileSystems /\ SameRecords(fs, g) /\ g.upper = fs.upper
                          /\ g.snap = fs.snap /\ g.tmp = fs.tmp
  <1>1. \A s \in {TornRecord} \cup 0..MaxUpdates :
           Framed([fs EXCEPT !.snapLock = s]) /\ [fs EXCEPT !.snapLock = s].lck = fs.lck
    BY Seen DEF FileSystems, SameRecords
  <1>2. \A l \in 0..MaxUpdates :
           Framed([fs EXCEPT !.lck = l]) /\ [fs EXCEPT !.lck = l].lck = l
    BY Seen DEF FileSystems, SameRecords
  <1>3. ASSUME NEW g, Framed(g), g.lck = fs.lck \/ fs.lck # Pacman
        PROVE  Durable(g, used, boots, damaged)
    BY <1>3, Seen, Bookkeeping
  <1>4. CASE RecordLock
    <2>1. PICK g : g = [fs EXCEPT !.snapLock = id]
      OBVIOUS
    <2>2. PICK t : t = [fs EXCEPT !.snapLock = TornRecord]
      OBVIOUS
    <2>3. Framed(g) /\ g.lck = fs.lck /\ Framed(t) /\ t.lck = fs.lck
      BY <1>0, <1>1, <2>1, <2>2
    <2>4. fs' = g /\ disk' \subseteq disk \cup {fs, fs', t}
      BY <1>4, <2>1, <2>2 DEF RecordLock
    <2>5. DiskInv'
      BY <1>3, <1>4, <2>3, <2>4, Written DEF IInv, RecordLock, env
    <2> QED BY <1>4, <2>3, <2>4, <2>5, SMT
          DEF IInv, PhaseInv, InitInv, UpInv, RecordLock, Action, Step, env, SameRecords, Armed
  <1>5. CASE LinkLock
    <2>1. CASE fs.lck = None
      <3>1. PICK g : g = [fs EXCEPT !.lck = id]
        OBVIOUS
      <3>2. Framed(g) /\ g.lck = id
        BY <1>0, <1>2, <3>1
      <3>3. AfterSync(g) /\ pc' = "copy"
        BY <1>5, <2>1, <3>1 DEF LinkLock
      <3>4. DiskInv' /\ fs' = g
        BY <1>0, <1>3, <1>5, <2>1, <3>2, <3>3, Wrote DEF IInv, LinkLock, env
      <3> QED BY <1>5, <3>2, <3>3, <3>4
            DEF IInv, PhaseInv, InitInv, UpInv, LinkLock, env, SameRecords, Armed
    <2>2. CASE fs.lck # None
      <3>1. PICK g : g = [fs EXCEPT !.snapLock = None]
        OBVIOUS
      <3>2. Framed(g) /\ g.lck = fs.lck
        BY <1>0, <1>1, <3>1
      <3>3. AfterSync(g) /\ pc' = "discard"
        BY <1>5, <2>2, <3>1 DEF LinkLock
      <3>4. DiskInv' /\ fs' = g
        BY <1>3, <1>5, <3>2, <3>3, Wrote DEF IInv, LinkLock, env
      <3> QED BY <1>5, <3>2, <3>3, <3>4
            DEF IInv, PhaseInv, InitInv, UpInv, LinkLock, env, SameRecords, Armed
    <2> QED BY <2>1, <2>2
  <1>6. ASSUME NEW from \in {"release", "releaseFailed"},
               NEW to \in {"unrecord", "unrecordFailed"},
               from = "release" <=> to = "unrecord", ReleaseLock(from, to)
        PROVE  IInv'
    <2>1. PICK g : g = [fs EXCEPT !.lck = IF @ = id THEN None ELSE @]
      OBVIOUS
    <2>2. /\ Framed(g) /\ g.lck = (IF fs.lck = id THEN None ELSE fs.lck)
          /\ (g.lck = fs.lck \/ fs.lck # Pacman)
      BY <1>0, <2>1, Seen DEF FileSystems, SameRecords
    <2>3. DiskInv' /\ fs' = g
      <3>1. Durable(g, used, boots, damaged)
        BY <1>3, <2>2
      <3>2. Op(g)
        BY <1>6, <2>1 DEF ReleaseLock
      <3> QED BY <1>6, <3>1, <3>2, Wrote DEF IInv, ReleaseLock, env
    <2> QED BY <1>6, <2>2, <2>3
          DEF IInv, PhaseInv, InitInv, UpInv, ReleaseLock, Action, Step, env, SameRecords, Armed
  <1>7. ASSUME NEW from \in {"unrecord", "unrecordFailed"}, NEW to \in {"seal", "discard"},
               from = "unrecord" <=> to = "seal", Unrecord(from, to)
        PROVE  IInv'
    <2>1. PICK g : g = [fs EXCEPT !.snapLock = None]
      OBVIOUS
    <2>2. Framed(g) /\ g.lck = fs.lck
      BY <1>0, <1>1, <2>1
    <2>3. DiskInv' /\ fs' = g
      BY <1>3, <1>7, <2>1, <2>2, Wrote DEF IInv, Unrecord, env
    <2> QED BY <1>7, <2>2, <2>3
          DEF IInv, PhaseInv, InitInv, UpInv, Unrecord, Action, Step, env, SameRecords, Armed
  <1>8. CASE Interrupted
    <2>1. PICK l : l = IF fs.lck = id THEN None ELSE fs.lck
      OBVIOUS
    <2>2. l \in {Pacman} \cup 0..MaxUpdates /\ (l = fs.lck \/ fs.lck # Pacman)
      BY <1>0, <2>1, Seen DEF FileSystems
    <2>3. PICK g : g = [fs EXCEPT !.lck = l, !.snapLock = None]
      OBVIOUS
    <2>4. PICK t : t = [fs EXCEPT !.lck = l]
      OBVIOUS
    <2>5. Framed(g) /\ g.lck = l /\ Framed(t) /\ t.lck = l
      BY <1>0, <2>2, <2>3, <2>4, Seen DEF FileSystems, SameRecords
    <2>6. fs' = g
      BY <1>8, <2>1, <2>3 DEF Interrupted
    <2>7. disk' \subseteq disk \cup {fs, fs', t}
      BY <1>8, <2>4, <2>5, <2>6 DEF Interrupted
    <2>8. DiskInv'
      BY <1>3, <1>8, <2>2, <2>5, <2>6, <2>7, Written DEF IInv, Interrupted, env
    <2> QED BY <1>8, <2>5, <2>6, <2>8, SMT
          DEF IInv, PhaseInv, InitInv, UpInv, Interrupted, env, SameRecords, Armed, None
  <1> QED BY <1>4, <1>5, <1>6, <1>7, <1>8 DEF ReleaseCopied, ReleaseFailed

\* The copy is made beside no transaction, of a settled root.
LEMMA CopyInv == IInv /\ (MakeTmp \/ CopyUpper) => IInv'
  <1> SUFFICES ASSUME IInv, MakeTmp \/ CopyUpper PROVE IInv'
    OBVIOUS
  <1> USE DEF InInit, InUpdater, Restoring, Restored, Refusing, Copying, Preparing, Upgrading,
              Committing, Committed
  <1>0. /\ phase = "up" /\ fs.journal = NoJournal /\ id \in Ids /\ fs.pending.action = "none"
        /\ ~damaged => Settled(fs.upper, boots)
    BY Seen, BoundsAssumption, SMT
       DEF IInv, PhaseInv, UpInv, Ids, MakeTmp, CopyUpper, Action, Step, Durable, Revertible,
           Armed
  <1>1. ASSUME NEW t \in Trees, Copied(t, boots, damaged),
               NEW g, g = [fs EXCEPT !.tmp = t], Op(g) \/ AfterSync(g),
               UNCHANGED <<used, boots, damaged>>
        PROVE  /\ DiskInv' /\ fs' = g /\ SameRecords(fs, g) /\ g.upper = fs.upper
               /\ g.snap = fs.snap /\ g.tmp = t /\ g.lck = fs.lck
    <2>1. /\ g \in FileSystems /\ SameRecords(fs, g) /\ g.upper = fs.upper
          /\ g.snap = fs.snap /\ g.tmp = t /\ g.lck = fs.lck
      BY <1>1, Seen DEF FileSystems, SameRecords, AnyTree
    <2> QED BY <1>1, <2>1, Noted
  <1>2. CASE MakeTmp
    <2>1. PICK t : t = [NoTree EXCEPT !.sys = 0]
      OBVIOUS
    <2>2. t \in Trees /\ Copied(t, boots, damaged)
      BY <2>1, BoundsAssumption, SMT DEF NoTree, Trees, Copied, Settled
    <2>3. PICK g : g = [fs EXCEPT !.tmp = t]
      OBVIOUS
    <2>4. Op(g)
      BY <1>2, <2>1, <2>3 DEF MakeTmp
    <2>5. /\ DiskInv' /\ fs' = g /\ SameRecords(fs, g) /\ g.upper = fs.upper
          /\ g.snap = fs.snap /\ g.lck = fs.lck
      BY <1>1, <1>2, <2>2, <2>3, <2>4 DEF MakeTmp, env
    <2> QED BY <1>2, <2>5
          DEF IInv, PhaseInv, InitInv, UpInv, MakeTmp, Action, Step, env, SameRecords, Armed
  <1>3. CASE CopyUpper /\ pc' = "release"
    <2>1. PICK t : t = [fs.upper EXCEPT !.user = {}]
      OBVIOUS
    <2>2. /\ t \in Trees /\ t.user = {} /\ t.state = fs.upper.state /\ t.sys = fs.upper.sys
      BY <1>0, <2>1, Mounted DEF Trees
    <2>3. fs.upper.state # "user"
      <3>1. fs.lck = id /\ id \in Nat
        BY <1>0, <1>3, Constants DEF IInv, UpInv, CopyUpper
      <3> QED BY <3>1, Seen, SMT DEF Durable, Locked, Pacman
    <2>4. Copied(t, boots, damaged) /\ t # NoTree
      BY <1>0, <2>2, <2>3, Constants DEF Copied, Settled
    <2>5. PICK g : g = [fs EXCEPT !.tmp = t]
      OBVIOUS
    <2>6. AfterSync(g)
      BY <1>3, <2>1, <2>5 DEF CopyUpper
    <2>7. /\ DiskInv' /\ fs' = g /\ SameRecords(fs, g) /\ g.upper = fs.upper
          /\ g.snap = fs.snap /\ g.lck = fs.lck /\ g.tmp = t
      BY <1>1, <1>3, <2>2, <2>4, <2>5, <2>6 DEF CopyUpper, env
    <2> QED BY <1>3, <2>4, <2>7
          DEF IInv, PhaseInv, InitInv, UpInv, CopyUpper, env, SameRecords, Armed
  <1>4. CASE CopyUpper /\ pc' = "releaseFailed"
    <2>1. DiskInv' /\ fs' = fs
      BY <1>4, Unwritten DEF IInv, CopyUpper, env
    <2> QED BY <1>4, <2>1 DEF IInv, PhaseInv, InitInv, UpInv, CopyUpper, env
  <1> QED BY <1>2, <1>3, <1>4 DEF CopyUpper

\* The finished copy gets its name: no older snapshot has it.
LEMMA SealInv == IInv /\ SealSnapshot => IInv'
  <1> SUFFICES ASSUME IInv, SealSnapshot PROVE IInv'
    OBVIOUS
  <1> USE DEF InInit, InUpdater, Restoring, Restored, Refusing, Copying, Preparing, Upgrading,
              Committing, Committed
  <1>0. /\ pc = "seal" /\ phase = "up" /\ fs.journal = NoJournal /\ id = used /\ id \in Ids
        /\ fs.pending.action = "none" /\ fs.tmp # NoTree /\ boots[id] = 0
        /\ fs.snap[id].failed = NoTree
    BY Seen, BoundsAssumption, SMT DEF IInv, PhaseInv, UpInv, Ids, SealSnapshot, Action, Step
  <1>1. PICK s : s = [NoSnap EXCEPT !.copy = fs.tmp, !.seal = TRUE]
    OBVIOUS
  <1>2. s \in Snapshots /\ s.copy = fs.tmp /\ s.failed = NoTree /\ s.seal
    BY <1>1, Seen DEF NoSnap, Snapshots, AnyTree
  <1>3. PICK m : m = [fs.snap EXCEPT ![id] = s]
    OBVIOUS
  <1>4. m \in [Ids -> Snapshots] /\ m[id] = s /\ \A i \in Ids : i # id => m[i] = fs.snap[i]
    BY <1>0, <1>2, <1>3, Seen
  <1>5. PICK g : g = [fs EXCEPT !.tmp = NoTree, !.snap = m]
    OBVIOUS
  <1>6. /\ g \in FileSystems /\ SameRecords(fs, g) /\ g.upper = fs.upper /\ g.lck = fs.lck
        /\ g.tmp = NoTree /\ g.snap = m
    BY <1>4, <1>5, Seen DEF FileSystems, SameRecords, AnyTree
  <1>7. Durable(g, used, boots, damaged)
    <2>1. Fresh(g, used)
      <3>1. \A i \in Ids : i > used => i # id
        BY <1>0, Constants, SMT
      <3> QED BY <1>4, <1>6, <3>1, Seen DEF Durable, Fresh, Armed, SameRecords
    <2>2. Copies(g, boots, damaged)
      <3>1. Copied(NoTree, boots, damaged)
        BY Constants DEF Copied, Settled
      <3> QED BY <1>2, <1>4, <1>6, <3>1, Seen DEF Durable, Copies
    <2>3. Divided(g)
      <3>1. s.failed.user = {}
        BY <1>2, Constants
      <3> QED BY <1>0, <1>4, <1>6, <3>1, Seen DEF Durable, Divided, SameRecords
    <2>4. Locked(g) /\ Attempted(g, boots) /\ (~damaged => Revertible(g, boots))
      BY <1>0, <1>6, Seen DEF Durable, Locked, Attempted, Revertible, Armed, SameRecords
    <2> QED BY <1>6, <2>1, <2>2, <2>3, <2>4 DEF Durable
  <1>8. AfterSync(g)
    <2>1. [fs EXCEPT !.tmp = NoTree,
                     !.snap[id] = [NoSnap EXCEPT !.copy = fs.tmp, !.seal = TRUE]]
             = [fs EXCEPT !.tmp = NoTree, !.snap = [fs.snap EXCEPT ![id] = s]]
      BY <1>1, Seen DEF FileSystems
    <2> QED BY <1>3, <1>5, <2>1 DEF SealSnapshot
  <1>9. DiskInv' /\ fs' = g
    BY <1>7, <1>8, Wrote DEF IInv, SealSnapshot, env
  <1>10. Exact(fs'.snap[id]) /\ fs'.snap[id].failed = NoTree
    BY <1>0, <1>2, <1>4, <1>6, <1>9 DEF Exact
  <1> QED BY <1>0, <1>6, <1>9, <1>10
        DEF IInv, PhaseInv, InitInv, UpInv, SealSnapshot, Action, Step, env, SameRecords, Armed

\* pending is written, or written anew: what it promises holds.
LEMMA PendingWritten ==
    ASSUME NEW u \in 0..MaxUpdates, NEW b, NEW d, NEW f, Durable(f, u, b, d),
           f.journal = NoJournal, NEW p \in Pendings,
           p.action \in {"verify", "restore"} =>
              /\ p.id \in 1..u
              /\ ~d => Exact(f.snap[p.id]) /\ f.snap[p.id].failed = NoTree,
           p.action = "verify" => f.upper.state # "update" /\ f.upper.sys = p.id /\ b[p.id] = 0,
           p.action \notin {"verify", "restore"} /\ ~d => Settled(f.upper, b),
           NEW g, g = [f EXCEPT !.pending = p]
    PROVE  /\ Durable(g, u, b, d) /\ SameRoots(f, g) /\ g.pending = p
           /\ g.journal = f.journal /\ g.attempt = f.attempt
  <1>1. /\ g \in FileSystems /\ SameRoots(f, g) /\ g.pending = p
        /\ g.journal = f.journal /\ g.attempt = f.attempt
    BY DEF Durable, FileSystems, SameRoots
  <1>2. Fresh(g, u) /\ Copies(g, b, d) /\ Divided(g) /\ Locked(g)
    BY <1>1 DEF Durable, Fresh, Copies, Divided, Locked, Armed, SameRoots
  <1>3. Attempted(g, b) /\ (~d => Revertible(g, b))
    BY <1>1, SMT DEF Attempted, Revertible, Armed, SameRoots
  <1> QED BY <1>1, <1>2, <1>3 DEF Durable

\* The mounted root changes in place: a transaction starts or ends in it.
LEMMA RootChanged ==
    ASSUME NEW u, NEW b, NEW d, NEW f, Durable(f, u, b, d), f.journal = NoJournal,
           NEW g \in FileSystems, SameRecords(f, g), g.snap = f.snap, g.tmp = f.tmp,
           g.upper # NoTree, g.upper.user = f.upper.user,
           g.upper.state = "user" => g.lck = Pacman,
           ~d => IF Armed(f)
                 THEN f.pending.action = "verify" =>
                         g.upper.state # "update" /\ g.upper.sys = f.upper.sys
                 ELSE Settled(g.upper, b)
    PROVE  Durable(g, u, b, d)
  <1> USE DEF SameRecords
  <1>1. Fresh(g, u) /\ Copies(g, b, d) /\ Divided(g)
    BY DEF Durable, Fresh, Copies, Divided, Armed
  <1>2. Locked(g) /\ Attempted(g, b)
    BY DEF Durable, Locked, Attempted
  <1>3. ~d => Revertible(g, b)
    BY DEF Durable, Revertible, Armed
  <1> QED BY <1>1, <1>2, <1>3 DEF Durable

\* pending is written before the upgrade, over a settled root.
LEMMA ArmRestoreInv == IInv /\ ArmRestore => IInv'
  <1> SUFFICES ASSUME IInv, ArmRestore PROVE IInv'
    OBVIOUS
  <1> USE DEF InInit, InUpdater, Restoring, Restored, Refusing, Copying, Preparing, Upgrading,
              Committing, Committed
  <1>0. /\ pc = "arm" /\ phase = "up" /\ fs.journal = NoJournal /\ id \in 1..used
        /\ id \in 0..MaxUpdates /\ fs.pending.action = "none"
        /\ ~damaged => /\ Settled(fs.upper, boots)
                       /\ Exact(fs.snap[id]) /\ fs.snap[id].failed = NoTree
    BY Seen, BoundsAssumption, SMT
       DEF IInv, PhaseInv, UpInv, ArmRestore, Action, Step, Durable, Revertible, Armed
  <1>1. PICK p : p = [id |-> id, action |-> "restore"]
    OBVIOUS
  <1>2. PICK q : q = [id |-> id, action |-> "torn"]
    OBVIOUS
  <1>3. /\ p \in Pendings /\ p.id = id /\ p.action = "restore"
        /\ q \in Pendings /\ q.action = "torn"
    BY <1>0, <1>1, <1>2 DEF Pendings
  <1>4. PICK g : g = [fs EXCEPT !.pending = p]
    OBVIOUS
  <1>5. PICK t : t = [fs EXCEPT !.pending = q]
    OBVIOUS
  <1>6. used \in 0..MaxUpdates /\ Durable(fs, used, boots, damaged)
    BY Seen DEF IInv, PhaseInv
  <1>7. /\ Durable(g, used, boots, damaged) /\ SameRoots(fs, g) /\ g.pending = p
        /\ g.journal = fs.journal
    BY <1>0, <1>3, <1>4, <1>6, PendingWritten, SMT
  <1>8. Durable(t, used, boots, damaged)
    BY <1>0, <1>3, <1>5, <1>6, PendingWritten
  <1>9. fs' = g /\ disk' \subseteq disk \cup {fs, fs', t}
    BY <1>1, <1>2, <1>4, <1>5 DEF ArmRestore
  <1>10. DiskInv'
    BY <1>7, <1>8, <1>9, Written DEF IInv, ArmRestore, env
  <1> QED BY <1>0, <1>1, <1>7, <1>9, <1>10
        DEF IInv, PhaseInv, InitInv, UpInv, ArmRestore, Action, Step, env, SameRoots, Armed

\* pacman's upgrade runs under the restore that is armed.
LEMMA UpgradeInv ==
    ASSUME IInv, UpgradeBegin \/ KeyringEnd \/ UpgradeRest \/ UpgradeEnd
    PROVE  IInv'
  <1> USE DEF InInit, InUpdater, Restoring, Restored, Refusing, Copying, Preparing, Upgrading,
              Committing, Committed
  <1>0. /\ phase = "up" /\ pc \in {"upgrade", "keyring", "upgradeRest", "upgrading"}
        /\ fs.journal = NoJournal
        /\ id \in 0..MaxUpdates /\ Armed(fs) /\ fs.pending.action = "restore"
        /\ None \in 0..MaxUpdates
    BY Seen, BoundsAssumption, SMT
       DEF IInv, PhaseInv, UpInv, UpgradeBegin, KeyringEnd, UpgradeRest, UpgradeEnd, Armed, None
  <1>1. ASSUME NEW g \in FileSystems, SameRecords(fs, g), g.snap = fs.snap, g.tmp = fs.tmp,
               g.upper # NoTree, g.upper.user = fs.upper.user, g.upper.state # "user",
               Op(g) \/ AfterSync(g), UNCHANGED <<used, boots, damaged>>
        PROVE  DiskInv' /\ fs' = g
    <2>1. Durable(g, used, boots, damaged)
      BY <1>0, <1>1, Seen, RootChanged
    <2> QED BY <1>1, <2>1, Wrote DEF IInv
  <1>2. CASE UpgradeBegin /\ pc' \in {"keyring", "upgrading"}
    <2>1. PICK g : g = [fs EXCEPT !.lck = Pacman, !.upper.sys = id, !.upper.state = "update"]
      OBVIOUS
    <2>2. /\ g \in FileSystems /\ SameRecords(fs, g) /\ g.snap = fs.snap /\ g.tmp = fs.tmp
          /\ g.upper \in Trees /\ g.upper.user = fs.upper.user /\ g.upper.state = "update"
          /\ g.upper.sys = id /\ g.lck = Pacman
      BY <1>0, <2>1, Seen, Mounted DEF FileSystems, SameRecords, AnyTree, Trees
    <2>3. AfterSync(g)
      BY <1>2, <2>1 DEF UpgradeBegin
    <2>4. DiskInv' /\ fs' = g
      BY <1>1, <1>2, <2>2, <2>3, Constants DEF UpgradeBegin, env
    <2> QED BY <1>0, <1>2, <2>2, <2>4
          DEF IInv, PhaseInv, InitInv, UpInv, UpgradeBegin, env, SameRecords, Armed
  <1>3. CASE UpgradeBegin /\ pc' = "failed"
    <2>1. DiskInv' /\ fs' = fs
      BY <1>3, Unwritten DEF IInv, UpgradeBegin, env
    <2> QED BY <1>3, <2>1 DEF IInv, PhaseInv, InitInv, UpInv, UpgradeBegin, env
  <1>4. CASE UpgradeEnd /\ pc' = "verify"
    <2>1. PICK g : g = [fs EXCEPT !.lck = None, !.upper.state = "whole"]
      OBVIOUS
    <2>2. /\ g \in FileSystems /\ SameRecords(fs, g) /\ g.snap = fs.snap /\ g.tmp = fs.tmp
          /\ g.upper \in Trees /\ g.upper.user = fs.upper.user /\ g.upper.state = "whole"
          /\ g.upper.sys = fs.upper.sys
      BY <1>0, <2>1, Seen, Mounted DEF FileSystems, SameRecords, AnyTree, Trees
    <2>3. Op(g)
      BY <1>4, <2>1 DEF UpgradeEnd
    <2>4. DiskInv' /\ fs' = g
      BY <1>1, <1>4, <2>2, <2>3, Constants DEF UpgradeEnd, env
    <2> QED BY <1>0, <1>4, <2>2, <2>4
          DEF IInv, PhaseInv, InitInv, UpInv, UpgradeEnd, env, SameRecords, Armed
  <1>5. ASSUME NEW l \in {None, Pacman}, Op([fs EXCEPT !.lck = l]), fs.upper.state = "update",
               UNCHANGED <<used, boots, damaged>>
        PROVE  DiskInv' /\ SameRecords(fs, fs') /\ fs'.snap = fs.snap /\ fs'.upper = fs.upper
               /\ fs'.tmp = fs.tmp /\ fs'.lck = l
    <2>1. PICK g : g = [fs EXCEPT !.lck = l]
      OBVIOUS
    <2>2. /\ g \in FileSystems /\ SameRecords(fs, g) /\ g.snap = fs.snap /\ g.tmp = fs.tmp
          /\ g.upper = fs.upper /\ fs.upper \in Trees /\ g.lck = l
      BY <1>0, <1>5, <2>1, Seen, Mounted DEF FileSystems, SameRecords
    <2>3. DiskInv' /\ fs' = g
      BY <1>1, <1>5, <2>1, <2>2, Constants
    <2> QED BY <2>2, <2>3
  <1>6. CASE UpgradeEnd /\ pc' = "failed"
    <2>1. DiskInv' /\ SameRecords(fs, fs') /\ fs'.snap = fs.snap /\ fs'.upper = fs.upper
      BY <1>5, <1>6 DEF UpgradeEnd, env, IInv, UpInv
    <2> QED BY <1>0, <1>6, <2>1
          DEF IInv, PhaseInv, InitInv, UpInv, UpgradeEnd, env, SameRecords, Armed
  <1>7. CASE KeyringEnd
    <2>1. DiskInv' /\ SameRecords(fs, fs') /\ fs'.snap = fs.snap /\ fs'.upper = fs.upper
      BY <1>5, <1>7 DEF KeyringEnd, env, IInv, UpInv
    <2> QED BY <1>0, <1>7, <2>1
          DEF IInv, PhaseInv, InitInv, UpInv, KeyringEnd, env, SameRecords, Armed
  <1>8. CASE UpgradeRest /\ pc' = "upgrading"
    <2>1. /\ DiskInv' /\ SameRecords(fs, fs') /\ fs'.snap = fs.snap /\ fs'.upper = fs.upper
          /\ fs'.lck = Pacman
      BY <1>5, <1>8 DEF UpgradeRest, env, IInv, UpInv
    <2> QED BY <1>0, <1>8, <2>1
          DEF IInv, PhaseInv, InitInv, UpInv, UpgradeRest, env, SameRecords, Armed
  <1>9. CASE UpgradeRest /\ pc' = "failed"
    <2>1. DiskInv' /\ fs' = fs
      BY <1>9, Unwritten DEF IInv, UpgradeRest, env
    <2> QED BY <1>9, <2>1 DEF IInv, PhaseInv, InitInv, UpInv, UpgradeRest, env
  <1> QED BY <1>2, <1>3, <1>4, <1>6, <1>7, <1>8, <1>9 DEF UpgradeBegin, UpgradeRest, UpgradeEnd

\* The record of a verified upgrade replaces the one that would restore it.
LEMMA ArmVerifyInv == IInv /\ ArmVerify => IInv'
  <1> SUFFICES ASSUME IInv, ArmVerify PROVE IInv'
    OBVIOUS
  <1> USE DEF InInit, InUpdater, Restoring, Restored, Refusing, Copying, Preparing, Upgrading,
              Committing, Committed
  <1>1. CASE UNCHANGED <<fs, disk>> /\ pc' = "failed"
    <2>1. DiskInv' /\ fs' = fs
      BY <1>1, Unwritten DEF IInv, ArmVerify, env
    <2> QED BY <1>1, <2>1 DEF IInv, PhaseInv, InitInv, UpInv, ArmVerify, env
  <1>2. CASE /\ fs' = [fs EXCEPT !.pending = [id |-> id, action |-> "verify"]]
             /\ disk' = disk \cup {fs', [fs' EXCEPT !.upper.state = "lost"]}
             /\ pc' = "verified"
    <2>0. /\ pc = "verify" /\ phase = "up" /\ fs.journal = NoJournal /\ id \in 1..used
          /\ id \in 0..MaxUpdates /\ fs.pending = [id |-> id, action |-> "restore"]
          /\ fs.upper.state \in {"whole", "user"} /\ fs.upper.sys = id /\ boots[id] = 0
          /\ used \in 0..MaxUpdates /\ Durable(fs, used, boots, damaged)
      BY Seen, BoundsAssumption, SMT DEF IInv, PhaseInv, UpInv, ArmVerify
    <2>1. ~damaged => Exact(fs.snap[id]) /\ fs.snap[id].failed = NoTree
      BY <2>0, SMT DEF Durable, Revertible, Armed
    <2>2. PICK p : p = [id |-> id, action |-> "verify"]
      OBVIOUS
    <2>3. p \in Pendings /\ p.id = id /\ p.action = "verify"
      BY <2>0, <2>2 DEF Pendings
    <2>4. PICK g : g = [fs EXCEPT !.pending = p]
      OBVIOUS
    <2>5. /\ Durable(g, used, boots, damaged) /\ SameRoots(fs, g) /\ g.pending = p
          /\ g.journal = fs.journal
      BY <2>0, <2>1, <2>3, <2>4, PendingWritten, SMT
    <2>6. PICK t : t = [g EXCEPT !.upper.state = "lost"]
      OBVIOUS
    <2>7. /\ t \in FileSystems /\ SameRecords(g, t) /\ t.snap = g.snap /\ t.tmp = g.tmp
          /\ t.upper \in Trees /\ t.upper.user = g.upper.user /\ t.upper.state = "lost"
          /\ t.upper.sys = g.upper.sys
      <3>1. g \in FileSystems /\ g.upper \in Trees
        BY <2>0, <2>5, Mounted DEF Durable, SameRoots
      <3> QED BY <2>6, <3>1 DEF FileSystems, SameRecords, AnyTree, Trees
    <2>8. Durable(t, used, boots, damaged)
      <3>1. Armed(g) /\ g.journal = NoJournal /\ t.upper # NoTree
        BY <2>0, <2>3, <2>5, <2>7, Constants DEF Armed
      <3> QED BY <2>5, <2>7, <3>1, RootChanged
    <2>9. fs' = g /\ disk' \subseteq disk \cup {fs, fs', t}
      BY <1>2, <2>2, <2>4, <2>6
    <2>10. DiskInv'
      BY <2>5, <2>8, <2>9, Written DEF IInv, ArmVerify, env
    <2> QED BY <1>2, <2>0, <2>2, <2>5, <2>9, <2>10
          DEF IInv, PhaseInv, InitInv, UpInv, ArmVerify, env, SameRoots, Armed
  <1> QED BY <1>1, <1>2 DEF ArmVerify

\* A commit's check of the root: last-good, or the restore armed again.
LEMMA CommitVerifyInv == IInv /\ CommitVerify => IInv'
  <1> SUFFICES ASSUME IInv, CommitVerify PROVE IInv'
    OBVIOUS
  <1> USE DEF InInit, InUpdater, Restoring, Restored, Refusing, Copying, Preparing, Upgrading,
              Committing, Committed
  <1>0. /\ phase = "up" /\ pc = "commit" /\ fs.journal = NoJournal /\ Armed(fs)
        /\ fs.pending = [id |-> id, action |-> "verify"] /\ id \in 1..used
        /\ id \in 0..MaxUpdates
        /\ used \in 0..MaxUpdates /\ Durable(fs, used, boots, damaged)
    <2>1. /\ phase = "up" /\ pc = "commit" /\ fs.journal = NoJournal
          /\ fs.pending = [id |-> id, action |-> "verify"]
          /\ used \in 0..MaxUpdates /\ Durable(fs, used, boots, damaged)
      BY Seen DEF IInv, PhaseInv, UpInv, CommitVerify
    <2>2. Armed(fs) /\ id \in 1..used
      BY <2>1, SMT DEF Durable, Fresh, Armed
    <2> QED BY <2>1, <2>2, BoundsAssumption, SMT
  <1>1. CASE pc' = "commitResult"
    <2>1. PICK g : g = [fs EXCEPT !.lastGood = id]
      OBVIOUS
    <2>2. PICK t : t = [fs EXCEPT !.lastGood = TornRecord]
      OBVIOUS
    <2>3. /\ g \in FileSystems /\ SameRecords(fs, g) /\ SameRoots(fs, g)
          /\ t \in FileSystems /\ SameRecords(fs, t) /\ SameRoots(fs, t)
      BY <1>0, <2>1, <2>2, Seen DEF FileSystems, SameRecords, SameRoots
    <2>4. Durable(g, used, boots, damaged) /\ Durable(t, used, boots, damaged)
      BY <1>0, <2>3, Bookkeeping DEF SameRoots
    <2>5. fs' = g /\ disk' \subseteq disk \cup {fs, fs', t}
      BY <1>1, <2>1, <2>2 DEF CommitVerify
    <2>6. DiskInv'
      BY <2>4, <2>5, Written DEF IInv, CommitVerify, env
    <2> QED BY <1>1, <2>3, <2>5, <2>6
          DEF IInv, PhaseInv, InitInv, UpInv, CommitVerify, env, SameRecords, SameRoots, Armed
  <1>2. CASE pc' = "armedAgain"
    <2>1. PICK p : p = [id |-> id, action |-> "restore"]
      OBVIOUS
    <2>2. p \in Pendings /\ p.id = id /\ p.action = "restore"
      BY <1>0, <2>1 DEF Pendings
    <2>3. ~damaged => Exact(fs.snap[id]) /\ fs.snap[id].failed = NoTree
      BY <1>0, SMT DEF Durable, Revertible, Armed
    <2>4. PICK g : g = [fs EXCEPT !.pending = p]
      OBVIOUS
    <2>5. /\ Durable(g, used, boots, damaged) /\ SameRoots(fs, g) /\ g.pending = p
          /\ g.journal = fs.journal
      BY <1>0, <2>2, <2>3, <2>4, PendingWritten, SMT
    <2>6. AfterSync(g)
      BY <1>2, <2>1, <2>4 DEF CommitVerify
    <2>7. DiskInv' /\ fs' = g
      BY <2>5, <2>6, Wrote DEF IInv, CommitVerify, env
    <2> QED BY <1>2, <2>5, <2>7
          DEF IInv, PhaseInv, InitInv, UpInv, CommitVerify, env, SameRoots, Armed
  <1> QED BY <1>1, <1>2 DEF CommitVerify

\* The committed root is settled when its records go.
LEMMA CommitInv == IInv /\ (CommitPending \/ CommitAttempt) => IInv'
  <1> SUFFICES ASSUME IInv, CommitPending \/ CommitAttempt PROVE IInv'
    OBVIOUS
  <1> USE DEF InInit, InUpdater, Restoring, Restored, Refusing, Copying, Preparing, Upgrading,
              Committing, Committed
  <1>0. used \in 0..MaxUpdates /\ Durable(fs, used, boots, damaged)
    BY Seen DEF IInv, PhaseInv
  <1>1. CASE CommitPending
    <2>1. /\ phase = "up" /\ fs.journal = NoJournal
          /\ fs.pending = [id |-> id, action |-> "verify"]
      BY <1>1 DEF IInv, PhaseInv, UpInv, CommitPending, Action, Step
    <2>2. fs.journal # NoJournal \/ damaged \/ Settled(fs.upper, boots)
      BY <1>0, <2>1, SMT DEF Durable, Revertible, Armed, IInv, UpInv, Settled
    <2>3. PICK g : g = [fs EXCEPT !.pending = NoPending]
      OBVIOUS
    <2>4. /\ Durable(g, used, boots, damaged) /\ SameRoots(fs, g) /\ g.pending = NoPending
          /\ g.journal = fs.journal
      BY <1>0, <2>2, <2>3, PendingCleared, SMT
    <2>5. DiskInv' /\ fs' = g
      BY <1>1, <2>3, <2>4, Wrote DEF IInv, CommitPending, env
    <2> QED BY <1>1, <2>4, <2>5, Constants
          DEF IInv, PhaseInv, InitInv, UpInv, CommitPending, Action, Step, env, SameRoots, Armed
  <1>2. CASE CommitAttempt
    <2>1. phase = "up" /\ fs.pending = NoPending /\ fs.pending.action # "verify"
      BY <1>2, Constants DEF IInv, PhaseInv, UpInv, CommitAttempt, Action, Step
    <2>2. PICK g : g = [fs EXCEPT !.attempt = NoAttempt]
      OBVIOUS
    <2>3. /\ Durable(g, used, boots, damaged) /\ SameRoots(fs, g) /\ g.pending = fs.pending
          /\ g.journal = fs.journal
      BY <1>0, <2>1, <2>2, AttemptCleared, SMT
    <2>4. DiskInv' /\ fs' = g
      BY <1>2, <2>2, <2>3, Wrote DEF IInv, CommitAttempt, env
    <2> QED BY <1>2, <2>1, <2>3, <2>4
          DEF IInv, PhaseInv, InitInv, UpInv, CommitAttempt, Action, Step, env, SameRoots, Armed
  <1> QED BY <1>1, <1>2

\* prune_snapshots runs when nothing is pending: no snapshot is needed.
LEMMA PruneInv == IInv /\ Prune => IInv'
  <1> SUFFICES ASSUME IInv, Prune PROVE IInv'
    OBVIOUS
  <1> USE DEF InInit, InUpdater, Restoring, Restored, Refusing, Copying, Preparing, Upgrading,
              Committing, Committed
  <1>0. /\ phase = "up" /\ pc = "prune" /\ fs.journal = NoJournal /\ fs.pending = NoPending
        /\ Durable(fs, used, boots, damaged) /\ None \in 0..used
    BY Seen, BoundsAssumption, SMT DEF IInv, PhaseInv, UpInv, Prune, None
  <1>1. ASSUME NEW i \in Ids, fs.snap[i] # NoSnap, fs.snap[i].failed = NoTree,
               NEW rest \in {NoSnap, [fs.snap[i] EXCEPT !.seal = FALSE]},
               Op([fs EXCEPT !.snap[i] = rest])
        PROVE  DiskInv' /\ SameRecords(fs, fs') /\ fs'.upper = fs.upper
    <2>1. PICK m : m = [fs.snap EXCEPT ![i] = rest]
      OBVIOUS
    <2>2. /\ rest \in Snapshots /\ rest.failed = NoTree
          /\ rest.copy \in {NoTree, fs.snap[i].copy}
      <3>1. fs.snap[i] \in Snapshots
        BY Seen
      <3> QED BY <1>1, <3>1, Constants DEF Snapshots
    <2>3. m \in [Ids -> Snapshots] /\ m[i] = rest /\ \A j \in Ids : j # i => m[j] = fs.snap[j]
      BY <2>1, <2>2, Seen
    <2>4. PICK g : g = [fs EXCEPT !.snap = m]
      OBVIOUS
    <2>5. /\ g \in FileSystems /\ SameRecords(fs, g) /\ g.upper = fs.upper /\ g.lck = fs.lck
          /\ g.tmp = fs.tmp /\ g.snap = m
      BY <2>3, <2>4, Seen DEF FileSystems, SameRecords
    <2>6. Durable(g, used, boots, damaged)
      <3>1. Fresh(g, used)
        BY <1>0, <1>1, <2>3, <2>5 DEF Durable, Fresh, Armed, SameRecords
      <3>2. Copies(g, boots, damaged)
        <4>1. Copied(NoTree, boots, damaged)
          BY Constants DEF Copied, Settled
        <4> QED BY <1>0, <2>2, <2>3, <2>5, <4>1 DEF Durable, Copies
      <3>3. Divided(g)
        BY <1>0, <2>2, <2>3, <2>5, Constants DEF Durable, Divided, SameRecords
      <3>4. Locked(g) /\ Attempted(g, boots)
        BY <1>0, <2>5 DEF Durable, Locked, Attempted, SameRecords
      <3>5. ~damaged => Revertible(g, boots)
        BY <1>0, <2>5, Constants DEF Durable, Revertible, Armed, SameRecords
      <3> QED BY <2>5, <3>1, <3>2, <3>3, <3>4, <3>5 DEF Durable
    <2>7. Op(g)
      BY <1>1, <2>1, <2>4
    <2>8. DiskInv' /\ fs' = g
      BY <2>6, <2>7, Wrote DEF IInv, Prune, env
    <2> QED BY <2>5, <2>8
  <1>2. ASSUME Op([fs EXCEPT !.tmp = NoTree])
        PROVE  DiskInv' /\ SameRecords(fs, fs') /\ fs'.upper = fs.upper
    <2>1. PICK g : g = [fs EXCEPT !.tmp = NoTree]
      OBVIOUS
    <2>2. /\ g \in FileSystems /\ SameRecords(fs, g) /\ g.upper = fs.upper /\ g.lck = fs.lck
          /\ g.snap = fs.snap /\ g.tmp = NoTree
      BY <2>1, Seen DEF FileSystems, SameRecords, AnyTree
    <2>3. Copied(NoTree, boots, damaged)
      BY Constants DEF Copied, Settled
    <2>4. DiskInv' /\ fs' = g
      BY <1>2, <2>1, <2>2, <2>3, Noted DEF Prune, env
    <2> QED BY <2>2, <2>4
  <1>3. CASE UNCHANGED <<pc, id>>
    <2>1. DiskInv' /\ SameRecords(fs, fs') /\ fs'.upper = fs.upper
      BY <1>0, <1>1, <1>2, <1>3 DEF Prune
    <2> QED BY <1>0, <1>3, <2>1
          DEF IInv, PhaseInv, InitInv, UpInv, Prune, env, SameRecords, Armed
  <1>4. CASE pc' = "idle" /\ id' = None /\ UNCHANGED <<fs, disk>>
    <2>1. DiskInv' /\ fs' = fs
      BY <1>4, Unwritten DEF IInv, Prune, env
    <2> QED BY <1>0, <1>4, <2>1 DEF IInv, PhaseInv, InitInv, UpInv, Prune, env
  <1> QED BY <1>3, <1>4 DEF Prune

\* The owner's rollback arms a snapshot that is exact.
LEMMA RollbackInv == IInv /\ Rollback => IInv'
  <1> SUFFICES ASSUME IInv, Rollback PROVE IInv'
    OBVIOUS
  <1> USE DEF InInit, InUpdater, Restoring, Restored, Refusing, Copying, Preparing, Upgrading,
              Committing, Committed
  <1>0. /\ phase = "up" /\ pc = "idle" /\ fs.journal = NoJournal /\ fs.pending = NoPending
        /\ used \in 0..MaxUpdates /\ Durable(fs, used, boots, damaged)
        /\ ~damaged => Settled(fs.upper, boots)
    <2>1. /\ phase = "up" /\ pc = "idle" /\ fs.journal = NoJournal /\ fs.pending = NoPending
          /\ used \in 0..MaxUpdates /\ Durable(fs, used, boots, damaged)
      BY Seen DEF IInv, PhaseInv, UpInv, Rollback
    <2> QED BY <2>1, Constants DEF Durable, Revertible, Armed
  <1>1. PICK i \in Ids : /\ fs.snap[i].copy # NoTree /\ fs.snap[i].failed = NoTree
                         /\ SnapshotExact(i) /\ id' = i
                         /\ NewRecord([fs EXCEPT !.pending = [id |-> i, action |-> "restore"]],
                                      [fs EXCEPT !.pending = [id |-> i, action |-> "torn"]])
    BY DEF Rollback
  <1>2. i \in 1..used /\ i \in 0..MaxUpdates
    <2>1. ~(i > used)
      BY <1>0, <1>1, Constants DEF Durable, Fresh
    <2> QED BY <1>0, <1>1, <2>1, BoundsAssumption, SMT DEF Ids
  <1>3. PICK p : p = [id |-> i, action |-> "restore"]
    OBVIOUS
  <1>4. PICK q : q = [id |-> i, action |-> "torn"]
    OBVIOUS
  <1>5. /\ p \in Pendings /\ p.id = i /\ p.action = "restore"
        /\ q \in Pendings /\ q.action = "torn"
    BY <1>2, <1>3, <1>4 DEF Pendings
  <1>6. PICK g : g = [fs EXCEPT !.pending = p]
    OBVIOUS
  <1>7. PICK t : t = [fs EXCEPT !.pending = q]
    OBVIOUS
  <1>8. Exact(fs.snap[i]) /\ fs.snap[i].failed = NoTree
    BY <1>1 DEF SnapshotExact, Exact
  <1>9. /\ Durable(g, used, boots, damaged) /\ SameRoots(fs, g) /\ g.pending = p
        /\ g.journal = fs.journal
    BY <1>0, <1>2, <1>5, <1>6, <1>8, PendingWritten, SMT
  <1>10. Durable(t, used, boots, damaged)
    BY <1>0, <1>5, <1>7, PendingWritten
  <1>11. DiskInv' /\ fs' = g
    <2>1. NewRecord(g, t) /\ UNCHANGED <<used, boots, damaged>>
      BY <1>1, <1>3, <1>4, <1>6, <1>7 DEF Rollback
    <2> QED BY <1>9, <1>10, <2>1, WroteNew DEF IInv
  <1> QED BY <1>0, <1>1, <1>2, <1>9, <1>11, SMT
        DEF IInv, PhaseInv, InitInv, UpInv, Rollback, SameRoots, Armed

\* A transaction of the user holds pacman's lock for as long as it runs.
LEMMA UserInv == IInv /\ UserPacman => IInv'
  <1> SUFFICES ASSUME IInv, UserPacman PROVE IInv'
    OBVIOUS
  <1> USE DEF InInit, InUpdater, Restoring, Restored, Refusing, Copying, Preparing, Upgrading,
              Committing, Committed
  <1>0. /\ phase = "up" /\ fs.journal = NoJournal /\ fs.upper \in Trees
        /\ fs.upper.state \in {"whole", "user", "update", "lost"}
        /\ pc \notin {"copy", "keyring", "upgrading"}
    <2>1. phase = "up" /\ fs.journal = NoJournal /\ fs.upper \in Trees
      BY Mounted DEF UserPacman
    <2>2. fs.lck \in {None, Pacman} /\ pc \notin {"keyring", "upgrading"}
      BY SMT DEF UserPacman, IInv, UpInv, None, Pacman
    <2>3. pc = "copy" => fs.lck \in Nat \ {0}
      BY <2>1, BoundsAssumption, SMT DEF IInv, UpInv, PhaseInv
    <2> QED BY <2>1, <2>2, <2>3, SMT DEF Trees, None, Pacman
  <1>1. PICK l \in {None, Pacman}, s \in {"whole", "user", "update", "lost"} :
           /\ Op([fs EXCEPT !.lck = l, !.upper.state = s])
           /\ s = "user" => l = Pacman
           /\ s \in {"whole", "user"} <=> fs.upper.state \in {"whole", "user"}
           /\ s \notin {"whole", "user"} => s = fs.upper.state
    <2>1. CASE fs.lck = None
      <3>1. PICK s : s = IF fs.upper.state = "whole" THEN "user" ELSE fs.upper.state
        OBVIOUS
      <3> QED BY <1>0, <2>1, <3>1 DEF UserPacman, None, Pacman
    <2>2. CASE fs.lck = Pacman
      <3>1. PICK s : s = IF fs.upper.state = "user" THEN "whole" ELSE fs.upper.state
        OBVIOUS
      <3> QED BY <1>0, <2>2, <3>1 DEF UserPacman, None, Pacman
    <2> QED BY <2>1, <2>2 DEF UserPacman
  <1>2. PICK g : g = [fs EXCEPT !.lck = l, !.upper.state = s]
    OBVIOUS
  <1>3. /\ g \in FileSystems /\ SameRecords(fs, g) /\ g.snap = fs.snap /\ g.tmp = fs.tmp
        /\ g.upper \in Trees /\ g.upper.user = fs.upper.user /\ g.upper.state = s
        /\ g.upper.sys = fs.upper.sys /\ g.lck = l
    <2>1. l \in {Pacman} \cup 0..MaxUpdates
      BY BoundsAssumption, SMT DEF None
    <2>2. PICK t : t = [fs.upper EXCEPT !.state = s]
      OBVIOUS
    <2>3. t \in Trees /\ t.user = fs.upper.user /\ t.state = s /\ t.sys = fs.upper.sys
      BY <1>0, <2>2 DEF Trees
    <2>4. g.upper = t /\ SameRecords(fs, g) /\ g.snap = fs.snap /\ g.tmp = fs.tmp /\ g.lck = l
      BY <1>2, <2>2, Seen DEF FileSystems, SameRecords
    <2>5. g \in FileSystems
      BY <1>2, <2>1, <2>3, <2>4, Seen DEF FileSystems, AnyTree
    <2> QED BY <2>3, <2>4, <2>5
  <1>4. Settled(fs.upper, boots) => Settled(g.upper, boots)
    BY <1>1, <1>3 DEF Settled
  <1>5. fs.upper.state # "update" => g.upper.state # "update"
    BY <1>1, <1>3
  <1>6. Durable(g, used, boots, damaged)
    <2>1. g.upper # NoTree /\ (g.upper.state = "user" => g.lck = Pacman)
      BY <1>1, <1>3, Constants
    <2>2. Durable(fs, used, boots, damaged)
      BY Seen
    <2>3. ~damaged => IF Armed(fs)
                      THEN fs.pending.action = "verify" =>
                              g.upper.state # "update" /\ g.upper.sys = fs.upper.sys
                      ELSE Settled(g.upper, boots)
      BY <1>0, <1>3, <1>4, <1>5, <2>2 DEF Durable, Revertible
    <2> QED BY <1>0, <1>3, <2>1, <2>2, <2>3, RootChanged
  <1>7. DiskInv' /\ fs' = g
    BY <1>1, <1>2, <1>6, Wrote DEF IInv, UserPacman, env
  <1>8. /\ pc = "verify" => g.upper.state \in {"whole", "user"}
        /\ pc = "upgradeRest" => g.upper.state = "update"
        /\ ~damaged /\ g.upper.state = "lost" => Settled(g.upper, boots)
    BY <1>0, <1>1, <1>3, <1>4 DEF IInv, UpInv
  <1> QED BY <1>0, <1>3, <1>7, <1>8, SMT
        DEF IInv, PhaseInv, InitInv, UpInv, UserPacman, env, SameRecords, Armed

\* Damage breaks a seal and moves nothing.
OnlySeals(f, g) ==
    /\ SameRecords(f, g) /\ g.upper = f.upper /\ g.tmp = f.tmp /\ g.lck = f.lck
    /\ \A j \in Ids : g.snap[j].copy = f.snap[j].copy /\ g.snap[j].failed = f.snap[j].failed

\* A state with a broken seal is one that the disk may have after damage.
LEMMA Unsealed ==
    ASSUME NEW u \in 0..MaxUpdates, NEW b, NEW d, NEW f, Durable(f, u, b, d), NEW i \in Ids, ~(i > u),
           NEW g, g = [f EXCEPT !.snap[i].seal = FALSE]
    PROVE  Durable(g, u, b, TRUE) /\ OnlySeals(f, g)
  <1>0. f \in FileSystems
    BY DEF Durable
  <1>1. /\ SameRecords(f, g) /\ g.upper = f.upper /\ g.tmp = f.tmp /\ g.lck = f.lck
        /\ g.snap = [f.snap EXCEPT ![i].seal = FALSE]
    BY <1>0 DEF FileSystems, SameRecords
  <1>2. /\ g.snap \in [Ids -> Snapshots]
        /\ \A j \in Ids : g.snap[j].copy = f.snap[j].copy /\ g.snap[j].failed = f.snap[j].failed
        /\ \A j \in Ids : j # i => g.snap[j] = f.snap[j]
    <2>1. f.snap \in [Ids -> Snapshots]
      BY <1>0 DEF FileSystems
    <2>2. [f.snap[i] EXCEPT !.seal = FALSE] \in Snapshots
      BY <2>1 DEF Snapshots
    <2>4. g.snap[i] = [f.snap[i] EXCEPT !.seal = FALSE]
      BY <1>1, <2>1
    <2>5. \A j \in Ids : j # i => g.snap[j] = f.snap[j]
      BY <1>1, <2>1
    <2>6. /\ g.snap[i].copy = f.snap[i].copy /\ g.snap[i].failed = f.snap[i].failed
      BY <2>1, <2>4, SMT DEF Snapshots
    <2>7. g.snap \in [Ids -> Snapshots]
      BY <1>1, <2>1, <2>2
    <2> QED BY <2>4, <2>5, <2>6, <2>7
  <1>3. g \in FileSystems
    BY <1>0, <1>1, <1>2 DEF FileSystems
  <1>4. Fresh(g, u)
    BY <1>1, <1>2 DEF Durable, Fresh, Armed, SameRecords
  <1>5. Copies(g, b, TRUE)
    BY <1>1, <1>2 DEF Durable, Copies, Copied
  <1>6. Divided(g) /\ Locked(g)
    <2>1. f.journal # NoJournal => f.journal.id \in Ids
      BY Constants DEF Durable, Fresh
    <2> QED BY <1>1, <1>2, <2>1, SMT DEF Durable, Divided, Locked, SameRecords
  <1>7. Attempted(g, b)
    BY <1>1 DEF Durable, Attempted, SameRecords
  <1> QED BY <1>1, <1>2, <1>3, <1>4, <1>5, <1>6, <1>7 DEF Durable, OnlySeals

\* A broken seal leaves every state of the disk what it was otherwise.
LEMMA DamageInv == IInv /\ Damage => IInv'
  <1> SUFFICES ASSUME IInv, Damage PROVE IInv'
    OBVIOUS
  <1>0. Durable(fs, used, boots, damaged) /\ used \in 0..MaxUpdates
    BY Seen DEF IInv, PhaseInv
  <1>1. PICK i \in Ids : /\ fs.snap[i].seal
                         /\ fs' = [fs EXCEPT !.snap[i].seal = FALSE]
                         /\ disk' = {[f EXCEPT !.snap[i].seal = FALSE] : f \in disk}
    BY DEF Damage
  <1>2. ~(i > used)
    <2>1. fs.snap[i] # NoSnap
      BY <1>1, SMT DEF NoSnap
    <2> QED BY <1>0, <2>1 DEF Durable, Fresh
  <1>3. OnlySeals(fs, fs')
    <2>1. PICK g : g = [fs EXCEPT !.snap[i].seal = FALSE]
      OBVIOUS
    <2>2. OnlySeals(fs, g)
      BY <1>0, <1>2, <2>1, Unsealed
    <2> QED BY <1>1, <2>1, <2>2
  <1>7. DiskInv'
    <2>1. used' = used /\ boots' = boots /\ damaged' = TRUE
      BY DEF Damage
    <2>2. ASSUME NEW g \in disk' \cup {fs'} PROVE Durable(g, used, boots, TRUE)
      <3>1. PICK f \in disk \cup {fs} : g = [f EXCEPT !.snap[i].seal = FALSE]
        BY <1>1, <2>2
      <3>2. Durable(f, used, boots, damaged)
        BY <3>1 DEF IInv, DiskInv
      <3> QED BY <1>0, <1>2, <3>1, <3>2, Unsealed
    <2> QED BY <2>1, <2>2 DEF DiskInv
  <1>8. id = 0 \/ id \in Ids
    BY BoundsAssumption, SMT DEF IInv, PhaseInv, Ids
  <1>9. /\ fs'.snap[id].failed = fs.snap[id].failed \/ id = 0
        /\ fs'.snap[id].copy = fs.snap[id].copy \/ id = 0
    BY <1>3, <1>8 DEF OnlySeals
  <1>10. PhaseInv'
    BY <1>7 DEF IInv, PhaseInv, Damage
  <1>11. InitInv'
    <2>1. pc \in Restoring => id # 0
      BY <1>0, Constants DEF IInv, InitInv, PhaseInv, Durable, Fresh, Restoring
    <2> QED BY <1>3, <1>7, <1>9, <2>1
          DEF IInv, InitInv, Damage, OnlySeals, SameRecords, Armed, Restoring, Restored, Refusing
  <1>12. UpInv'
    BY <1>3, <1>7, <1>9
       DEF IInv, UpInv, Damage, OnlySeals, SameRecords, Copying, Preparing, Upgrading, Committing, Committed
  <1> QED BY <1>7, <1>10, <1>11, <1>12 DEF IInv

\* A reboot or power loss leaves a state of the disk, and the attempt of that
\* boot becomes an earlier one's.
LEMMA EndedInv == IInv /\ (Shutdown \/ PowerLoss) => IInv'
  <1> SUFFICES ASSUME IInv, Shutdown \/ PowerLoss PROVE IInv'
    OBVIOUS
  <1>1. PICK f \in disk \cup {fs} : Ended(f)
    BY DEF Shutdown, PowerLoss
  <1>2. Durable(f, used, boots, damaged) /\ f \in FileSystems
    BY <1>1 DEF IInv, DiskInv, Durable
  <1>3. PICK g : g = IF f.attempt.kind = "this" THEN [f EXCEPT !.attempt.kind = "earlier"] ELSE f
    OBVIOUS
  <1>4. /\ g \in FileSystems /\ SameRoots(f, g) /\ g.pending = f.pending
        /\ g.journal = f.journal /\ (f.attempt # NoAttempt => g.attempt # NoAttempt)
    <2>1. CASE f.attempt.kind = "this"
      BY <1>2, <1>3, <2>1 DEF FileSystems, SameRoots, Attempts, NoAttempt
    <2>2. CASE f.attempt.kind # "this"
      BY <1>2, <1>3, <2>2 DEF SameRoots
    <2> QED BY <2>1, <2>2
  <1>5. Durable(g, used, boots, damaged)
    <2>1. Fresh(g, used) /\ Copies(g, boots, damaged) /\ Divided(g) /\ Locked(g)
      BY <1>2, <1>4 DEF Durable, Fresh, Copies, Divided, Locked, Armed, SameRoots
    <2>2. Attempted(g, boots) /\ (~damaged => Revertible(g, boots))
      BY <1>2, <1>4 DEF Durable, Attempted, Revertible, Restorable, Armed, SameRoots
    <2> QED BY <1>4, <2>1, <2>2 DEF Durable
  <1>6. DiskInv'
    <2>1. /\ fs' = g /\ disk' = {g} /\ used' = used /\ boots' = boots /\ damaged' = damaged
      BY <1>1, <1>3 DEF Ended
    <2> QED BY <1>5, <2>1 DEF DiskInv
  <1>7. commitFailed' \in BOOLEAN
    BY <1>1 DEF Ended
  <1>8. crashes' \in 0..MaxCrashes
    BY BoundsAssumption, SMT DEF IInv, PhaseInv, Shutdown, PowerLoss
  <1>9. PhaseInv' /\ InitInv' /\ UpInv'
    <2>1. /\ phase' = "off" /\ pc' = "off" /\ id' = 0
          /\ used' = used /\ boots' = boots /\ damaged' = damaged
      BY <1>1 DEF Ended, None
    <2>2. id' \in 0..used'
      BY <2>1, Constants, BoundsAssumption, SMT DEF IInv, PhaseInv
    <2>3. PhaseInv'
      BY <1>7, <1>8, <2>1, <2>2
         DEF IInv, PhaseInv, InInit, InUpdater, Restoring, Refusing, Copying, Preparing,
             Upgrading, Committing, Committed
    <2> QED BY <2>1, <2>3
          DEF InitInv, UpInv, Restoring, Restored, Refusing, Copying, Preparing, Upgrading,
              Committing, Committed
  <1> QED BY <1>6, <1>9 DEF IInv

-----------------------------------------------------------------------------
(* The theorems.                                                            *)

\* A phone without an update satisfies the invariant.
LEMMA InitInvariant == Init => IInv
  <1> SUFFICES ASSUME Init PROVE IInv
    OBVIOUS
  <1> USE DEF InInit, InUpdater, Restoring, Restored, Refusing, Copying, Preparing, Upgrading,
              Committing, Committed
  <1>1. PICK t : t = [sys |-> 0, state |-> "whole", user |-> Paths]
    OBVIOUS
  <1>2. PICK m : m = [i \in Ids |-> NoSnap]
    OBVIOUS
  <1>3. PICK r : r = [id |-> None, value |-> "none"]
    OBVIOUS
  <1>4. /\ t \in Trees /\ t.user = Paths /\ t.state = "whole"
        /\ m \in [Ids -> Snapshots] /\ (\A i \in Ids : m[i] = NoSnap) /\ r \in Results
    BY <1>1, <1>2, <1>3, Constants, BoundsAssumption, SMT DEF Trees, Results, None
  <1>5. /\ fs \in FileSystems /\ fs.upper = t /\ fs.snap = m /\ fs.tmp = NoTree
        /\ fs.pending = NoPending /\ fs.attempt = NoAttempt /\ fs.journal = NoJournal
        /\ fs.lck = None
    <2>1. fs = [upper |-> t, snap |-> m, tmp |-> NoTree, pending |-> NoPending,
                attempt |-> NoAttempt, journal |-> NoJournal, result |-> r,
                lastGood |-> None, targets |-> None, failures |-> 0, snapLock |-> None,
                lck |-> None]
      BY <1>1, <1>2, <1>3 DEF Init
    <2>2. None \in 0..MaxUpdates /\ 0 \in 0..3
      BY BoundsAssumption, SMT DEF None
    <2> QED BY <1>4, <2>1, <2>2, Constants DEF FileSystems, AnyTree
  <1>6. Durable(fs, used, boots, damaged)
    <2>1. Fresh(fs, used)
      BY <1>4, <1>5, Constants DEF Fresh, Armed
    <2>2. Copies(fs, boots, damaged)
      BY <1>4, <1>5, Constants DEF Copies, Copied, Settled
    <2>3. Divided(fs)
      BY <1>4, <1>5, Constants DEF Divided
    <2>4. Locked(fs) /\ Attempted(fs, boots) /\ Revertible(fs, boots)
      BY <1>4, <1>5, Constants DEF Locked, Attempted, Revertible, Armed, Settled
    <2> QED BY <1>5, <2>1, <2>2, <2>3, <2>4 DEF Durable
  <1>7. DiskInv
    BY <1>6 DEF Init, DiskInv
  <1>8. commitFailed \in BOOLEAN /\ damaged \in BOOLEAN
    BY DEF Init
  <1>9. PhaseInv
    <2>1. used \in 0..MaxUpdates /\ id \in 0..used /\ crashes \in 0..MaxCrashes
      <3>1. used = 0 /\ id = 0 /\ crashes = 0
        BY DEF Init, None
      <3> QED BY <3>1, BoundsAssumption, SMT
    <2>2. boots \in [Ids -> 0..1] /\ \A i \in Ids : boots[i] = 0
      <3>1. boots = [i \in Ids |-> 0]
        BY DEF Init
      <3> QED BY <3>1, SMT
    <2>3. phase = "off" /\ pc = "off"
      BY DEF Init
    <2> QED BY <1>8, <2>1, <2>2, <2>3 DEF PhaseInv
  <1> QED BY <1>7, <1>9 DEF Init, IInv, InitInv, UpInv

\* A step that changes nothing.
LEMMA StutterInv == IInv /\ UNCHANGED vars => IInv'
  BY SMT DEF IInv, DiskInv, PhaseInv, InitInv, UpInv, vars

\* Every step keeps the invariant.
LEMMA NextInv == IInv /\ [Next]_vars => IInv'
  <1> SUFFICES ASSUME IInv, [Next]_vars PROVE IInv'
    OBVIOUS
  <1>1. CASE UNCHANGED vars
    BY <1>1, StutterInv
  <1>2. CASE Boot \/ InitFails \/ InitSteps
    BY <1>2, BootInv, InitStepsInv
  <1>3. CASE RunSteps
    BY <1>3, ReadInv, NoteInv, RecoverInv, LockInv, CopyInv, SealInv, ArmRestoreInv, UpgradeInv,
       ArmVerifyInv DEF RunSteps
  <1>4. CASE CommitSteps
    BY <1>4, ReadInv, NoteInv, CommitVerifyInv, CommitInv, PruneInv DEF CommitSteps
  <1>5. CASE RunBegin \/ CommitBegin \/ KillAction \/ RebootRefused \/ Resume \/ Interrupted
    BY <1>5, ReadInv, NoteInv, LockInv
  <1>6. CASE Rollback \/ UserPacman \/ Damage \/ Shutdown \/ PowerLoss
    BY <1>6, RollbackInv, UserInv, DamageInv, EndedInv
  <1> QED BY <1>1, <1>2, <1>3, <1>4, <1>5, <1>6 DEF Next

\* In every reachable state, whatever power losses, kills, transactions of the
\* user and damage came before, the records agree with the roots.
THEOREM Invariance == Spec => []IInv
  <1> QED BY InitInvariant, NextInv, PTL DEF Spec

\* Every variable and every state of the disk has its type.
THEOREM TypeCorrect == Spec => []TypeOK
  <1>1. IInv => TypeOK
    <2> SUFFICES ASSUME IInv PROVE TypeOK
      OBVIOUS
    <2>1. \A f \in disk \cup {fs} : f \in FileSystems
      BY DEF IInv, DiskInv, Durable
    <2>2. boots \in [Ids -> Nat]
      BY SMT DEF IInv, PhaseInv
    <2>3. id \in 0..MaxUpdates
      BY BoundsAssumption, SMT DEF IInv, PhaseInv
    <2>4. commitFailed \in BOOLEAN /\ damaged \in BOOLEAN
      BY DEF IInv, PhaseInv
    <2>5. ASSUME NEW f \in FileSystems
          PROVE  /\ f.upper \in Trees \cup {NoTree} /\ f.tmp \in Trees \cup {NoTree}
                 /\ \A i \in Ids : {f.snap[i].copy, f.snap[i].failed} \subseteq Trees \cup {NoTree}
      BY <2>5 DEF FileSystems, Snapshots, AnyTree
    <2>6. ASSUME NEW f \in FileSystems
          PROVE  /\ f.pending \in Pendings /\ f.attempt \in Attempts /\ f.journal \in Journals
                 /\ f.result \in Results /\ f.targets \in 0..MaxUpdates
                 /\ f.lastGood \in {TornRecord} \cup 0..MaxUpdates
                 /\ f.snapLock \in {TornRecord} \cup 0..MaxUpdates
                 /\ f.lck \in {Pacman} \cup 0..MaxUpdates
                 /\ f.failures \in 0..3
      BY <2>6 DEF FileSystems
    <2> QED BY <2>1, <2>2, <2>3, <2>4, <2>5, <2>6, SMT
          DEF TypeOK, IInv, PhaseInv, Pendings, Attempts, Journals, Results
  <1> QED BY <1>1, Invariance, PTL

-----------------------------------------------------------------------------
(* A torn journal: the one state in which a restore that is due does not    *)
(* run.  It is written over an armed update before any root is moved.       *)

\* As the journal's write found it: an armed update whose snapshot is exact.
AsArmed(f) ==
    /\ Armed(f) /\ f.upper # NoTree
    /\ Exact(f.snap[f.pending.id]) /\ f.snap[f.pending.id].failed = NoTree
    /\ f.pending.action = "verify" => f.upper.state # "update"

TornInv ==
    /\ \A f \in disk \cup {fs} :
          f.journal.reason = "torn" => LateData /\ (~damaged => AsArmed(f))
    /\ fs.journal.reason = "torn" => pc \in {"off", "apply", "stopped"}

\* A step that leaves on the disk only states that were there, or ones whose
\* journal is not torn.
LEMMA NotTorn ==
    ASSUME TornInv, UNCHANGED damaged,
           \A g \in disk' \cup {fs'} : g \in disk \cup {fs} \/ g.journal.reason # "torn",
           fs'.journal.reason # "torn" \/ pc' \in {"off", "apply", "stopped"}
    PROVE  TornInv'
  BY DEF TornInv, AsArmed, Armed, Exact

\* The writes of a new journal are the only ones that may tear it.
LEMMA WriteJournalTorn == IInv /\ TornInv /\ WriteJournal => TornInv'
  <1> SUFFICES ASSUME IInv, TornInv, WriteJournal PROVE TornInv'
    OBVIOUS
  <1>0. fs.journal.reason # "torn" /\ fs \in FileSystems /\ fs.journal = NoJournal
    BY Seen DEF WriteJournal, TornInv, IInv, InitInv
  <1>1. CASE UNCHANGED <<fs, disk>>
    BY <1>0, <1>1, NotTorn DEF WriteJournal, env
  <1>2. CASE ~UNCHANGED <<fs, disk>>
    <2>1. PICK g, t : /\ g = [fs EXCEPT !.journal = [id |-> id, reason |-> Reason]]
                      /\ t = [fs EXCEPT !.journal = [id |-> id, reason |-> "torn"]]
      OBVIOUS
    <2>2. /\ fs' = g /\ disk' = {fs, g} \cup (IF LateData THEN {t} ELSE {})
          /\ UNCHANGED damaged
      BY <1>2, <2>1 DEF WriteJournal, NewRecord, env
    <2>3. g.journal.reason # "torn"
      <3>1. Reason # "torn"
        BY DEF Reason
      <3>2. g.journal.reason = Reason
        BY <1>0, <2>1, SMT DEF FileSystems
      <3> QED BY <3>1, <3>2
    <2>4. t.upper = fs.upper /\ t.snap = fs.snap /\ t.pending = fs.pending
      BY <1>0, <2>1 DEF FileSystems
    <2>5. ~damaged => AsArmed(t)
      <3>1. Durable(fs, used, boots, damaged) /\ Armed(fs)
        BY Seen DEF WriteJournal, IInv, InitInv
      <3> QED BY <1>0, <2>4, <3>1 DEF AsArmed, Armed, Durable, Divided, Revertible
    <2> QED BY <1>0, <2>2, <2>3, <2>5 DEF TornInv
  <1> QED BY <1>1, <1>2

\* The other steps of the init go on without a journal, or with an exact one.
LEMMA InitTorn == IInv /\ IInv' /\ TornInv /\ (Boot \/ InitFails \/ InitSteps) => TornInv'
  <1> SUFFICES ASSUME IInv, TornInv, Boot \/ InitFails \/ InitSteps PROVE TornInv'
    OBVIOUS
  <1>0. fs \in FileSystems /\ NoJournal.reason # "torn"
    BY Seen DEF NoJournal
  <1>1. CASE Boot \/ ApplyRollback \/ InitFails
    BY <1>0, <1>1, NotTorn DEF Boot, ApplyRollback, InitFails, TornInv, env
  <1>2. CASE WriteJournal
    BY <1>2, WriteJournalTorn
  <1>3. CASE InitSteps /\ ~ApplyRollback /\ ~WriteJournal
    <2>1. pc \notin {"off", "apply", "stopped"} /\ fs.journal.reason # "torn"
      BY <1>3 DEF TornInv, InitSteps, WriteAttempt, MoveFailed, MoveCopy, UndoJournal,
                  MoveUserData, WriteResult, ClearPending, ClearAttempt, ClearJournal,
                  RefuseRestore, RefuseClearPending, RefuseClearAttempt, MountRoot, Step
    <2> DEFINE Calm == \A g \in disk' \cup {fs'} :
                          g \in disk \cup {fs} \/ g.journal.reason # "torn"
    <2>2. Calm /\ fs'.journal.reason # "torn"
      <3> USE <1>0, <2>1 DEF FileSystems, AfterSync, Op, Sync, NewRecord
      <3>1. CASE WriteAttempt
        BY <3>1 DEF WriteAttempt
      <3>2. CASE MoveFailed
        BY <3>2 DEF MoveFailed
      <3>3. CASE MoveCopy
        BY <3>3 DEF MoveCopy
      <3>4. CASE UndoJournal \/ ClearJournal \/ MountRoot
        BY <3>4 DEF UndoJournal, ClearJournal, MountRoot
      <3>5. CASE MoveUserData
        BY <3>5 DEF MoveUserData
      <3>6. CASE WriteResult \/ ClearPending \/ ClearAttempt
        BY <3>6 DEF WriteResult, ClearPending, ClearAttempt
      <3>7. CASE RefuseRestore \/ RefuseClearPending \/ RefuseClearAttempt
        BY <3>7 DEF RefuseRestore, RefuseClearPending, RefuseClearAttempt
      <3> QED BY <1>3, <3>1, <3>2, <3>3, <3>4, <3>5, <3>6, <3>7 DEF InitSteps
    <2>3. UNCHANGED damaged
      BY <1>3 DEF InitSteps, WriteAttempt, MoveFailed, MoveCopy, UndoJournal, MoveUserData,
                  WriteResult, ClearPending, ClearAttempt, ClearJournal, RefuseRestore,
                  RefuseClearPending, RefuseClearAttempt, MountRoot, env
    <2> QED BY <2>2, <2>3, NotTorn
  <1> QED BY <1>1, <1>2, <1>3 DEF InitSteps

\* While the system runs there is no journal, and nothing writes one.
LEMMA UpTorn ==
    ASSUME IInv, IInv', TornInv,
           RunBegin \/ RunSteps \/ Interrupted \/ CommitBegin \/ CommitSteps \/ Rollback
           \/ Resume \/ UserPacman \/ KillAction \/ RebootRefused
    PROVE  TornInv'
  <1> USE DEF Action, Step, env
  <1>1. fs \in FileSystems /\ NoJournal.reason # "torn"
    BY Seen DEF NoJournal
  <1>2. UNCHANGED damaged /\ phase = "up" /\ phase' = "up"
    <2>1. CASE RunSteps
      BY <2>1 DEF RunSteps, Settle, SettleTargets, RecoverLock, RecoverRecord, RecoverTmp,
            RunPending, Admit, MakeTmp, RecordLock, LinkLock, CopyUpper, ReleaseCopied,
            ReleaseFailed, ReleaseLock, Unrecord, Discard, SealSnapshot, WriteTargets,
            ArmRestore, UpgradeBegin, KeyringEnd, UpgradeRest, UpgradeEnd, ArmVerify, RunEnds
    <2>2. CASE CommitSteps
      BY <2>2 DEF CommitSteps, CommitVerify, CommitFails, CommitResult, CommitPending,
            CommitAttempt, CommitTargets, CommitFailures, CommitSync, Prune, RollbackEnds
    <2>3. CASE ~RunSteps /\ ~CommitSteps
      BY <2>3 DEF RunBegin, Interrupted, CommitBegin, Rollback, Resume, UserPacman, KillAction,
            RebootRefused
    <2> QED BY <2>1, <2>2, <2>3
  <1>3. fs.journal = NoJournal /\ fs'.journal = NoJournal
    BY <1>2 DEF IInv, UpInv
  <1>4. \A g \in disk' : g \in disk \cup {fs, fs'} \/ g.journal = NoJournal
    <2> DEFINE Calm == \A g \in disk' : g \in disk \cup {fs, fs'} \/ g.journal = NoJournal
    <2>0. /\ \A f : Op(f) \/ AfterSync(f) => Calm
          /\ Sync => Calm
          /\ disk' = disk => Calm
      <3>1. ASSUME NEW f, Op(f) \/ AfterSync(f) PROVE disk' \subseteq disk \cup {fs, fs'}
        <4>1. CASE Op(f)
          BY <4>1 DEF Op
        <4>2. CASE AfterSync(f)
          BY <4>2 DEF AfterSync
        <4> QED BY <3>1, <4>1, <4>2
      <3>2. ASSUME Sync PROVE disk' \subseteq disk \cup {fs, fs'}
        BY <3>2 DEF Sync
      <3>3. disk' \subseteq disk \cup {fs, fs'} => Calm
        OBVIOUS
      <3> QED BY <3>1, <3>2, <3>3
    <2> SUFFICES Calm
      OBVIOUS
    <2> HIDE DEF Calm
    <2>1. CASE Settle \/ SettleTargets \/ RecoverLock \/ RecoverRecord \/ RecoverTmp
               \/ RunPending \/ Admit \/ MakeTmp \/ LinkLock \/ CopyUpper
      BY <2>0, <2>1 DEF Settle, SettleTargets, RecoverLock, RecoverRecord, RecoverTmp, RunPending,
            Admit, MakeTmp, LinkLock, CopyUpper
    <2>2. CASE ReleaseCopied \/ ReleaseFailed \/ Discard \/ SealSnapshot \/ WriteTargets
               \/ UpgradeBegin \/ KeyringEnd \/ UpgradeRest \/ UpgradeEnd \/ RunEnds
      BY <2>0, <2>2 DEF ReleaseCopied, ReleaseFailed, ReleaseLock, Unrecord, Discard, SealSnapshot,
            WriteTargets, UpgradeBegin, KeyringEnd, UpgradeRest, UpgradeEnd, RunEnds
    <2>3. CASE RecordLock
      BY <1>1, <1>3, <2>3 DEF RecordLock, FileSystems, Calm
    <2>4. CASE ArmRestore
      BY <1>1, <1>3, <2>4 DEF ArmRestore, FileSystems, Calm
    <2>5. CASE ArmVerify
      BY <1>1, <1>3, <2>5 DEF ArmVerify, FileSystems, Calm
    <2>6. CASE CommitFails \/ CommitResult \/ CommitPending \/ CommitAttempt \/ CommitTargets
               \/ CommitFailures \/ CommitSync \/ Prune \/ RollbackEnds
      BY <2>0, <2>6 DEF CommitFails, CommitResult, CommitPending, CommitAttempt, CommitTargets,
            CommitFailures, CommitSync, Prune, RollbackEnds
    <2>7. CASE CommitVerify
      <3>1. CASE pc' = "commitResult"
        <4>1. PICK t : t = [fs EXCEPT !.lastGood = TornRecord]
          OBVIOUS
        <4>2. disk' \subseteq {fs, fs', t}
          BY <2>7, <3>1, <4>1 DEF CommitVerify
        <4>3. t.journal = NoJournal
          BY <1>1, <1>3, <4>1 DEF FileSystems
        <4> QED BY <4>2, <4>3 DEF Calm
      <3>2. CASE pc' # "commitResult"
        BY <2>0, <2>7, <3>2 DEF CommitVerify
      <3> QED BY <3>1, <3>2
    <2>8. CASE Rollback
      <3>1. PICK i : NewRecord([fs EXCEPT !.pending = [id |-> i, action |-> "restore"]],
                               [fs EXCEPT !.pending = [id |-> i, action |-> "torn"]])
        BY <2>8 DEF Rollback
      <3>2. PICK t : t = [fs EXCEPT !.pending = [id |-> i, action |-> "torn"]]
        OBVIOUS
      <3>3. disk' \subseteq {fs, fs', t}
        BY <3>1, <3>2 DEF NewRecord
      <3>4. t.journal = NoJournal
        BY <1>1, <1>3, <3>2 DEF FileSystems
      <3> QED BY <3>3, <3>4 DEF Calm
    <2>9. CASE Interrupted
      BY <1>1, <1>3, <2>9 DEF Interrupted, FileSystems, Calm
    <2>10. CASE RunBegin \/ CommitBegin \/ Resume \/ UserPacman \/ KillAction \/ RebootRefused
      BY <2>0, <2>10 DEF RunBegin, CommitBegin, Resume, UserPacman, KillAction, RebootRefused
    <2> QED BY <2>1, <2>2, <2>3, <2>4, <2>5, <2>6, <2>7, <2>8, <2>9, <2>10
          DEF RunSteps, CommitSteps
  <1> QED BY <1>1, <1>2, <1>3, <1>4, NotTorn

\* A reboot or power loss keeps the journal and what it was written over.
LEMMA EndedTorn == IInv /\ TornInv /\ (Shutdown \/ PowerLoss) => TornInv'
  <1> SUFFICES ASSUME IInv, TornInv, Shutdown \/ PowerLoss PROVE TornInv'
    OBVIOUS
  <1>1. PICK f \in disk \cup {fs} : Ended(f)
    BY DEF Shutdown, PowerLoss
  <1>2. /\ fs'.upper = f.upper /\ fs'.snap = f.snap /\ fs'.pending = f.pending
        /\ fs'.journal = f.journal
    <2>1. f \in FileSystems
      BY <1>1 DEF IInv, DiskInv, Durable
    <2> QED BY <1>1, <2>1 DEF Ended, FileSystems
  <1>3. disk' = {fs'} /\ pc' = "off" /\ UNCHANGED damaged
    BY <1>1 DEF Ended
  <1> QED BY <1>1, <1>2, <1>3 DEF TornInv, AsArmed, Armed, Exact

\* Damage leaves the journal.
LEMMA DamageTorn == IInv /\ TornInv /\ Damage => TornInv'
  <1> SUFFICES ASSUME IInv, TornInv, Damage PROVE TornInv'
    OBVIOUS
  <1>1. PICK i \in Ids : /\ fs' = [fs EXCEPT !.snap[i].seal = FALSE]
                         /\ disk' = {[f EXCEPT !.snap[i].seal = FALSE] : f \in disk}
    BY DEF Damage
  <1>2. ASSUME NEW g \in disk' \cup {fs'}
        PROVE  \E f \in disk \cup {fs} : g.journal = f.journal /\ (g = fs' => f = fs \/ f \in disk)
    <2>1. PICK f \in disk \cup {fs} : g = [f EXCEPT !.snap[i].seal = FALSE]
      BY <1>1, <1>2
    <2>2. f \in FileSystems
      BY <2>1 DEF IInv, DiskInv, Durable
    <2> QED BY <2>1, <2>2 DEF FileSystems
  <1>3. fs'.journal = fs.journal
    BY <1>1, Seen DEF FileSystems
  <1> QED BY <1>2, <1>3 DEF TornInv, Damage

\* No step tears a journal but its write.
LEMMA NextTorn == IInv /\ IInv' /\ TornInv /\ [Next]_vars => TornInv'
  <1> SUFFICES ASSUME IInv, IInv', TornInv, [Next]_vars PROVE TornInv'
    OBVIOUS
  <1>1. CASE UNCHANGED vars
    BY <1>1 DEF vars, TornInv, AsArmed, Armed, Exact
  <1>2. CASE Next
    BY <1>2, InitTorn, UpTorn, EndedTorn, DamageTorn DEF Next
  <1> QED BY <1>1, <1>2

\* A journal is torn only where a new file's name may survive without its
\* content, and then over an armed update that is as the journal found it.
THEOREM TornJournals == Spec => []TornInv
  <1>1. Init => TornInv
    <2> SUFFICES ASSUME Init PROVE TornInv
      OBVIOUS
    <2>1. disk = {fs} /\ fs.journal = NoJournal
      BY DEF Init
    <2>2. NoJournal.reason # "torn"
      BY DEF NoJournal
    <2> QED BY <2>1, <2>2 DEF TornInv
  <1> QED BY <1>1, NextTorn, Invariance, PTL DEF Spec

\* An unfinished update whose journal is not torn has a way back, and one whose
\* journal is torn had it before.
LEMMA WaysBack ==
    ASSUME IInv, TornInv, ~damaged, NEW f \in disk \cup {fs}
    PROVE  /\ f.journal.reason # "torn" => WayBack(f)
           /\ f.journal.reason = "torn" => LateData /\ WayBack([f EXCEPT !.journal = NoJournal])
  <1>1. /\ Durable(f, used, boots, damaged) /\ Revertible(f, boots) /\ f \in FileSystems
        /\ used \in 0..MaxUpdates
    BY DEF IInv, DiskInv, PhaseInv, Durable
  <1>2. ASSUME f.journal # NoJournal, f.journal.reason # "torn" PROVE WayBack(f)
    BY <1>1, <1>2, Constants
       DEF Revertible, Restorable, Exact, Settled, WayBack, Unfinished
  <1>3. ASSUME f.journal = NoJournal PROVE WayBack(f)
    <2>1. NoJournal.reason # "torn"
      BY DEF NoJournal
    <2>2. f.upper # NoTree
      BY <1>1, <1>3 DEF Durable, Divided
    <2> QED BY <1>1, <1>3, <2>1, <2>2 DEF Revertible, Armed, Exact, Settled, WayBack, Unfinished
  <1>4. ASSUME f.journal.reason = "torn"
        PROVE  LateData /\ WayBack([f EXCEPT !.journal = NoJournal])
    <2>1. LateData /\ AsArmed(f)
      BY <1>4 DEF TornInv
    <2>2. PICK g : g = [f EXCEPT !.journal = NoJournal]
      OBVIOUS
    <2>3. /\ g.upper = f.upper /\ g.snap = f.snap /\ g.pending = f.pending
          /\ g.journal = NoJournal /\ NoJournal.reason # "torn"
      BY <1>1, <2>2 DEF FileSystems, NoJournal
    <2>4. WayBack(g)
      BY <2>1, <2>3 DEF AsArmed, Armed, Exact, WayBack, Unfinished
    <2> QED BY <2>1, <2>2, <2>4
  <1> QED BY <1>2, <1>3, <1>4

\* Neither the system nor the owner's data is ever lost, wherever power fails:
\* an unfinished update has its way back, or a torn journal stops the boot with
\* snapshot, record and user data all in their places.
THEOREM NothingIsLost == Spec => []NothingLost
  <1>1. IInv /\ TornInv => NothingLost
    <2> SUFFICES ASSUME IInv, TornInv PROVE NothingLost
      OBVIOUS
    <2>1. ASSUME NEW f \in disk \cup {fs} PROVE UserDataKept(f)
      <3>1. Durable(f, used, boots, damaged) /\ used \in 0..MaxUpdates
        BY <2>1 DEF IInv, DiskInv, PhaseInv
      <3>2. CASE f.journal = NoJournal
        BY <3>1, <3>2, Constants DEF Durable, Divided, UserDataKept
      <3>3. CASE f.journal # NoJournal
        <4>1. f.journal.id \in Ids
          BY <3>1, <3>3, Constants DEF Durable, Fresh
        <4> QED BY <3>1, <3>3, <4>1 DEF Durable, Divided, UserDataKept
      <3> QED BY <3>2, <3>3
    <2>2. phase = "up" => fs.upper.user = Paths
      BY Mounted
    <2> QED BY <2>1, <2>2, WaysBack DEF NothingLost
  <1> QED BY <1>1, Invariance, TornJournals, PTL

\* A new file's name that survives without its content is the only way an
\* interrupted update is not restored: on a file system where it does not,
\* every interruption restores.
THEOREM RestoresUnlessLateData == ASSUME ~LateData PROVE Spec => []InterruptionRestores
  <1>1. IInv /\ TornInv => InterruptionRestores
    BY WaysBack DEF InterruptionRestores
  <1> QED BY <1>1, Invariance, TornJournals, PTL

\* A pending update boots at most once before it is committed or restored.
THEOREM UpdateBootsOnce == Spec => []PendingBootsOnce
  <1>1. IInv => PendingBootsOnce
    BY SMT DEF IInv, PhaseInv, PendingBootsOnce
  <1> QED BY <1>1, Invariance, PTL

\* No copy was made while a transaction ran, or of a root with an unfinished
\* upgrade.
THEOREM WholeSnapshots == Spec => []SnapshotsAreWhole
  <1>1. IInv => SnapshotsAreWhole
    <2> SUFFICES ASSUME IInv, ~damaged, NEW f \in disk \cup {fs}, NEW i \in Ids
                 PROVE  f.snap[i].copy.state \in {"whole", "lost"}
      BY DEF SnapshotsAreWhole
    <2>1. Durable(f, used, boots, damaged)
      BY DEF IInv, DiskInv
    <2>2. f.snap[i].copy \in Trees \cup {NoTree}
      BY <2>1 DEF Durable, FileSystems, Snapshots, AnyTree
    <2>3. f.snap[i].copy.state \in {"whole", "user", "update", "lost"}
      BY <2>2, Constants DEF Trees
    <2> QED BY <2>1, <2>3 DEF Durable, Copies, Copied, Settled
  <1> QED BY <1>1, Invariance, PTL

\* The updater never removes the lock of a user's transaction.
THEOREM TransactionKeepsLock == Spec => UserLockKept
  <1>1. IInv' => (phase = "up" /\ fs.upper.state = "user" /\ fs.lck = Pacman
                     /\ fs'.upper.state = "user" => fs'.lck = Pacman)
    BY DEF IInv, DiskInv, Durable, Locked
  <1> QED BY <1>1, Invariance, PTL DEF UserLockKept

\* In the running system only the seal of a new snapshot, the pruning and
\* damage change a snapshot.
LEMMA SnapsKept ==
    ASSUME IInv, Next, phase = "up", phase' = "up"
    PROVE  SealSnapshot \/ Prune \/ Damage \/ fs'.snap = fs.snap
  <1>0. fs \in FileSystems
    BY Seen
  <1> USE <1>0 DEF FileSystems, Op, AfterSync, Sync, NewRecord, Action, Step
  <1>1. ~(Boot \/ InitFails \/ Shutdown \/ PowerLoss)
    BY DEF Boot, InitFails, Shutdown, PowerLoss, Ended
  <1>2. ~InitSteps
    <2>1. pc \notin InInit
      BY DEF IInv, PhaseInv
    <2> QED BY <2>1
          DEF InitSteps, InInit, Restoring, Refusing, ApplyRollback, WriteAttempt, WriteJournal,
              MoveFailed, MoveCopy, UndoJournal, MoveUserData, WriteResult, ClearPending,
              ClearAttempt, ClearJournal, RefuseRestore, RefuseClearPending, RefuseClearAttempt,
              MountRoot
  <1>3. CASE RunBegin \/ CommitBegin \/ Resume \/ KillAction \/ RebootRefused \/ Interrupted
    BY <1>3 DEF RunBegin, CommitBegin, Resume, KillAction, RebootRefused, Interrupted
  <1>4. CASE UserPacman
    BY <1>4 DEF UserPacman
  <1>5. CASE Rollback
    BY <1>5 DEF Rollback
  <1>6. CASE CommitSteps
    BY <1>6 DEF CommitSteps, CommitVerify, CommitFails, CommitResult, CommitPending,
                CommitAttempt, CommitTargets, CommitFailures, CommitSync, RollbackEnds
  <1>7. CASE Settle \/ SettleTargets \/ RecoverLock \/ RecoverRecord \/ RecoverTmp
             \/ RunPending \/ Admit \/ RunEnds \/ WriteTargets \/ ArmRestore \/ ArmVerify
    BY <1>7 DEF Settle, SettleTargets, RecoverLock, RecoverRecord, RecoverTmp, RunPending,
                Admit, RunEnds, WriteTargets, ArmRestore, ArmVerify
  <1>8. CASE MakeTmp \/ RecordLock \/ LinkLock \/ CopyUpper \/ ReleaseCopied \/ ReleaseFailed
             \/ Discard \/ UpgradeBegin \/ KeyringEnd \/ UpgradeRest \/ UpgradeEnd
    BY <1>8 DEF MakeTmp, RecordLock, LinkLock, CopyUpper, ReleaseCopied, ReleaseFailed,
                ReleaseLock, Unrecord, Discard, UpgradeBegin, KeyringEnd, UpgradeRest, UpgradeEnd
  <1> QED BY <1>1, <1>2, <1>3, <1>4, <1>5, <1>6, <1>7, <1>8 DEF Next, RunSteps

\* The root that a rollback replaced stays while the system runs.
THEOREM FailedRootStays == Spec => FailedRootKept
  <1>1. IInv /\ [Next]_vars =>
          \A i \in Ids : phase = "up" /\ fs.snap[i].failed # NoTree /\ phase' = "up"
             => fs'.snap[i].failed = fs.snap[i].failed
    <2> SUFFICES ASSUME IInv, [Next]_vars, NEW i \in Ids, phase = "up", phase' = "up",
                        fs.snap[i].failed # NoTree
                 PROVE  fs'.snap[i].failed = fs.snap[i].failed
      OBVIOUS
    <2>0. fs \in FileSystems
      BY Seen
    <2>1. CASE SealSnapshot
      <3>1. i # id
        BY <2>1 DEF IInv, UpInv, SealSnapshot, Action, Step, Copying
      <3> QED BY <2>0, <2>1, <3>1 DEF SealSnapshot, AfterSync, FileSystems
    <2>2. CASE Prune
      BY <2>0, <2>2, Constants, SMT DEF Prune, Op, FileSystems, Snapshots
    <2>3. CASE Damage
      BY <2>0, <2>3, SMT DEF Damage, FileSystems, Snapshots
    <2>4. CASE fs'.snap = fs.snap
      BY <2>4
    <2>5. CASE UNCHANGED vars
      BY <2>5 DEF vars
    <2> QED BY <2>1, <2>2, <2>3, <2>4, <2>5, SnapsKept
  <1> QED BY <1>1, Invariance, PTL DEF Spec, FailedRootKept

=============================================================================
