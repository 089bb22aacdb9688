----------------------------- MODULE TrialState -----------------------------
(***************************************************************************)
(* The durable try-once record of persistent Slot B and the helper that is *)
(* its only writer (tools/persistent_trial_state).                         *)
(*                                                                         *)
(* The state directory holds two names: the record (wifi-trial-state) and  *)
(* the temporary (.wifi-trial-state.next).  Helper processes run decide,   *)
(* healthy, state, rollback and reject one system call at a time; any of   *)
(* them may be killed or see a system call fail, and the phone may lose    *)
(* power, between any two calls.                                           *)
(*                                                                         *)
(* The file system is a journaling one: directory operations reach the     *)
(* disk in order, so power loss leaves some directory state since the last *)
(* fsync of the directory (crashDirs), and the bytes of a file that was    *)
(* not fsynced may be torn.                                                *)
(***************************************************************************)
EXTENDS Naturals

CONSTANTS
    Helpers,    \* processes that may run the helper
    Inodes,     \* inodes of the state file system
    Trials,     \* full identities: id, primary, fallback and both hashes
    Runs,       \* what a running system knows of its trial: id and primary
    RunOf,      \* the run that each trial identity belongs to
    NoInode,
    NoHelper

ASSUME ConstantsAssumption ==
    /\ RunOf \in [Trials -> Runs]
    /\ Trials # {}
    /\ NoInode \notin Inodes
    /\ NoHelper \notin Helpers

VARIABLES
    dir,        \* the state directory as processes see it: its two names
    crashDirs,  \* the directory states that power loss may leave
    data,       \* the contents of each inode
    dirLock,    \* holder of the flock on the state directory
    pc,         \* the next step of each helper
    op,         \* its operation
    arg,        \* the trial identity it was given
    fd,         \* the record inode it has open and flocked
    tfd,        \* the temporary it has open for writing
    seen,       \* the record it read
    out,        \* what the last helper to end printed, or how it ended
    unacked,    \* history: primary decisions of a trial since its last commit
    promise,    \* history: the record a writer last reported as published
    fenced      \* history: trials reported as rolled back since power-up

fs == <<dir, crashDirs, data>>
locals == <<op, arg, fd, tfd, seen>>
history == <<unacked, promise, fenced>>
vars == <<dir, crashDirs, data, dirLock, pc, op, arg, fd, tfd, seen, out,
          unacked, promise, fenced>>

-----------------------------------------------------------------------------
States == {"pending", "healthy", "failed"}
Ops == {"decide", "healthy", "state", "rollback", "reject"}

Steps == {"idle", "recover", "recoverSync", "open", "read", "act",
          "create", "write", "fsync", "check", "publish", "dirSync",
          "reopen", "reread", "report"}

Outcomes == States \cup {"none", "primary", "fallback", "already-healthy",
                         "rollback", "refused", "concurrent", "unsafe",
                         "full", "killed"}

Record == [trial : Trials, state : States]

\* What a name can lead to: a record, torn bytes of an interrupted writer,
\* or something the helper never creates (a symlink, a foreign owner).
Content == [trial : Trials, state : States \cup {"torn", "foreign"},
            synced : BOOLEAN]

AnyTrial == CHOOSE t \in Trials : TRUE

Absent == [trial |-> AnyTrial, state |-> "absent"]

Torn(synced) == [trial |-> AnyTrial, state |-> "torn", synced |-> synced]

Directory == [rec : Inodes \cup {NoInode}, tmp : Inodes \cup {NoInode}]

RecordAt(d) == IF d.rec = NoInode
               THEN Absent
               ELSE [trial |-> data[d.rec].trial, state |-> data[d.rec].state]

Current == RecordAt(dir)

DiskTypeOK ==
    /\ dir \in Directory
    /\ crashDirs \in SUBSET Directory
    /\ data \in [Inodes -> Content]

HelperTypeOK ==
    /\ pc \in [Helpers -> Steps]
    /\ op \in [Helpers -> Ops]
    /\ arg \in [Helpers -> Trials]
    /\ fd \in [Helpers -> Inodes \cup {NoInode}]
    /\ tfd \in [Helpers -> Inodes \cup {NoInode}]
    /\ seen \in [Helpers -> Record \cup {Absent}]

\* Every variable has its type.
TypeOK ==
    /\ DiskTypeOK
    /\ HelperTypeOK
    /\ dirLock \in Helpers \cup {NoHelper}
    /\ out \in Outcomes
    /\ unacked \in [Trials -> Nat]
    /\ promise \in Record \cup {Absent}
    /\ fenced \in SUBSET Trials

\* The directory as an earlier boot may have left it: no record or an intact
\* one, and no temporary, an abandoned one, a foreign object of that name, or
\* the second name of the record that the former linkat publication left.
Init ==
    /\ dir \in Directory
    /\ crashDirs = {dir}
    /\ \E t \in Trials, s \in States, k \in {"torn", "foreign"} :
           data = [i \in Inodes |->
                      IF i = dir.rec
                      THEN [trial |-> t, state |-> s, synced |-> TRUE]
                      ELSE IF i = dir.tmp THEN [Torn(TRUE) EXCEPT !.state = k]
                                          ELSE Torn(TRUE)]
    /\ dirLock = NoHelper
    /\ pc = [p \in Helpers |-> "idle"]
    /\ op = [p \in Helpers |-> "state"]
    /\ arg = [p \in Helpers |-> AnyTrial]
    /\ fd = [p \in Helpers |-> NoInode]
    /\ tfd = [p \in Helpers |-> NoInode]
    /\ seen = [p \in Helpers |-> Absent]
    /\ out = "none"
    /\ unacked = [t \in Trials |-> 0]
    /\ promise = Absent
    /\ fenced = {}

-----------------------------------------------------------------------------
(* What every step of a helper is made of.                                  *)

\* The process is gone: its descriptors and so its flocks are released.
Exit(p, o) ==
    /\ pc' = [pc EXCEPT ![p] = "idle"]
    /\ out' = o
    /\ op' = [op EXCEPT ![p] = "state"]
    /\ arg' = [arg EXCEPT ![p] = AnyTrial]
    /\ fd' = [fd EXCEPT ![p] = NoInode]
    /\ tfd' = [tfd EXCEPT ![p] = NoInode]
    /\ seen' = [seen EXCEPT ![p] = Absent]
    /\ dirLock' = IF dirLock = p THEN NoHelper ELSE dirLock

\* fail(): exit without changing the directory any further.
Fail(p, o) == Exit(p, o) /\ UNCHANGED <<fs, history>>

Goto(p, step) ==
    /\ pc' = [pc EXCEPT ![p] = step]
    /\ UNCHANGED <<out, op, arg>>

\* A directory operation: visible at once, on the disk at some later time.
SetDir(d) == dir' = d /\ crashDirs' = crashDirs \cup {d}

\* fsync of the directory: its names are on the disk, and the inodes that
\* lost their last name are reclaimed.
SyncDir ==
    /\ crashDirs' = {dir}
    /\ data' = [i \in Inodes |-> IF i \in {dir.rec, dir.tmp} THEN data[i]
                                                           ELSE Torn(TRUE)]
    /\ UNCHANGED dir

\* Another descriptor already holds the flock of inode i.
Flocked(i) == \E q \in Helpers : fd[q] = i

\* An inode the file system may give to a new file.
Free(i) == /\ \A d \in crashDirs \cup {dir} : i \notin {d.rec, d.tmp}
           /\ \A q \in Helpers : i \notin {fd[q], tfd[q]}

\* The record a writer publishes.
Target(p) ==
    CASE op[p] = "decide"  -> [trial |-> arg[p], state |-> "pending"]
      [] op[p] = "healthy" -> [trial |-> seen[p].trial, state |-> "healthy"]
      [] OTHER             -> [trial |-> seen[p].trial, state |-> "failed"]

-----------------------------------------------------------------------------
(* The steps of decide and update_health.                                   *)

\* Mutant of Start: the directory is not locked.
MutStartUnlocked(p, o, t) ==
    /\ pc[p] = "idle"
    /\ pc' = [pc EXCEPT ![p] = IF o = "decide" THEN "recover" ELSE "open"]
    /\ op' = [op EXCEPT ![p] = o]
    /\ arg' = [arg EXCEPT ![p] = t]
    /\ UNCHANGED <<fs, dirLock, fd, tfd, seen, out, history>>

\* main and open_state_directory: a helper is run with one of its operations
\* and has the flock on the stable directory (the flock blocks; a helper that
\* still waits for it has touched nothing).
Start(p, o, t) ==
    /\ pc[p] = "idle"
    /\ dirLock = NoHelper
    /\ dirLock' = p
    /\ pc' = [pc EXCEPT ![p] = IF o = "decide" THEN "recover" ELSE "open"]
    /\ op' = [op EXCEPT ![p] = o]
    /\ arg' = [arg EXCEPT ![p] = t]
    /\ UNCHANGED <<fs, fd, tfd, seen, out, history>>

AfterRecover(p) == IF op[p] = "decide" THEN "open" ELSE "act"

\* recover_temporary, up to the unlink.  decide does not hold the record yet
\* and flocks it first; the health operations already hold it.
Recover(p) ==
    /\ pc[p] = "recover"
    /\ \/ /\ dir.tmp = NoInode
          /\ Goto(p, AfterRecover(p))
          /\ UNCHANGED <<fs, dirLock, fd, tfd, seen, history>>
       \/ /\ dir.tmp # NoInode
          /\ data[dir.tmp].state = "foreign"
          /\ Fail(p, "unsafe")
       \/ /\ dir.tmp # NoInode
          /\ data[dir.tmp].state # "foreign"
          /\ op[p] = "decide" /\ dir.rec # NoInode /\ Flocked(dir.rec)
          /\ Fail(p, "concurrent")
       \/ /\ dir.tmp # NoInode
          /\ data[dir.tmp].state # "foreign"
          /\ op[p] = "decide" /\ dir.rec # NoInode => ~Flocked(dir.rec)
          /\ SetDir([dir EXCEPT !.tmp = NoInode])
          /\ fd' = IF op[p] = "decide" THEN [fd EXCEPT ![p] = dir.rec] ELSE fd
          /\ Goto(p, "recoverSync")
          /\ UNCHANGED <<data, dirLock, tfd, seen, history>>

\* Mutant of RecoverSync: the flock taken for the recovery is kept.
MutRecoverSyncKeepsFlock(p) ==
    /\ pc[p] = "recoverSync"
    /\ SyncDir
    /\ Goto(p, AfterRecover(p))
    /\ UNCHANGED <<dirLock, fd, tfd, seen, history>>

\* recover_temporary: fsync of the directory, then the record's own flock is
\* released, because read_record takes it through a new descriptor.
RecoverSync(p) ==
    /\ pc[p] = "recoverSync"
    /\ SyncDir
    /\ fd' = IF op[p] = "decide" THEN [fd EXCEPT ![p] = NoInode] ELSE fd
    /\ Goto(p, AfterRecover(p))
    /\ UNCHANGED <<dirLock, tfd, seen, history>>

\* read_record: open and flock the record, without waiting.
Open(p) ==
    /\ pc[p] = "open"
    /\ \/ /\ dir.rec = NoInode
          /\ op[p] = "decide"
          /\ Goto(p, "create")
          /\ UNCHANGED <<fs, dirLock, fd, tfd, seen, history>>
       \/ /\ dir.rec = NoInode
          /\ op[p] # "decide"
          /\ Fail(p, "refused")
       \/ /\ dir.rec # NoInode
          /\ Flocked(dir.rec)
          /\ Fail(p, "concurrent")
       \/ /\ dir.rec # NoInode
          /\ ~Flocked(dir.rec)
          /\ fd' = [fd EXCEPT ![p] = dir.rec]
          /\ Goto(p, "read")
          /\ UNCHANGED <<fs, dirLock, tfd, seen, history>>

\* The bytes behind the open record, and that the name still leads to them.
ReadRefused(p) == dir.rec # fd[p] \/ data[fd[p]].state \notin States

\* What decide and update_health do with the record they read.
Branch(p, r) ==
    IF op[p] = "decide"
    THEN IF r.trial # arg[p] THEN "refused"
         ELSE IF r.state = "healthy" THEN "create" ELSE "fallback"
    ELSE IF RunOf[r.trial] # RunOf[arg[p]] THEN "refused"
         ELSE IF op[p] = "state" THEN "inspect" ELSE "recover"

\* The rest of read_record and the first decision on the record.
Read(p) ==
    LET r == RecordAt([dir EXCEPT !.rec = fd[p]]) IN
    /\ pc[p] = "read"
    /\ \/ ReadRefused(p) /\ Fail(p, "unsafe")
       \/ /\ ~ReadRefused(p)
          /\ Branch(p, r) = "refused"
          /\ Fail(p, "refused")
       \/ /\ ~ReadRefused(p)
          /\ Branch(p, r) = "fallback"
          /\ Exit(p, "fallback")
          /\ UNCHANGED <<fs, history>>
       \/ /\ ~ReadRefused(p)
          /\ Branch(p, r) = "inspect"
          /\ Exit(p, r.state)
          /\ UNCHANGED <<fs, history>>
       \/ /\ ~ReadRefused(p)
          /\ Branch(p, r) \in {"create", "recover"}
          /\ seen' = [seen EXCEPT ![p] = r]
          /\ Goto(p, Branch(p, r))
          /\ UNCHANGED <<fs, dirLock, fd, tfd, history>>

Rejects(p) == \/ op[p] = "reject"
              \/ op[p] = "rollback" /\ seen[p].state # "healthy"

\* Mutant of Act: a health commit also accepts a failed trial.
MutActCommitsFailed(p) ==
    /\ pc[p] = "act"
    /\ \/ /\ Rejects(p) /\ seen[p].state = "failed"
          /\ Exit(p, "rollback")
          /\ fenced' = fenced \cup {seen[p].trial}
          /\ UNCHANGED <<fs, unacked, promise>>
       \/ /\ IF Rejects(p) THEN seen[p].state # "failed"
                           ELSE seen[p].state # "healthy"
          /\ Goto(p, "create")
          /\ UNCHANGED <<fs, dirLock, fd, tfd, seen, history>>

\* update_health after recover_temporary: report a state already reached,
\* refuse to commit a failed trial, or publish the new state.
Act(p) ==
    /\ pc[p] = "act"
    /\ \/ /\ Rejects(p) /\ seen[p].state = "failed"
          /\ Exit(p, "rollback")
          /\ fenced' = fenced \cup {seen[p].trial}
          /\ UNCHANGED <<fs, unacked, promise>>
       \/ /\ ~Rejects(p) /\ seen[p].state = "healthy"
          /\ Exit(p, IF op[p] = "rollback" THEN "healthy" ELSE "already-healthy")
          /\ UNCHANGED <<fs, history>>
       \/ /\ ~Rejects(p) /\ seen[p].state = "failed"
          /\ Fail(p, "refused")
       \/ /\ IF Rejects(p) THEN seen[p].state # "failed"
                           ELSE seen[p].state = "pending"
          /\ Goto(p, "create")
          /\ UNCHANGED <<fs, dirLock, fd, tfd, seen, history>>

-----------------------------------------------------------------------------
(* create_pending and replace_record, which differ in the check before the  *)
(* rename and in its NOREPLACE flag.                                        *)

\* openat(O_CREAT | O_EXCL) of the temporary, on a file system that may be full.
Create(p) ==
    /\ pc[p] = "create"
    /\ \/ dir.tmp # NoInode /\ Fail(p, "concurrent")
       \/ dir.tmp = NoInode /\ (\A i \in Inodes : ~Free(i)) /\ Fail(p, "full")
       \/ /\ dir.tmp = NoInode
          /\ \E i \in Inodes :
                /\ Free(i)
                /\ SetDir([dir EXCEPT !.tmp = i])
                /\ data' = [data EXCEPT ![i] = Torn(FALSE)]
                /\ tfd' = [tfd EXCEPT ![p] = i]
          /\ Goto(p, "write")
          /\ UNCHANGED <<dirLock, fd, seen, history>>

\* write_all.
Write(p) ==
    /\ pc[p] = "write"
    /\ data' = [data EXCEPT ![tfd[p]] = [trial |-> Target(p).trial,
                                         state |-> Target(p).state,
                                         synced |-> FALSE]]
    /\ Goto(p, "fsync")
    /\ UNCHANGED <<dir, crashDirs, dirLock, fd, tfd, seen, history>>

\* Mutant of Fsync: the temporary is closed without fsync.
MutFsyncMissing(p) ==
    /\ pc[p] = "fsync"
    /\ tfd' = [tfd EXCEPT ![p] = NoInode]
    /\ Goto(p, IF seen[p] = Absent THEN "publish" ELSE "check")
    /\ UNCHANGED <<fs, dirLock, fd, seen, history>>

\* fsync and close of the temporary.
Fsync(p) ==
    /\ pc[p] = "fsync"
    /\ data' = [data EXCEPT ![tfd[p]].synced = TRUE]
    /\ tfd' = [tfd EXCEPT ![p] = NoInode]
    /\ Goto(p, IF seen[p] = Absent THEN "publish" ELSE "check")
    /\ UNCHANGED <<dir, crashDirs, dirLock, fd, seen, history>>

\* replace_record: the name must still lead to the record that was read.
Check(p) ==
    /\ pc[p] = "check"
    /\ \/ dir.rec # fd[p] /\ Fail(p, "concurrent")
       \/ /\ dir.rec = fd[p]
          /\ Goto(p, "publish")
          /\ UNCHANGED <<fs, dirLock, fd, tfd, seen, history>>

\* The rename that makes the temporary the record.  create_pending never
\* replaces a record that is already there.
Publish(p) ==
    LET refused == dir.tmp = NoInode \/ (seen[p] = Absent /\ dir.rec # NoInode)
    IN  /\ pc[p] = "publish"
        /\ \/ refused /\ Fail(p, "concurrent")
           \/ /\ ~refused
              /\ SetDir([rec |-> dir.tmp, tmp |-> NoInode])
              /\ Goto(p, "dirSync")
              /\ unacked' = IF op[p] = "healthy"
                            THEN [unacked EXCEPT ![seen[p].trial] = 0]
                            ELSE unacked
              /\ promise' = Absent
              /\ UNCHANGED <<data, dirLock, fd, tfd, seen, fenced>>

\* Mutant of DirSync: only decide and healthy wait for the disk.
MutDirSyncNotForReject(p) ==
    /\ pc[p] = "dirSync"
    /\ IF op[p] \in {"reject", "rollback"} THEN UNCHANGED fs ELSE SyncDir
    /\ fd' = [fd EXCEPT ![p] = NoInode]
    /\ Goto(p, IF op[p] \in {"reject", "rollback"} THEN "report" ELSE "reopen")
    /\ UNCHANGED <<dirLock, tfd, seen, history>>

\* fsync of the directory; the replaced record is closed.  A rejection is
\* reported at once, the other writers read their record back first.
DirSync(p) ==
    /\ pc[p] = "dirSync"
    /\ SyncDir
    /\ fd' = [fd EXCEPT ![p] = NoInode]
    /\ Goto(p, IF op[p] \in {"reject", "rollback"} THEN "report" ELSE "reopen")
    /\ UNCHANGED <<dirLock, tfd, seen, history>>

Reopen(p) ==
    /\ pc[p] = "reopen"
    /\ \/ /\ dir.rec = NoInode \/ Flocked(dir.rec)
          /\ Fail(p, "concurrent")
       \/ /\ dir.rec # NoInode /\ ~Flocked(dir.rec)
          /\ fd' = [fd EXCEPT ![p] = dir.rec]
          /\ Goto(p, "reread")
          /\ UNCHANGED <<fs, dirLock, tfd, seen, history>>

\* The published record must be the one that was meant.
Reread(p) ==
    LET same == ~ReadRefused(p) /\ Current = Target(p) IN
    /\ pc[p] = "reread"
    /\ \/ ~same /\ Fail(p, "unsafe")
       \/ /\ same
          /\ Goto(p, "report")
          /\ UNCHANGED <<fs, dirLock, fd, tfd, seen, history>>

\* print_line and exit, after a publication.
Report(p) ==
    /\ pc[p] = "report"
    /\ Exit(p, CASE op[p] = "decide"  -> "primary"
                 [] op[p] = "healthy" -> "healthy"
                 [] OTHER             -> "rollback")
    /\ promise' = Target(p)
    /\ unacked' = IF op[p] = "decide"
                  THEN [unacked EXCEPT ![arg[p]] = @ + 1]
                  ELSE unacked
    /\ fenced' = IF op[p] \in {"reject", "rollback"}
                 THEN fenced \cup {seen[p].trial}
                 ELSE fenced
    /\ UNCHANGED fs

-----------------------------------------------------------------------------
(* What can happen to a helper, and to the phone.                           *)

\* A failing system call, or a signal: the helper exits where it stands.
Killed(p) == pc[p] # "idle" /\ Fail(p, "killed")

\* Power loss: every process is gone; the disk holds some directory state
\* since the last fsync, and unsynced bytes may be torn.
PowerLoss ==
    /\ \E d \in crashDirs : dir' = d /\ crashDirs' = {d}
    /\ \E torn \in SUBSET {i \in Inodes : ~data[i].synced} :
           data' = [i \in Inodes |->
                       IF i \in torn \/ i \notin {dir'.rec, dir'.tmp}
                       THEN Torn(TRUE)
                       ELSE [data[i] EXCEPT !.synced = TRUE]]
    /\ dirLock' = NoHelper
    /\ pc' = [p \in Helpers |-> "idle"]
    /\ op' = [p \in Helpers |-> "state"]
    /\ arg' = [p \in Helpers |-> AnyTrial]
    /\ fd' = [p \in Helpers |-> NoInode]
    /\ tfd' = [p \in Helpers |-> NoInode]
    /\ seen' = [p \in Helpers |-> Absent]
    /\ out' = "none"
    /\ fenced' = {}
    /\ UNCHANGED <<unacked, promise>>

\* The steps a running helper takes by itself.
Progress(p) ==
    \/ Recover(p) \/ RecoverSync(p) \/ Open(p) \/ Read(p) \/ Act(p)
    \/ Create(p) \/ Write(p) \/ Fsync(p) \/ Check(p) \/ Publish(p)
    \/ DirSync(p) \/ Reopen(p) \/ Reread(p) \/ Report(p)

Next ==
    \/ \E p \in Helpers :
          \/ \E o \in Ops, t \in Trials : Start(p, o, t)
          \/ Progress(p)
          \/ Killed(p)
    \/ PowerLoss

Spec == Init /\ [][Next]_vars

-----------------------------------------------------------------------------
(* Properties.                                                              *)

\* The record name never leads to torn bytes, neither now nor after power loss
\* at any point of any writer: the temporary is fsynced before the rename.
RecordIntact ==
    \A d \in crashDirs : d.rec # NoInode => /\ data[d.rec].state \in States
                                            /\ data[d.rec].synced

\* What a writer reported after its publication (a primary decision, a health
\* commit, a rejection) is what every later power loss leaves, until another
\* writer publishes: the directory is fsynced before the report.
PromiseKept ==
    promise # Absent => \A d \in crashDirs : RecordAt(d) = promise

\* "A timer winning the race fences a later health commit": once a rollback
\* or rejection was reported, the trial stays failed while the system is up.
FenceHolds == \A t \in fenced : Current = [trial |-> t, state |-> "failed"]

\* No helper ends in a "concurrent operation" or "unsafe" failure because of
\* what another helper, a killed one or a power loss left behind; only a
\* temporary that no helper made is refused.
LeftoversNeverBlock ==
    out \in {"concurrent", "unsafe"} =>
        dir.tmp # NoInode /\ data[dir.tmp].state = "foreign"

\* The durable cell that the helper implements.
Cell == INSTANCE TryOnce WITH
    record    <- Current,
    survivors <- {RecordAt(d) : d \in crashDirs},
    armed     <- {arg[p] : p \in {q \in Helpers :
                     op[q] = "decide" /\
                     pc[q] \in {"dirSync", "reopen", "reread", "report"}}},
    unacked   <- unacked

\* The five operations, their system calls interleaved with kills and power
\* losses, implement the durable cell of TryOnce: each takes effect at its
\* rename, and a primary is only granted once its pending record is durable.
RefinesTryOnce == Cell!CellSpec

-----------------------------------------------------------------------------
(* The inductive invariant behind these properties.                         *)

\* Steps at which a writer has read the record it is about to replace.
Writing == {"create", "write", "fsync", "check", "publish"}

\* The directory lock is held by the one helper that is not idle.
Exclusive ==
    \A p \in Helpers :
        /\ pc[p] # "idle" <=> dirLock = p
        /\ pc[p] = "idle" =>
              fd[p] = NoInode /\ tfd[p] = NoInode /\ seen[p] = Absent

\* Which record a helper holds open at each of its steps.
OpenRecord(p) ==
    /\ pc[p] \in {"open", "reopen"} => fd[p] = NoInode
    /\ pc[p] = "recover" /\ op[p] = "decide" => fd[p] = NoInode
    /\ pc[p] \in {"read", "reread"} => fd[p] = dir.rec /\ dir.rec # NoInode

\* What a helper remembers of the record is still what the record says.
SeenIsCurrent(p) ==
    /\ pc[p] \in {"recover", "recoverSync"} =>
          IF op[p] = "decide" THEN seen[p] = Absent
          ELSE op[p] # "state" /\ seen[p] # Absent
    /\ pc[p] \in {"open", "read"} => seen[p] = Absent
    /\ pc[p] = "act" => op[p] \notin {"decide", "state"} /\ seen[p] # Absent
    /\ /\ pc[p] \in Writing \cup {"recover", "recoverSync", "act"}
       /\ seen[p] # Absent
       => /\ dir.rec # NoInode
          /\ fd[p] = dir.rec
          /\ seen[p] = Current
    /\ pc[p] \in Writing /\ seen[p] = Absent =>
          op[p] = "decide" /\ dir.rec = NoInode /\ fd[p] = NoInode

\* The only transitions of the record that a writer attempts.
LegalWrite(p) ==
    pc[p] \in Writing \cup {"dirSync", "reopen", "reread", "report"} =>
        \/ /\ op[p] = "decide"
           /\ seen[p] \in {Absent, [trial |-> arg[p], state |-> "healthy"]}
        \/ op[p] = "healthy" /\ seen[p].state = "pending"
        \/ op[p] = "reject" /\ seen[p].state \in {"pending", "healthy"}
        \/ op[p] = "rollback" /\ seen[p].state = "pending"

\* The temporary belongs to the writer, is not a record anywhere, and holds
\* the new record in full, synced before the rename.
TemporaryOwned(p) ==
    /\ \/ pc[p] \in {"recoverSync", "act", "create"}
       \/ op[p] = "decide" /\ pc[p] \in {"open", "read"}
       => dir.tmp = NoInode
    /\ pc[p] \in {"write", "fsync", "check", "publish"} =>
          /\ dir.tmp # NoInode
          /\ \A d \in crashDirs : d.rec # dir.tmp
          /\ data[dir.tmp].state # "foreign"
    /\ pc[p] \in {"write", "fsync"} => tfd[p] = dir.tmp
    /\ pc[p] \in {"fsync", "check", "publish"} =>
          /\ data[dir.tmp].trial = Target(p).trial
          /\ data[dir.tmp].state = Target(p).state
    /\ pc[p] \in {"check", "publish"} => data[dir.tmp].synced

\* After the rename the record is the new one; after the fsync it is so on
\* the disk as well.
Published(p) ==
    /\ pc[p] = "dirSync" => Current = Target(p)
    /\ pc[p] \in {"reopen", "reread", "report"} =>
          \A d \in crashDirs : RecordAt(d) = Target(p)

HelperInv(p) ==
    /\ OpenRecord(p)
    /\ SeenIsCurrent(p)
    /\ LegalWrite(p)
    /\ TemporaryOwned(p)
    /\ Published(p)

IInv ==
    /\ TypeOK
    /\ dir \in crashDirs
    /\ Exclusive
    /\ \A p \in Helpers : HelperInv(p)
    /\ RecordIntact
    /\ PromiseKept
    /\ FenceHolds
    /\ LeftoversNeverBlock
=============================================================================
