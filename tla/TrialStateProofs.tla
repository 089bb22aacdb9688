-------------------------- MODULE TrialStateProofs --------------------------
(***************************************************************************)
(* The safety of the try-once record helper for any number of helpers,     *)
(* inodes and trials.  IInv of TrialState is inductive: every step of the  *)
(* helper, kills and power loss preserve it, and the properties follow.    *)
(* The same invariant gives what each step needs to implement the durable  *)
(* cell of TryOnce: the helper at work is alone, the record it replaces is *)
(* the one it has seen, and what it has published and synced is all that   *)
(* power loss can leave.                                                   *)
(***************************************************************************)
EXTENDS TrialState, TLAPS

\* Leaves are left to Zenon; the ones with arithmetic or many cases name SMT.
USE ZenonT(30)

\* The absent record is none of the records a helper can render.
LEMMA AbsentFacts ==
    /\ AnyTrial \in Trials
    /\ Absent \notin Record
    /\ Absent.trial = AnyTrial /\ Absent.state = "absent"
  BY ConstantsAssumption DEF AnyTrial, Absent, Record, States

\* What a writer publishes is a record, whatever it has seen.
LEMMA TargetType ==
    ASSUME TypeOK, NEW p \in Helpers
    PROVE  /\ Target(p) \in Record
           /\ Target(p).trial \in Trials /\ Target(p).state \in States
           /\ op[p] = "decide" => Target(p) = [trial |-> arg[p], state |-> "pending"]
           /\ op[p] = "healthy" => Target(p) = [trial |-> seen[p].trial, state |-> "healthy"]
           /\ op[p] \notin {"decide", "healthy"} =>
                 Target(p) = [trial |-> seen[p].trial, state |-> "failed"]
  <1>1. seen[p].trial \in Trials /\ arg[p] \in Trials
    BY AbsentFacts DEF TypeOK, HelperTypeOK, Record
  <1> QED BY <1>1 DEF Target, Record, States

\* A helper that holds the directory lock is the only one at work.
LEMMA Alone ==
    ASSUME IInv, NEW p \in Helpers, pc[p] # "idle"
    PROVE  /\ dirLock = p
           /\ \A q \in Helpers \ {p} :
                 /\ pc[q] = "idle" /\ fd[q] = NoInode /\ tfd[q] = NoInode
                 /\ seen[q] = Absent
  BY DEF IInv, Exclusive

\* An idle helper constrains nothing.
LEMMA IdleInv ==
    ASSUME NEW q, pc[q] = "idle"
    PROVE  HelperInv(q)
  BY DEF HelperInv, OpenRecord, SeenIsCurrent, LegalWrite, TemporaryOwned,
         Published, Writing

\* The same in the next state.
LEMMA IdleInvNext ==
    ASSUME NEW q, pc'[q] = "idle"
    PROVE  HelperInv(q)'
  BY DEF HelperInv, OpenRecord, SeenIsCurrent, LegalWrite, TemporaryOwned,
         Published, Writing

\* The exit of a helper preserves the invariant, if what it reports does.
LEMMA ExitInv ==
    ASSUME IInv, NEW p \in Helpers, pc[p] # "idle",
           NEW o \in Outcomes, Exit(p, o), UNCHANGED <<dir, crashDirs, data>>,
           unacked' \in [Trials -> Nat], promise' \in Record \cup {Absent},
           fenced' \in SUBSET Trials,
           PromiseKept', FenceHolds', LeftoversNeverBlock'
    PROVE  IInv'
  <1>1. TypeOK
    BY DEF IInv
  <1>2. HelperTypeOK'
    BY <1>1, AbsentFacts DEF TypeOK, HelperTypeOK, Exit, Steps, Ops
  <1>3. \A q \in Helpers : /\ pc'[q] = "idle" /\ fd'[q] = NoInode
                           /\ tfd'[q] = NoInode /\ seen'[q] = Absent
    BY <1>1, Alone DEF TypeOK, HelperTypeOK, Exit
  <1>4. dirLock' = NoHelper
    BY Alone DEF Exit
  <1>5. TypeOK'
    BY <1>1, <1>2, <1>4 DEF TypeOK, DiskTypeOK, Exit
  <1>6. Exclusive'
    BY <1>3, <1>4, ConstantsAssumption DEF Exclusive
  <1>7. \A q \in Helpers : HelperInv(q)'
    BY <1>3, IdleInvNext
  <1>8. RecordIntact' /\ (dir \in crashDirs)'
    BY DEF IInv, RecordIntact
  <1> QED BY <1>5, <1>6, <1>7, <1>8 DEF IInv

\* fail() leaves everything but the helper as it was.
LEMMA FailInv ==
    ASSUME IInv, NEW p \in Helpers, pc[p] # "idle",
           NEW o \in Outcomes \ {"concurrent", "unsafe"}, Fail(p, o)
    PROVE  IInv'
  <1>1. TypeOK /\ PromiseKept /\ FenceHolds
    BY DEF IInv
  <1>2. UNCHANGED <<dir, crashDirs, data, unacked, promise, fenced>> /\ Exit(p, o)
    BY DEF Fail, fs, history
  <1>3. PromiseKept' /\ FenceHolds' /\ LeftoversNeverBlock'
    BY <1>1, <1>2 DEF PromiseKept, FenceHolds, LeftoversNeverBlock, Current, RecordAt, Exit
  <1> QED BY <1>1, <1>2, <1>3, ExitInv DEF TypeOK

\* A step within a run of the helper: only its own part of the invariant and
\* what it does to the disk need a proof.
LEMMA StepInv ==
    ASSUME IInv, NEW p \in Helpers, pc[p] # "idle",
           NEW s \in Steps \ {"idle"}, pc' = [pc EXCEPT ![p] = s],
           NEW x \in Inodes \cup {NoInode}, fd' = [fd EXCEPT ![p] = x],
           NEW y \in Inodes \cup {NoInode}, tfd' = [tfd EXCEPT ![p] = y],
           NEW r \in Record \cup {Absent}, seen' = [seen EXCEPT ![p] = r],
           UNCHANGED <<op, arg, out, dirLock, fenced>>,
           DiskTypeOK', unacked' \in [Trials -> Nat],
           promise' \in Record \cup {Absent},
           (dir \in crashDirs)', RecordIntact', PromiseKept', FenceHolds',
           LeftoversNeverBlock', HelperInv(p)'
    PROVE  IInv'
  <1>1. TypeOK
    BY DEF IInv
  <1>2. HelperTypeOK'
    BY <1>1 DEF TypeOK, HelperTypeOK
  <1>3. TypeOK'
    BY <1>1, <1>2 DEF TypeOK
  <1>4. \A q \in Helpers \ {p} :
           /\ pc'[q] = "idle" /\ fd'[q] = NoInode /\ tfd'[q] = NoInode
           /\ seen'[q] = Absent
    BY <1>1, Alone DEF TypeOK, HelperTypeOK
  <1>5. pc'[p] # "idle" /\ dirLock' = p
    BY <1>1, Alone DEF TypeOK, HelperTypeOK
  <1>6. Exclusive'
    BY <1>4, <1>5 DEF Exclusive
  <1>7. \A q \in Helpers : HelperInv(q)'
    BY <1>4, IdleInvNext
  <1> QED BY <1>3, <1>6, <1>7 DEF IInv

\* A step that leaves the disk and the history alone.
LEMMA QuietInv ==
    ASSUME IInv, NEW p \in Helpers, pc[p] # "idle",
           NEW s \in Steps \ {"idle"}, Goto(p, s),
           NEW x \in Inodes \cup {NoInode}, fd' = [fd EXCEPT ![p] = x],
           NEW r \in Record \cup {Absent}, seen' = [seen EXCEPT ![p] = r],
           UNCHANGED <<tfd, dirLock, dir, crashDirs, data, unacked, promise, fenced>>,
           HelperInv(p)'
    PROVE  IInv'
  <1>1. TypeOK /\ RecordIntact /\ PromiseKept /\ FenceHolds /\ LeftoversNeverBlock
    BY DEF IInv
  <1>2. tfd' = [tfd EXCEPT ![p] = tfd[p]] /\ tfd[p] \in Inodes \cup {NoInode}
    BY <1>1 DEF TypeOK, HelperTypeOK
  <1>3. pc' = [pc EXCEPT ![p] = s] /\ UNCHANGED <<op, arg, out>>
    BY DEF Goto
  <1>4. DiskTypeOK' /\ (dir \in crashDirs)' /\ RecordIntact' /\ LeftoversNeverBlock'
    BY <1>1, <1>3 DEF IInv, TypeOK, DiskTypeOK, RecordIntact, LeftoversNeverBlock
  <1>5. PromiseKept' /\ FenceHolds'
    BY <1>1 DEF PromiseKept, FenceHolds, Current, RecordAt
  <1>6. unacked' \in [Trials -> Nat] /\ promise' \in Record \cup {Absent}
    BY <1>1 DEF TypeOK
  <1>7. UNCHANGED <<op, arg, out, dirLock, fenced>>
    BY <1>3
  <1> QED BY <1>2, <1>3, <1>4, <1>5, <1>6, <1>7, StepInv

\* The empty state directory, with no helper at work, satisfies the invariant.
LEMMA InitInv == Init => IInv
  <1> SUFFICES ASSUME Init PROVE IInv
    OBVIOUS
  <1>1. DiskTypeOK
    <2>1. PICK t \in Trials, s \in States, k \in {"torn", "foreign"} :
             data = [i \in Inodes |->
                        IF i = dir.rec
                        THEN [trial |-> t, state |-> s, synced |-> TRUE]
                        ELSE IF i = dir.tmp THEN [Torn(TRUE) EXCEPT !.state = k]
                                            ELSE Torn(TRUE)]
      BY DEF Init
    <2>2. [trial |-> t, state |-> s, synced |-> TRUE] \in Content
      BY DEF Content
    <2>3. [Torn(TRUE) EXCEPT !.state = k] \in Content /\ Torn(TRUE) \in Content
      BY AbsentFacts DEF Content, Torn
    <2>4. data \in [Inodes -> Content]
      BY <2>1, <2>2, <2>3
    <2> QED BY <2>4 DEF Init, DiskTypeOK
  <1>2. HelperTypeOK
    BY AbsentFacts DEF Init, HelperTypeOK, Steps, Ops
  <1>3. TypeOK
    BY <1>1, <1>2, AbsentFacts DEF Init, TypeOK, Outcomes
  <1>4. RecordIntact
    BY SMT DEF Init, RecordIntact, Directory, States
  <1>5. PromiseKept /\ FenceHolds /\ LeftoversNeverBlock /\ dir \in crashDirs
    BY DEF Init, PromiseKept, FenceHolds, LeftoversNeverBlock
  <1>6. Exclusive
    BY ConstantsAssumption DEF Init, Exclusive
  <1>7. \A p \in Helpers : HelperInv(p)
    BY IdleInv DEF Init
  <1> QED BY <1>3, <1>4, <1>5, <1>6, <1>7 DEF IInv

\* main and open_state_directory.
LEMMA StartInv ==
    ASSUME IInv, NEW p \in Helpers, NEW o \in Ops, NEW t \in Trials, Start(p, o, t)
    PROVE  IInv'
  <1> DEFINE s == IF o = "decide" THEN "recover" ELSE "open"
  <1>1. TypeOK /\ Exclusive
    BY DEF IInv
  <1>2. /\ pc[p] = "idle" /\ dirLock = NoHelper /\ dirLock' = p
        /\ pc' = [pc EXCEPT ![p] = s]
        /\ op' = [op EXCEPT ![p] = o] /\ arg' = [arg EXCEPT ![p] = t]
        /\ UNCHANGED <<dir, crashDirs, data, fd, tfd, seen, out, unacked, promise, fenced>>
    BY DEF Start, fs, history
  <1>3. s \in Steps /\ s # "idle"
    BY DEF Steps
  <1>33. (o = "decide" => s = "recover") /\ (o # "decide" => s = "open")
    OBVIOUS
  <1> HIDE DEF s
  <1>4. HelperTypeOK'
    BY <1>1, <1>2, <1>3 DEF TypeOK, HelperTypeOK
  <1>5. TypeOK'
    BY <1>1, <1>2, <1>4 DEF TypeOK, DiskTypeOK
  <1>6. \A q \in Helpers : pc[q] = "idle"
    BY <1>1, <1>2, ConstantsAssumption DEF Exclusive
  <1>7. pc'[p] = s /\ \A q \in Helpers \ {p} : pc'[q] = "idle"
    BY <1>1, <1>2, <1>6 DEF TypeOK, HelperTypeOK
  <1>8. Exclusive'
    BY <1>1, <1>2, <1>3, <1>6, <1>7 DEF Exclusive
  <1>9. HelperInv(p)'
    <2>1. op'[p] = o /\ fd'[p] = NoInode /\ seen'[p] = Absent
      BY <1>1, <1>2 DEF Exclusive, TypeOK, HelperTypeOK
    <2> QED BY <2>1, <1>7, <1>33 DEF HelperInv, OpenRecord, SeenIsCurrent, LegalWrite,
               TemporaryOwned, Published, Writing
  <1>10. \A q \in Helpers : HelperInv(q)'
    BY <1>7, <1>9, IdleInvNext
  <1>11. RecordIntact' /\ (dir \in crashDirs)' /\ LeftoversNeverBlock'
    BY <1>2 DEF IInv, RecordIntact, LeftoversNeverBlock
  <1>12. PromiseKept' /\ FenceHolds'
    BY <1>2 DEF IInv, PromiseKept, FenceHolds, Current, RecordAt
  <1> QED BY <1>5, <1>8, <1>10, <1>11, <1>12 DEF IInv

-----------------------------------------------------------------------------
(* recover_temporary.                                                       *)

\* The only flock a helper can meet is its own.
LEMMA NotFlocked ==
    ASSUME IInv, NEW p \in Helpers, pc[p] # "idle", fd[p] = NoInode,
           dir.rec # NoInode
    PROVE  ~Flocked(dir.rec)
  BY Alone DEF Flocked

\* Removing the temporary's name changes no record on the disk.
LEMMA UnlinkKeepsRecords ==
    ASSUME IInv, SetDir([dir EXCEPT !.tmp = NoInode]), UNCHANGED data
    PROVE  /\ DiskTypeOK' /\ (dir \in crashDirs)'
           /\ dir' = [dir EXCEPT !.tmp = NoInode]
           /\ dir'.rec = dir.rec /\ dir'.tmp = NoInode
           /\ Current' = Current
           /\ RecordIntact'
           /\ \A d \in crashDirs' : \E e \in crashDirs :
                 d.rec = e.rec /\ RecordAt(d)' = RecordAt(e)
  <1>1. DiskTypeOK /\ dir \in crashDirs /\ RecordIntact
    BY DEF IInv, TypeOK
  <1>2. dir' = [dir EXCEPT !.tmp = NoInode] /\ crashDirs' = crashDirs \cup {dir'}
    BY DEF SetDir
  <1>3. dir'.rec = dir.rec /\ dir'.tmp = NoInode /\ dir' \in Directory
    BY <1>1, <1>2 DEF DiskTypeOK, Directory
  <1>4. DiskTypeOK' /\ (dir \in crashDirs)'
    BY <1>1, <1>2, <1>3 DEF DiskTypeOK
  <1>5. RecordIntact'
    BY <1>1, <1>2, <1>3 DEF RecordIntact
  <1>6. Current' = Current
    BY <1>3 DEF Current, RecordAt
  <1>7. \A d \in crashDirs' : \E e \in crashDirs :
           d.rec = e.rec /\ RecordAt(d)' = RecordAt(e)
    BY <1>1, <1>2, <1>3 DEF RecordAt
  <1> QED BY <1>2, <1>3, <1>4, <1>5, <1>6, <1>7

\* recover_temporary unlinks a leftover temporary and keeps the invariant.
LEMMA RecoverInv ==
    ASSUME IInv, NEW p \in Helpers, Recover(p)
    PROVE  IInv'
  <1>0. pc[p] = "recover" /\ pc[p] # "idle"
    BY DEF Recover
  <1>1. TypeOK /\ HelperInv(p) /\ PromiseKept /\ FenceHolds /\ LeftoversNeverBlock
    BY DEF IInv
  <1>2. /\ op[p] = "decide" => seen[p] = Absent /\ fd[p] = NoInode
        /\ op[p] # "decide" => /\ op[p] # "state" /\ seen[p] # Absent
                               /\ fd[p] = dir.rec /\ dir.rec # NoInode
                               /\ seen[p] = Current
    BY <1>0, <1>1 DEF HelperInv, OpenRecord, SeenIsCurrent
  <1>3. fd[p] \in Inodes \cup {NoInode} /\ seen[p] \in Record \cup {Absent}
        /\ fd = [fd EXCEPT ![p] = fd[p]] /\ seen = [seen EXCEPT ![p] = seen[p]]
        /\ tfd[p] \in Inodes \cup {NoInode} /\ tfd = [tfd EXCEPT ![p] = tfd[p]]
    BY <1>1 DEF TypeOK, HelperTypeOK
  <1>4. CASE /\ dir.tmp = NoInode
             /\ Goto(p, AfterRecover(p))
             /\ UNCHANGED <<fs, dirLock, fd, tfd, seen, history>>
    <2>1. UNCHANGED <<dir, crashDirs, data, dirLock, fd, tfd, seen, unacked, promise, fenced>>
          /\ UNCHANGED <<op, arg>> /\ pc' = [pc EXCEPT ![p] = AfterRecover(p)]
      BY <1>4 DEF fs, history, Goto
    <2>2. /\ op[p] = "decide" => AfterRecover(p) = "open"
          /\ op[p] # "decide" => AfterRecover(p) = "act"
      BY DEF AfterRecover
    <2>3. pc'[p] = AfterRecover(p) /\ AfterRecover(p) \in Steps \ {"idle"}
      BY <1>1, <2>1, <2>2 DEF TypeOK, HelperTypeOK, Steps
    <2>4. HelperInv(p)'
      BY <1>2, <1>4, <2>1, <2>2, <2>3
      DEF HelperInv, OpenRecord, SeenIsCurrent, LegalWrite, TemporaryOwned,
          Published, Writing, Current, RecordAt
    <2> QED BY <1>0, <1>3, <1>4, <2>1, <2>3, <2>4, QuietInv
  <1>5. CASE /\ dir.tmp # NoInode
             /\ data[dir.tmp].state = "foreign"
             /\ Fail(p, "unsafe")
    <2>1. UNCHANGED <<dir, crashDirs, data, unacked, promise, fenced>> /\ Exit(p, "unsafe")
      BY <1>5 DEF Fail, fs, history
    <2>2. PromiseKept' /\ FenceHolds'
      BY <1>1, <2>1 DEF PromiseKept, FenceHolds, Current, RecordAt
    <2>3. LeftoversNeverBlock'
      BY <1>5, <2>1 DEF LeftoversNeverBlock
    <2> QED BY <1>0, <1>1, <2>1, <2>2, <2>3, ExitInv DEF TypeOK, Outcomes
  <1>6. CASE op[p] = "decide" /\ dir.rec # NoInode /\ Flocked(dir.rec)
    BY <1>0, <1>2, <1>6, NotFlocked
  <1>7. CASE /\ dir.tmp # NoInode
             /\ data[dir.tmp].state # "foreign"
             /\ SetDir([dir EXCEPT !.tmp = NoInode])
             /\ fd' = IF op[p] = "decide" THEN [fd EXCEPT ![p] = dir.rec] ELSE fd
             /\ Goto(p, "recoverSync")
             /\ UNCHANGED <<data, dirLock, tfd, seen, history>>
    <2>1. UNCHANGED <<data, dirLock, tfd, seen, unacked, promise, fenced, op, arg, out>>
          /\ pc' = [pc EXCEPT ![p] = "recoverSync"]
      BY <1>7 DEF history, Goto
    <2>2. fd' = [fd EXCEPT ![p] = dir.rec] /\ dir.rec \in Inodes \cup {NoInode}
      BY <1>1, <1>2, <1>3, <1>7 DEF TypeOK, DiskTypeOK, Directory
    <2>3. pc'[p] = "recoverSync" /\ fd'[p] = dir.rec /\ "recoverSync" \in Steps \ {"idle"}
      BY <1>1, <2>1, <2>2 DEF TypeOK, HelperTypeOK, Steps
    <2>4. PromiseKept' /\ FenceHolds'
      BY <1>1, <1>7, <2>1, UnlinkKeepsRecords DEF PromiseKept, FenceHolds
    <2>5. LeftoversNeverBlock'
      BY <1>1, <1>7, <2>1 DEF LeftoversNeverBlock
    <2>6. HelperInv(p)'
      BY <1>2, <1>7, <2>1, <2>3, UnlinkKeepsRecords
      DEF HelperInv, OpenRecord, SeenIsCurrent, LegalWrite, TemporaryOwned,
          Published, Writing
    <2> QED BY <1>0, <1>1, <1>3, <1>7, <2>1, <2>2, <2>3, <2>4, <2>5, <2>6,
               UnlinkKeepsRecords, StepInv DEF TypeOK
  <1> QED BY <1>4, <1>5, <1>6, <1>7 DEF Recover

\* fsync of the directory settles the record that is there.
LEMMA SyncSettles ==
    ASSUME IInv, SyncDir
    PROVE  /\ DiskTypeOK' /\ (dir \in crashDirs)'
           /\ dir' = dir /\ crashDirs' = {dir}
           /\ \A i \in {dir.rec, dir.tmp} \ {NoInode} : data'[i] = data[i]
           /\ Current' = Current
           /\ RecordIntact'
           /\ \A d \in crashDirs' : RecordAt(d)' = Current
  <1>1. DiskTypeOK /\ dir \in crashDirs /\ RecordIntact
    BY DEF IInv, TypeOK
  <1>2. dir' = dir /\ crashDirs' = {dir}
        /\ data' = [i \in Inodes |-> IF i \in {dir.rec, dir.tmp} THEN data[i] ELSE Torn(TRUE)]
    BY DEF SyncDir
  <1>3. Torn(TRUE) \in Content
    BY AbsentFacts DEF Torn, Content
  <1>4. DiskTypeOK'
    BY <1>1, <1>2, <1>3 DEF DiskTypeOK
  <1>5. \A i \in {dir.rec, dir.tmp} \ {NoInode} : data'[i] = data[i]
    BY <1>1, <1>2 DEF DiskTypeOK, Directory
  <1>6. Current' = Current /\ RecordAt(dir)' = Current
    BY <1>2, <1>5 DEF Current, RecordAt
  <1>7. RecordIntact'
    BY <1>1, <1>2, <1>5 DEF RecordIntact
  <1> QED BY <1>2, <1>4, <1>5, <1>6, <1>7

\* A sync keeps what was promised, fenced and left behind.
LEMMA SyncHistory ==
    ASSUME IInv, SyncDir, UNCHANGED <<promise, fenced, out>>
    PROVE  PromiseKept' /\ FenceHolds' /\ LeftoversNeverBlock'
  <1>1. PromiseKept /\ FenceHolds /\ LeftoversNeverBlock /\ dir \in crashDirs
    BY DEF IInv
  <1>2. PromiseKept' /\ FenceHolds'
    BY <1>1, SyncSettles DEF PromiseKept, FenceHolds, Current
  <1>3. LeftoversNeverBlock'
    BY <1>1, SyncSettles DEF LeftoversNeverBlock
  <1> QED BY <1>2, <1>3

\* The fsync after that unlink keeps the invariant; the record lock is dropped.
LEMMA RecoverSyncInv ==
    ASSUME IInv, NEW p \in Helpers, RecoverSync(p)
    PROVE  IInv'
  <1>0. pc[p] = "recoverSync" /\ pc[p] # "idle"
    BY DEF RecoverSync
  <1>1. TypeOK /\ HelperInv(p)
    BY DEF IInv
  <1>2. SyncDir /\ UNCHANGED <<dirLock, tfd, seen, unacked, promise, fenced, op, arg, out>>
        /\ pc' = [pc EXCEPT ![p] = AfterRecover(p)]
        /\ fd' = IF op[p] = "decide" THEN [fd EXCEPT ![p] = NoInode] ELSE fd
    BY DEF RecoverSync, history, Goto
  <1>3. /\ op[p] = "decide" => seen[p] = Absent
        /\ op[p] # "decide" => /\ op[p] # "state" /\ seen[p] # Absent
                               /\ fd[p] = dir.rec /\ dir.rec # NoInode
                               /\ seen[p] = Current
    BY <1>0, <1>1 DEF HelperInv, SeenIsCurrent
  <1>4. /\ op[p] = "decide" => AfterRecover(p) = "open"
        /\ op[p] # "decide" => AfterRecover(p) = "act"
    BY DEF AfterRecover
  <1>5. PICK x \in Inodes \cup {NoInode} :
           /\ fd' = [fd EXCEPT ![p] = x]
           /\ x = IF op[p] = "decide" THEN NoInode ELSE fd[p]
    <2>1. fd[p] \in Inodes \cup {NoInode} /\ fd = [fd EXCEPT ![p] = fd[p]]
      BY <1>1 DEF TypeOK, HelperTypeOK
    <2> QED BY <1>2, <2>1
  <1>6. pc'[p] = AfterRecover(p) /\ AfterRecover(p) \in Steps \ {"idle"} /\ fd'[p] = x
    BY <1>1, <1>2, <1>4, <1>5 DEF TypeOK, HelperTypeOK, Steps
  <1>7. dir.tmp = NoInode
    BY <1>0, <1>1 DEF HelperInv, TemporaryOwned
  <1>8. HelperInv(p)'
    BY <1>2, <1>3, <1>4, <1>5, <1>6, <1>7, SyncSettles
    DEF HelperInv, OpenRecord, SeenIsCurrent, LegalWrite, TemporaryOwned,
        Published, Writing
  <1>9. tfd[p] \in Inodes \cup {NoInode} /\ tfd = [tfd EXCEPT ![p] = tfd[p]]
        /\ seen[p] \in Record \cup {Absent} /\ seen = [seen EXCEPT ![p] = seen[p]]
    BY <1>1 DEF TypeOK, HelperTypeOK
  <1> QED BY <1>0, <1>1, <1>2, <1>5, <1>6, <1>8, <1>9, SyncSettles, SyncHistory, StepInv
          DEF TypeOK

-----------------------------------------------------------------------------
(* read_record and the decisions on the record.                             *)

\* Opening and locking the record keeps the invariant.
LEMMA OpenInv ==
    ASSUME IInv, NEW p \in Helpers, Open(p)
    PROVE  IInv'
  <1>0. pc[p] = "open" /\ pc[p] # "idle"
    BY DEF Open
  <1>1. TypeOK /\ HelperInv(p)
    BY DEF IInv
  <1>2. fd[p] = NoInode /\ seen[p] = Absent /\ (op[p] = "decide" => dir.tmp = NoInode)
    BY <1>0, <1>1 DEF HelperInv, OpenRecord, SeenIsCurrent, TemporaryOwned
  <1>3. fd = [fd EXCEPT ![p] = NoInode] /\ seen = [seen EXCEPT ![p] = Absent]
    BY <1>1, <1>2 DEF TypeOK, HelperTypeOK
  <1>4. CASE /\ dir.rec = NoInode
             /\ op[p] = "decide"
             /\ Goto(p, "create")
             /\ UNCHANGED <<fs, dirLock, fd, tfd, seen, history>>
    <2>1. UNCHANGED <<dir, crashDirs, data, dirLock, fd, tfd, seen, unacked, promise, fenced, op, arg>>
          /\ pc' = [pc EXCEPT ![p] = "create"]
      BY <1>4 DEF fs, history, Goto
    <2>2. pc'[p] = "create" /\ "create" \in Steps \ {"idle"}
      BY <1>1, <2>1 DEF TypeOK, HelperTypeOK, Steps
    <2>3. HelperInv(p)'
      BY <1>2, <1>4, <2>1, <2>2
      DEF HelperInv, OpenRecord, SeenIsCurrent, LegalWrite, TemporaryOwned,
          Published, Writing
    <2> QED BY <1>0, <1>3, <1>4, <2>1, <2>2, <2>3, QuietInv
  <1>5. CASE Fail(p, "refused")
    BY <1>0, <1>5, FailInv DEF Outcomes
  <1>6. CASE dir.rec # NoInode /\ Flocked(dir.rec)
    BY <1>0, <1>2, <1>6, NotFlocked
  <1>7. CASE /\ dir.rec # NoInode
             /\ fd' = [fd EXCEPT ![p] = dir.rec]
             /\ Goto(p, "read")
             /\ UNCHANGED <<fs, dirLock, tfd, seen, history>>
    <2>1. UNCHANGED <<dir, crashDirs, data, dirLock, tfd, seen, unacked, promise, fenced, op, arg>>
          /\ pc' = [pc EXCEPT ![p] = "read"]
      BY <1>7 DEF fs, history, Goto
    <2>2. pc'[p] = "read" /\ "read" \in Steps \ {"idle"} /\ fd'[p] = dir.rec
          /\ dir.rec \in Inodes \cup {NoInode}
      BY <1>1, <1>7, <2>1 DEF TypeOK, HelperTypeOK, DiskTypeOK, Directory, Steps
    <2>3. HelperInv(p)'
      BY <1>2, <1>7, <2>1, <2>2
      DEF HelperInv, OpenRecord, SeenIsCurrent, LegalWrite, TemporaryOwned,
          Published, Writing
    <2> QED BY <1>0, <1>3, <1>7, <2>1, <2>2, <2>3, QuietInv
  <1> QED BY <1>4, <1>5, <1>6, <1>7 DEF Open

\* A record that is there is a proper one.
LEMMA CurrentIntact ==
    ASSUME IInv, dir.rec # NoInode
    PROVE  /\ data[dir.rec].state \in States
           /\ Current = [trial |-> data[dir.rec].trial, state |-> data[dir.rec].state]
           /\ Current \in Record
           /\ Current # Absent
  <1>1. data[dir.rec].state \in States
    BY DEF IInv, RecordIntact
  <1>2. data[dir.rec].trial \in Trials
    BY DEF IInv, TypeOK, DiskTypeOK, Directory, Content
  <1>3. Current = [trial |-> data[dir.rec].trial, state |-> data[dir.rec].state]
    BY DEF Current, RecordAt
  <1> QED BY <1>1, <1>2, <1>3, AbsentFacts, SMT DEF Record

\* Reading the record and branching on it keeps the invariant: what the helper
\* has seen is the current record.
LEMMA ReadInv ==
    ASSUME IInv, NEW p \in Helpers, Read(p)
    PROVE  IInv'
  <1> DEFINE r == RecordAt([dir EXCEPT !.rec = fd[p]])
  <1>0. pc[p] = "read" /\ pc[p] # "idle"
    BY DEF Read
  <1>1. TypeOK /\ HelperInv(p) /\ PromiseKept /\ FenceHolds /\ LeftoversNeverBlock
    BY DEF IInv
  <1>2. fd[p] = dir.rec /\ dir.rec # NoInode /\ seen[p] = Absent
        /\ (op[p] = "decide" => dir.tmp = NoInode)
    BY <1>0, <1>1 DEF HelperInv, OpenRecord, SeenIsCurrent, TemporaryOwned
  <1>3. r = Current
    BY <1>1, <1>2 DEF Current, RecordAt, TypeOK, DiskTypeOK, Directory
  <1> HIDE DEF r
  <1>4. ~ReadRefused(p)
    BY <1>2, CurrentIntact DEF ReadRefused
  <1>5. r \in Record /\ r.state \in States
    BY <1>2, <1>3, CurrentIntact DEF Record
  <1>6. CASE Fail(p, "refused")
    BY <1>0, <1>6, FailInv DEF Outcomes
  <1>7. ASSUME NEW o \in States \cup {"fallback"}, Exit(p, o), UNCHANGED <<fs, history>>
        PROVE  IInv'
    <2>1. o \in Outcomes \ {"concurrent", "unsafe"}
      BY DEF Outcomes, States
    <2> QED BY <1>0, <1>7, <2>1, FailInv DEF Fail
  <1>8. CASE /\ Branch(p, r) \in {"create", "recover"}
             /\ seen' = [seen EXCEPT ![p] = r]
             /\ Goto(p, Branch(p, r))
             /\ UNCHANGED <<fs, dirLock, fd, tfd, history>>
    <2>1. UNCHANGED <<dir, crashDirs, data, dirLock, fd, tfd, unacked, promise, fenced, op, arg>>
          /\ pc' = [pc EXCEPT ![p] = Branch(p, r)]
      BY <1>8 DEF fs, history, Goto
    <2>2. pc'[p] = Branch(p, r) /\ Branch(p, r) \in Steps \ {"idle"} /\ seen'[p] = r
          /\ fd[p] \in Inodes \cup {NoInode} /\ fd = [fd EXCEPT ![p] = fd[p]]
      BY <1>1, <1>8, <2>1 DEF TypeOK, HelperTypeOK, Steps
    <2>3. \/ /\ Branch(p, r) = "create" /\ op[p] = "decide"
             /\ r.trial = arg[p] /\ r.state = "healthy"
          \/ Branch(p, r) = "recover" /\ op[p] \notin {"decide", "state"}
      <3>1. CASE op[p] = "decide"
        BY <1>8, <3>1 DEF Branch
      <3>2. CASE op[p] # "decide"
        BY <1>8, <3>2 DEF Branch
      <3> QED BY <3>1, <3>2
    <2>4. Current' = Current
      BY <2>1 DEF Current, RecordAt
    <2>5. r # Absent /\ r = [trial |-> r.trial, state |-> r.state]
      BY <1>5, AbsentFacts DEF Record
    <2>6. HelperInv(p)'
      BY <1>2, <1>3, <2>1, <2>2, <2>3, <2>4, <2>5
      DEF HelperInv, OpenRecord, SeenIsCurrent, LegalWrite, TemporaryOwned,
          Published, Writing
    <2> QED BY <1>0, <1>5, <1>8, <2>1, <2>2, <2>6, QuietInv
  <1> QED BY <1>4, <1>5, <1>6, <1>7, <1>8 DEF Read, r

\* The choice of update_health keeps the invariant: only legal writes start.
LEMMA ActInv ==
    ASSUME IInv, NEW p \in Helpers, Act(p)
    PROVE  IInv'
  <1>0. pc[p] = "act" /\ pc[p] # "idle"
    BY DEF Act
  <1>1. TypeOK /\ HelperInv(p) /\ PromiseKept /\ FenceHolds /\ LeftoversNeverBlock
    BY DEF IInv
  <1>2. /\ op[p] \notin {"decide", "state"} /\ seen[p] # Absent
        /\ dir.rec # NoInode /\ fd[p] = dir.rec /\ seen[p] = Current
        /\ dir.tmp = NoInode
    BY <1>0, <1>1 DEF HelperInv, SeenIsCurrent, TemporaryOwned
  <1>3. seen[p] \in Record /\ seen[p].trial \in Trials /\ seen[p].state \in States
        /\ op[p] \in Ops
    BY <1>1, <1>2, CurrentIntact DEF Record, TypeOK, HelperTypeOK
  <1>4. CASE /\ Rejects(p) /\ seen[p].state = "failed"
             /\ Exit(p, "rollback")
             /\ fenced' = fenced \cup {seen[p].trial}
             /\ UNCHANGED <<fs, unacked, promise>>
    <2>1. UNCHANGED <<dir, crashDirs, data, unacked, promise>>
      BY <1>4 DEF fs
    <2>2. Current' = Current /\ PromiseKept'
      BY <1>1, <2>1 DEF PromiseKept, Current, RecordAt
    <2>3. Current = [trial |-> seen[p].trial, state |-> "failed"]
      <3>1. \A x \in Record : x = [trial |-> x.trial, state |-> x.state]
        BY SMT DEF Record
      <3> QED BY <1>2, <1>3, <1>4, <3>1
    <2>4. FenceHolds'
      BY <1>1, <1>4, <2>2, <2>3 DEF FenceHolds
    <2>5. LeftoversNeverBlock'
      BY <1>4 DEF LeftoversNeverBlock, Exit
    <2> QED BY <1>0, <1>1, <1>3, <1>4, <2>1, <2>2, <2>4, <2>5, ExitInv DEF TypeOK, Outcomes
  <1>5. ASSUME NEW o \in {"healthy", "already-healthy", "refused"}, Exit(p, o),
               UNCHANGED <<fs, history>>
        PROVE  IInv'
    <2>1. o \in Outcomes \ {"concurrent", "unsafe"}
      BY DEF Outcomes, States
    <2> QED BY <1>0, <1>5, <2>1, FailInv DEF Fail
  <1>6. CASE /\ IF Rejects(p) THEN seen[p].state # "failed"
                              ELSE seen[p].state = "pending"
             /\ Goto(p, "create")
             /\ UNCHANGED <<fs, dirLock, fd, tfd, seen, history>>
    <2>1. UNCHANGED <<dir, crashDirs, data, dirLock, fd, tfd, seen, unacked, promise, fenced, op, arg>>
          /\ pc' = [pc EXCEPT ![p] = "create"]
      BY <1>6 DEF fs, history, Goto
    <2>2. pc'[p] = "create" /\ "create" \in Steps \ {"idle"}
          /\ fd[p] \in Inodes \cup {NoInode} /\ fd = [fd EXCEPT ![p] = fd[p]]
          /\ seen = [seen EXCEPT ![p] = seen[p]]
      BY <1>1, <2>1 DEF TypeOK, HelperTypeOK, Steps
    <2>3. \/ op[p] = "healthy" /\ seen[p].state = "pending"
          \/ op[p] = "reject" /\ seen[p].state \in {"pending", "healthy"}
          \/ op[p] = "rollback" /\ seen[p].state = "pending"
      BY <1>2, <1>3, <1>6 DEF Rejects, Ops, States
    <2>4. Current' = Current
      BY <2>1 DEF Current, RecordAt
    <2>5. HelperInv(p)'
      BY <1>2, <2>1, <2>2, <2>3, <2>4
      DEF HelperInv, OpenRecord, SeenIsCurrent, LegalWrite, TemporaryOwned,
          Published, Writing
    <2> QED BY <1>0, <1>3, <1>6, <2>1, <2>2, <2>5, QuietInv
  <1> QED BY <1>4, <1>5, <1>6 DEF Act, Fail

-----------------------------------------------------------------------------
(* create_pending and replace_record.                                       *)

\* What a writer works with between reading the record and replacing it.
LEMMA WriterFacts ==
    ASSUME IInv, NEW p \in Helpers, pc[p] \in Writing
    PROVE  /\ pc[p] # "idle"
           /\ op[p] \in {"decide", "healthy", "reject", "rollback"}
           /\ seen[p] \in Record \cup {Absent}
           /\ fd[p] \in Inodes \cup {NoInode} /\ tfd[p] \in Inodes \cup {NoInode}
           /\ fd = [fd EXCEPT ![p] = fd[p]] /\ tfd = [tfd EXCEPT ![p] = tfd[p]]
           /\ seen = [seen EXCEPT ![p] = seen[p]]
           /\ seen[p] # Absent => dir.rec # NoInode /\ fd[p] = dir.rec /\ seen[p] = Current
           /\ seen[p] = Absent =>
                 op[p] = "decide" /\ dir.rec = NoInode /\ fd[p] = NoInode
  BY DEF IInv, TypeOK, HelperTypeOK, HelperInv, SeenIsCurrent, LegalWrite, Writing

\* Changing an inode that is no record anywhere changes no record.
LEMMA RecordsKept ==
    ASSUME IInv, NEW i, \A d \in crashDirs : d.rec # i,
           NEW c \in Content, data' = [data EXCEPT ![i] = c]
    PROVE  /\ data' \in [Inodes -> Content]
           /\ \A d \in crashDirs : d.rec # NoInode => data'[d.rec] = data[d.rec]
           /\ \A d \in crashDirs : RecordAt(d)' = RecordAt(d)
           /\ i \in Inodes => data'[i] = c
  <1>1. DiskTypeOK
    BY DEF IInv, TypeOK
  <1>2. data' \in [Inodes -> Content] /\ (i \in Inodes => data'[i] = c)
    BY <1>1 DEF DiskTypeOK
  <1>3. \A d \in crashDirs : d.rec # NoInode => data'[d.rec] = data[d.rec]
    BY <1>1 DEF DiskTypeOK, Directory
  <1>4. \A d \in crashDirs : RecordAt(d)' = RecordAt(d)
    BY <1>3 DEF RecordAt
  <1> QED BY <1>2, <1>3, <1>4

\* Creating the temporary touches no record and keeps the invariant.
LEMMA CreateInv ==
    ASSUME IInv, NEW p \in Helpers, Create(p)
    PROVE  IInv'
  <1>0. pc[p] = "create" /\ pc[p] # "idle" /\ pc[p] \in Writing
    BY DEF Create, Writing
  <1>1. TypeOK /\ DiskTypeOK /\ HelperInv(p) /\ PromiseKept /\ FenceHolds
        /\ LeftoversNeverBlock /\ RecordIntact /\ dir \in crashDirs
    BY DEF IInv, TypeOK
  <1>2. dir.tmp = NoInode
    BY <1>0, <1>1 DEF HelperInv, TemporaryOwned
  <1>3. CASE Fail(p, "full")
    BY <1>0, <1>3, FailInv DEF Outcomes
  <1>4. ASSUME NEW i \in Inodes, Free(i), SetDir([dir EXCEPT !.tmp = i]),
               data' = [data EXCEPT ![i] = Torn(FALSE)],
               tfd' = [tfd EXCEPT ![p] = i], Goto(p, "write"),
               UNCHANGED <<dirLock, fd, seen, history>>
        PROVE  IInv'
    <2>1. UNCHANGED <<dirLock, fd, seen, unacked, promise, fenced, op, arg, out>>
          /\ pc' = [pc EXCEPT ![p] = "write"]
      BY <1>4 DEF history, Goto
    <2>2. dir' = [dir EXCEPT !.tmp = i] /\ crashDirs' = crashDirs \cup {dir'}
      BY <1>4 DEF SetDir
    <2>3. dir'.rec = dir.rec /\ dir'.tmp = i /\ dir' \in Directory
      BY <1>1, <2>2 DEF DiskTypeOK, Directory
    <2>4. \A d \in crashDirs : d.rec # i
      BY <1>4 DEF Free
    <2>5. Torn(FALSE) \in Content /\ Torn(FALSE).state = "torn"
      BY AbsentFacts DEF Torn, Content
    <2>6. DiskTypeOK' /\ (dir \in crashDirs)'
      BY <1>1, <1>4, <2>2, <2>3, <2>4, <2>5, RecordsKept DEF DiskTypeOK
    <2>7. \A d \in crashDirs : d.rec # NoInode => data'[d.rec] = data[d.rec]
      BY <1>4, <2>4, <2>5, RecordsKept
    <2>8. RecordIntact'
      BY <1>1, <2>2, <2>3, <2>7 DEF RecordIntact
    <2>9. Current' = Current /\ \A d \in crashDirs' : \E e \in crashDirs : RecordAt(d)' = RecordAt(e)
      <3>1. RecordAt(dir)' = RecordAt(dir)
        BY <1>1, <2>3, <2>7 DEF RecordAt
      <3>2. \A d \in crashDirs : RecordAt(d)' = RecordAt(d)
        BY <1>1, <1>4, <2>4, <2>5, RecordsKept
      <3>3. \A d \in {dir'} : RecordAt(d)' = RecordAt(dir)
        BY <3>1
      <3> QED BY <1>1, <2>2, <3>1, <3>2, <3>3 DEF Current
    <2>10. PromiseKept' /\ FenceHolds'
      BY <1>1, <2>1, <2>9 DEF PromiseKept, FenceHolds
    <2>11. LeftoversNeverBlock'
      BY <1>1, <1>2, <2>1 DEF LeftoversNeverBlock
    <2>12. pc'[p] = "write" /\ "write" \in Steps \ {"idle"} /\ tfd'[p] = i
      BY <1>1, <1>4, <2>1 DEF TypeOK, HelperTypeOK, Steps
    <2>13. HelperInv(p)'
      <3>1. data'[dir'.tmp].state = "torn" /\ dir'.tmp # NoInode
        BY <1>4, <2>3, <2>4, <2>5, RecordsKept, ConstantsAssumption
      <3>2. \A d \in crashDirs' : d.rec # dir'.tmp
        BY <1>1, <2>2, <2>3, <2>4
      <3>3. SeenIsCurrent(p)'
        BY <1>0, <2>1, <2>3, <2>9, <2>12, WriterFacts DEF SeenIsCurrent, Writing
      <3>4. LegalWrite(p)'
        BY <1>0, <1>1, <2>1, <2>12 DEF HelperInv, LegalWrite, Writing
      <3> QED BY <2>3, <2>12, <3>1, <3>2, <3>3, <3>4
              DEF HelperInv, OpenRecord, TemporaryOwned, Published
    <2> QED BY <1>0, <1>1, <1>4, <2>1, <2>6, <2>8, <2>10, <2>11, <2>12, <2>13,
               WriterFacts, StepInv DEF TypeOK
  <1> QED BY <1>2, <1>3, <1>4 DEF Create

\* Filling and syncing the temporary.
LEMMA TemporaryStep ==
    ASSUME IInv, NEW p \in Helpers, pc[p] \in {"write", "fsync"},
           NEW s \in {"fsync", "check", "publish"}, Goto(p, s),
           NEW c \in Content, data' = [data EXCEPT ![tfd[p]] = c],
           c.trial = Target(p).trial, c.state = Target(p).state,
           s \in {"check", "publish"} => c.synced,
           NEW y \in Inodes \cup {NoInode}, tfd' = [tfd EXCEPT ![p] = y],
           s = "fsync" => y = tfd[p],
           UNCHANGED <<dir, crashDirs, dirLock, fd, seen, history>>
    PROVE  IInv'
  <1>0. pc[p] # "idle" /\ pc[p] \in Writing
    BY DEF Writing
  <1>1. TypeOK /\ DiskTypeOK /\ HelperInv(p) /\ PromiseKept /\ FenceHolds
        /\ LeftoversNeverBlock /\ RecordIntact /\ dir \in crashDirs
    BY DEF IInv, TypeOK
  <1>2. UNCHANGED <<unacked, promise, fenced, op, arg, out>> /\ pc' = [pc EXCEPT ![p] = s]
    BY DEF history, Goto
  <1>3. /\ tfd[p] = dir.tmp /\ dir.tmp # NoInode /\ data[dir.tmp].state # "foreign"
        /\ \A d \in crashDirs : d.rec # tfd[p]
    BY <1>1 DEF HelperInv, TemporaryOwned
  <1>4. dir.tmp \in Inodes
    BY <1>1, <1>3 DEF DiskTypeOK, Directory
  <1>5. /\ data' \in [Inodes -> Content] /\ data'[dir.tmp] = c
        /\ \A d \in crashDirs : d.rec # NoInode => data'[d.rec] = data[d.rec]
        /\ \A d \in crashDirs : RecordAt(d)' = RecordAt(d)
    BY <1>3, <1>4, RecordsKept
  <1>6. DiskTypeOK' /\ (dir \in crashDirs)'
    BY <1>1, <1>5 DEF DiskTypeOK
  <1>7. RecordIntact'
    BY <1>1, <1>5 DEF RecordIntact
  <1>8. Current' = Current
    BY <1>1, <1>5 DEF Current, RecordAt
  <1>9. PromiseKept' /\ FenceHolds'
    BY <1>1, <1>2, <1>5, <1>8 DEF PromiseKept, FenceHolds
  <1>10. LeftoversNeverBlock'
    BY <1>1, <1>2, <1>3 DEF LeftoversNeverBlock
  <1>11. pc'[p] = s /\ s \in Steps \ {"idle"} /\ tfd'[p] = y
    BY <1>1, <1>2 DEF TypeOK, HelperTypeOK, Steps
  <1>12. Target(p)' = Target(p)
    BY <1>2 DEF Target
  <1>13. Target(p).state # "foreign"
    BY <1>1, TargetType DEF States
  <1>14. SeenIsCurrent(p)'
    BY <1>0, <1>2, <1>8, <1>11, WriterFacts DEF SeenIsCurrent, Writing
  <1>15. LegalWrite(p)'
    BY <1>0, <1>1, <1>2, <1>11 DEF HelperInv, LegalWrite, Writing
  <1>16. TemporaryOwned(p)'
    BY <1>3, <1>5, <1>11, <1>12, <1>13 DEF TemporaryOwned
  <1>17. HelperInv(p)'
    BY <1>11, <1>14, <1>15, <1>16 DEF HelperInv, OpenRecord, Published
  <1> QED BY <1>0, <1>1, <1>2, <1>6, <1>7, <1>9, <1>10, <1>11, <1>17,
             WriterFacts, StepInv DEF TypeOK

\* Writing the temporary keeps the invariant.
LEMMA WriteInv ==
    ASSUME IInv, NEW p \in Helpers, Write(p)
    PROVE  IInv'
  <1> DEFINE c == [trial |-> Target(p).trial, state |-> Target(p).state, synced |-> FALSE]
  <1>1. TypeOK /\ pc[p] = "write" /\ pc[p] \in Writing
    BY DEF IInv, Write, Writing
  <1>2. c \in Content /\ c.trial = Target(p).trial /\ c.state = Target(p).state
    BY <1>1, TargetType DEF Content
  <1>3. /\ data' = [data EXCEPT ![tfd[p]] = c] /\ Goto(p, "fsync")
        /\ UNCHANGED <<dir, crashDirs, dirLock, fd, seen, history>>
        /\ tfd' = [tfd EXCEPT ![p] = tfd[p]]
    BY <1>1, WriterFacts DEF Write
  <1> HIDE DEF c
  <1> QED BY <1>1, <1>2, <1>3, WriterFacts, TemporaryStep

\* The fsync of the temporary makes its bytes durable, which Publish relies on.
LEMMA FsyncInv ==
    ASSUME IInv, NEW p \in Helpers, Fsync(p)
    PROVE  IInv'
  <1> DEFINE c == [data[tfd[p]] EXCEPT !.synced = TRUE]
             s == IF seen[p] = Absent THEN "publish" ELSE "check"
  <1>1. TypeOK /\ pc[p] = "fsync" /\ HelperInv(p)
    BY DEF IInv, Fsync
  <1>2. tfd[p] = dir.tmp /\ dir.tmp \in Inodes
        /\ data[dir.tmp].trial = Target(p).trial /\ data[dir.tmp].state = Target(p).state
    BY <1>1 DEF HelperInv, TemporaryOwned, TypeOK, DiskTypeOK, Directory
  <1>3. c \in Content /\ c.trial = Target(p).trial /\ c.state = Target(p).state /\ c.synced
    <2>1. data[tfd[p]] \in Content
      BY <1>1, <1>2 DEF TypeOK, DiskTypeOK
    <2> QED BY <1>2, <2>1 DEF Content
  <1>4. s \in {"check", "publish"}
    OBVIOUS
  <1>5. /\ data' = [data EXCEPT ![tfd[p]] = c] /\ Goto(p, s)
        /\ UNCHANGED <<dir, crashDirs, dirLock, fd, seen, history>>
        /\ tfd' = [tfd EXCEPT ![p] = NoInode]
    BY DEF Fsync
  <1> HIDE DEF c, s
  <1> QED BY <1>1, <1>3, <1>4, <1>5, TemporaryStep

\* The check before the rename keeps the invariant.
LEMMA CheckInv ==
    ASSUME IInv, NEW p \in Helpers, Check(p)
    PROVE  IInv'
  <1>1. pc[p] = "check" /\ pc[p] \in Writing /\ TypeOK /\ HelperInv(p)
    BY DEF IInv, Check, Writing
  <1>2. CASE dir.rec # fd[p]
    BY <1>1, <1>2, WriterFacts
  <1>3. CASE Goto(p, "publish") /\ UNCHANGED <<fs, dirLock, fd, tfd, seen, history>>
    <2>1. UNCHANGED <<dir, crashDirs, data, dirLock, fd, tfd, seen, unacked, promise, fenced, op, arg>>
          /\ pc' = [pc EXCEPT ![p] = "publish"]
      BY <1>3 DEF fs, history, Goto
    <2>2. pc'[p] = "publish" /\ "publish" \in Steps \ {"idle"}
      BY <1>1, <2>1 DEF TypeOK, HelperTypeOK, Steps
    <2>3. HelperInv(p)'
      BY <1>1, <2>1, <2>2
      DEF HelperInv, OpenRecord, SeenIsCurrent, LegalWrite, TemporaryOwned,
          Published, Writing, Current, RecordAt, Target
    <2> QED BY <1>1, <1>3, <2>1, <2>2, <2>3, WriterFacts, QuietInv, SMT
  <1> QED BY <1>2, <1>3 DEF Check

\* The rename publishes a whole, synced record and keeps the invariant.
LEMMA PublishInv ==
    ASSUME IInv, NEW p \in Helpers, Publish(p)
    PROVE  IInv'
  <1>0. pc[p] = "publish" /\ pc[p] # "idle" /\ pc[p] \in Writing
    BY DEF Publish, Writing
  <1>1. TypeOK /\ DiskTypeOK /\ HelperInv(p) /\ PromiseKept /\ FenceHolds
        /\ LeftoversNeverBlock /\ RecordIntact /\ dir \in crashDirs
    BY DEF IInv, TypeOK
  <1>2. /\ dir.tmp # NoInode /\ data[dir.tmp].state # "foreign"
        /\ data[dir.tmp].trial = Target(p).trial
        /\ data[dir.tmp].state = Target(p).state /\ data[dir.tmp].synced
    BY <1>0, <1>1 DEF HelperInv, TemporaryOwned
  <1>3. dir.tmp \in Inodes
    BY <1>1, <1>2 DEF DiskTypeOK, Directory
  <1>4. /\ SetDir([rec |-> dir.tmp, tmp |-> NoInode])
        /\ pc' = [pc EXCEPT ![p] = "dirSync"]
        /\ unacked' = IF op[p] = "healthy"
                      THEN [unacked EXCEPT ![seen[p].trial] = 0]
                      ELSE unacked
        /\ promise' = Absent
        /\ UNCHANGED <<data, dirLock, fd, tfd, seen, fenced, op, arg, out>>
    BY <1>0, <1>2, WriterFacts DEF Publish, Goto
  <1>5. /\ dir' = [rec |-> dir.tmp, tmp |-> NoInode] /\ dir' \in Directory
        /\ dir'.rec = dir.tmp /\ crashDirs' = crashDirs \cup {dir'}
    BY <1>3, <1>4 DEF SetDir, Directory
  <1>6. DiskTypeOK' /\ (dir \in crashDirs)'
    BY <1>1, <1>4, <1>5 DEF DiskTypeOK
  <1>7. RecordIntact'
    BY <1>1, <1>2, <1>4, <1>5, TargetType DEF RecordIntact
  <1>8. Current' = Target(p) /\ Target(p)' = Target(p)
    <2>1. Target(p)' = Target(p)
      BY <1>4 DEF Target
    <2>2. Target(p) = [trial |-> Target(p).trial, state |-> Target(p).state]
      BY <1>1, TargetType DEF Record
    <2> QED BY <1>2, <1>4, <1>5, <2>1, <2>2 DEF Current, RecordAt
  <1>9. fenced = {}
    <2>1. Current.state # "failed"
      <3>1. CASE seen[p] = Absent
        <4>1. Current = Absent
          BY <1>0, <3>1, WriterFacts DEF Current, RecordAt
        <4> QED BY <4>1, AbsentFacts
      <3>2. CASE seen[p] # Absent
        BY <1>0, <1>1, <3>2, WriterFacts, SMT DEF HelperInv, LegalWrite, Writing
      <3> QED BY <3>1, <3>2
    <2> QED BY <1>1, <2>1, SMT DEF FenceHolds
  <1>10. PromiseKept' /\ FenceHolds'
    BY <1>4, <1>9 DEF PromiseKept, FenceHolds
  <1>11. LeftoversNeverBlock'
    BY <1>1, <1>2, <1>4 DEF LeftoversNeverBlock
  <1>12. pc'[p] = "dirSync" /\ "dirSync" \in Steps \ {"idle"}
    BY <1>1, <1>4 DEF TypeOK, HelperTypeOK, Steps
  <1>13. LegalWrite(p)'
    BY <1>0, <1>1, <1>4, <1>12 DEF HelperInv, LegalWrite, Writing
  <1>14. HelperInv(p)'
    BY <1>8, <1>12, <1>13 DEF HelperInv, OpenRecord, SeenIsCurrent, TemporaryOwned,
       Published, Writing
  <1>15. unacked' \in [Trials -> Nat]
    BY <1>1, <1>4 DEF TypeOK
  <1> QED BY <1>0, <1>1, <1>4, <1>6, <1>7, <1>10, <1>11, <1>12, <1>14, <1>15,
             WriterFacts, StepInv

\* The directory fsync leaves the published record as the only survivor.
LEMMA DirSyncInv ==
    ASSUME IInv, NEW p \in Helpers, DirSync(p)
    PROVE  IInv'
  <1> DEFINE s == IF op[p] \in {"reject", "rollback"} THEN "report" ELSE "reopen"
  <1>0. pc[p] = "dirSync" /\ pc[p] # "idle"
    BY DEF DirSync
  <1>1. TypeOK /\ HelperInv(p)
    BY DEF IInv
  <1>2. SyncDir /\ UNCHANGED <<dirLock, tfd, seen, unacked, promise, fenced, op, arg, out>>
        /\ pc' = [pc EXCEPT ![p] = s] /\ fd' = [fd EXCEPT ![p] = NoInode]
    BY DEF DirSync, history, Goto
  <1>3. s \in {"report", "reopen"} /\ s \in Steps \ {"idle"}
    BY DEF Steps
  <1> HIDE DEF s
  <1>4. pc'[p] = s /\ fd'[p] = NoInode
    BY <1>1, <1>2 DEF TypeOK, HelperTypeOK
  <1>5. Current = Target(p) /\ Target(p)' = Target(p)
    BY <1>0, <1>1, <1>2 DEF HelperInv, Published, Target
  <1>6. LegalWrite(p)'
    BY <1>0, <1>1, <1>2, <1>3, <1>4 DEF HelperInv, LegalWrite
  <1>7. \A d \in crashDirs' : RecordAt(d)' = Target(p)'
    BY <1>2, <1>5, SyncSettles
  <1>8. Published(p)'
    BY <1>3, <1>4, <1>7 DEF Published
  <1>9. HelperInv(p)'
    BY <1>3, <1>4, <1>6, <1>8
    DEF HelperInv, OpenRecord, SeenIsCurrent, TemporaryOwned, Writing
  <1>10. tfd[p] \in Inodes \cup {NoInode} /\ tfd = [tfd EXCEPT ![p] = tfd[p]]
        /\ seen[p] \in Record \cup {Absent} /\ seen = [seen EXCEPT ![p] = seen[p]]
    BY <1>1 DEF TypeOK, HelperTypeOK
  <1> QED BY <1>0, <1>1, <1>2, <1>3, <1>9, <1>10, SyncSettles, SyncHistory, StepInv
          DEF TypeOK

\* read_record of what was published: the record cannot be held by anyone else.
LEMMA ReopenInv ==
    ASSUME IInv, NEW p \in Helpers, Reopen(p)
    PROVE  IInv'
  <1>0. pc[p] = "reopen" /\ pc[p] # "idle"
    BY DEF Reopen
  <1>1. TypeOK /\ HelperInv(p) /\ dir \in crashDirs
    BY DEF IInv
  <1>2. Current = Target(p) /\ fd[p] = NoInode
    BY <1>0, <1>1 DEF HelperInv, Published, OpenRecord, Current
  <1>3. dir.rec # NoInode
    BY <1>1, <1>2, TargetType, AbsentFacts DEF Current, RecordAt
  <1>4. /\ pc' = [pc EXCEPT ![p] = "reread"] /\ fd' = [fd EXCEPT ![p] = dir.rec]
        /\ UNCHANGED <<dir, crashDirs, data, dirLock, tfd, seen, unacked, promise, fenced>>
        /\ UNCHANGED <<op, arg>> /\ Goto(p, "reread")
    BY <1>0, <1>2, <1>3, NotFlocked DEF Reopen, Goto, fs, history
  <1>5. /\ pc'[p] = "reread" /\ fd'[p] = dir.rec /\ "reread" \in Steps \ {"idle"}
        /\ dir.rec \in Inodes \cup {NoInode}
        /\ seen[p] \in Record \cup {Absent} /\ seen = [seen EXCEPT ![p] = seen[p]]
    BY <1>1, <1>4 DEF TypeOK, HelperTypeOK, DiskTypeOK, Directory, Steps
  <1>6. Target(p)' = Target(p) /\ \A d \in crashDirs : RecordAt(d)' = RecordAt(d)
    BY <1>4 DEF Target, RecordAt
  <1>7. LegalWrite(p)' /\ Published(p)'
    BY <1>0, <1>1, <1>4, <1>5, <1>6 DEF HelperInv, LegalWrite, Published
  <1>8. HelperInv(p)'
    BY <1>3, <1>4, <1>5, <1>7
    DEF HelperInv, OpenRecord, SeenIsCurrent, TemporaryOwned, Writing
  <1> QED BY <1>0, <1>4, <1>5, <1>8, QuietInv

\* The comparison of the record read back with the one that was meant.
LEMMA RereadInv ==
    ASSUME IInv, NEW p \in Helpers, Reread(p)
    PROVE  IInv'
  <1>0. pc[p] = "reread" /\ pc[p] # "idle"
    BY DEF Reread
  <1>1. TypeOK /\ HelperInv(p) /\ dir \in crashDirs /\ RecordIntact
    BY DEF IInv
  <1>2. Current = Target(p) /\ fd[p] = dir.rec /\ dir.rec # NoInode
    BY <1>0, <1>1 DEF HelperInv, Published, OpenRecord, Current
  <1>3. ~ReadRefused(p)
    BY <1>1, <1>2 DEF ReadRefused, RecordIntact
  <1>4. /\ pc' = [pc EXCEPT ![p] = "report"]
        /\ UNCHANGED <<dir, crashDirs, data, dirLock, fd, tfd, seen, unacked, promise, fenced>>
        /\ UNCHANGED <<op, arg>> /\ Goto(p, "report")
    BY <1>2, <1>3 DEF Reread, Goto, fs, history
  <1>5. /\ pc'[p] = "report" /\ "report" \in Steps \ {"idle"}
        /\ fd[p] \in Inodes \cup {NoInode} /\ fd = [fd EXCEPT ![p] = fd[p]]
        /\ seen[p] \in Record \cup {Absent} /\ seen = [seen EXCEPT ![p] = seen[p]]
    BY <1>1, <1>4 DEF TypeOK, HelperTypeOK, Steps
  <1>6. Target(p)' = Target(p) /\ \A d \in crashDirs : RecordAt(d)' = RecordAt(d)
    BY <1>4 DEF Target, RecordAt
  <1>7. LegalWrite(p)' /\ Published(p)'
    BY <1>0, <1>1, <1>4, <1>5, <1>6 DEF HelperInv, LegalWrite, Published
  <1>8. HelperInv(p)'
    BY <1>5, <1>7
    DEF HelperInv, OpenRecord, SeenIsCurrent, TemporaryOwned, Writing
  <1> QED BY <1>0, <1>4, <1>5, <1>8, QuietInv

\* The report makes the promise, and a rollback's report the fence.
LEMMA ReportInv ==
    ASSUME IInv, NEW p \in Helpers, Report(p)
    PROVE  IInv'
  <1> DEFINE o == CASE op[p] = "decide"  -> "primary"
                    [] op[p] = "healthy" -> "healthy"
                    [] OTHER             -> "rollback"
  <1>0. pc[p] = "report" /\ pc[p] # "idle"
    BY DEF Report
  <1>1. TypeOK /\ HelperInv(p) /\ dir \in crashDirs /\ FenceHolds
    BY DEF IInv
  <1>2. \A d \in crashDirs : RecordAt(d) = Target(p)
    BY <1>0, <1>1 DEF HelperInv, Published
  <1>3. /\ Exit(p, o) /\ UNCHANGED <<dir, crashDirs, data>> /\ promise' = Target(p)
        /\ unacked' = IF op[p] = "decide" THEN [unacked EXCEPT ![arg[p]] = @ + 1] ELSE unacked
        /\ fenced' = IF op[p] \in {"reject", "rollback"} THEN fenced \cup {seen[p].trial}
                                                        ELSE fenced
    BY DEF Report, fs
  <1>4. o \in Outcomes \ {"concurrent", "unsafe"}
    BY DEF Outcomes, States
  <1> HIDE DEF o
  <1>5. out' = o
    BY <1>3 DEF Exit
  <1>6. PromiseKept' /\ LeftoversNeverBlock'
    <2>1. \A d \in crashDirs : RecordAt(d)' = RecordAt(d)
      BY <1>3 DEF RecordAt
    <2> QED BY <1>2, <1>3, <1>4, <1>5, <2>1 DEF PromiseKept, LeftoversNeverBlock
  <1>7. unacked' \in [Trials -> Nat] /\ promise' \in Record \cup {Absent}
    <2>1. arg[p] \in Trials /\ unacked \in [Trials -> Nat]
      BY <1>1 DEF TypeOK, HelperTypeOK
    <2>2. [unacked EXCEPT ![arg[p]] = @ + 1] \in [Trials -> Nat]
      BY <2>1, SMT
    <2>3. unacked' \in [Trials -> Nat]
      BY <1>3, <2>1, <2>2
    <2> QED BY <1>1, <1>3, <2>3, TargetType
  <1>8. seen[p].trial \in Trials
    BY <1>1, AbsentFacts DEF TypeOK, HelperTypeOK, Record
  <1>9. fenced' \in SUBSET Trials
    BY <1>1, <1>3, <1>8 DEF TypeOK
  <1>10. Current' = Current /\ Current = Target(p)
    BY <1>1, <1>2, <1>3 DEF Current, RecordAt
  <1>11. FenceHolds'
    <2>1. CASE op[p] \in {"reject", "rollback"}
      BY <1>1, <1>3, <1>10, <2>1, TargetType DEF FenceHolds
    <2>2. CASE op[p] \notin {"reject", "rollback"}
      BY <1>1, <1>3, <1>10, <2>2 DEF FenceHolds
    <2> QED BY <2>1, <2>2
  <1> QED BY <1>0, <1>3, <1>4, <1>6, <1>7, <1>9, <1>11, ExitInv

\* Power loss keeps every synced byte, and some directory state since the
\* last fsync of the directory.
LEMMA PowerLossInv ==
    ASSUME IInv, PowerLoss
    PROVE  IInv'
  <1>1. TypeOK /\ DiskTypeOK /\ RecordIntact /\ PromiseKept
    BY DEF IInv, TypeOK
  <1>2. dir' \in crashDirs /\ crashDirs' = {dir'}
    BY DEF PowerLoss
  <1>3. PICK torn \in SUBSET {i \in Inodes : ~data[i].synced} :
           data' = [i \in Inodes |->
                       IF i \in torn \/ i \notin {dir'.rec, dir'.tmp}
                       THEN Torn(TRUE)
                       ELSE [data[i] EXCEPT !.synced = TRUE]]
    BY DEF PowerLoss
  <1>4. Torn(TRUE) \in Content
    BY AbsentFacts DEF Torn, Content
  <1>5. \A x \in Content : /\ [x EXCEPT !.synced = TRUE] \in Content
                           /\ [x EXCEPT !.synced = TRUE].trial = x.trial
                           /\ [x EXCEPT !.synced = TRUE].state = x.state
                           /\ [x EXCEPT !.synced = TRUE].synced
    BY DEF Content
  <1>6. data' \in [Inodes -> Content]
    <2>1. \A i \in Inodes : data[i] \in Content
      BY <1>1 DEF DiskTypeOK
    <2> QED BY <1>3, <1>4, <1>5, <2>1
  <1>7. DiskTypeOK' /\ (dir \in crashDirs)'
    BY <1>1, <1>2, <1>6 DEF DiskTypeOK
  <1>8. dir'.rec # NoInode => /\ dir'.rec \in Inodes
                              /\ data[dir'.rec] \in Content
                              /\ data[dir'.rec].synced
                              /\ data[dir'.rec].state \in States
                              /\ data'[dir'.rec] = [data[dir'.rec] EXCEPT !.synced = TRUE]
    <2> SUFFICES ASSUME dir'.rec # NoInode
                 PROVE  /\ dir'.rec \in Inodes
                        /\ data[dir'.rec] \in Content
                        /\ data[dir'.rec].synced
                        /\ data[dir'.rec].state \in States
                        /\ data'[dir'.rec] = [data[dir'.rec] EXCEPT !.synced = TRUE]
      OBVIOUS
    <2>1. dir'.rec \in Inodes
      BY <1>1, <1>2 DEF DiskTypeOK, Directory
    <2>2. data[dir'.rec] \in Content /\ data[dir'.rec].synced
          /\ data[dir'.rec].state \in States
      BY <1>1, <1>2, <2>1 DEF DiskTypeOK, RecordIntact
    <2>3. dir'.rec \notin torn
      BY <1>3, <2>2
    <2> QED BY <1>3, <2>1, <2>2, <2>3
  <1>9. RecordIntact'
    BY <1>2, <1>5, <1>8 DEF RecordIntact
  <1>10. \A d \in crashDirs' : d \in crashDirs /\ RecordAt(d)' = RecordAt(d)
    <2> TAKE d \in crashDirs'
    <2>1. d = dir' /\ d \in crashDirs
      BY <1>2
    <2>2. d.rec # NoInode => /\ data'[d.rec].trial = data[d.rec].trial
                             /\ data'[d.rec].state = data[d.rec].state
      BY <1>5, <1>8, <2>1
    <2> QED BY <2>1, <2>2 DEF RecordAt
  <1>11. promise' = promise /\ unacked' = unacked /\ fenced' = {} /\ out' = "none"
         /\ dirLock' = NoHelper
    BY DEF PowerLoss
  <1>12. PromiseKept'
    BY <1>1, <1>2, <1>10, <1>11 DEF PromiseKept
  <1>13. FenceHolds' /\ LeftoversNeverBlock'
    BY <1>11 DEF FenceHolds, LeftoversNeverBlock
  <1>14. HelperTypeOK'
    BY AbsentFacts DEF PowerLoss, HelperTypeOK, Steps, Ops
  <1>15. TypeOK'
    BY <1>1, <1>7, <1>11, <1>14 DEF TypeOK, Outcomes
  <1>16. \A q \in Helpers : /\ pc'[q] = "idle" /\ fd'[q] = NoInode
                            /\ tfd'[q] = NoInode /\ seen'[q] = Absent
    BY DEF PowerLoss
  <1>17. Exclusive'
    BY <1>11, <1>16, ConstantsAssumption DEF Exclusive
  <1>18. \A q \in Helpers : HelperInv(q)'
    BY <1>16, IdleInvNext
  <1> QED BY <1>7, <1>9, <1>12, <1>13, <1>15, <1>17, <1>18 DEF IInv

\* A stuttering step keeps the invariant.
LEMMA StutterInv ==
    ASSUME IInv, UNCHANGED vars
    PROVE  IInv'
  <1>1. UNCHANGED <<dir, crashDirs, data, dirLock, pc, op, arg, fd, tfd, seen, out,
                    unacked, promise, fenced>>
    BY DEF vars
  <1>2. TypeOK' /\ (dir \in crashDirs)' /\ Exclusive' /\ RecordIntact'
    BY <1>1 DEF IInv, TypeOK, DiskTypeOK, HelperTypeOK, Exclusive, RecordIntact
  <1>3. PromiseKept' /\ FenceHolds' /\ LeftoversNeverBlock'
    BY <1>1 DEF IInv, PromiseKept, FenceHolds, LeftoversNeverBlock, Current, RecordAt
  <1>4. ASSUME NEW p \in Helpers PROVE HelperInv(p)'
    <2>1. HelperInv(p)
      BY DEF IInv
    <2> QED BY <1>1, <2>1, SMT DEF HelperInv, OpenRecord, SeenIsCurrent, LegalWrite,
               TemporaryOwned, Published, Current, RecordAt, Target
  <1> QED BY <1>2, <1>3, <1>4 DEF IInv

\* Every step of a helper, its death and power loss preserve the invariant.
LEMMA NextInv ==
    ASSUME IInv, [Next]_vars
    PROVE  IInv'
  <1>1. CASE UNCHANGED vars
    BY <1>1, StutterInv
  <1>2. CASE PowerLoss
    BY <1>2, PowerLossInv
  <1>3. ASSUME NEW p \in Helpers,
               \/ \E o \in Ops, t \in Trials : Start(p, o, t)
               \/ Progress(p)
               \/ Killed(p)
        PROVE  IInv'
    <2>1. CASE \E o \in Ops, t \in Trials : Start(p, o, t)
      BY <2>1, StartInv
    <2>2. CASE Killed(p)
      BY <2>2, FailInv DEF Killed, Outcomes
    <2>3. CASE Progress(p)
      BY <2>3, RecoverInv, RecoverSyncInv, OpenInv, ReadInv, ActInv, CreateInv,
         WriteInv, FsyncInv, CheckInv, PublishInv, DirSyncInv, ReopenInv,
         RereadInv, ReportInv
      DEF Progress
    <2> QED BY <1>3, <2>1, <2>2, <2>3
  <1> QED BY <1>1, <1>2, <1>3 DEF Next

\* The inductive invariant holds in every reachable state of the helper model.
THEOREM Invariance == Spec => []IInv
  BY InitInv, NextInv, PTL DEF Spec

\* Every variable keeps its type, for any set of helpers, inodes and trials.
THEOREM TypeCorrect == Spec => []TypeOK
  <1>1. IInv => TypeOK
    BY DEF IInv
  <1> QED BY <1>1, Invariance, PTL

\* No interleaving, kill or power loss leaves torn bytes under the record name.
THEOREM RecordSafety == Spec => []RecordIntact
  <1>1. IInv => RecordIntact
    BY DEF IInv
  <1> QED BY <1>1, Invariance, PTL

\* What a writer reported survives every power loss until the next publication.
THEOREM PromiseSafety == Spec => []PromiseKept
  <1>1. IInv => PromiseKept
    BY DEF IInv
  <1> QED BY <1>1, Invariance, PTL

\* A reported rollback fences every later health commit of that boot.
THEOREM FenceSafety == Spec => []FenceHolds
  <1>1. IInv => FenceHolds
    BY DEF IInv
  <1> QED BY <1>1, Invariance, PTL

\* Nothing a helper leaves behind makes a later helper refuse its work.
THEOREM LeftoverSafety == Spec => []LeftoversNeverBlock
  <1>1. IInv => LeftoversNeverBlock
    BY DEF IInv
  <1> QED BY <1>1, Invariance, PTL

-----------------------------------------------------------------------------
(* The helper implements the durable cell.                                  *)

\* The cell's variables.
Survivors == {RecordAt(d) : d \in crashDirs}

Late == {"dirSync", "reopen", "reread", "report"}

Armed == {arg[p] : p \in {q \in Helpers : op[q] = "decide" /\ pc[q] \in Late}}

\* A decision is armed from its rename to its report.
LEMMA ArmedHere ==
    ASSUME IInv, NEW p \in Helpers, pc[p] # "idle"
    PROVE  Armed = IF op[p] = "decide" /\ pc[p] \in Late THEN {arg[p]} ELSE {}
  <1>1. \A q \in Helpers \ {p} : pc[q] \notin Late
    BY Alone DEF Late
  <1> QED BY <1>1 DEF Armed

\* The same in the next state.
LEMMA ArmedNext ==
    ASSUME IInv', NEW p \in Helpers, pc'[p] # "idle"
    PROVE  Armed' = IF op'[p] = "decide" /\ pc'[p] \in Late THEN {arg'[p]} ELSE {}
  <1>1. \A q \in Helpers \ {p} : pc'[q] \notin Late
    BY DEF IInv, Exclusive, Late
  <1> QED BY <1>1 DEF Armed

\* Nothing is armed when every helper is idle, in this state ...
LEMMA ArmedIdle ==
    ASSUME \A q \in Helpers : pc[q] = "idle"
    PROVE  Armed = {}
  BY DEF Armed, Late

\* ... and in the next.
LEMMA ArmedIdleNext ==
    ASSUME \A q \in Helpers : pc'[q] = "idle"
    PROVE  Armed' = {}
  BY DEF Armed, Late

\* A helper that exits leaves nobody at work.
LEMMA ExitLapses ==
    ASSUME IInv, NEW p \in Helpers, pc[p] # "idle", NEW o, Exit(p, o)
    PROVE  Armed' = {}
  <1>1. \A q \in Helpers : pc'[q] = "idle"
    BY Alone DEF IInv, TypeOK, HelperTypeOK, Exit
  <1> QED BY <1>1, ArmedIdleNext

\* A helper that fails changes no record: at most its decision lapses.
LEMMA FailLapses ==
    ASSUME IInv, NEW p \in Helpers, pc[p] # "idle", NEW o, Exit(p, o), UNCHANGED <<fs, unacked>>
    PROVE  Cell!Lapse
  <1>1. Current' = Current /\ Survivors' = Survivors
    BY DEF fs, Current, Survivors, RecordAt
  <1> QED BY <1>1, ExitLapses DEF Cell!Lapse, Survivors, Armed, Late

\* A step within a run that touches no record and does not pass the rename.
LEMMA QuietStutters ==
    ASSUME IInv, IInv', NEW p \in Helpers, pc[p] # "idle", NEW s \in Steps \ {"idle"}, Goto(p, s),
           op[p] = "decide" => (s \in Late <=> pc[p] \in Late),
           Current' = Current, Survivors' = Survivors, UNCHANGED unacked
    PROVE  UNCHANGED Cell!cellVars
  <1>1. pc'[p] = s /\ op' = op /\ arg' = arg
    BY DEF IInv, TypeOK, HelperTypeOK, Goto
  <1>2. Armed' = Armed
    BY <1>1, ArmedHere, ArmedNext
  <1> QED BY <1>2 DEF Cell!cellVars, Survivors, Armed, Late

\* The fsync of the directory settles the cell.
LEMMA SyncRefines ==
    ASSUME IInv, IInv', NEW p \in Helpers, pc[p] # "idle", NEW s \in Steps \ {"idle"}, Goto(p, s),
           op[p] = "decide" => (s \in Late <=> pc[p] \in Late), SyncDir, UNCHANGED unacked
    PROVE  Cell!Settle
  <1>1. pc'[p] = s /\ op' = op /\ arg' = arg
    BY DEF IInv, TypeOK, HelperTypeOK, Goto
  <1>2. Armed' = Armed
    BY <1>1, ArmedHere, ArmedNext
  <1>3. Current' = Current /\ Survivors' = {Current}
    BY SyncSettles DEF Survivors
  <1> QED BY <1>2, <1>3 DEF Cell!Settle, Survivors, Armed, Late

\* Up to the decision on the record: at most a leftover temporary goes.
LEMMA ReadingRefines ==
    ASSUME IInv, IInv', NEW p \in Helpers,
           Recover(p) \/ RecoverSync(p) \/ Open(p) \/ Read(p) \/ Act(p)
    PROVE  Cell!Lapse \/ Cell!Settle \/ UNCHANGED Cell!cellVars
  <1>0. pc[p] # "idle" /\ pc[p] \notin Late
    BY DEF Recover, RecoverSync, Open, Read, Act, Late
  <1>1. AfterRecover(p) \in {"open", "act"}
    BY DEF AfterRecover
  <1>2. ASSUME UNCHANGED fs PROVE Current' = Current /\ Survivors' = Survivors
    BY <1>2 DEF fs, Current, Survivors, RecordAt
  <1>3. ASSUME Recover(p) PROVE Cell!Lapse \/ UNCHANGED Cell!cellVars
    <2>1. CASE Fail(p, "unsafe") \/ Fail(p, "concurrent")
      BY <1>0, <2>1, FailLapses DEF Fail, history
    <2>2. CASE Goto(p, AfterRecover(p)) /\ UNCHANGED <<fs, unacked>>
      BY <1>0, <1>1, <1>2, <2>2, QuietStutters DEF Steps, Late
    <2>3. CASE SetDir([dir EXCEPT !.tmp = NoInode]) /\ UNCHANGED <<data, unacked>> /\ Goto(p, "recoverSync")
      <3>1. Current' = Current /\ \A d \in crashDirs' : \E e \in crashDirs : RecordAt(d)' = RecordAt(e)
        BY <2>3, UnlinkKeepsRecords
      <3>2. \A d \in crashDirs : d \in crashDirs' /\ RecordAt(d)' = RecordAt(d)
        BY <2>3 DEF SetDir, RecordAt
      <3>3. Survivors' = Survivors
        BY <3>1, <3>2 DEF Survivors
      <3> QED BY <1>0, <2>3, <3>1, <3>3, QuietStutters DEF Steps, Late
    <2> QED BY <1>3, <2>1, <2>2, <2>3 DEF Recover, history
  <1>4. ASSUME RecoverSync(p) PROVE Cell!Settle
    BY <1>0, <1>1, <1>4, SyncRefines DEF RecoverSync, Steps, Late, history
  <1>5. ASSUME Open(p) PROVE Cell!Lapse \/ UNCHANGED Cell!cellVars
    <2>1. CASE Fail(p, "refused") \/ Fail(p, "concurrent")
      BY <1>0, <2>1, FailLapses DEF Fail, history
    <2>2. CASE (Goto(p, "create") \/ Goto(p, "read")) /\ UNCHANGED <<fs, unacked>>
      BY <1>0, <1>2, <2>2, QuietStutters DEF Steps, Late
    <2> QED BY <1>5, <2>1, <2>2 DEF Open, history
  <1>6. ASSUME Read(p) PROVE Cell!Lapse \/ UNCHANGED Cell!cellVars
    <2>1. CASE \E o : Exit(p, o) /\ UNCHANGED <<fs, unacked>>
      BY <1>0, <2>1, FailLapses
    <2>2. CASE (Goto(p, "create") \/ Goto(p, "recover")) /\ UNCHANGED <<fs, unacked>>
      BY <1>0, <1>2, <2>2, QuietStutters DEF Steps, Late
    <2> QED BY <1>6, <2>1, <2>2 DEF Read, Fail, history
  <1>7. ASSUME Act(p) PROVE Cell!Lapse \/ UNCHANGED Cell!cellVars
    <2>1. CASE \E o : Exit(p, o) /\ UNCHANGED <<fs, unacked>>
      BY <1>0, <2>1, FailLapses
    <2>2. CASE Goto(p, "create") /\ UNCHANGED <<fs, unacked>>
      BY <1>0, <1>2, <2>2, QuietStutters DEF Steps, Late
    <2> QED BY <1>7, <2>1, <2>2 DEF Act, Fail, history
  <1> QED BY <1>3, <1>4, <1>5, <1>6, <1>7

\* Up to the rename the writer works on a temporary that is no record.
LEMMA WritingRefines ==
    ASSUME IInv, IInv', NEW p \in Helpers, Create(p) \/ Write(p) \/ Fsync(p) \/ Check(p)
    PROVE  Cell!Lapse \/ UNCHANGED Cell!cellVars
  <1>0. pc[p] # "idle" /\ pc[p] \notin Late /\ pc[p] \in Writing
    BY DEF Create, Write, Fsync, Check, Late, Writing
  <1>1. dir \in crashDirs /\ DiskTypeOK /\ HelperInv(p)
    BY DEF IInv, TypeOK
  <1>2. ASSUME Create(p) PROVE Cell!Lapse \/ UNCHANGED Cell!cellVars
    <2>1. CASE Fail(p, "concurrent") \/ Fail(p, "full")
      BY <1>0, <2>1, FailLapses DEF Fail, history
    <2>2. ASSUME NEW i \in Inodes, Free(i), SetDir([dir EXCEPT !.tmp = i]),
                 data' = [data EXCEPT ![i] = Torn(FALSE)], Goto(p, "write"), UNCHANGED unacked
          PROVE  UNCHANGED Cell!cellVars
      <3>1. Torn(FALSE) \in Content /\ \A d \in crashDirs : d.rec # i
        BY <2>2, AbsentFacts DEF Torn, Content, Free
      <3>2. \A d \in crashDirs : RecordAt(d)' = RecordAt(d)
        BY <2>2, <3>1, RecordsKept
      <3>3. crashDirs' = crashDirs \cup {dir'} /\ dir'.rec = dir.rec
        BY <1>1, <2>2 DEF SetDir, DiskTypeOK, Directory
      <3>4. RecordAt(dir)' = RecordAt(dir)
        <4>1. dir.rec # NoInode => data'[dir.rec] = data[dir.rec]
          BY <1>1, <2>2, <3>1, RecordsKept
        <4> QED BY <3>3, <4>1 DEF RecordAt
      <3>5. Survivors' = Survivors /\ Current' = Current
        BY <1>1, <3>2, <3>3, <3>4 DEF Survivors, Current
      <3> QED BY <1>0, <2>2, <3>5, QuietStutters DEF Steps, Late
    <2> QED BY <1>2, <2>1, <2>2 DEF Create, history
  <1>3. ASSUME UNCHANGED <<dir, crashDirs, unacked>>, NEW c \in Content,
               pc[p] \in {"write", "fsync"}, data' = [data EXCEPT ![tfd[p]] = c],
               NEW s \in {"fsync", "check", "publish"}, Goto(p, s)
        PROVE  UNCHANGED Cell!cellVars
    <2>1. \A d \in crashDirs : d.rec # tfd[p]
      BY <1>1, <1>3 DEF HelperInv, TemporaryOwned
    <2>2. \A d \in crashDirs : RecordAt(d)' = RecordAt(d)
      BY <1>3, <2>1, RecordsKept
    <2>3. RecordAt(dir)' = RecordAt(dir)
      BY <1>1, <1>3, <2>2 DEF RecordAt
    <2>4. Survivors' = Survivors /\ Current' = Current
      BY <1>3, <2>2, <2>3 DEF Survivors, Current
    <2> QED BY <1>0, <1>3, <2>4, QuietStutters DEF Steps, Late
  <1>4. ASSUME Write(p) PROVE UNCHANGED Cell!cellVars
    <2> DEFINE c == [trial |-> Target(p).trial, state |-> Target(p).state, synced |-> FALSE]
    <2>1. c \in Content
      BY TargetType DEF IInv, Content
    <2>2. data' = [data EXCEPT ![tfd[p]] = c] /\ Goto(p, "fsync") /\ pc[p] = "write"
          /\ UNCHANGED <<dir, crashDirs, unacked>>
      BY <1>4 DEF Write, history
    <2> HIDE DEF c
    <2> QED BY <1>3, <2>1, <2>2
  <1>5. ASSUME Fsync(p) PROVE UNCHANGED Cell!cellVars
    <2> DEFINE c == [data[tfd[p]] EXCEPT !.synced = TRUE]
    <2>1. tfd[p] \in Inodes /\ pc[p] = "fsync"
      BY <1>1, <1>5 DEF Fsync, HelperInv, TemporaryOwned, DiskTypeOK, Directory
    <2>2. c \in Content
      BY <1>1, <2>1 DEF DiskTypeOK, Content
    <2>3. data' = [data EXCEPT ![tfd[p]] = c] /\ (Goto(p, "publish") \/ Goto(p, "check"))
          /\ UNCHANGED <<dir, crashDirs, unacked>>
      BY <1>5 DEF Fsync, history
    <2> HIDE DEF c
    <2> QED BY <1>3, <2>1, <2>2, <2>3
  <1>6. ASSUME Check(p) PROVE Cell!Lapse \/ UNCHANGED Cell!cellVars
    <2>1. CASE Fail(p, "concurrent")
      BY <1>0, <2>1, FailLapses DEF Fail, history
    <2>2. CASE Goto(p, "publish") /\ UNCHANGED <<fs, unacked>>
      <3>1. Current' = Current /\ Survivors' = Survivors
        BY <2>2 DEF fs, Current, Survivors, RecordAt
      <3> QED BY <1>0, <2>2, <3>1, QuietStutters DEF Steps, Late
    <2> QED BY <1>6, <2>1, <2>2 DEF Check, history
  <1> QED BY <1>2, <1>4, <1>5, <1>6

\* The rename is the step at which an operation takes effect.
LEMMA PublishRefines ==
    ASSUME IInv, IInv', NEW p \in Helpers, Publish(p)
    PROVE  Cell!Lapse \/ \E t \in Trials : Cell!Arm(t) \/ Cell!Commit(t) \/ Cell!Reject(t)
  <1>0. pc[p] = "publish" /\ pc[p] # "idle" /\ pc[p] \notin Late /\ pc[p] \in Writing
    BY DEF Publish, Late, Writing
  <1>1. TypeOK /\ DiskTypeOK /\ HelperTypeOK /\ HelperInv(p) /\ dir \in crashDirs
    BY DEF IInv, TypeOK
  <1>2. CASE Fail(p, "concurrent")
    BY <1>0, <1>2, FailLapses DEF Fail, history
  <1>3. ASSUME dir.tmp # NoInode, SetDir([rec |-> dir.tmp, tmp |-> NoInode]), Goto(p, "dirSync"),
               unacked' = IF op[p] = "healthy" THEN [unacked EXCEPT ![seen[p].trial] = 0] ELSE unacked,
               UNCHANGED data
        PROVE  \E t \in Trials : Cell!Arm(t) \/ Cell!Commit(t) \/ Cell!Reject(t)
    <2>1. Current' = Target(p)
      <3>1. data[dir.tmp].trial = Target(p).trial /\ data[dir.tmp].state = Target(p).state
        BY <1>0, <1>1 DEF HelperInv, TemporaryOwned
      <3>2. dir' = [rec |-> dir.tmp, tmp |-> NoInode] /\ dir'.rec = dir.tmp
        BY <1>3 DEF SetDir
      <3>3. Current' = [trial |-> Target(p).trial, state |-> Target(p).state]
        BY <1>3, <3>1, <3>2 DEF Current, RecordAt
      <3> QED BY <1>1, <3>3, TargetType DEF Record
    <2>2. Survivors' = Survivors \cup {Target(p)}
      <3>1. crashDirs' = crashDirs \cup {dir'} /\ \A d : RecordAt(d)' = IF d.rec = NoInode THEN Absent
               ELSE [trial |-> data[d.rec].trial, state |-> data[d.rec].state]
        BY <1>3 DEF SetDir, RecordAt
      <3>2. RecordAt(dir)' = Target(p)
        BY <2>1 DEF Current
      <3>3. \A d \in crashDirs : RecordAt(d)' = RecordAt(d)
        BY <1>3 DEF RecordAt
      <3> QED BY <3>1, <3>2, <3>3 DEF Survivors
    <2>3. pc'[p] = "dirSync" /\ op' = op /\ arg' = arg
      BY <1>1, <1>3 DEF Goto, HelperTypeOK
    <2>4. Armed = {} /\ Armed' = IF op[p] = "decide" THEN {arg[p]} ELSE {}
      BY <1>0, <2>3, ArmedHere, ArmedNext DEF Late
    <2>5. arg[p] \in Trials /\ seen[p].trial \in Trials /\ (seen[p] = Absent \/ seen[p] = Current)
      BY <1>0, <1>1, WriterFacts, AbsentFacts DEF HelperTypeOK, Record
    <2>6. CASE op[p] = "decide"
      <3>1. seen[p] \in {Absent, [trial |-> arg[p], state |-> "healthy"]}
        BY <1>0, <1>1, <2>6 DEF HelperInv, LegalWrite
      <3>2. Current = seen[p]
        BY <1>0, <2>5, WriterFacts DEF Current, RecordAt
      <3>3. Target(p) = [trial |-> arg[p], state |-> "pending"]
        BY <1>1, <2>6, TargetType
      <3> PICK t \in Trials : t = arg[p]
        BY <2>5
      <3>4. Cell!Arm(t)
        BY <1>3, <2>1, <2>2, <2>4, <2>6, <3>1, <3>2, <3>3
        DEF Cell!Arm, Cell!Put, Cell!Value, Survivors, Armed, Late
      <3> QED BY <3>4
    <2>7. CASE op[p] = "healthy"
      <3>1. seen[p].state = "pending" /\ seen[p] # Absent
        BY <1>0, <1>1, <2>7, WriterFacts DEF HelperInv, LegalWrite
      <3>2. Current = [trial |-> seen[p].trial, state |-> "pending"]
        BY <1>1, <2>5, <3>1 DEF HelperTypeOK, Record
      <3>3. Target(p) = [trial |-> seen[p].trial, state |-> "healthy"]
        BY <1>1, <2>7, TargetType
      <3>4. Cell!Commit(seen[p].trial)
        BY <1>3, <2>1, <2>2, <2>4, <2>7, <3>2, <3>3
        DEF Cell!Commit, Cell!Put, Cell!Value, Survivors, Armed, Late
      <3> QED BY <2>5, <3>4
    <2>8. CASE op[p] \in {"reject", "rollback"}
      <3>1. seen[p].state \in {"pending", "healthy"} /\ seen[p] # Absent
        BY <1>0, <1>1, <2>8, WriterFacts DEF HelperInv, LegalWrite
      <3>2. Current = [trial |-> seen[p].trial, state |-> seen[p].state]
        BY <1>1, <2>5, <3>1 DEF HelperTypeOK, Record
      <3>3. Target(p) = [trial |-> seen[p].trial, state |-> "failed"]
        BY <1>1, <2>8, TargetType
      <3>4. Cell!Reject(seen[p].trial)
        BY <1>3, <2>1, <2>2, <2>4, <2>8, <3>1, <3>2, <3>3
        DEF Cell!Reject, Cell!Put, Cell!Value, Survivors, Armed, Late
      <3> QED BY <2>5, <3>4
    <2> QED BY <1>0, <2>6, <2>7, <2>8, WriterFacts
  <1> QED BY <1>2, <1>3 DEF Publish

\* After the rename: the record settles, is read back, and the decision that
\* armed it is reported once nothing else can be left of it.
LEMMA ReportingRefines ==
    ASSUME IInv, IInv', NEW p \in Helpers, DirSync(p) \/ Reopen(p) \/ Reread(p) \/ Report(p)
    PROVE  \/ Cell!Lapse \/ Cell!Settle \/ UNCHANGED Cell!cellVars
           \/ \E t \in Trials : Cell!Grant(t)
  <1>0. pc[p] # "idle" /\ pc[p] \in Late
    BY DEF DirSync, Reopen, Reread, Report, Late
  <1>1. TypeOK /\ HelperTypeOK /\ HelperInv(p) /\ dir \in crashDirs
    BY DEF IInv, TypeOK
  <1>2. ASSUME DirSync(p) PROVE Cell!Settle
    BY <1>0, <1>2, SyncRefines DEF DirSync, Steps, Late, history
  <1>3. ASSUME Reopen(p) \/ Reread(p) PROVE Cell!Lapse \/ UNCHANGED Cell!cellVars
    <2>1. CASE Fail(p, "concurrent") \/ Fail(p, "unsafe")
      BY <1>0, <2>1, FailLapses DEF Fail, history
    <2>2. CASE (Goto(p, "reread") \/ Goto(p, "report")) /\ UNCHANGED <<fs, unacked>>
      <3>1. Current' = Current /\ Survivors' = Survivors
        BY <2>2 DEF fs, Current, Survivors, RecordAt
      <3> QED BY <1>0, <2>2, <3>1, QuietStutters DEF Steps, Late
    <2> QED BY <1>3, <2>1, <2>2 DEF Reopen, Reread, history
  <1>4. ASSUME Report(p) PROVE Cell!Lapse \/ \E t \in Trials : Cell!Grant(t)
    <2>1. (\E o : Exit(p, o)) /\ UNCHANGED fs
      BY <1>4 DEF Report
    <2>2. CASE op[p] # "decide"
      BY <1>0, <1>4, <2>1, <2>2, FailLapses DEF Report
    <2>3. CASE op[p] = "decide"
      <3>1. Armed = {arg[p]} /\ Armed' = {}
        BY <1>0, <2>1, <2>3, ArmedHere, ExitLapses
      <3>2. Survivors = {Target(p)} /\ Target(p) = [trial |-> arg[p], state |-> "pending"]
        BY <1>1, <1>4, <2>3, TargetType DEF Report, HelperInv, Published, Survivors
      <3>3. Current' = Current /\ Survivors' = Survivors
        BY <2>1 DEF fs, Current, Survivors, RecordAt
      <3>4. unacked' = [unacked EXCEPT ![arg[p]] = @ + 1]
        BY <1>4, <2>3 DEF Report
      <3> PICK t \in Trials : t = arg[p]
        BY <1>1 DEF HelperTypeOK
      <3>5. Cell!Grant(t)
        BY <3>1, <3>2, <3>3, <3>4 DEF Cell!Grant, Cell!Value, Survivors, Armed, Late
      <3> QED BY <3>5
    <2> QED BY <2>2, <2>3
  <1> QED BY <1>2, <1>3, <1>4

\* Power loss leaves one of the surviving records.
LEMMA PowerLossRefines ==
    ASSUME IInv, PowerLoss
    PROVE  Cell!CellPowerLoss
  <1>1. DiskTypeOK /\ RecordIntact
    BY DEF IInv, TypeOK
  <1>2. dir' \in crashDirs /\ crashDirs' = {dir'} /\ unacked' = unacked
    BY DEF PowerLoss
  <1>3. RecordAt(dir)' = RecordAt(dir')
    <2>1. PICK torn \in SUBSET {i \in Inodes : ~data[i].synced} :
             data' = [i \in Inodes |->
                         IF i \in torn \/ i \notin {dir'.rec, dir'.tmp}
                         THEN Torn(TRUE)
                         ELSE [data[i] EXCEPT !.synced = TRUE]]
      BY DEF PowerLoss
    <2>2. CASE dir'.rec # NoInode
      <3>1. dir'.rec \in Inodes /\ data[dir'.rec] \in Content /\ data[dir'.rec].synced
        BY <1>1, <1>2, <2>2 DEF DiskTypeOK, Directory, RecordIntact
      <3>2. data'[dir'.rec] = [data[dir'.rec] EXCEPT !.synced = TRUE]
        BY <2>1, <3>1
      <3>3. data'[dir'.rec].trial = data[dir'.rec].trial /\ data'[dir'.rec].state = data[dir'.rec].state
        BY <3>1, <3>2 DEF Content
      <3> QED BY <2>2, <3>3 DEF RecordAt
    <2>3. CASE dir'.rec = NoInode
      BY <2>3 DEF RecordAt
    <2> QED BY <2>2, <2>3
  <1>4. Current' \in Survivors /\ Survivors' = {Current'}
    BY <1>2, <1>3 DEF Survivors, Current
  <1>5. Armed' = {}
    BY ArmedIdleNext DEF PowerLoss
  <1> QED BY <1>2, <1>4, <1>5 DEF Cell!CellPowerLoss, Survivors, Armed, Late

\* A helper that starts has armed nothing.
LEMMA StartRefines ==
    ASSUME IInv, IInv', NEW p \in Helpers, NEW o \in Ops, NEW t \in Trials, Start(p, o, t)
    PROVE  UNCHANGED Cell!cellVars
  <1>1. \A q \in Helpers : pc[q] = "idle"
    BY ConstantsAssumption DEF IInv, Exclusive, Start
  <1>2. pc'[p] \in {"recover", "open"}
    BY DEF IInv, TypeOK, HelperTypeOK, Start
  <1>3. Armed = {} /\ Armed' = {}
    BY <1>1, <1>2, ArmedIdle, ArmedNext DEF Late
  <1>4. Current' = Current /\ Survivors' = Survivors /\ unacked' = unacked
    BY DEF Start, fs, history, Current, Survivors, RecordAt
  <1> QED BY <1>3, <1>4 DEF Cell!cellVars, Survivors, Armed, Late

\* Every step of a helper, its death and power loss is a step of the cell.
LEMMA StepRefines ==
    ASSUME IInv, [Next]_vars
    PROVE  Cell!CellNext \/ UNCHANGED Cell!cellVars
  <1>0. IInv'
    BY NextInv
  <1>1. CASE UNCHANGED vars
    BY <1>1 DEF vars, Cell!cellVars, Current, RecordAt
  <1>2. CASE PowerLoss
    BY <1>2, PowerLossRefines DEF Cell!CellNext
  <1>3. ASSUME NEW p \in Helpers, Progress(p)
        PROVE  Cell!CellNext \/ UNCHANGED Cell!cellVars
    BY <1>0, <1>3, ReadingRefines, WritingRefines, PublishRefines, ReportingRefines
    DEF Progress, Cell!CellNext
  <1>4. ASSUME NEW p \in Helpers, Killed(p) PROVE Cell!CellNext
    BY <1>4, FailLapses DEF Killed, Fail, history, Cell!CellNext
  <1> QED BY <1>0, <1>1, <1>2, <1>3, <1>4, StartRefines DEF Next

\* An intact record, or none, is a cell at rest.
LEMMA InitRefines == Init => Cell!CellInit
  <1> SUFFICES ASSUME Init PROVE Cell!CellInit
    OBVIOUS
  <1>1. IInv
    BY InitInv
  <1>2. Armed = {}
    BY ArmedIdle DEF Init
  <1>3. Survivors = {Current}
    BY DEF Init, Survivors, Current
  <1>4. Current \in Cell!Records \cup {Absent}
    <2>1. dir.rec = NoInode => Current = Absent
      BY DEF Current, RecordAt
    <2>2. ASSUME dir.rec # NoInode PROVE Current \in Cell!Records
      <3>1. Current \in Record
        BY <1>1, <2>2, CurrentIntact
      <3>2. PICK t \in Trials, s \in States : Current = [trial |-> t, state |-> s]
        BY <3>1 DEF Record
      <3> QED BY <3>2, SMT DEF Cell!Records, Cell!Value, States
    <2> QED BY <2>1, <2>2
  <1> QED BY <1>2, <1>3, <1>4 DEF Init, Cell!CellInit, Survivors, Armed, Late

\* The helper's operations, interleaved with kills and power losses at every
\* system call, implement the durable cell that the boot chain relies on.
THEOREM HelperIsCell == Spec => RefinesTryOnce
  <1>1. IInv /\ [Next]_vars => [Cell!CellNext]_(Cell!cellVars)
    BY StepRefines
  <1> QED BY <1>1, InitRefines, Invariance, PTL DEF Spec, RefinesTryOnce, Cell!CellSpec

-----------------------------------------------------------------------------
(* The promise of the cell, kept by the helper.                             *)

Stands(t, s) == [trial |-> t, state |-> s]

\* Every record that power loss may leave knows of the granted boot: it is the
\* trial's pending or failed record, from which no decision arms again.
GrantKnown ==
    \A t \in Trials : unacked[t] # 0 =>
        /\ unacked[t] = 1
        /\ t \notin Armed
        /\ Survivors \subseteq {Stands(t, "pending"), Stands(t, "failed")}

GrantInv ==
    /\ unacked \in [Trials -> Nat]
    /\ Current \in Survivors
    /\ \A t \in Armed : Current = Stands(t, "pending")
    /\ GrantKnown

\* A record names its trial and its state (render_record is injective), and
\* the value of a missing record names none.
LEMMA StandsApart ==
    /\ \A t, u, r, s : Stands(t, r) = Stands(u, s) <=> t = u /\ r = s
    /\ \A t \in Trials, s \in States : Stands(t, s) # Absent
  <1>1. \A t, u, r, s : Stands(t, r) = Stands(u, s) => t = u /\ r = s
    <2> SUFFICES ASSUME NEW t, NEW u, NEW r, NEW s, Stands(t, r) = Stands(u, s)
                 PROVE  t = u /\ r = s
      OBVIOUS
    <2>1. Stands(t, r).trial = Stands(u, s).trial /\ Stands(t, r).state = Stands(u, s).state
      OBVIOUS
    <2> QED BY <2>1 DEF Stands
  <1>2. \A t \in Trials, s \in States : Stands(t, s) \in Record
    BY SMT DEF Stands, Record
  <1> QED BY <1>1, <1>2, AbsentFacts, SMT

\* Every operation of the cell keeps the knowledge of the grant.
LEMMA GrantStep == GrantInv /\ [Cell!CellNext]_(Cell!cellVars) => GrantInv'
  <1> SUFFICES ASSUME GrantInv, [Cell!CellNext]_(Cell!cellVars) PROVE GrantInv'
    OBVIOUS
  <1> USE DEF GrantInv, GrantKnown
  <1>1. ASSUME NEW t \in Trials, Cell!Arm(t) PROVE GrantInv'
    <2>1. /\ Current \in {Absent, Stands(t, "healthy")}
          /\ Current' = Stands(t, "pending")
          /\ Survivors' = Survivors \cup {Stands(t, "pending")}
          /\ Armed' = {t} /\ unacked' = unacked
      BY <1>1 DEF Cell!Arm, Cell!Put, Cell!Value, Stands, Survivors, Armed, Late
    <2>2. \A u \in Trials : unacked[u] = 0
      BY <2>1, StandsApart, SMT DEF States
    <2> QED BY <2>1, <2>2
  <1>2. ASSUME NEW t \in Trials, Cell!Grant(t) PROVE GrantInv'
    <2>1. /\ t \in Armed /\ Survivors = {Stands(t, "pending")}
          /\ Armed' = {} /\ unacked' = [unacked EXCEPT ![t] = @ + 1]
          /\ Current' = Current /\ Survivors' = Survivors
      BY <1>2 DEF Cell!Grant, Cell!Value, Stands, Survivors, Armed, Late
    <2>2. \A u \in Trials : unacked[u] = 0
      BY <2>1, StandsApart, SMT
    <2> QED BY <2>1, <2>2, SMT
  <1>3. ASSUME NEW t \in Trials, Cell!Commit(t) PROVE GrantInv'
    <2>1. /\ Current = Stands(t, "pending") /\ Armed = {} /\ Armed' = {}
          /\ Current' = Stands(t, "healthy")
          /\ Survivors' = Survivors \cup {Stands(t, "healthy")}
          /\ unacked' = [unacked EXCEPT ![t] = 0]
      BY <1>3 DEF Cell!Commit, Cell!Put, Cell!Value, Stands, Survivors, Armed, Late
    <2>2. \A u \in Trials \ {t} : unacked[u] = 0
      BY <2>1, StandsApart, SMT
    <2> QED BY <2>1, <2>2, SMT
  <1>4. ASSUME NEW t \in Trials, Cell!Reject(t) PROVE GrantInv'
    <2>1. /\ Current \in {Stands(t, "pending"), Stands(t, "healthy")} /\ Armed = {} /\ Armed' = {}
          /\ Current' = Stands(t, "failed")
          /\ Survivors' = Survivors \cup {Stands(t, "failed")}
          /\ unacked' = unacked
      BY <1>4 DEF Cell!Reject, Cell!Put, Cell!Value, Stands, Survivors, Armed, Late
    <2>2. \A u \in Trials \ {t} : unacked[u] = 0
      BY <2>1, StandsApart, SMT
    <2> QED BY <2>1, <2>2
  <1>5. CASE Cell!Lapse
    BY <1>5 DEF Cell!Lapse, Survivors, Armed, Late
  <1>6. CASE Cell!Settle
    <2>1. /\ Survivors' = {Current} /\ Current' = Current
          /\ Armed' = Armed /\ unacked' = unacked
      BY <1>6 DEF Cell!Settle, Survivors, Armed, Late
    <2> QED BY <2>1
  <1>7. CASE Cell!CellPowerLoss
    <2>1. /\ Current' \in Survivors /\ Survivors' = {Current'}
          /\ Armed' = {} /\ unacked' = unacked
      BY <1>7 DEF Cell!CellPowerLoss, Survivors, Armed, Late
    <2> QED BY <2>1
  <1>8. CASE UNCHANGED Cell!cellVars
    BY <1>8 DEF Cell!cellVars, Survivors, Armed, Late
  <1> QED BY <1>1, <1>2, <1>3, <1>4, <1>5, <1>6, <1>7, <1>8 DEF Cell!CellNext

\* decide reports the primary of a trial at most once between two health
\* commits, whichever helpers are killed and whenever power is lost.
THEOREM HelperBootsOnce == Spec => []Cell!BootedOnceUnacknowledged
  <1>1. Init => GrantInv
    <2>1. Init => Survivors = {Current} /\ Armed = {} /\ unacked = [t \in Trials |-> 0]
      BY InitRefines DEF Cell!CellInit, Survivors, Armed, Late
    <2> QED BY <2>1, SMT DEF GrantInv, GrantKnown
  <1>2. IInv /\ GrantInv /\ [Next]_vars => GrantInv'
    BY StepRefines, GrantStep
  <1>3. GrantInv => Cell!BootedOnceUnacknowledged
    <2> SUFFICES ASSUME GrantInv, NEW t \in Trials PROVE unacked[t] <= 1
      BY DEF Cell!BootedOnceUnacknowledged
    <2>1. unacked[t] = 0 \/ unacked[t] = 1
      BY DEF GrantInv, GrantKnown
    <2> QED BY <2>1, SMT
  <1> QED BY <1>1, <1>2, <1>3, Invariance, PTL DEF Spec
=============================================================================
