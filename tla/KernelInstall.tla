---------------------------- MODULE KernelInstall ----------------------------
(***************************************************************************)
(* install-default-kernel-on-target.sh --stage: one write window on p24    *)
(* that installs a signed bundle as the try-once primary, exchanges the    *)
(* selector, relocks p24 and moves the previous try-once record on p23     *)
(* aside.                                                                  *)
(*                                                                         *)
(* The script runs beside its relock timer (the guard) and beside the      *)
(* trial helper of the running system, which may still be committing the   *)
(* old trial.  Any command may fail, the script may be interrupted (EXIT   *)
(* trap) or killed.  Power may fail at every moment: disk24 and disk23     *)
(* hold what it may leave, and NextBoot says what the loader makes of it.  *)
(***************************************************************************)
EXTENDS Naturals

VARIABLES
    pc,           \* the script's next step
    fallbackNew,  \* fallback_install: a new fallback is installed as well
    oldRec,       \* the record the install was prepared for: old | none
    fs,           \* p24 as readers see it
    dirty,        \* contents on p24 written since the last sync
    disk24,       \* the p24 states power loss may leave
    mount,        \* p24's mount: ro | rw
    nodeRO,       \* blockdev --getro of p24
    user,         \* the record paths of p23 as readers see them
    disk23,       \* the p23 states power loss may leave
    guard,        \* the relock timer
    p24Durable, recordDurable,    \* as in the script
    selState, recState,           \* the trap's selector_state and record_state
    claim,        \* what the script said the next boot does
    helper,       \* the running system's trial helper: idle | checked | renamed
    lockFailed    \* history: blockdev --setro failed

vars == <<pc, fallbackNew, oldRec, fs, dirty, disk24, mount, nodeRO, user,
          disk23, guard, p24Durable, recordDurable, selState, recState, claim,
          helper, lockFailed>>

Steps == {"check", "arm", "open", "rw", "bundle", "fallback", "stage", "sync",
          "prove", "rwAgain", "exch", "keep", "syncAgain", "seal", "lock", "archive",
          "archived", "syncUser", "finish", "pass",
          "trapRemount", "trapLock", "trapLook", "trapArchive", "trapArchived",
          "trapSync", "trapLookAgain", "trapReport", "exited", "killed"}

P24 == [sel : {"old", "new", "torn"}, next : {"none", "old", "new", "torn"},
        rb : {"none", "old"}, prim : {"none", "partial", "good"},
        fall : {"none", "partial", "good"}]

P23 == [rec : {"none", "old", "changed"}, arch : {"none", "old", "changed"}]

\* Every variable has its type.
TypeOK ==
    /\ pc \in Steps
    /\ {fallbackNew, nodeRO, p24Durable, recordDurable, lockFailed} \subseteq BOOLEAN
    /\ oldRec \in {"none", "old"}
    /\ disk24 \cup {fs} \subseteq P24 /\ disk23 \cup {user} \subseteq P23
    /\ dirty \subseteq {"new", "prim", "fall"}
    /\ mount \in {"ro", "rw"}
    /\ guard \in {"none", "armed", "remounted", "done", "stopped"}
    /\ selState \in {"unread", "previous", "new", "unknown"}
    /\ recState \in {"unread", "previous", "absent", "archived", "unknown"}
    /\ claim \in {"none", "unchanged", "trial", "fallback", "undetermined"}
    /\ helper \in {"idle", "checked", "renamed"}

Init ==
    /\ pc = "check"
    /\ fallbackNew \in BOOLEAN
    /\ oldRec \in {"none", "old"}
    /\ fs = [sel |-> "old", next |-> "none", rb |-> "none", prim |-> "none",
             fall |-> IF fallbackNew THEN "none" ELSE "good"]
    /\ dirty = {} /\ disk24 = {fs}
    /\ mount = "ro" /\ nodeRO = TRUE
    /\ user = [rec |-> oldRec, arch |-> "none"]
    /\ disk23 = {user}
    /\ guard = "none"
    /\ p24Durable = FALSE /\ recordDurable = FALSE
    /\ selState = "unread" /\ recState = "unread" /\ claim = "none"
    /\ helper = "idle" /\ lockFailed = FALSE

input == <<fallbackNew, oldRec>>
p24 == <<fs, dirty, disk24>>
p23 == <<user, disk23>>
window == <<mount, nodeRO, guard, lockFailed>>
flags == <<p24Durable, recordDurable, selState, recState, claim>>

\* fail, set -e and the signal traps all end in the EXIT trap.
Goto(step) == pc' = step
Fail == pc' = "trapRemount"

-----------------------------------------------------------------------------
(* The file systems.                                                        *)

\* A content written since the last sync may be lost although its name is kept.
Torn(p, lost) ==
    LET content(c) == IF c = "new" /\ "new" \in lost THEN "torn" ELSE c IN
    [p EXCEPT !.sel = content(@), !.next = content(@),
              !.prim = IF @ # "none" /\ "prim" \in lost THEN "partial" ELSE @,
              !.fall = IF @ # "none" /\ "fall" \in lost THEN "partial" ELSE @]

\* A change of p24: names change in order, contents reach the disk at any time.
Change24(p, written) ==
    /\ mount = "rw"
    /\ fs' = p
    /\ dirty' = dirty \cup written
    /\ disk24' = disk24 \cup {Torn(p, lost) : lost \in SUBSET (dirty \cup written)}

Sync24 == disk24' = {fs} /\ dirty' = {} /\ UNCHANGED fs

Change23(u) == user' = u /\ disk23' = disk23 \cup {u}

Sync23 == disk23' = {user} /\ UNCHANGED user

\* remount_ro: three tries, each with a sync, and a look at the options.
RemountRo(ok) ==
    /\ \/ mount' = "ro" /\ Sync24
       \/ ~ok /\ UNCHANGED <<mount, p24>>
       \/ ~ok /\ UNCHANGED mount /\ Sync24

\* A command that only reads, or whose effect the model does not follow.
Command(step, next) ==
    /\ pc = step
    /\ Goto(next) \/ Fail
    /\ UNCHANGED <<input, p24, p23, window, flags, helper>>

-----------------------------------------------------------------------------
(* Until the bundle and the staged selector are proven on a read-only p24.  *)

\* --inspect and --preflight: no trap action before the write window.
Preconditions ==
    /\ pc = "check"
    /\ \/ pc' = "exited"
       \/ user.rec = oldRec /\ Goto("arm")
    /\ UNCHANGED <<input, p24, p23, window, flags, helper>>

\* systemd-run of the guard, and is-active.
ArmGuard ==
    /\ pc = "arm"
    /\ \/ guard' = "armed" /\ (Goto("open") \/ Fail)
       \/ UNCHANGED guard /\ Fail
    /\ UNCHANGED <<input, p24, p23, mount, nodeRO, lockFailed, flags, helper>>

\* blockdev --setrw and the exact write scope.
OpenNode ==
    /\ pc = "open"
    /\ \/ nodeRO' = FALSE /\ (Goto("rw") \/ Fail)
       \/ UNCHANGED nodeRO /\ Fail
    /\ UNCHANGED <<input, p24, p23, mount, guard, lockFailed, flags, helper>>

RemountRw(step, next) ==
    /\ pc = step
    /\ \/ ~nodeRO /\ mount' = "rw" /\ (Goto(next) \/ Fail)
       \/ UNCHANGED mount /\ Fail
    /\ UNCHANGED <<input, p24, p23, nodeRO, guard, lockFailed, flags, helper>>

RemountOpen == RemountRw("rw", "bundle")

\* mkdir, install and cmp of the five files of a bundle.
InstallBundle ==
    /\ pc = "bundle"
    /\ \/ /\ Change24([fs EXCEPT !.prim = "good"], {"prim"})
          /\ Goto(IF fallbackNew THEN "fallback" ELSE "stage") \/ Fail
       \/ Change24([fs EXCEPT !.prim = "partial"], {"prim"}) /\ Fail
       \/ UNCHANGED p24 /\ Fail
    /\ UNCHANGED <<input, p23, window, flags, helper>>

InstallFallback ==
    /\ pc = "fallback"
    /\ \/ Change24([fs EXCEPT !.fall = "good"], {"fall"}) /\ (Goto("stage") \/ Fail)
       \/ Change24([fs EXCEPT !.fall = "partial"], {"fall"}) /\ Fail
       \/ UNCHANGED p24 /\ Fail
    /\ UNCHANGED <<input, p23, window, flags, helper>>

StageSelector ==
    /\ pc = "stage"
    /\ \/ Change24([fs EXCEPT !.next = "new"], {"new"}) /\ (Goto("sync") \/ Fail)
       \/ Change24([fs EXCEPT !.next = "torn"], {}) /\ Fail
       \/ UNCHANGED p24 /\ Fail
    /\ UNCHANGED <<input, p23, window, flags, helper>>

\* sync -f of p24: an error leaves it open what reached the disk.
SyncStaged ==
    /\ pc = "sync"
    /\ \/ Sync24 /\ Goto("prove")
       \/ UNCHANGED p24 /\ Fail
    /\ UNCHANGED <<input, p23, window, flags, helper>>

\* p24 must be able to go read-only before anything is activated.
ProveRemount ==
    /\ pc = "prove"
    /\ \E ok \in BOOLEAN : RemountRo(ok) /\ IF ok THEN Goto("rwAgain") ELSE Fail
    /\ UNCHANGED <<input, p23, nodeRO, guard, lockFailed, flags, helper>>

RemountAgain == RemountRw("rwAgain", "exch")

-----------------------------------------------------------------------------
(* Activation, relock and archival.                                         *)

\* Mutant of ExchangeSelector: the record is moved aside before the activation.
MutExchangeSelectorArchivesFirst ==
    /\ pc = "exch"
    /\ \/ /\ Change24([fs EXCEPT !.sel = fs.next, !.next = fs.sel], {})
          /\ Change23([rec |-> "none", arch |-> user.rec])
          /\ Goto("keep") \/ Fail
       \/ UNCHANGED <<p24, p23>> /\ Fail
    /\ UNCHANGED <<input, window, flags, helper>>

\* RENAME_EXCHANGE: both inodes keep a name.
ExchangeSelector ==
    /\ pc = "exch"
    /\ \/ Change24([fs EXCEPT !.sel = fs.next, !.next = fs.sel], {}) /\ (Goto("keep") \/ Fail)
       \/ UNCHANGED p24 /\ Fail
    /\ UNCHANGED <<input, p23, window, flags, helper>>

\* The previous selector gets its rollback name.
KeepRollback ==
    /\ pc = "keep"
    /\ \/ Change24([fs EXCEPT !.rb = fs.next, !.next = "none"], {})
          /\ (Goto("syncAgain") \/ Fail)
       \/ UNCHANGED p24 /\ Fail
    /\ UNCHANGED <<input, p23, window, flags, helper>>

\* Mutant of SyncActivated: a failed sync counts as durable.
MutSyncActivatedUnchecked ==
    /\ pc = "syncAgain"
    /\ Sync24 \/ UNCHANGED p24
    /\ p24Durable' = TRUE
    /\ Goto("seal")
    /\ UNCHANGED <<input, p23, window, recordDurable, selState, recState, claim, helper>>

SyncActivated ==
    /\ pc = "syncAgain"
    /\ \/ Sync24 /\ p24Durable' = TRUE /\ Goto("seal")
       \/ UNCHANGED <<p24, p24Durable>> /\ Fail
    /\ UNCHANGED <<input, p23, window, recordDurable, selState, recState, claim, helper>>

\* p24 goes read-only with the new selector active.
SealMount ==
    /\ pc = "seal"
    /\ \E ok \in BOOLEAN : RemountRo(ok) /\ IF ok THEN Goto("lock") ELSE Fail
    /\ UNCHANGED <<input, p23, nodeRO, guard, lockFailed, flags, helper>>

\* blockdev --setro, the mount options and the write scope.
LockNode ==
    /\ pc = "lock"
    /\ \/ /\ nodeRO' = TRUE
          /\ (mount = "ro" /\ Goto("archive")) \/ Fail
          /\ UNCHANGED lockFailed
       \/ lockFailed' = TRUE /\ UNCHANGED nodeRO /\ Fail
    /\ UNCHANGED <<input, p24, p23, mount, guard, flags, helper>>

\* archive_record, from the main path or from the trap: the mv, the checks
\* and the sync, which sets record_durable.
Archive(step, next, failed) ==
    /\ pc = step
    /\ \/ oldRec = "none" /\ UNCHANGED p23 /\ Goto(next)
       \/ /\ oldRec # "none" /\ user.rec # "none"
          /\ Change23([rec |-> "none", arch |-> user.rec])
          /\ Goto(next)
       \/ UNCHANGED p23 /\ Goto(failed)
    /\ UNCHANGED <<input, p24, window, flags, helper>>

CheckArchived(step, next, failed) ==
    /\ pc = step
    /\ \/ user.arch = oldRec /\ user.rec = "none" /\ Goto(next)
       \/ Goto(failed)
    /\ UNCHANGED <<input, p24, p23, window, flags, helper>>

SyncArchived(step, next, failed) ==
    /\ pc = step
    /\ \/ Sync23 /\ recordDurable' = TRUE /\ Goto(next)
       \/ UNCHANGED <<p23, recordDurable>> /\ Goto(failed)
    /\ UNCHANGED <<input, p24, window, p24Durable, selState, recState, claim, helper>>

ArchiveRecord == Archive("archive", "archived", "trapRemount")
ArchiveChecks == CheckArchived("archived", "syncUser", "trapRemount")
ArchiveSync == SyncArchived("syncUser", "finish", "trapRemount")

\* systemctl stop of the guard's timer: a service that already runs goes on,
\* and a failure is ignored.
StopGuard == guard' \in {guard, IF guard = "armed" THEN "stopped" ELSE guard}

Finish ==
    /\ pc = "finish"
    /\ StopGuard
    /\ Goto("pass")
    /\ claim' = "trial"
    /\ UNCHANGED <<input, p24, p23, mount, nodeRO, lockFailed, p24Durable,
                   recordDurable, selState, recState, helper>>

-----------------------------------------------------------------------------
(* The EXIT trap.                                                           *)

\* sync, whose result is not looked at, and remount_ro.
TrapRemount ==
    /\ pc = "trapRemount"
    /\ \E ok \in BOOLEAN : RemountRo(ok)
    /\ Sync23 \/ UNCHANGED p23
    /\ Goto("trapLock")
    /\ UNCHANGED <<input, nodeRO, guard, lockFailed, flags, helper>>

\* Mutant of TrapLock: a failed remount skips the lock of the node.
MutTrapLockOnlyReadOnly ==
    /\ pc = "trapLock"
    /\ nodeRO' = (nodeRO \/ mount = "ro")
    /\ StopGuard
    /\ Goto("trapLook")
    /\ UNCHANGED <<input, p24, p23, mount, lockFailed, flags, helper>>

\* blockdev --setro whatever the remount did, then the guard is stopped.
TrapLock ==
    /\ pc = "trapLock"
    /\ \/ nodeRO' = TRUE /\ UNCHANGED lockFailed
       \/ lockFailed' = TRUE /\ UNCHANGED nodeRO
    /\ StopGuard
    /\ Goto("trapLook")
    /\ UNCHANGED <<input, p24, p23, mount, flags, helper>>

SelectorNow == CASE fs.sel = "old" -> "previous" [] fs.sel = "new" -> "new" [] OTHER -> "unknown"

\* record_now.
RecordNow ==
    IF user.rec # "none"
    THEN IF oldRec # "none" /\ user.arch = "none" /\ user.rec = oldRec THEN "previous"
         ELSE "unknown"
    ELSE IF oldRec = "none" THEN "absent"
    ELSE IF user.arch = oldRec THEN "archived" ELSE "unknown"

\* primary_verified and fallback_verified; a read may fail.
PrimaryVerified(ok) == ok => fs.sel = "new" /\ fs.prim = "good"
FallbackVerified(ok) == ok => fs.fall = "good"

\* What the selector and record paths hold; the record is archived if the new
\* selector is active, durable and verified.
TrapLook ==
    /\ pc = "trapLook"
    /\ selState' \in {SelectorNow, "unknown"}
    /\ recState' \in {RecordNow, "unknown"}
    /\ \E primary, fallback \in BOOLEAN :
          /\ PrimaryVerified(primary) /\ FallbackVerified(fallback)
          /\ Goto(IF /\ selState' = "new" /\ p24Durable /\ recState' = "previous"
                     /\ primary /\ fallback
                  THEN "trapArchive" ELSE "trapReport")
    /\ UNCHANGED <<input, p24, p23, window, p24Durable, recordDurable, claim, helper>>

\* (archive_record) in a subshell, and record_now again.
TrapArchive == Archive("trapArchive", "trapArchived", "trapLookAgain")
TrapArchiveChecks == CheckArchived("trapArchived", "trapSync", "trapLookAgain")
TrapArchiveSync == SyncArchived("trapSync", "trapLookAgain", "trapLookAgain")

TrapLookAgain ==
    /\ pc = "trapLookAgain"
    /\ recState' \in {RecordNow, "unknown"}
    /\ Goto("trapReport")
    /\ UNCHANGED <<input, p24, p23, window, p24Durable, recordDurable, selState, claim, helper>>

\* The STATE line.
TrapReport ==
    /\ pc = "trapReport"
    /\ \E primary, fallback \in BOOLEAN :
          /\ PrimaryVerified(primary) /\ FallbackVerified(fallback)
          /\ claim' =
               CASE selState = "previous" /\ recState \in {"previous", "absent"} -> "unchanged"
                 [] /\ selState = "new" /\ recState \in {"archived", "absent"}
                    /\ p24Durable /\ (recState = "absent" \/ recordDurable)
                    /\ primary /\ fallback -> "trial"
                 [] selState = "new" /\ recState = "previous" /\ p24Durable /\ fallback -> "fallback"
                 [] OTHER -> "undetermined"
    /\ Goto("exited")
    /\ UNCHANGED <<input, p24, p23, window, p24Durable, recordDurable, selState, recState, helper>>

\* HUP, INT or TERM: exit 130 runs the trap.
Interrupt ==
    /\ pc \in {"arm", "open", "rw", "bundle", "fallback", "stage", "sync", "prove",
               "rwAgain", "exch", "keep", "syncAgain", "seal", "lock", "archive",
               "archived", "syncUser", "finish"}
    /\ Fail
    /\ UNCHANGED <<input, p24, p23, window, flags, helper>>

\* SIGKILL, or a signal during the trap, which cleared its handlers.
Kill ==
    /\ pc \notin {"pass", "exited", "killed"}
    /\ Goto("killed")
    /\ UNCHANGED <<input, p24, p23, window, flags, helper>>

-----------------------------------------------------------------------------
(* The guard and the trial helper.                                          *)

\* The timer elapses, at the earliest 180 s after it was armed: the next
\* command after the arming, the opening of the node, is over by then.
GuardRemount ==
    /\ guard = "armed" /\ pc # "open"
    /\ guard' = "remounted"
    /\ \E ok \in BOOLEAN : RemountRo(ok)
    /\ UNCHANGED <<pc, input, p23, nodeRO, lockFailed, flags, helper>>

GuardLock ==
    /\ guard = "remounted"
    /\ guard' = "done"
    /\ \/ nodeRO' = TRUE /\ UNCHANGED lockFailed
       \/ lockFailed' = TRUE /\ UNCHANGED nodeRO
    /\ UNCHANGED <<pc, input, p24, p23, mount, flags, helper>>

\* The helper of the running trial compares the record's inode ...
HelperCheck ==
    /\ helper = "idle" /\ user.rec = "old"
    /\ helper' = "checked"
    /\ UNCHANGED <<pc, input, p24, p23, window, flags>>

\* ... and renames its replacement over the name, then syncs the directory.
HelperRename ==
    /\ helper = "checked"
    /\ user' = [user EXCEPT !.rec = "changed"]
    /\ disk23' \in {{user'}, disk23 \cup {user'}}
    /\ helper' = "renamed"
    /\ UNCHANGED <<pc, input, p24, window, flags>>

Script ==
    \/ Preconditions \/ ArmGuard \/ OpenNode \/ RemountOpen \/ InstallBundle
    \/ InstallFallback \/ StageSelector \/ SyncStaged \/ ProveRemount \/ RemountAgain
    \/ ExchangeSelector \/ KeepRollback \/ SyncActivated \/ SealMount \/ LockNode
    \/ ArchiveRecord \/ ArchiveChecks \/ ArchiveSync \/ Finish

Trap == TrapRemount \/ TrapLock \/ TrapLook \/ TrapArchive \/ TrapArchiveChecks
        \/ TrapArchiveSync \/ TrapLookAgain \/ TrapReport

Next == Script \/ Trap \/ Interrupt \/ Kill \/ GuardRemount \/ GuardLock
        \/ HelperCheck \/ HelperRename

\* Only the guard is fair: any command of the script may hang.
Spec == Init /\ [][Next]_vars /\ WF_vars(GuardRemount) /\ WF_vars(GuardLock)

-----------------------------------------------------------------------------
(* Properties.                                                              *)

\* What the Slot B loader does with a p24 and a p23 (SlotBLoader, TryOnce).
NextBoot(p, u) ==
    IF p.sel = "old" THEN (IF u.rec = "none" /\ oldRec # "none" THEN "repeat" ELSE "unchanged")
    ELSE IF p.sel = "torn" \/ p.fall # "good" THEN "stop"
    ELSE IF p.prim = "good" /\ u.rec = "none" THEN "trial" ELSE "fallback"

\* After power loss at any moment the loader finds a system to boot, and never
\* the previous selector without its record, which would grant an unaccepted
\* trial a second boot ("Only after the new selector is active and durable").
\* The new selector is nowhere without a complete primary, and the previous one
\* keeps a name at every moment ("Nothing on p24 is ever unlinked").
EveryCrashBoots ==
    /\ \A p \in disk24, u \in disk23 : NextBoot(p, u) \in {"unchanged", "trial", "fallback"}
    /\ \A p \in disk24 \cup {fs} :
          /\ p.sel = "new" => p.prim = "good"
          /\ "old" \in {p.sel, p.next, p.rb}

\* What the script says about the next boot is what the loader does, also when
\* the power fails at once, unless the running trial's helper published
\* meanwhile.
ClaimsHold ==
    claim \in {"unchanged", "trial", "fallback"} /\ helper # "renamed" =>
        \A p \in disk24, u \in disk23 : NextBoot(p, u) = claim

\* p24's node does not stay writable, even if the script hangs or is killed:
\* the trap or the guard locks it, unless blockdev itself fails.
WindowCloses == ~nodeRO ~> nodeRO \/ lockFailed

\* "... the previous try-once record on p23 archived so the next boot starts
\* the new trial": after PASS it does.
PassStartsTrial ==
    pc = "pass" => \A p \in disk24, u \in disk23 : NextBoot(p, u) = "trial"
=============================================================================
