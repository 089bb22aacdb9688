---------------------------- MODULE SlotBLoader ----------------------------
(***************************************************************************)
(* One run of the Slot B loader (initramfs/persistent-slotb-loader-init):  *)
(* from the storage identity check to kexec, or to the bootloader.         *)
(*                                                                         *)
(* It runs standalone, as init of the Slot B wrapper, with a watchdog of   *)
(* its own, or below the recovery init, which may ask for the fallback of  *)
(* one exact selector or for a bundle embedded in the wrapper (RAM).       *)
(* Every command may fail, any command may hang, and the run may be        *)
(* interrupted between any two.                                            *)
(***************************************************************************)
EXTENDS Naturals, FiniteSets

CONSTANT MaxAttempts    \* attempts at opening the trial write window (3)

ASSUME AttemptsAssumption == MaxAttempts \in Nat \ {0}

VARIABLES
    mode,         \* standalone | recovery
    request,      \* none | fallback | ram: what the recovery init asked for
    selector,     \* the selector on p24: invalid | single (v1) | trial (v2)
    good,         \* the bundles whose bytes and signature verify
    pc,           \* the next step; the last ones are in Ended
    reason,       \* why the run failed
    locked,       \* block devices set read-only
    mounted,      \* file systems mounted: p24 read-only, userdata read-write
    userDir,      \* the userdata mount point exists
    copied,       \* bundles copied to RAM
    verified,     \* bundles that rog5-bundle-verify accepted
    bundle,       \* the bundle to execute
    attempt,      \* trial_attempt
    trialMounted, \* trial_mounted, as the script believes
    decisions,    \* calls of the trial helper
    decision,     \* what the helper answered
    origin,       \* rog5.boot_origin on the command line
    watchdog      \* none | armed | killed

vars == <<mode, request, selector, good, pc, reason, locked, mounted, userDir,
          copied, verified, bundle, attempt, trialMounted, decisions, decision,
          origin, watchdog>>

Devices == {"disk", "root", "userdata", "other"}
Bundles == {"single", "primary", "fallback", "embedded"}
Ended == {"executed", "bootloader", "exited"}
Steps == Ended \cup
         {"resolve", "embedded", "lock", "mountRoot", "select", "copy", "copyPrimary",
          "umount", "verify", "verifyPrimary", "refusePrimary", "relock",
          "openDisk", "openUserdata", "window", "mkdir", "mountUserdata", "identity",
          "retry", "decide", "cleanup", "load", "haven", "watchdog", "execute"}

\* Every variable has its type.
TypeOK ==
    /\ mode \in {"standalone", "recovery"}
    /\ request \in {"none", "fallback", "ram"}
    /\ selector \in {"invalid", "single", "trial"}
    /\ pc \in Steps
    /\ reason \in {"none", "step", "trial_state", "interrupted", "timeout"}
    /\ {good, copied, verified} \subseteq SUBSET Bundles
    /\ locked \subseteq Devices
    /\ mounted \subseteq {"root", "userdata"}
    /\ bundle \in Bundles \cup {"none"}
    /\ attempt \in 0..MaxAttempts
    /\ decisions \in 0..1
    /\ decision \in {"none", "primary", "fallback", "error", "garbage"}
    /\ origin \in {"disk", "ram"}
    /\ watchdog \in {"none", "armed", "killed"}
    /\ {userDir, trialMounted} \subseteq BOOLEAN

Init ==
    /\ mode \in {"standalone", "recovery"}
    /\ request \in IF mode = "standalone" THEN {"none"} ELSE {"none", "fallback", "ram"}
    /\ selector \in {"invalid", "single", "trial"}
    /\ good \in SUBSET Bundles
    /\ locked \in {{}, Devices}
    /\ watchdog = IF mode = "standalone" THEN "armed" ELSE "none"
    /\ pc = "resolve" /\ reason = "none"
    /\ mounted = {} /\ userDir = FALSE
    /\ copied = {} /\ verified = {} /\ bundle = "none"
    /\ attempt = 0 /\ trialMounted = FALSE
    /\ decisions = 0 /\ decision = "none"
    /\ origin = "disk"

-----------------------------------------------------------------------------
run == <<mode, request, selector, good>>
storage == <<locked, mounted, userDir>>
bundles == <<copied, verified, bundle>>
trial == <<attempt, trialMounted, decisions, decision>>
exec == <<origin, watchdog>>

Goto(step) == pc' = step /\ UNCHANGED reason

\* fail(): the standalone loader returns to the bootloader, the other one
\* leaves the rest to the recovery init.
Fail(why) ==
    /\ pc' = IF mode = "standalone" THEN "bootloader" ELSE "exited"
    /\ reason' = why

\* A command that changes nothing the model follows: it succeeds or fails.
Command(step, next) ==
    /\ pc = step
    /\ Goto(next) \/ Fail("step")
    /\ UNCHANGED <<run, storage, bundles, trial, exec>>

\* relock_all_storage: every UFS node is set read-only and verified to be so.
Relocked(ok) ==
    IF ok THEN locked' = Devices
          ELSE \E more \in SUBSET Devices : locked' = locked \cup more

-----------------------------------------------------------------------------
(* From the storage identity to two verified bundles in RAM.                *)

ResolveStorage == Command("resolve", IF request = "ram" THEN "embedded" ELSE "lock")

\* prepare_embedded_bundle: identity checks, relock, copy, verify.
PrepareEmbedded ==
    /\ pc = "embedded"
    /\ \/ /\ Fail("step")
          /\ UNCHANGED <<storage, bundles>>
       \/ /\ Relocked(FALSE)
          /\ Fail("step")
          /\ UNCHANGED <<mounted, userDir, bundles>>
       \/ /\ Relocked(TRUE)
          /\ copied' = {"embedded"}
          /\ bundle' = "embedded"
          /\ \/ "embedded" \in good /\ verified' = {"embedded"} /\ Goto("load")
             \/ UNCHANGED verified /\ Fail("step")
          /\ UNCHANGED <<mounted, userDir>>
    /\ UNCHANGED <<run, trial, exec>>

\* The two nodes that p24 is read through are locked, and read back as such.
LockRoot ==
    /\ pc = "lock"
    /\ \E set \in SUBSET {"disk", "root"} :
          /\ locked' = locked \cup set
          /\ IF set = {"disk", "root"} THEN Goto("mountRoot") ELSE Fail("step")
    /\ UNCHANGED <<run, mounted, userDir, bundles, trial, exec>>

MountRoot ==
    /\ pc = "mountRoot"
    /\ \/ mounted' = mounted \cup {"root"} /\ Goto("select")
       \/ UNCHANGED mounted /\ Fail("step")
    /\ UNCHANGED <<run, locked, userDir, bundles, trial, exec>>

\* Whether the run follows the trial path of the selector.
IsTrial == selector = "trial" /\ request = "none"

\* read_selector and apply_fallback_request, which binds a rescue to the
\* exact trial selector that it was reviewed for.
ReadSelector ==
    /\ pc = "select"
    /\ \/ /\ selector # "invalid"
          /\ request = "fallback" => selector = "trial"
          /\ bundle' = IF request = "fallback" THEN "fallback"
                       ELSE IF selector = "single" THEN "single" ELSE "primary"
          /\ Goto("copy")
       \/ Fail("step") /\ UNCHANGED bundle
    /\ UNCHANGED <<run, storage, copied, verified, trial, exec>>

\* copy_bundle of the fallback, or of the only bundle.
CopyBundle ==
    /\ pc = "copy"
    /\ \/ /\ copied' = copied \cup {IF IsTrial THEN "fallback" ELSE bundle}
          /\ Goto(IF IsTrial THEN "copyPrimary" ELSE "umount")
       \/ Fail("step") /\ UNCHANGED copied
    /\ UNCHANGED <<run, storage, verified, bundle, trial, exec>>

\* A primary that cannot be copied is remembered, not fatal.
CopyPrimary ==
    /\ pc = "copyPrimary"
    /\ copied' \in {copied, copied \cup {"primary"}}
    /\ Goto("umount")
    /\ UNCHANGED <<run, storage, verified, bundle, trial, exec>>

\* p24 is unmounted; the rescue path locks every node here.
UmountRoot ==
    /\ pc = "umount"
    /\ \/ /\ mounted' = mounted \ {"root"}
          /\ \E ok \in BOOLEAN :
                /\ IF request = "fallback" THEN Relocked(ok) ELSE UNCHANGED locked
                /\ IF request = "fallback" /\ ~ok THEN Fail("step") ELSE Goto("verify")
       \/ Fail("step") /\ UNCHANGED <<mounted, locked>>
    /\ UNCHANGED <<run, userDir, bundles, trial, exec>>

\* verify_bundle of the fallback, or of the only bundle.
VerifyBundle ==
    LET name == IF IsTrial THEN "fallback" ELSE bundle IN
    /\ pc = "verify"
    /\ \/ /\ name \in good
          /\ verified' = verified \cup {name}
          /\ Goto(IF IsTrial THEN "verifyPrimary" ELSE "load")
       \/ Fail("step") /\ UNCHANGED verified
    /\ UNCHANGED <<run, storage, copied, bundle, trial, exec>>

\* The trial is only decided for a primary that was copied and verifies.
VerifyPrimary ==
    /\ pc = "verifyPrimary"
    /\ \/ /\ "primary" \in copied \cap good
          /\ verified' = verified \cup {"primary"}
          /\ attempt' = 1
          /\ Goto("relock")
       \/ Goto("refusePrimary") /\ UNCHANGED <<verified, attempt>>
    /\ UNCHANGED <<run, storage, copied, bundle, trialMounted, decisions,
                   decision, exec>>

\* Mutant of RefusePrimary: the fallback is executed without the relock.
MutRefusePrimaryUnlocked ==
    /\ pc = "refusePrimary"
    /\ bundle' = "fallback"
    /\ Goto("load")
    /\ UNCHANGED <<run, storage, copied, verified, trial, exec>>

\* A broken primary leaves the trial record alone and boots the fallback.
RefusePrimary ==
    /\ pc = "refusePrimary"
    /\ \E ok \in BOOLEAN :
          /\ Relocked(ok)
          /\ IF ok THEN bundle' = "fallback" /\ Goto("load")
                   ELSE UNCHANGED bundle /\ Fail("trial_state")
    /\ UNCHANGED <<run, mounted, userDir, copied, verified, trial, exec>>

-----------------------------------------------------------------------------
(* select_trial_bundle.                                                     *)

\* An attempt starts from a device with every node locked.
Relock ==
    /\ pc = "relock"
    /\ trialMounted' = FALSE
    /\ \E ok \in BOOLEAN : Relocked(ok) /\ Goto(IF ok THEN "openDisk" ELSE "retry")
    /\ UNCHANGED <<run, mounted, userDir, bundles, attempt, decisions, decision,
                   exec>>

\* blockdev --setrw of the disk, then of userdata.
Open(step, device, next) ==
    /\ pc = step
    /\ \/ locked' = locked \ {device} /\ Goto(next)
       \/ UNCHANGED locked /\ Goto("retry")
    /\ UNCHANGED <<run, mounted, userDir, bundles, trial, exec>>

OpenDisk == Open("openDisk", "disk", "openUserdata")

OpenUserdata == Open("openUserdata", "userdata", "window")

\* verify_trial_write_window: exactly the two nodes are writable.
VerifyWindow ==
    /\ pc = "window"
    /\ Goto("retry") \/ (locked = Devices \ {"disk", "userdata"} /\ Goto("mkdir"))
    /\ UNCHANGED <<run, storage, bundles, trial, exec>>

MakeUserDir ==
    /\ pc = "mkdir"
    /\ \/ ~userDir /\ userDir' = TRUE /\ Goto("mountUserdata")
       \/ UNCHANGED userDir /\ Goto("retry")
    /\ UNCHANGED <<run, locked, mounted, bundles, trial, exec>>

MountUserdata ==
    /\ pc = "mountUserdata"
    /\ \/ /\ mounted' = mounted \cup {"userdata"}
          /\ trialMounted' = TRUE
          /\ Goto("identity")
       \/ UNCHANGED <<mounted, trialMounted>> /\ Goto("retry")
    /\ UNCHANGED <<run, locked, userDir, bundles, attempt, decisions, decision,
                   exec>>

\* blkid: the UUID, label and type of userdata.
CheckIdentity ==
    /\ pc = "identity"
    /\ Goto("decide") \/ Goto("retry")
    /\ UNCHANGED <<run, storage, bundles, trial, exec>>

\* sync, umount, relock and rmdir, each tried whatever the others did.  An
\* umount is tried when the script believes userdata is mounted.
Cleanup(clean) ==
    \E synced, unmounted, relocked, removed \in BOOLEAN :
       /\ trialMounted \/ (synced /\ unmounted)
       /\ unmounted /\ trialMounted => "userdata" \in mounted
       /\ mounted' = IF trialMounted /\ unmounted THEN mounted \ {"userdata"} ELSE mounted
       /\ Relocked(relocked)
       /\ IF userDir THEN removed => "userdata" \notin mounted' ELSE removed
       /\ userDir' = (userDir /\ ~removed)
       /\ clean = (synced /\ unmounted /\ relocked /\ removed)

\* The end of a failed attempt; the last one goes on to the fallback.
Retry ==
    /\ pc = "retry"
    /\ \E clean \in BOOLEAN :
          /\ Cleanup(clean)
          /\ IF ~clean THEN Fail("trial_state") /\ UNCHANGED attempt
             ELSE IF attempt < MaxAttempts
                  THEN attempt' = attempt + 1 /\ Goto("relock")
                  ELSE UNCHANGED attempt /\ Goto("cleanup")
    /\ UNCHANGED <<run, bundles, trialMounted, decisions, decision, exec>>

\* Mutant of Decide: an unreadable answer is retried.
MutDecideRetries ==
    /\ pc = "decide"
    /\ decisions' = 1
    /\ \E answer \in {"primary", "fallback", "error", "garbage"} :
          /\ decision' = answer
          /\ Goto(IF answer \in {"error", "garbage"} /\ attempt < MaxAttempts
                  THEN "retry" ELSE "cleanup")
    /\ UNCHANGED <<run, storage, bundles, attempt, trialMounted, exec>>

\* Exactly one call of the trial helper (its answer: TryOnce).
Decide ==
    /\ pc = "decide"
    /\ decisions' = decisions + 1
    /\ decision' \in {"primary", "fallback", "error", "garbage"}
    /\ Goto("cleanup")
    /\ UNCHANGED <<run, storage, bundles, attempt, trialMounted, exec>>

\* Mutant of CloseWindow: any answer but the fallback's name is the primary.
MutCloseWindowTrustsAnswer ==
    /\ pc = "cleanup"
    /\ \E clean \in BOOLEAN :
          /\ Cleanup(clean)
          /\ IF clean
             THEN /\ bundle' = IF decision \in {"none", "fallback"} THEN "fallback" ELSE "primary"
                  /\ Goto("load")
             ELSE UNCHANGED bundle /\ Fail("trial_state")
    /\ UNCHANGED <<run, copied, verified, trial, exec>>

\* The window is closed before the choice counts.
CloseWindow ==
    /\ pc = "cleanup"
    /\ \E clean \in BOOLEAN :
          /\ Cleanup(clean)
          /\ IF clean
             THEN /\ bundle' = IF decision = "primary" THEN "primary" ELSE "fallback"
                  /\ Goto("load")
             ELSE UNCHANGED bundle /\ Fail("trial_state")
    /\ UNCHANGED <<run, copied, verified, trial, exec>>

-----------------------------------------------------------------------------
(* kexec.                                                                   *)

\* Mutant of KexecLoad: the loader's own watchdog is killed already here.
MutKexecLoadKillsWatchdog ==
    /\ pc = "load"
    /\ origin' = IF request = "ram" THEN "ram" ELSE "disk"
    /\ watchdog' = IF watchdog = "armed" THEN "killed" ELSE watchdog
    /\ Goto("haven") \/ Fail("step")
    /\ UNCHANGED <<run, storage, bundles, trial>>

\* The plan and command line of the bundle, with the origin of an embedded one,
\* and kexec -l.
KexecLoad ==
    /\ pc = "load"
    /\ origin' = IF request = "ram" THEN "ram" ELSE "disk"
    /\ Goto("haven") \/ Fail("step")
    /\ UNCHANGED <<run, storage, bundles, trial, watchdog>>

\* disable_haven_watchdog.
DisableHaven == Command("haven", "watchdog")

\* From here on nobody watches the standalone loader.
KillWatchdog ==
    /\ pc = "watchdog"
    /\ watchdog' = IF watchdog = "armed" THEN "killed" ELSE watchdog
    /\ Goto("execute")
    /\ UNCHANGED <<run, storage, bundles, trial, origin>>

\* kexec -e jumps, or returns.
Execute == Command("execute", "executed")

\* The 180 s watchdog of the standalone loader.
Watchdog ==
    /\ watchdog = "armed"
    /\ pc \notin Ended
    /\ pc' = "bootloader"
    /\ reason' = "timeout"
    /\ UNCHANGED <<run, storage, bundles, trial, exec>>

\* trap 'fail interrupted' HUP INT TERM.
Interrupt ==
    /\ pc \notin Ended
    /\ Fail("interrupted")
    /\ UNCHANGED <<run, storage, bundles, trial, exec>>

Step ==
    \/ ResolveStorage \/ PrepareEmbedded \/ LockRoot \/ MountRoot \/ ReadSelector
    \/ CopyBundle \/ CopyPrimary \/ UmountRoot \/ VerifyBundle \/ VerifyPrimary
    \/ RefusePrimary \/ Relock \/ OpenDisk \/ OpenUserdata \/ VerifyWindow
    \/ MakeUserDir \/ MountUserdata \/ CheckIdentity \/ Retry \/ Decide \/ CloseWindow
    \/ KexecLoad \/ DisableHaven \/ KillWatchdog \/ Execute

Next == Step \/ Watchdog \/ Interrupt

Spec == Init /\ [][Next]_vars

\* Any command may hang, so no step is fair.  The watchdog is a process of its
\* own that only sleeps; kill and half a second later kexec -e end by themselves.
FairSpec == Spec /\ WF_vars(Watchdog) /\ WF_vars(KillWatchdog) /\ WF_vars(Execute)

-----------------------------------------------------------------------------
(* Properties.                                                              *)

\* What is executed was copied and verified in this run, and a trial's primary
\* only on the helper's explicit answer: a helper that fails, or prints
\* anything else, means the fallback.
ExecutesWhatWasDecided ==
    pc = "executed" =>
        /\ bundle \in copied \cap verified \cap good
        /\ bundle = "primary" => decisions = 1 /\ decision = "primary"
        /\ bundle = "embedded" <=> origin = "ram"

\* No file system of the phone is mounted when the next kernel starts, and
\* every node is read-only, except that a plain (v1) selector only ever
\* locked the two nodes it reads p24 through.
SealedAtExecution ==
    pc = "executed" =>
        /\ mounted = {}
        /\ {"disk", "root"} \subseteq locked
        /\ IsTrial \/ request # "none" => locked = Devices

\* The trial record is only touched for a primary and a fallback that both
\* verified: "a broken primary" does not use up its one boot, and a rescue or
\* RAM run never opens userdata.
DecidesOnlyVerifiedTrials ==
    decisions > 0 \/ "userdata" \in mounted =>
        IsTrial /\ {"primary", "fallback"} \subseteq verified

\* "Never retry after this exact helper may publish or observe state": after
\* the helper was called no node is opened again.
NoRetryAfterDecision == [][decisions > 0 => locked \subseteq locked']_vars

\* The standalone loader never stays where it hung: it starts a system or
\* returns to the bootloader.
StandaloneEnds == mode = "standalone" ~> pc \in {"executed", "bootloader"}
=============================================================================
