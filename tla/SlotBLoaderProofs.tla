-------------------------- MODULE SlotBLoaderProofs --------------------------
(***************************************************************************)
(* What the Slot B loader executes, what it leaves locked and when it asks *)
(* for the trial, for any number of attempts at the write window.          *)
(***************************************************************************)
EXTENDS SlotBLoader, TLAPS

-----------------------------------------------------------------------------
(* The inductive invariant: what holds at each part of the script.          *)

Reading == {"select", "copy", "copyPrimary", "umount"}
Checking == {"verify", "verifyPrimary", "refusePrimary"}
Opening == {"openDisk", "openUserdata", "window", "mkdir", "mountUserdata"}
Window == Opening \cup {"relock", "identity", "retry", "decide", "cleanup"}
Leaving == {"load", "haven", "watchdog", "execute", "executed"}

\* The bundle that copy_bundle and verify_bundle are called for first.
First == IF IsTrial THEN "fallback" ELSE bundle

\* What the selector made of the request, until the trial is decided.
Selected ==
    /\ request # "ram"
    /\ selector # "invalid"
    /\ bundle = IF request = "fallback" THEN "fallback"
                ELSE IF selector = "single" THEN "single" ELSE "primary"

\* The bundles: nothing is verified that is not in RAM and good.
Sources ==
    /\ request \in {"none", "fallback", "ram"}
    /\ selector \in {"invalid", "single", "trial"}
    /\ verified \subseteq copied \cap good
    /\ pc \in {"lock", "mountRoot", "select"} => request # "ram"
    /\ pc = "embedded" => request = "ram"
    /\ pc \in {"copy", "copyPrimary", "umount"} \cup Checking => Selected
    /\ pc \in {"copyPrimary", "verifyPrimary", "refusePrimary"} \cup Window => IsTrial
    /\ pc \in {"copyPrimary", "umount"} \cup Checking => First \in copied
    /\ pc \in {"verifyPrimary", "refusePrimary"} => "fallback" \in verified
    /\ pc \in Window => {"primary", "fallback"} \subseteq verified

\* The storage: p24 is mounted only while it is read, userdata only between
\* its mount and the cleanup, and then the script knows that it is.
Storage ==
    /\ mounted \subseteq {"root", "userdata"}
    /\ pc \in {"resolve", "embedded", "lock", "mountRoot", "relock"}
              \cup Checking \cup Opening \cup Leaving => mounted = {}
    /\ pc \in Reading => mounted = {"root"}
    /\ pc \in Window => "root" \notin mounted /\ ("userdata" \in mounted => trialMounted)
    /\ pc \in {"mountRoot"} \cup Reading \cup Checking => {"disk", "root"} \subseteq locked
    /\ pc \in Checking /\ request = "fallback" => locked = Devices
    /\ locked \subseteq Devices

\* The decision: asked once, for a verified trial, and only the cleanup and
\* the execution come after it.
Decided ==
    /\ decisions \in {0, 1}
    /\ decisions = 0 <=> decision = "none"
    /\ decisions # 0 => pc \in {"cleanup"} \cup Leaving \cup Ended
    /\ decisions # 0 \/ "userdata" \in mounted => IsTrial /\ {"primary", "fallback"} \subseteq verified

\* The execution: what is loaded was verified and decided, and all is closed.
Closed ==
    /\ pc \in Leaving =>
          /\ bundle \in verified
          /\ bundle = "primary" => decision = "primary"
          /\ bundle = "embedded" <=> request = "ram"
          /\ {"disk", "root"} \subseteq locked
          /\ IsTrial \/ request # "none" => locked = Devices
    /\ pc \in Leaving \ {"load"} => (origin = "ram" <=> request = "ram")

IInv == Sources /\ Storage /\ Decided /\ Closed

-----------------------------------------------------------------------------
(* Preservation.                                                            *)

\* A run starts with nothing mounted, copied or decided.
LEMMA InitInv == Init => IInv
  BY DEF Init, IInv, Sources, Storage, Decided, Closed, Reading, Checking, Opening, Window,
         Leaving, Ended, IsTrial, Devices

\* A cleanup only closes; one without failure leaves nothing mounted and every
\* node locked.
LEMMA CleanupCloses ==
    ASSUME IInv, pc \in {"retry", "cleanup"}, NEW clean \in BOOLEAN, Cleanup(clean)
    PROVE  /\ mounted' \subseteq mounted
           /\ locked \subseteq locked' /\ locked' \subseteq Devices
           /\ clean => mounted' = {} /\ locked' = Devices
  <1>1. locked \subseteq Devices /\ mounted \subseteq {"root", "userdata"} /\ "root" \notin mounted
        /\ ("userdata" \in mounted => trialMounted)
    BY DEF IInv, Storage, Window
  <1>2. PICK synced, unmounted, relocked, removed \in BOOLEAN :
          /\ trialMounted \/ (synced /\ unmounted)
          /\ mounted' = IF trialMounted /\ unmounted THEN mounted \ {"userdata"} ELSE mounted
          /\ Relocked(relocked)
          /\ clean = (synced /\ unmounted /\ relocked /\ removed)
    BY DEF Cleanup
  <1>3. locked \subseteq locked' /\ locked' \subseteq Devices /\ (relocked => locked' = Devices)
    BY <1>1, <1>2 DEF Relocked
  <1>4. mounted' \subseteq mounted
    BY <1>2
  <1>5. ASSUME clean PROVE mounted' = {} /\ locked' = Devices
    <2>1. unmounted /\ relocked
      BY <1>2, <1>5, SMT
    <2> QED BY <1>1, <1>2, <1>3, <2>1
  <1> QED BY <1>3, <1>4, <1>5

\* Every step of the script, the watchdog and an interrupt preserve it.
LEMMA NextInv == IInv /\ [Next]_vars => IInv'
  <1> SUFFICES ASSUME IInv, [Next]_vars PROVE IInv'
    OBVIOUS
  <1> USE DEF IInv, Sources, Storage, Decided, Closed, Reading, Checking, Opening, Window,
              Leaving, Ended, Devices, IsTrial, First, Selected, run, storage, bundles, trial, exec,
              Goto, Fail
  <1>1. CASE ResolveStorage
    BY <1>1 DEF Command, ResolveStorage
  <1>2. CASE PrepareEmbedded
    BY <1>2, ZenonT(30) DEF Relocked, PrepareEmbedded
  <1>3. CASE LockRoot
    BY <1>3 DEF LockRoot
  <1>4. CASE MountRoot
    BY <1>4, ZenonT(30) DEF MountRoot
  <1>5. CASE ReadSelector
    BY <1>5 DEF ReadSelector
  <1>6. CASE CopyBundle
    BY <1>6 DEF CopyBundle
  <1>7. CASE CopyPrimary
    BY <1>7 DEF CopyPrimary
  <1>8. CASE UmountRoot
    BY <1>8, ZenonT(30) DEF Relocked, UmountRoot
  <1>9. CASE VerifyBundle
    <2>1. /\ pc = "verify" /\ UNCHANGED <<run, storage, copied, bundle, trial, exec>>
          /\ First \in copied /\ Selected /\ mounted = {}
      BY <1>9 DEF VerifyBundle
    <2>2. CASE Fail("step") /\ UNCHANGED verified
      BY <2>1, <2>2
    <2>3. CASE First \in good /\ verified' = verified \cup {First} /\ IsTrial /\ Goto("verifyPrimary")
      BY <2>1, <2>3
    <2>4. CASE First \in good /\ verified' = verified \cup {First} /\ ~IsTrial /\ Goto("load")
      BY <2>1, <2>4
    <2>5. \/ Fail("step") /\ UNCHANGED verified
          \/ First \in good /\ verified' = verified \cup {First} /\ IsTrial /\ Goto("verifyPrimary")
          \/ First \in good /\ verified' = verified \cup {First} /\ ~IsTrial /\ Goto("load")
      BY <1>9 DEF VerifyBundle
    <2> QED BY <2>2, <2>3, <2>4, <2>5
  <1>10. CASE VerifyPrimary
    BY <1>10 DEF VerifyPrimary
  <1>11. CASE RefusePrimary
    BY <1>11, ZenonT(30) DEF Relocked, RefusePrimary
  <1>12. CASE Relock
    BY <1>12, ZenonT(30) DEF Relocked, Relock
  <1>13. CASE OpenDisk
    BY <1>13, ZenonT(30) DEF Open, OpenDisk
  <1>14. CASE OpenUserdata
    BY <1>14, ZenonT(30) DEF Open, OpenUserdata
  <1>15. CASE VerifyWindow
    BY <1>15 DEF VerifyWindow
  <1>16. CASE MakeUserDir
    BY <1>16 DEF MakeUserDir
  <1>17. CASE MountUserdata
    BY <1>17, ZenonT(30) DEF MountUserdata
  <1>18. CASE CheckIdentity
    BY <1>18 DEF CheckIdentity
  <1>19. CASE Retry
    <2>1. PICK clean \in BOOLEAN : Cleanup(clean) /\
            IF ~clean THEN Fail("trial_state") /\ UNCHANGED attempt
            ELSE IF attempt < MaxAttempts
                 THEN attempt' = attempt + 1 /\ Goto("relock")
                 ELSE UNCHANGED attempt /\ Goto("cleanup")
      BY <1>19 DEF Retry
    <2>2. /\ mounted' \subseteq mounted
          /\ locked \subseteq locked' /\ locked' \subseteq Devices
          /\ clean => mounted' = {} /\ locked' = Devices
      BY <1>19, <2>1, CleanupCloses DEF Retry
    <2> QED BY <1>19, <2>1, <2>2 DEF Retry
  <1>20. CASE Decide
    BY <1>20 DEF Decide
  <1>21. CASE CloseWindow
    <2>1. PICK clean \in BOOLEAN : Cleanup(clean) /\
            IF clean
            THEN /\ bundle' = IF decision = "primary" THEN "primary" ELSE "fallback"
                 /\ Goto("load")
            ELSE UNCHANGED bundle /\ Fail("trial_state")
      BY <1>21 DEF CloseWindow
    <2>2. /\ mounted' \subseteq mounted
          /\ locked \subseteq locked' /\ locked' \subseteq Devices
          /\ clean => mounted' = {} /\ locked' = Devices
      BY <1>21, <2>1, CleanupCloses DEF CloseWindow
    <2> QED BY <1>21, <2>1, <2>2 DEF CloseWindow
  <1>22. CASE KexecLoad
    BY <1>22 DEF KexecLoad
  <1>23. CASE DisableHaven
    BY <1>23 DEF Command, DisableHaven
  <1>24. CASE KillWatchdog
    BY <1>24 DEF KillWatchdog
  <1>25. CASE Execute
    BY <1>25 DEF Execute, Command
  <1>26. CASE Watchdog
    BY <1>26 DEF Watchdog
  <1>27. CASE Interrupt
    BY <1>27 DEF Interrupt
  <1>28. CASE UNCHANGED vars
    BY <1>28 DEF vars
  <1> QED BY <1>1, <1>2, <1>3, <1>4, <1>5, <1>6, <1>7, <1>8, <1>9, <1>10, <1>11, <1>12, <1>13, <1>14, <1>15, <1>16, <1>17, <1>18, <1>19, <1>20, <1>21, <1>22, <1>23, <1>24, <1>25, <1>26, <1>27, <1>28, ZenonT(30) DEF Next, Step

-----------------------------------------------------------------------------
(* The theorems.                                                            *)

\* What holds at each part of the script holds in every reachable state.
THEOREM LoaderInvariance == Spec => []IInv
  BY InitInv, NextInv, PTL DEF Spec

\* kexec -e only ever starts a bundle that was copied and verified in this run,
\* and a trial's primary only on the helper's explicit answer.
THEOREM AlwaysExecutesWhatWasDecided == Spec => []ExecutesWhatWasDecided
  <1>1. IInv => ExecutesWhatWasDecided
    BY DEF IInv, Sources, Decided, Closed, Leaving, ExecutesWhatWasDecided
  <1> QED BY <1>1, LoaderInvariance, PTL

\* Nothing is mounted and the nodes are read-only when the next kernel starts,
\* whichever commands failed on the way.
THEOREM AlwaysSealedAtExecution == Spec => []SealedAtExecution
  <1>1. IInv => SealedAtExecution
    BY DEF IInv, Storage, Closed, Leaving, SealedAtExecution
  <1> QED BY <1>1, LoaderInvariance, PTL

\* The helper is asked, and userdata mounted, only in a trial run whose two
\* bundles both verified.
THEOREM AlwaysDecidesOnlyVerifiedTrials == Spec => []DecidesOnlyVerifiedTrials
  <1>1. IInv => DecidesOnlyVerifiedTrials
    BY DEF IInv, Decided, DecidesOnlyVerifiedTrials
  <1> QED BY <1>1, LoaderInvariance, PTL

\* Once the helper was called no step opens a node again: the attempts of
\* select_trial_bundle, however many, all come before.
THEOREM NeverRetriesAfterDecision == Spec => NoRetryAfterDecision
  <1>1. IInv /\ [Next]_vars => [decisions > 0 => locked \subseteq locked']_vars
    <2> SUFFICES ASSUME IInv, Next, decisions > 0 PROVE locked \subseteq locked'
      OBVIOUS
    <2>1. pc \in {"cleanup"} \cup Leaving \cup Ended /\ locked \subseteq Devices
      BY DEF IInv, Decided, Storage
    <2>2. CASE CloseWindow
      <3>1. PICK clean \in BOOLEAN : Cleanup(clean)
        BY <2>2 DEF CloseWindow
      <3> QED BY <2>2, <3>1, CleanupCloses DEF CloseWindow
    <2>3. CASE KexecLoad \/ DisableHaven \/ KillWatchdog \/ Execute \/ Watchdog \/ Interrupt
      BY <2>3, SMT DEF KexecLoad, DisableHaven, Command, KillWatchdog, Execute, Watchdog,
         Interrupt, storage
    <2>4. CASE Step /\ ~(CloseWindow \/ KexecLoad \/ DisableHaven \/ KillWatchdog \/ Execute)
      BY <2>1, <2>4, ZenonT(30) DEF Step, Leaving, Ended, ResolveStorage, Command, PrepareEmbedded, LockRoot,
         MountRoot, ReadSelector, CopyBundle, CopyPrimary, UmountRoot, VerifyBundle, VerifyPrimary,
         RefusePrimary, Relock, OpenDisk, OpenUserdata, Open, VerifyWindow, MakeUserDir,
         MountUserdata, CheckIdentity, Retry, Decide
    <2> QED BY <2>2, <2>3, <2>4 DEF Next
  <1> QED BY <1>1, LoaderInvariance, PTL DEF Spec, NoRetryAfterDecision
=============================================================================
