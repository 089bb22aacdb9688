--------------------------- MODULE UsbSuspendProofs ---------------------------
(***************************************************************************)
(* The suspend interlock of the side USB port, for any number of events,   *)
(* suspends, retries, replays, kicks and timers: no run is in a            *)
(* transaction during an admitted suspend, the controller never stays      *)
(* unbound unnoticed, re-initialisations are bounded, and no event is      *)
(* forgotten outside the named gaps.                                       *)
(***************************************************************************)
EXTENDS UsbSuspend, TLAPS

\* After the run looked at the port, with the trap set.
Looked == (Interruptible \ {"look"}) \cup {"trap", "replay"}
Checking == {"check", "stale", "skip"}
Late == pc \in Looked \/ (pc \in Checking /\ after # "look")

Steps == Interruptible \cup Checking \cup {"off", "flock", "busy", "begin", "trap", "replay", "exit"}

TypeInv ==
    /\ pc \in Steps
    /\ after \in {"look", "kick", "request", "reinit", "unbind"}
    /\ lock \in {"free", "run", "hook"} /\ gaveup \in {"none", "nodp", "dp"}
    /\ dpNow \in {"nodp", "dp"} /\ timers \in Nat /\ udev \in {"idle", "touch", "start"}

\* Who holds the lock: a run from its flock to its end, the hook in its own
\* sections.
LockInv ==
    /\ pc \in Interruptible \cup {"begin", "check", "stale", "trap", "replay"} => lock = "run"
    /\ pc = "skip" /\ after # "look" => lock = "run"
    /\ lock = "run" => pc \notin {"off", "flock", "busy"}
    /\ pc \in {"off", "flock", "busy", "begin"} => after = "look"
    /\ lock = "hook" <=> hook \in {"remark", "list", "recover", "clear", "unlock"}

\* From the admission on the marker stands and nobody judged it stale.
QuietInv ==
    /\ hook = "pre" => byHand
    /\ Admitted => suspending /\ pc \notin Interruptible \cup {"stale"}

\* The controller is unbound only in the hands of a run that knows it, or of pre
\* after it cut that run's trap short.
BoundInv ==
    ~bound /\ ~bindFailed =>
        \/ lock = "run" /\ unbound /\ (pc = "bind" \/ (pc = "trap" /\ stopped))
        \/ hook = "relock"

\* A re-initialisation under way, which the run counts when it ends.
Underway == pc \in {"unbind", "bind", "settle", "enumWait"} /\ after = "reinit"

\* Re-initialisations without effect are what the retry counter and the give-up
\* record say.
CountInv ==
    /\ retries \in 0 .. MaxRetries
    /\ pc \in {"reinit", "settle", "enumWait"} => after = "reinit"
    /\ pc \in {"kick", "kickWait", "kickLit", "request", "swapBack", "kickPoll", "reinit"} => gaveup = "none"
    /\ pc \in Checking /\ after \in {"kick", "request", "reinit"} => gaveup = "none"
    /\ Underway => gaveup = "none"
    /\ gaveup = "none" => cycles = retries + (IF Underway THEN 1 ELSE 0)
    /\ gaveup # "none" => cycles \in 0 .. MaxRetries + 1

\* An event that its marker or its start announced, that no run looked at and
\* that fell into no gap, still has somebody who will look.
EventInv ==
    Dropped /\ lost = "no" =>
        /\ Late => pending \/ (skipped /\ hook \in {"relock", "unlocked", "post"})
        /\ pc \in {"off", "exit"} => udev = "start" \/ timers > 0 \/ (skipped /\ WillReplay)

IInv == TypeInv /\ LockInv /\ QuietInv /\ BoundInv /\ CountInv /\ EventInv

-----------------------------------------------------------------------------
(* Each part of the invariant survives every step.                          *)

\* Every variable keeps its range.
LEMMA TypeStep == IInv /\ [Next]_vars => TypeInv'
  <1> SUFFICES ASSUME IInv, [Next]_vars PROVE TypeInv'
    OBVIOUS
  <1>0. TypeInv /\ LockInv
    BY DEF IInv
  <1>1. CASE Change \/ UdevTouch
    BY <1>0, <1>1, BoundsAssumption DEF Change, UdevTouch, Goes, Turns, TypeInv, LockInv, Steps,
       Checking, Interruptible, usb, files, tries, local, service, outside, sleep, seen
  <1>2. CASE UdevStart
    BY <1>0, <1>2, BoundsAssumption DEF UdevStart, Gap, StartRun, Dropped, WillReplay, Goes, Turns,
       TypeInv, LockInv, Steps, Checking, Interruptible, usb, files, tries, local, service, outside,
       sleep, seen
  <1>3. CASE RoleEvent \/ TimerFires
    BY <1>0, <1>3, BoundsAssumption DEF RoleEvent, StartRun, TimerFires, Gap, Dropped, WillReplay,
       Goes, Turns, TypeInv, LockInv, Steps, Checking, Interruptible, usb, files, tries, local,
       service, outside, sleep, seen
  <1>4. CASE Flock \/ Busy \/ Begin
    BY <1>0, <1>4, BoundsAssumption DEF Flock, Busy, Gap, Dropped, Begin, Goes, Turns, TypeInv,
       LockInv, Steps, Checking, Interruptible, usb, files, tries, local, service, outside, sleep,
       seen
  <1>5. CASE Check \/ Stale \/ Skip
    BY <1>0, <1>5, BoundsAssumption DEF Check, Sleeper, Job, Stale, Skip, Gap, TooLate, Dropped,
       WillReplay, Goes, Turns, TypeInv, LockInv, Steps, Checking, Interruptible, usb, files, tries,
       local, service, outside, sleep, seen
  <1>6. CASE Look \/ Device \/ DeviceWait \/ Gadget
    BY <1>0, <1>6, BoundsAssumption DEF Look, Device, DeviceWait, LookAgain, Gadget, Goes, Turns,
       TypeInv, LockInv, Steps, Checking, Interruptible, usb, files, tries, local, service, outside,
       sleep, seen
  <1>7. CASE HostWait \/ Rate
    BY <1>0, <1>7, BoundsAssumption DEF HostWait, Succeeds, LeftHost, StillHost, LookAgain, Rate,
       DpState, Schedule, NotScheduled, Scheduled, Goes, Turns, TypeInv, LockInv, Steps, Checking,
       Interruptible, usb, files, tries, local, service, outside, sleep, seen
  <1>8. CASE Kick \/ KickWait
    BY <1>0, <1>8, BoundsAssumption DEF Kick, KickWait, Succeeds, LeftHost, StillHost, LookAgain,
       Goes, Turns, TypeInv, LockInv, Steps, Checking, Interruptible, usb, files, tries, local,
       service, outside, sleep, seen
  <1>9. CASE Request \/ SwapBack
    BY <1>0, <1>9, BoundsAssumption DEF Request, SwapBack, Goes, Turns, TypeInv, LockInv, Steps,
       Checking, Interruptible, usb, files, tries, local, service, outside, sleep, seen
  <1>10. CASE KickPoll \/ KickLit
    BY <1>0, <1>10, BoundsAssumption DEF KickPoll, Succeeds, LeftHost, StillHost, LookAgain,
       KickLit, Goes, Turns, TypeInv, LockInv, Steps, Checking, Interruptible, usb, files, tries,
       local, service, outside, sleep, seen
  <1>11. CASE Reinit \/ Unbind \/ Bind
    BY <1>0, <1>11, BoundsAssumption DEF Reinit, Unbind, Uncounted, Bind, Goes, Turns, TypeInv,
       LockInv, Steps, Checking, Interruptible, usb, files, tries, local, service, outside, sleep,
       seen
  <1>12. CASE Settle \/ EnumWait
    BY <1>0, <1>12, BoundsAssumption DEF Settle, Uncounted, Schedule, NotScheduled, Scheduled,
       EnumWait, Succeeds, Goes, Turns, TypeInv, LockInv, Steps, Checking, Interruptible, usb,
       files, tries, local, service, outside, sleep, seen
  <1>13. CASE Terminated
    BY <1>0, <1>13, BoundsAssumption DEF Terminated, Signalled, Early, Ends, Forget, Gap,
       Interrupted, Uncounted, Dropped, Goes, Turns, TypeInv, LockInv, Steps, Checking,
       Interruptible, usb, files, tries, local, service, outside, sleep, seen
  <1>14. CASE Trap \/ Exit
    BY <1>0, <1>14, BoundsAssumption DEF Trap, Forget, Exit, Ends, Goes, Turns, TypeInv, LockInv,
       Steps, Checking, Interruptible, usb, files, tries, local, service, outside, sleep, seen
  <1>15. CASE Replay
    BY <1>0, <1>15, BoundsAssumption DEF Replay, Gap, TooLate, Dropped, WillReplay, Sleeper,
       Scheduled, Goes, Turns, TypeInv, LockInv, Steps, Checking, Interruptible, usb, files, tries,
       local, service, outside, sleep, seen
  <1>16. CASE Suspend \/ Admit \/ Mark \/ AdmitLock
    BY <1>0, <1>16, BoundsAssumption DEF Suspend, Admit, Gap, Dropped, Mark, AdmitLock, Goes, Turns,
       TypeInv, LockInv, Steps, Checking, Interruptible, usb, files, tries, local, service, outside,
       sleep, seen
  <1>17. CASE Remark \/ Refuse \/ Refused
    BY <1>0, <1>17, BoundsAssumption DEF Remark, Refuse, Refused, ReplaySkipped, Gap, StartRun,
       Dropped, Goes, Turns, TypeInv, LockInv, Steps, Checking, Interruptible, usb, files, tries,
       local, service, outside, sleep, seen
  <1>18. CASE StopPost \/ AdmitKilled
    BY <1>0, <1>18, BoundsAssumption DEF StopPost, AdmitKilled, Gap, Dropped, Goes, Turns, TypeInv,
       LockInv, Steps, Checking, Interruptible, usb, files, tries, local, service, outside, sleep,
       seen
  <1>19. CASE Pre \/ PreLock \/ Relock \/ List
    BY <1>0, <1>19, BoundsAssumption DEF Pre, PreLock, Relock, List, Goes, Turns, TypeInv, LockInv,
       Steps, Checking, Interruptible, usb, files, tries, local, service, outside, sleep, seen
  <1>20. CASE StopRun
    BY <1>0, <1>20, BoundsAssumption DEF StopRun, Signalled, Early, Ends, Forget, Interrupted,
       Uncounted, Goes, Turns, TypeInv, LockInv, Steps, Checking, Interruptible, usb, files, tries,
       local, service, outside, sleep, seen
  <1>21. CASE Resume \/ Post \/ Recover \/ PostKilled
    BY <1>0, <1>21, BoundsAssumption DEF Resume, Post, Gap, Dropped, Recover, PostKilled, Goes,
       Turns, TypeInv, LockInv, Steps, Checking, Interruptible, usb, files, tries, local, service,
       outside, sleep, seen
  <1>22. CASE Clear \/ Unlock \/ PostReplay \/ SuspendEnds
    BY <1>0, <1>22, BoundsAssumption DEF Clear, Unlock, PostReplay, ReplaySkipped, Gap, StartRun,
       Dropped, SuspendEnds, Goes, Turns, TypeInv, LockInv, Steps, Checking, Interruptible, usb,
       files, tries, local, service, outside, sleep, seen
  <1>23. CASE UNCHANGED vars
    BY <1>0, <1>23 DEF vars, TypeInv, LockInv, Steps, Checking, Interruptible, usb, files, tries,
       local, service, outside, sleep, seen
  <1> QED BY <1>1, <1>2, <1>3, <1>4, <1>5, <1>6, <1>7, <1>8, <1>9, <1>10, <1>11, <1>12, <1>13, <1>14, <1>15, <1>16, <1>17, <1>18, <1>19, <1>20, <1>21, <1>22, <1>23 DEF Next, Udev, Run, Hooks

\* Runs and hooks take and leave the lock where the scripts do.
LEMMA LockStep == IInv /\ [Next]_vars => LockInv'
  <1> SUFFICES ASSUME IInv, [Next]_vars PROVE LockInv'
    OBVIOUS
  <1>0. TypeInv /\ LockInv
    BY DEF IInv
  <1>1. CASE Change \/ UdevTouch
    BY <1>0, <1>1 DEF Change, UdevTouch, Goes, Turns, TypeInv, LockInv, Interruptible, Checking,
       Steps, usb, files, tries, local, service, outside, sleep, seen
  <1>2. CASE UdevStart
    BY <1>0, <1>2 DEF UdevStart, Gap, StartRun, Dropped, WillReplay, Goes, Turns, TypeInv, LockInv,
       Interruptible, Checking, Steps, usb, files, tries, local, service, outside, sleep, seen
  <1>3. CASE RoleEvent \/ TimerFires
    BY <1>0, <1>3 DEF RoleEvent, StartRun, TimerFires, Gap, Dropped, WillReplay, Goes, Turns,
       TypeInv, LockInv, Interruptible, Checking, Steps, usb, files, tries, local, service, outside,
       sleep, seen
  <1>4. CASE Flock \/ Busy \/ Begin
    BY <1>0, <1>4 DEF Flock, Busy, Gap, Dropped, Begin, Goes, Turns, TypeInv, LockInv,
       Interruptible, Checking, Steps, usb, files, tries, local, service, outside, sleep, seen
  <1>5. CASE Check \/ Stale \/ Skip
    BY <1>0, <1>5 DEF Check, Sleeper, Job, Stale, Skip, Gap, TooLate, Dropped, WillReplay, Goes,
       Turns, TypeInv, LockInv, Interruptible, Checking, Steps, usb, files, tries, local, service,
       outside, sleep, seen
  <1>6. CASE Look \/ Device \/ DeviceWait \/ Gadget
    BY <1>0, <1>6 DEF Look, Device, DeviceWait, LookAgain, Gadget, Goes, Turns, TypeInv, LockInv,
       Interruptible, Checking, Steps, usb, files, tries, local, service, outside, sleep, seen
  <1>7. CASE HostWait \/ Rate
    BY <1>0, <1>7 DEF HostWait, Succeeds, LeftHost, StillHost, LookAgain, Rate, DpState, Schedule,
       NotScheduled, Scheduled, Goes, Turns, TypeInv, LockInv, Interruptible, Checking, Steps, usb,
       files, tries, local, service, outside, sleep, seen
  <1>8. CASE Kick \/ KickWait
    BY <1>0, <1>8 DEF Kick, KickWait, Succeeds, LeftHost, StillHost, LookAgain, Goes, Turns,
       TypeInv, LockInv, Interruptible, Checking, Steps, usb, files, tries, local, service, outside,
       sleep, seen
  <1>9. CASE Request \/ SwapBack
    BY <1>0, <1>9 DEF Request, SwapBack, Goes, Turns, TypeInv, LockInv, Interruptible, Checking,
       Steps, usb, files, tries, local, service, outside, sleep, seen
  <1>10. CASE KickPoll \/ KickLit
    BY <1>0, <1>10 DEF KickPoll, Succeeds, LeftHost, StillHost, LookAgain, KickLit, Goes, Turns,
       TypeInv, LockInv, Interruptible, Checking, Steps, usb, files, tries, local, service, outside,
       sleep, seen
  <1>11. CASE Reinit \/ Unbind \/ Bind
    BY <1>0, <1>11 DEF Reinit, Unbind, Uncounted, Bind, Goes, Turns, TypeInv, LockInv,
       Interruptible, Checking, Steps, usb, files, tries, local, service, outside, sleep, seen
  <1>12. CASE Settle \/ EnumWait
    BY <1>0, <1>12 DEF Settle, Uncounted, Schedule, NotScheduled, Scheduled, EnumWait, Succeeds,
       Goes, Turns, TypeInv, LockInv, Interruptible, Checking, Steps, usb, files, tries, local,
       service, outside, sleep, seen
  <1>13. CASE Terminated
    BY <1>0, <1>13 DEF Terminated, Signalled, Early, Ends, Forget, Gap, Interrupted, Uncounted,
       Dropped, Goes, Turns, TypeInv, LockInv, Interruptible, Checking, Steps, usb, files, tries,
       local, service, outside, sleep, seen
  <1>14. CASE Trap \/ Exit
    BY <1>0, <1>14 DEF Trap, Forget, Exit, Ends, Goes, Turns, TypeInv, LockInv, Interruptible,
       Checking, Steps, usb, files, tries, local, service, outside, sleep, seen
  <1>15. CASE Replay
    BY <1>0, <1>15 DEF Replay, Gap, TooLate, Dropped, WillReplay, Sleeper, Scheduled, Goes, Turns,
       TypeInv, LockInv, Interruptible, Checking, Steps, usb, files, tries, local, service, outside,
       sleep, seen
  <1>16. CASE Suspend \/ Admit \/ Mark \/ AdmitLock
    BY <1>0, <1>16 DEF Suspend, Admit, Gap, Dropped, Mark, AdmitLock, Goes, Turns, TypeInv, LockInv,
       Interruptible, Checking, Steps, usb, files, tries, local, service, outside, sleep, seen
  <1>17. CASE Remark \/ Refuse \/ Refused
    BY <1>0, <1>17 DEF Remark, Refuse, Refused, ReplaySkipped, Gap, StartRun, Dropped, Goes, Turns,
       TypeInv, LockInv, Interruptible, Checking, Steps, usb, files, tries, local, service, outside,
       sleep, seen
  <1>18. CASE StopPost \/ AdmitKilled
    BY <1>0, <1>18 DEF StopPost, AdmitKilled, Gap, Dropped, Goes, Turns, TypeInv, LockInv,
       Interruptible, Checking, Steps, usb, files, tries, local, service, outside, sleep, seen
  <1>19. CASE Pre \/ PreLock \/ Relock \/ List
    BY <1>0, <1>19 DEF Pre, PreLock, Relock, List, Goes, Turns, TypeInv, LockInv, Interruptible,
       Checking, Steps, usb, files, tries, local, service, outside, sleep, seen
  <1>20. CASE StopRun
    BY <1>0, <1>20 DEF StopRun, Signalled, Early, Ends, Forget, Interrupted, Uncounted, Goes, Turns,
       TypeInv, LockInv, Interruptible, Checking, Steps, usb, files, tries, local, service, outside,
       sleep, seen
  <1>21. CASE Resume \/ Post \/ Recover \/ PostKilled
    BY <1>0, <1>21 DEF Resume, Post, Gap, Dropped, Recover, PostKilled, Goes, Turns, TypeInv,
       LockInv, Interruptible, Checking, Steps, usb, files, tries, local, service, outside, sleep,
       seen
  <1>22. CASE Clear \/ Unlock \/ PostReplay \/ SuspendEnds
    BY <1>0, <1>22 DEF Clear, Unlock, PostReplay, ReplaySkipped, Gap, StartRun, Dropped,
       SuspendEnds, Goes, Turns, TypeInv, LockInv, Interruptible, Checking, Steps, usb, files,
       tries, local, service, outside, sleep, seen
  <1>23. CASE UNCHANGED vars
    BY <1>0, <1>23 DEF vars, TypeInv, LockInv, Interruptible, Checking, Steps, usb, files, tries,
       local, service, outside, sleep, seen
  <1> QED BY <1>1, <1>2, <1>3, <1>4, <1>5, <1>6, <1>7, <1>8, <1>9, <1>10, <1>11, <1>12, <1>13, <1>14, <1>15, <1>16, <1>17, <1>18, <1>19, <1>20, <1>21, <1>22, <1>23 DEF Next, Udev, Run, Hooks

\* The marker of an admitted suspend stands and keeps runs away.
LEMMA QuietStep == IInv /\ [Next]_vars => QuietInv'
  <1> SUFFICES ASSUME IInv, [Next]_vars PROVE QuietInv'
    OBVIOUS
  <1>0. TypeInv /\ LockInv /\ QuietInv
    BY DEF IInv
  <1>1. CASE Change \/ UdevTouch
    BY <1>0, <1>1 DEF Change, UdevTouch, Goes, Turns, TypeInv, LockInv, QuietInv, Admitted,
       Interruptible, Checking, Steps, usb, files, tries, local, service, outside, sleep, seen
  <1>2. CASE UdevStart
    BY <1>0, <1>2 DEF UdevStart, Gap, StartRun, Dropped, WillReplay, Goes, Turns, TypeInv, LockInv,
       QuietInv, Admitted, Interruptible, Checking, Steps, usb, files, tries, local, service,
       outside, sleep, seen
  <1>3. CASE RoleEvent \/ TimerFires
    BY <1>0, <1>3 DEF RoleEvent, StartRun, TimerFires, Gap, Dropped, WillReplay, Goes, Turns,
       TypeInv, LockInv, QuietInv, Admitted, Interruptible, Checking, Steps, usb, files, tries,
       local, service, outside, sleep, seen
  <1>4. CASE Flock \/ Busy \/ Begin
    BY <1>0, <1>4 DEF Flock, Busy, Gap, Dropped, Begin, Goes, Turns, TypeInv, LockInv, QuietInv,
       Admitted, Interruptible, Checking, Steps, usb, files, tries, local, service, outside, sleep,
       seen
  <1>5. CASE Check \/ Stale \/ Skip
    BY <1>0, <1>5 DEF Check, Sleeper, Job, Stale, Skip, Gap, TooLate, Dropped, WillReplay, Goes,
       Turns, TypeInv, LockInv, QuietInv, Admitted, Interruptible, Checking, Steps, usb, files,
       tries, local, service, outside, sleep, seen
  <1>6. CASE Look \/ Device \/ DeviceWait \/ Gadget
    BY <1>0, <1>6 DEF Look, Device, DeviceWait, LookAgain, Gadget, Goes, Turns, TypeInv, LockInv,
       QuietInv, Admitted, Interruptible, Checking, Steps, usb, files, tries, local, service,
       outside, sleep, seen
  <1>7. CASE HostWait \/ Rate
    BY <1>0, <1>7 DEF HostWait, Succeeds, LeftHost, StillHost, LookAgain, Rate, DpState, Schedule,
       NotScheduled, Scheduled, Goes, Turns, TypeInv, LockInv, QuietInv, Admitted, Interruptible,
       Checking, Steps, usb, files, tries, local, service, outside, sleep, seen
  <1>8. CASE Kick \/ KickWait
    BY <1>0, <1>8 DEF Kick, KickWait, Succeeds, LeftHost, StillHost, LookAgain, Goes, Turns,
       TypeInv, LockInv, QuietInv, Admitted, Interruptible, Checking, Steps, usb, files, tries,
       local, service, outside, sleep, seen
  <1>9. CASE Request \/ SwapBack
    BY <1>0, <1>9 DEF Request, SwapBack, Goes, Turns, TypeInv, LockInv, QuietInv, Admitted,
       Interruptible, Checking, Steps, usb, files, tries, local, service, outside, sleep, seen
  <1>10. CASE KickPoll \/ KickLit
    BY <1>0, <1>10 DEF KickPoll, Succeeds, LeftHost, StillHost, LookAgain, KickLit, Goes, Turns,
       TypeInv, LockInv, QuietInv, Admitted, Interruptible, Checking, Steps, usb, files, tries,
       local, service, outside, sleep, seen
  <1>11. CASE Reinit \/ Unbind \/ Bind
    BY <1>0, <1>11 DEF Reinit, Unbind, Uncounted, Bind, Goes, Turns, TypeInv, LockInv, QuietInv,
       Admitted, Interruptible, Checking, Steps, usb, files, tries, local, service, outside, sleep,
       seen
  <1>12. CASE Settle \/ EnumWait
    BY <1>0, <1>12 DEF Settle, Uncounted, Schedule, NotScheduled, Scheduled, EnumWait, Succeeds,
       Goes, Turns, TypeInv, LockInv, QuietInv, Admitted, Interruptible, Checking, Steps, usb,
       files, tries, local, service, outside, sleep, seen
  <1>13. CASE Terminated
    BY <1>0, <1>13 DEF Terminated, Signalled, Early, Ends, Forget, Gap, Interrupted, Uncounted,
       Dropped, Goes, Turns, TypeInv, LockInv, QuietInv, Admitted, Interruptible, Checking, Steps,
       usb, files, tries, local, service, outside, sleep, seen
  <1>14. CASE Trap \/ Exit
    BY <1>0, <1>14 DEF Trap, Forget, Exit, Ends, Goes, Turns, TypeInv, LockInv, QuietInv, Admitted,
       Interruptible, Checking, Steps, usb, files, tries, local, service, outside, sleep, seen
  <1>15. CASE Replay
    BY <1>0, <1>15 DEF Replay, Gap, TooLate, Dropped, WillReplay, Sleeper, Scheduled, Goes, Turns,
       TypeInv, LockInv, QuietInv, Admitted, Interruptible, Checking, Steps, usb, files, tries,
       local, service, outside, sleep, seen
  <1>16. CASE Suspend \/ Admit \/ Mark \/ AdmitLock
    BY <1>0, <1>16 DEF Suspend, Admit, Gap, Dropped, Mark, AdmitLock, Goes, Turns, TypeInv, LockInv,
       QuietInv, Admitted, Interruptible, Checking, Steps, usb, files, tries, local, service,
       outside, sleep, seen
  <1>17. CASE Remark \/ Refuse \/ Refused
    BY <1>0, <1>17 DEF Remark, Refuse, Refused, ReplaySkipped, Gap, StartRun, Dropped, Goes, Turns,
       TypeInv, LockInv, QuietInv, Admitted, Interruptible, Checking, Steps, usb, files, tries,
       local, service, outside, sleep, seen
  <1>18. CASE StopPost \/ AdmitKilled
    BY <1>0, <1>18 DEF StopPost, AdmitKilled, Gap, Dropped, Goes, Turns, TypeInv, LockInv, QuietInv,
       Admitted, Interruptible, Checking, Steps, usb, files, tries, local, service, outside, sleep,
       seen
  <1>19. CASE Pre \/ PreLock \/ Relock \/ List
    BY <1>0, <1>19 DEF Pre, PreLock, Relock, List, Goes, Turns, TypeInv, LockInv, QuietInv,
       Admitted, Interruptible, Checking, Steps, usb, files, tries, local, service, outside, sleep,
       seen
  <1>20. CASE StopRun
    BY <1>0, <1>20 DEF StopRun, Signalled, Early, Ends, Forget, Interrupted, Uncounted, Goes, Turns,
       TypeInv, LockInv, QuietInv, Admitted, Interruptible, Checking, Steps, usb, files, tries,
       local, service, outside, sleep, seen
  <1>21. CASE Resume \/ Post \/ Recover \/ PostKilled
    BY <1>0, <1>21 DEF Resume, Post, Gap, Dropped, Recover, PostKilled, Goes, Turns, TypeInv,
       LockInv, QuietInv, Admitted, Interruptible, Checking, Steps, usb, files, tries, local,
       service, outside, sleep, seen
  <1>22. CASE Clear \/ Unlock \/ PostReplay \/ SuspendEnds
    BY <1>0, <1>22 DEF Clear, Unlock, PostReplay, ReplaySkipped, Gap, StartRun, Dropped,
       SuspendEnds, Goes, Turns, TypeInv, LockInv, QuietInv, Admitted, Interruptible, Checking,
       Steps, usb, files, tries, local, service, outside, sleep, seen
  <1>23. CASE UNCHANGED vars
    BY <1>0, <1>23 DEF vars, TypeInv, LockInv, QuietInv, Admitted, Interruptible, Checking, Steps,
       usb, files, tries, local, service, outside, sleep, seen
  <1> QED BY <1>1, <1>2, <1>3, <1>4, <1>5, <1>6, <1>7, <1>8, <1>9, <1>10, <1>11, <1>12, <1>13, <1>14, <1>15, <1>16, <1>17, <1>18, <1>19, <1>20, <1>21, <1>22, <1>23 DEF Next, Udev, Run, Hooks

\* Whoever finds the controller unbound binds it or reports it.
LEMMA BoundStep == IInv /\ [Next]_vars => BoundInv'
  <1> SUFFICES ASSUME IInv, [Next]_vars PROVE BoundInv'
    OBVIOUS
  <1>0. TypeInv /\ LockInv /\ BoundInv
    BY DEF IInv
  <1>1. CASE Change \/ UdevTouch
    BY <1>0, <1>1 DEF Change, UdevTouch, Goes, Turns, TypeInv, LockInv, BoundInv, Interruptible,
       Checking, Steps, usb, files, tries, local, service, outside, sleep, seen
  <1>2. CASE UdevStart
    BY <1>0, <1>2 DEF UdevStart, Gap, StartRun, Dropped, WillReplay, Goes, Turns, TypeInv, LockInv,
       BoundInv, Interruptible, Checking, Steps, usb, files, tries, local, service, outside, sleep,
       seen
  <1>3. CASE RoleEvent \/ TimerFires
    BY <1>0, <1>3 DEF RoleEvent, StartRun, TimerFires, Gap, Dropped, WillReplay, Goes, Turns,
       TypeInv, LockInv, BoundInv, Interruptible, Checking, Steps, usb, files, tries, local,
       service, outside, sleep, seen
  <1>4. CASE Flock \/ Busy \/ Begin
    BY <1>0, <1>4 DEF Flock, Busy, Gap, Dropped, Begin, Goes, Turns, TypeInv, LockInv, BoundInv,
       Interruptible, Checking, Steps, usb, files, tries, local, service, outside, sleep, seen
  <1>5. CASE Check \/ Stale \/ Skip
    BY <1>0, <1>5 DEF Check, Sleeper, Job, Stale, Skip, Gap, TooLate, Dropped, WillReplay, Goes,
       Turns, TypeInv, LockInv, BoundInv, Interruptible, Checking, Steps, usb, files, tries, local,
       service, outside, sleep, seen
  <1>6. CASE Look \/ Device \/ DeviceWait \/ Gadget
    BY <1>0, <1>6 DEF Look, Device, DeviceWait, LookAgain, Gadget, Goes, Turns, TypeInv, LockInv,
       BoundInv, Interruptible, Checking, Steps, usb, files, tries, local, service, outside, sleep,
       seen
  <1>7. CASE HostWait \/ Rate
    BY <1>0, <1>7 DEF HostWait, Succeeds, LeftHost, StillHost, LookAgain, Rate, DpState, Schedule,
       NotScheduled, Scheduled, Goes, Turns, TypeInv, LockInv, BoundInv, Interruptible, Checking,
       Steps, usb, files, tries, local, service, outside, sleep, seen
  <1>8. CASE Kick \/ KickWait
    BY <1>0, <1>8 DEF Kick, KickWait, Succeeds, LeftHost, StillHost, LookAgain, Goes, Turns,
       TypeInv, LockInv, BoundInv, Interruptible, Checking, Steps, usb, files, tries, local,
       service, outside, sleep, seen
  <1>9. CASE Request \/ SwapBack
    BY <1>0, <1>9 DEF Request, SwapBack, Goes, Turns, TypeInv, LockInv, BoundInv, Interruptible,
       Checking, Steps, usb, files, tries, local, service, outside, sleep, seen
  <1>10. CASE KickPoll \/ KickLit
    BY <1>0, <1>10 DEF KickPoll, Succeeds, LeftHost, StillHost, LookAgain, KickLit, Goes, Turns,
       TypeInv, LockInv, BoundInv, Interruptible, Checking, Steps, usb, files, tries, local,
       service, outside, sleep, seen
  <1>11. CASE Reinit \/ Unbind \/ Bind
    BY <1>0, <1>11 DEF Reinit, Unbind, Uncounted, Bind, Goes, Turns, TypeInv, LockInv, BoundInv,
       Interruptible, Checking, Steps, usb, files, tries, local, service, outside, sleep, seen
  <1>12. CASE Settle \/ EnumWait
    BY <1>0, <1>12 DEF Settle, Uncounted, Schedule, NotScheduled, Scheduled, EnumWait, Succeeds,
       Goes, Turns, TypeInv, LockInv, BoundInv, Interruptible, Checking, Steps, usb, files, tries,
       local, service, outside, sleep, seen
  <1>13. CASE Terminated
    BY <1>0, <1>13 DEF Terminated, Signalled, Early, Ends, Forget, Gap, Interrupted, Uncounted,
       Dropped, Goes, Turns, TypeInv, LockInv, BoundInv, Interruptible, Checking, Steps, usb, files,
       tries, local, service, outside, sleep, seen
  <1>14. CASE Trap \/ Exit
    BY <1>0, <1>14 DEF Trap, Forget, Exit, Ends, Goes, Turns, TypeInv, LockInv, BoundInv,
       Interruptible, Checking, Steps, usb, files, tries, local, service, outside, sleep, seen
  <1>15. CASE Replay
    BY <1>0, <1>15 DEF Replay, Gap, TooLate, Dropped, WillReplay, Sleeper, Scheduled, Goes, Turns,
       TypeInv, LockInv, BoundInv, Interruptible, Checking, Steps, usb, files, tries, local,
       service, outside, sleep, seen
  <1>16. CASE Suspend \/ Admit \/ Mark \/ AdmitLock
    BY <1>0, <1>16 DEF Suspend, Admit, Gap, Dropped, Mark, AdmitLock, Goes, Turns, TypeInv, LockInv,
       BoundInv, Interruptible, Checking, Steps, usb, files, tries, local, service, outside, sleep,
       seen
  <1>17. CASE Remark \/ Refuse \/ Refused
    BY <1>0, <1>17 DEF Remark, Refuse, Refused, ReplaySkipped, Gap, StartRun, Dropped, Goes, Turns,
       TypeInv, LockInv, BoundInv, Interruptible, Checking, Steps, usb, files, tries, local,
       service, outside, sleep, seen
  <1>18. CASE StopPost \/ AdmitKilled
    BY <1>0, <1>18 DEF StopPost, AdmitKilled, Gap, Dropped, Goes, Turns, TypeInv, LockInv, BoundInv,
       Interruptible, Checking, Steps, usb, files, tries, local, service, outside, sleep, seen
  <1>19. CASE Pre \/ PreLock \/ Relock \/ List
    BY <1>0, <1>19, ZenonT(30) DEF Pre, PreLock, Relock, List, Goes, Turns, TypeInv, LockInv,
       BoundInv, Interruptible, Checking, Steps, usb, files, tries, local, service, outside, sleep,
       seen
  <1>20. CASE StopRun
    BY <1>0, <1>20 DEF StopRun, Signalled, Early, Ends, Forget, Interrupted, Uncounted, Goes, Turns,
       TypeInv, LockInv, BoundInv, Interruptible, Checking, Steps, usb, files, tries, local,
       service, outside, sleep, seen
  <1>21. CASE Resume \/ Post \/ Recover \/ PostKilled
    BY <1>0, <1>21 DEF Resume, Post, Gap, Dropped, Recover, PostKilled, Goes, Turns, TypeInv,
       LockInv, BoundInv, Interruptible, Checking, Steps, usb, files, tries, local, service,
       outside, sleep, seen
  <1>22. CASE Clear \/ Unlock \/ PostReplay \/ SuspendEnds
    BY <1>0, <1>22 DEF Clear, Unlock, PostReplay, ReplaySkipped, Gap, StartRun, Dropped,
       SuspendEnds, Goes, Turns, TypeInv, LockInv, BoundInv, Interruptible, Checking, Steps, usb,
       files, tries, local, service, outside, sleep, seen
  <1>23. CASE UNCHANGED vars
    BY <1>0, <1>23 DEF vars, TypeInv, LockInv, BoundInv, Interruptible, Checking, Steps, usb, files,
       tries, local, service, outside, sleep, seen
  <1> QED BY <1>1, <1>2, <1>3, <1>4, <1>5, <1>6, <1>7, <1>8, <1>9, <1>10, <1>11, <1>12, <1>13, <1>14, <1>15, <1>16, <1>17, <1>18, <1>19, <1>20, <1>21, <1>22, <1>23 DEF Next, Udev, Run, Hooks

\* The counters follow the re-initialisations.
LEMMA CountStep == IInv /\ [Next]_vars => CountInv'
  <1> SUFFICES ASSUME IInv, [Next]_vars PROVE CountInv'
    OBVIOUS
  <1>0. TypeInv /\ LockInv /\ CountInv
    BY DEF IInv
  <1>1. CASE Change \/ UdevTouch
    BY <1>0, <1>1, BoundsAssumption DEF Change, UdevTouch, Goes, Turns, TypeInv, LockInv, CountInv,
       Underway, Interruptible, Checking, Steps, usb, files, tries, local, service, outside, sleep,
       seen
  <1>2. CASE UdevStart
    BY <1>0, <1>2, BoundsAssumption DEF UdevStart, Gap, StartRun, Dropped, WillReplay, Goes, Turns,
       TypeInv, LockInv, CountInv, Underway, Interruptible, Checking, Steps, usb, files, tries,
       local, service, outside, sleep, seen
  <1>3. CASE RoleEvent \/ TimerFires
    BY <1>0, <1>3, BoundsAssumption DEF RoleEvent, StartRun, TimerFires, Gap, Dropped, WillReplay,
       Goes, Turns, TypeInv, LockInv, CountInv, Underway, Interruptible, Checking, Steps, usb,
       files, tries, local, service, outside, sleep, seen
  <1>4. CASE Flock \/ Busy \/ Begin
    BY <1>0, <1>4, BoundsAssumption DEF Flock, Busy, Gap, Dropped, Begin, Goes, Turns, TypeInv,
       LockInv, CountInv, Underway, Interruptible, Checking, Steps, usb, files, tries, local,
       service, outside, sleep, seen
  <1>5. CASE Check \/ Stale \/ Skip
    BY <1>0, <1>5, BoundsAssumption DEF Check, Sleeper, Job, Stale, Skip, Gap, TooLate, Dropped,
       WillReplay, Goes, Turns, TypeInv, LockInv, CountInv, Underway, Interruptible, Checking,
       Steps, usb, files, tries, local, service, outside, sleep, seen
  <1>6. CASE Look \/ Device \/ DeviceWait \/ Gadget
    BY <1>0, <1>6, BoundsAssumption DEF Look, Device, DeviceWait, LookAgain, Gadget, Goes, Turns,
       TypeInv, LockInv, CountInv, Underway, Interruptible, Checking, Steps, usb, files, tries,
       local, service, outside, sleep, seen
  <1>7. CASE HostWait \/ Rate
    BY <1>0, <1>7, BoundsAssumption DEF HostWait, Succeeds, LeftHost, StillHost, LookAgain, Rate,
       DpState, Schedule, NotScheduled, Scheduled, Goes, Turns, TypeInv, LockInv, CountInv,
       Underway, Interruptible, Checking, Steps, usb, files, tries, local, service, outside, sleep,
       seen
  <1>8. CASE Kick \/ KickWait
    BY <1>0, <1>8, BoundsAssumption DEF Kick, KickWait, Succeeds, LeftHost, StillHost, LookAgain,
       Goes, Turns, TypeInv, LockInv, CountInv, Underway, Interruptible, Checking, Steps, usb,
       files, tries, local, service, outside, sleep, seen
  <1>9. CASE Request \/ SwapBack
    BY <1>0, <1>9, BoundsAssumption DEF Request, SwapBack, Goes, Turns, TypeInv, LockInv, CountInv,
       Underway, Interruptible, Checking, Steps, usb, files, tries, local, service, outside, sleep,
       seen
  <1>10. CASE KickPoll \/ KickLit
    BY <1>0, <1>10, BoundsAssumption DEF KickPoll, Succeeds, LeftHost, StillHost, LookAgain,
       KickLit, Goes, Turns, TypeInv, LockInv, CountInv, Underway, Interruptible, Checking, Steps,
       usb, files, tries, local, service, outside, sleep, seen
  <1>11. CASE Reinit \/ Unbind \/ Bind
    BY <1>0, <1>11, BoundsAssumption DEF Reinit, Unbind, Uncounted, Bind, Goes, Turns, TypeInv,
       LockInv, CountInv, Underway, Interruptible, Checking, Steps, usb, files, tries, local,
       service, outside, sleep, seen
  <1>12. CASE Settle \/ EnumWait
    BY <1>0, <1>12, BoundsAssumption DEF Settle, Uncounted, Schedule, NotScheduled, Scheduled,
       EnumWait, Succeeds, Goes, Turns, TypeInv, LockInv, CountInv, Underway, Interruptible,
       Checking, Steps, usb, files, tries, local, service, outside, sleep, seen
  <1>13. CASE Terminated
    BY <1>0, <1>13, BoundsAssumption DEF Terminated, Signalled, Early, Ends, Forget, Gap,
       Interrupted, Uncounted, Dropped, Goes, Turns, TypeInv, LockInv, CountInv, Underway,
       Interruptible, Checking, Steps, usb, files, tries, local, service, outside, sleep, seen
  <1>14. CASE Trap \/ Exit
    BY <1>0, <1>14, BoundsAssumption DEF Trap, Forget, Exit, Ends, Goes, Turns, TypeInv, LockInv,
       CountInv, Underway, Interruptible, Checking, Steps, usb, files, tries, local, service,
       outside, sleep, seen
  <1>15. CASE Replay
    BY <1>0, <1>15, BoundsAssumption DEF Replay, Gap, TooLate, Dropped, WillReplay, Sleeper,
       Scheduled, Goes, Turns, TypeInv, LockInv, CountInv, Underway, Interruptible, Checking, Steps,
       usb, files, tries, local, service, outside, sleep, seen
  <1>16. CASE Suspend \/ Admit \/ Mark \/ AdmitLock
    BY <1>0, <1>16, BoundsAssumption DEF Suspend, Admit, Gap, Dropped, Mark, AdmitLock, Goes, Turns,
       TypeInv, LockInv, CountInv, Underway, Interruptible, Checking, Steps, usb, files, tries,
       local, service, outside, sleep, seen
  <1>17. CASE Remark \/ Refuse \/ Refused
    BY <1>0, <1>17, BoundsAssumption DEF Remark, Refuse, Refused, ReplaySkipped, Gap, StartRun,
       Dropped, Goes, Turns, TypeInv, LockInv, CountInv, Underway, Interruptible, Checking, Steps,
       usb, files, tries, local, service, outside, sleep, seen
  <1>18. CASE StopPost \/ AdmitKilled
    BY <1>0, <1>18, BoundsAssumption DEF StopPost, AdmitKilled, Gap, Dropped, Goes, Turns, TypeInv,
       LockInv, CountInv, Underway, Interruptible, Checking, Steps, usb, files, tries, local,
       service, outside, sleep, seen
  <1>19. CASE Pre \/ PreLock \/ Relock \/ List
    BY <1>0, <1>19, BoundsAssumption DEF Pre, PreLock, Relock, List, Goes, Turns, TypeInv, LockInv,
       CountInv, Underway, Interruptible, Checking, Steps, usb, files, tries, local, service,
       outside, sleep, seen
  <1>20. CASE StopRun
    BY <1>0, <1>20, BoundsAssumption DEF StopRun, Signalled, Early, Ends, Forget, Interrupted,
       Uncounted, Goes, Turns, TypeInv, LockInv, CountInv, Underway, Interruptible, Checking, Steps,
       usb, files, tries, local, service, outside, sleep, seen
  <1>21. CASE Resume \/ Post \/ Recover \/ PostKilled
    BY <1>0, <1>21, BoundsAssumption DEF Resume, Post, Gap, Dropped, Recover, PostKilled, Goes,
       Turns, TypeInv, LockInv, CountInv, Underway, Interruptible, Checking, Steps, usb, files,
       tries, local, service, outside, sleep, seen
  <1>22. CASE Clear \/ Unlock \/ PostReplay \/ SuspendEnds
    BY <1>0, <1>22, BoundsAssumption DEF Clear, Unlock, PostReplay, ReplaySkipped, Gap, StartRun,
       Dropped, SuspendEnds, Goes, Turns, TypeInv, LockInv, CountInv, Underway, Interruptible,
       Checking, Steps, usb, files, tries, local, service, outside, sleep, seen
  <1>23. CASE UNCHANGED vars
    BY <1>0, <1>23 DEF vars, TypeInv, LockInv, CountInv, Underway, Interruptible, Checking, Steps,
       usb, files, tries, local, service, outside, sleep, seen
  <1> QED BY <1>1, <1>2, <1>3, <1>4, <1>5, <1>6, <1>7, <1>8, <1>9, <1>10, <1>11, <1>12, <1>13, <1>14, <1>15, <1>16, <1>17, <1>18, <1>19, <1>20, <1>21, <1>22, <1>23 DEF Next, Udev, Run, Hooks

\* Somebody is left to look at every event.
LEMMA EventStep == IInv /\ [Next]_vars => EventInv'
  <1> SUFFICES ASSUME IInv, [Next]_vars PROVE EventInv'
    OBVIOUS
  <1>0. TypeInv /\ LockInv /\ EventInv
    BY SMT DEF IInv
  <1>1. CASE Change \/ UdevTouch
    BY <1>0, <1>1, BoundsAssumption, ZenonT(30) DEF Change, UdevTouch, Goes, Turns, TypeInv,
       LockInv, EventInv, Dropped, WillReplay, Late, Looked, Interruptible, Checking, Steps, usb,
       files, tries, local, service, outside, sleep, seen
  <1>2. CASE UdevStart
    <2> SUFFICES ASSUME Dropped', lost' = "no" PROVE EventInv'
      BY DEF EventInv
    <2>1. /\ Dropped /\ lost = "no" /\ timers \in Nat /\ timers' = timers /\ skipped' = skipped
          /\ pending' = pending /\ hook' = hook /\ after' = after
          /\ pc = "exit" /\ timers = 0 => skipped /\ WillReplay
      BY <1>0, <1>2, Zenon DEF UdevStart, Gap, Dropped, TypeInv, files, tries, sleep, local
    <2>2. pc' = IF pc = "off" THEN "flock" ELSE pc
      BY <1>2 DEF UdevStart, StartRun
    <2>3. pc = "exit" => timers > 0 \/ (skipped /\ WillReplay)
      BY <2>1
    <2>4. Late => pending \/ (skipped /\ hook \in {"relock", "unlocked", "post"})
      BY <1>0, <2>1 DEF EventInv
    <2> QED BY <2>1, <2>2, <2>3, <2>4 DEF EventInv, Late, Looked, Interruptible, Checking, WillReplay
  <1>3. CASE RoleEvent
    BY <1>0, <1>3, BoundsAssumption, ZenonT(30) DEF RoleEvent, StartRun, TypeInv, LockInv, EventInv,
       Dropped, WillReplay, Late, Looked, Interruptible, Checking, files, tries, local, outside,
       sleep, seen
  <1>3a. CASE TimerFires
    <2> SUFFICES ASSUME Dropped', lost' = "no" PROVE EventInv'
      BY DEF EventInv
    <2>1. /\ Dropped /\ lost = "no" /\ timers \in Nat /\ skipped' = skipped
          /\ pending' = pending /\ hook' = hook /\ after' = after /\ udev' = udev
          /\ pc = "exit" /\ timers = 1 => udev = "start" \/ (skipped /\ WillReplay)
      BY <1>0, <1>3a, Zenon DEF TimerFires, Gap, Dropped, TypeInv, files, outside, sleep, local
    <2>2. /\ timers > 0 /\ timers' = timers - 1
          /\ pc' = IF pc = "off" THEN "flock" ELSE pc
      BY <1>3a, <2>1 DEF TimerFires, StartRun
    <2>3. pc = "exit" => udev = "start" \/ timers' > 0 \/ (skipped /\ WillReplay)
      BY <2>1, <2>2
    <2>4. Late => pending \/ (skipped /\ hook \in {"relock", "unlocked", "post"})
      BY <1>0, <2>1 DEF EventInv
    <2> QED BY <2>1, <2>2, <2>3, <2>4 DEF EventInv, Late, Looked, Interruptible, Checking, WillReplay
  <1>4. CASE Flock \/ Busy \/ Begin
    BY <1>0, <1>4, BoundsAssumption, ZenonT(30) DEF Flock, Busy, Gap, Begin, Goes, Turns, TypeInv,
       LockInv, EventInv, Dropped, WillReplay, Late, Looked, Interruptible, Checking, Steps, usb,
       files, tries, local, service, outside, sleep, seen
  <1>5. CASE Check \/ Stale \/ Skip
    BY <1>0, <1>5, BoundsAssumption, ZenonT(30) DEF Check, Sleeper, Job, Stale, Skip, Gap, TooLate,
       Goes, Turns, TypeInv, LockInv, EventInv, Dropped, WillReplay, Late, Looked, Interruptible,
       Checking, Steps, usb, files, tries, local, service, outside, sleep, seen
  <1>6. CASE Look \/ Device \/ DeviceWait \/ Gadget
    BY <1>0, <1>6, BoundsAssumption, ZenonT(30) DEF Look, Device, DeviceWait, LookAgain, Gadget,
       Goes, Turns, TypeInv, LockInv, EventInv, Dropped, WillReplay, Late, Looked, Interruptible,
       Checking, Steps, usb, files, tries, local, service, outside, sleep, seen
  <1>7. CASE HostWait \/ Rate
    BY <1>0, <1>7, BoundsAssumption, ZenonT(30) DEF HostWait, Succeeds, LeftHost, StillHost,
       LookAgain, Rate, DpState, Schedule, NotScheduled, Scheduled, Goes, Turns, TypeInv, LockInv,
       EventInv, Dropped, WillReplay, Late, Looked, Interruptible, Checking, Steps, usb, files,
       tries, local, service, outside, sleep, seen
  <1>8. CASE Kick \/ KickWait
    BY <1>0, <1>8, BoundsAssumption, ZenonT(30) DEF Kick, KickWait, Succeeds, LeftHost, StillHost,
       LookAgain, Goes, Turns, TypeInv, LockInv, EventInv, Dropped, WillReplay, Late, Looked,
       Interruptible, Checking, Steps, usb, files, tries, local, service, outside, sleep, seen
  <1>9. CASE Request \/ SwapBack
    BY <1>0, <1>9, BoundsAssumption, ZenonT(30) DEF Request, SwapBack, Goes, Turns, TypeInv,
       LockInv, EventInv, Dropped, WillReplay, Late, Looked, Interruptible, Checking, Steps, usb,
       files, tries, local, service, outside, sleep, seen
  <1>10. CASE KickPoll \/ KickLit
    BY <1>0, <1>10, BoundsAssumption, ZenonT(30) DEF KickPoll, Succeeds, LeftHost, StillHost,
       LookAgain, KickLit, Goes, Turns, TypeInv, LockInv, EventInv, Dropped, WillReplay, Late,
       Looked, Interruptible, Checking, Steps, usb, files, tries, local, service, outside, sleep,
       seen
  <1>11. CASE Reinit \/ Unbind \/ Bind
    BY <1>0, <1>11, BoundsAssumption, ZenonT(30) DEF Reinit, Unbind, Uncounted, Bind, Goes, Turns,
       TypeInv, LockInv, EventInv, Dropped, WillReplay, Late, Looked, Interruptible, Checking,
       Steps, usb, files, tries, local, service, outside, sleep, seen
  <1>12. CASE Settle \/ EnumWait
    BY <1>0, <1>12, BoundsAssumption, ZenonT(30) DEF Settle, Uncounted, Schedule, NotScheduled,
       Scheduled, EnumWait, Succeeds, Goes, Turns, TypeInv, LockInv, EventInv, Dropped, WillReplay,
       Late, Looked, Interruptible, Checking, Steps, usb, files, tries, local, service, outside,
       sleep, seen
  <1>13. CASE Terminated
    BY <1>0, <1>13, BoundsAssumption, ZenonT(30) DEF Terminated, Signalled, Early, Ends, Forget,
       Gap, Interrupted, Uncounted, Goes, Turns, TypeInv, LockInv, EventInv, Dropped, WillReplay,
       Late, Looked, Interruptible, Checking, Steps, usb, files, tries, local, service, outside,
       sleep, seen
  <1>14. CASE Trap \/ Exit
    BY <1>0, <1>14, BoundsAssumption, ZenonT(30) DEF Trap, Forget, Exit, Ends, Goes, Turns, TypeInv,
       LockInv, EventInv, Dropped, WillReplay, Late, Looked, Interruptible, Checking, Steps, usb,
       files, tries, local, service, outside, sleep, seen
  <1>15. CASE Replay
    <2> SUFFICES ASSUME Dropped', lost' = "no"
                 PROVE  udev' = "start" \/ timers' > 0 \/ (skipped' /\ WillReplay')
      BY <1>15 DEF Replay, Goes, EventInv, Late, Looked, Interruptible, Checking
    <2>1. /\ Dropped /\ Late /\ timers \in Nat /\ hook' = hook /\ WillReplay' = WillReplay
      BY <1>0, <1>15 DEF Replay, TypeInv, Dropped, Late, Looked, WillReplay, outside, sleep
    <2>2. CASE ~pending
      <3>1. lost = "no" /\ skipped' = skipped
        BY <1>15, <2>2, Zenon DEF Replay
      <3>2. skipped /\ hook \in {"relock", "unlocked", "post"}
        BY <1>0, <2>1, <2>2, <3>1, Zenon DEF EventInv
      <3> QED BY <2>1, <3>1, <3>2 DEF WillReplay
    <2>3. CASE pending /\ suspending /\ Sleeper
      <3>1. skipped' /\ Gap(TooLate, Dropped /\ ~WillReplay)
        BY <1>15, <2>3, Zenon DEF Replay
      <3>2. TooLate # "no"
        BY DEF TooLate
      <3> QED BY <2>1, <3>1, <3>2, Zenon DEF Gap
    <2>4. CASE pending /\ ~(suspending /\ Sleeper)
      <3>1. Scheduled \/ Gap("limit", Dropped) \/ Gap("failure", Dropped)
        BY <1>15, <2>4, Zenon DEF Replay
      <3>2. Scheduled
        BY <2>1, <3>1, Zenon DEF Gap
      <3>3. timers' > 0
        BY <2>1, <3>2, BoundsAssumption DEF Scheduled
      <3> QED BY <3>3
    <2> QED BY <2>2, <2>3, <2>4
  <1>16. CASE Suspend \/ Admit \/ Mark \/ AdmitLock
    BY <1>0, <1>16, BoundsAssumption, ZenonT(30) DEF Suspend, Admit, Gap, Mark, AdmitLock, Goes,
       Turns, TypeInv, LockInv, EventInv, Dropped, WillReplay, Late, Looked, Interruptible,
       Checking, Steps, usb, files, tries, local, service, outside, sleep, seen
  <1>17. CASE Remark \/ Refuse \/ Refused
    BY <1>0, <1>17, BoundsAssumption, ZenonT(30) DEF Remark, Refuse, Refused, ReplaySkipped, Gap,
       StartRun, Goes, Turns, TypeInv, LockInv, EventInv, Dropped, WillReplay, Late, Looked,
       Interruptible, Checking, Steps, usb, files, tries, local, service, outside, sleep, seen
  <1>18. CASE StopPost \/ AdmitKilled
    BY <1>0, <1>18, BoundsAssumption, ZenonT(30) DEF StopPost, AdmitKilled, Gap, Goes, Turns,
       TypeInv, LockInv, EventInv, Dropped, WillReplay, Late, Looked, Interruptible, Checking,
       Steps, usb, files, tries, local, service, outside, sleep, seen
  <1>19. CASE Pre \/ PreLock \/ Relock \/ List
    BY <1>0, <1>19, BoundsAssumption, ZenonT(30) DEF Pre, PreLock, Relock, List, Goes, Turns,
       TypeInv, LockInv, EventInv, Dropped, WillReplay, Late, Looked, Interruptible, Checking,
       Steps, usb, files, tries, local, service, outside, sleep, seen
  <1>20. CASE StopRun
    BY <1>0, <1>20, BoundsAssumption DEF StopRun, Signalled, Early, Ends, Forget, Interrupted,
       Uncounted, Goes, Turns, TypeInv, LockInv, EventInv, Dropped, WillReplay, Late, Looked,
       Interruptible, Checking, Steps, usb, files, tries, local, service, outside, sleep, seen
  <1>21. CASE Resume \/ Post \/ Recover \/ PostKilled
    BY <1>0, <1>21, BoundsAssumption, ZenonT(30) DEF Resume, Post, Gap, Recover, PostKilled, Goes,
       Turns, TypeInv, LockInv, EventInv, Dropped, WillReplay, Late, Looked, Interruptible,
       Checking, Steps, usb, files, tries, local, service, outside, sleep, seen
  <1>22. CASE Clear \/ Unlock \/ PostReplay \/ SuspendEnds
    BY <1>0, <1>22, BoundsAssumption, ZenonT(30) DEF Clear, Unlock, PostReplay, ReplaySkipped, Gap,
       StartRun, SuspendEnds, Goes, Turns, TypeInv, LockInv, EventInv, Dropped, WillReplay, Late,
       Looked, Interruptible, Checking, Steps, usb, files, tries, local, service, outside, sleep,
       seen
  <1>23. CASE UNCHANGED vars
    BY <1>0, <1>23 DEF vars, TypeInv, LockInv, EventInv, Dropped, WillReplay, Late, Looked,
       Interruptible, Checking, Steps, usb, files, tries, local, service, outside, sleep, seen
  <1> QED BY <1>1, <1>2, <1>3, <1>3a, <1>4, <1>5, <1>6, <1>7, <1>8, <1>9, <1>10, <1>11, <1>12, <1>13, <1>14, <1>15, <1>16, <1>17, <1>18, <1>19, <1>20, <1>21, <1>22, <1>23 DEF Next, Udev, Run, Hooks
-----------------------------------------------------------------------------
\* The interlock's invariant holds from the first event on.
THEOREM InterlockInvariance == Spec => []IInv
  <1>1. Init => IInv
    BY BoundsAssumption DEF Init, IInv, TypeInv, LockInv, QuietInv, BoundInv, CountInv, EventInv, Steps,
       Interruptible, Checking, Admitted, Underway, Dropped, Late, Looked
  <1>2. IInv /\ [Next]_vars => IInv'
    BY TypeStep, LockStep, QuietStep, BoundStep, CountStep, EventStep DEF IInv
  <1> QED BY <1>1, <1>2, PTL DEF Spec

\* rog5-usb-sleep admit and suspend_in_progress: no run gets past its check
\* during an admitted suspend.
THEOREM AdmittedSuspendsAreQuiet == Spec => []SuspendsQuiet
  <1>1. IInv => SuspendsQuiet
    BY DEF IInv, QuietInv, SuspendsQuiet
  <1> QED BY <1>1, InterlockInvariance, PTL

\* restore_binding and bind_side: an unbound controller is in the hands of a run,
\* of pre, or its failure was reported.
THEOREM ControllerEndsBound == Spec => []EndsBound
  <1>1. IInv => EndsBound
    BY DEF IInv, TypeInv, BoundInv, EndsBound
  <1> QED BY <1>1, InterlockInvariance, PTL

\* host_run: retries and the give-up record bound the re-initialisations without
\* effect.
THEOREM ReinitialisationsAreBounded == Spec => []ReinitsBounded
  <1>1. IInv => ReinitsBounded
    BY BoundsAssumption DEF IInv, CountInv, ReinitsBounded
  <1> QED BY <1>1, InterlockInvariance, PTL

\* pending, skipped and the replays: an event outside the named gaps is looked at
\* before everything comes to rest.
THEOREM EventsAreSeen == Spec => []NoEventForgotten
  <1>1. IInv => NoEventForgotten
    BY DEF IInv, TypeInv, EventInv, NoEventForgotten, AtRest, Dropped, WillReplay
  <1> QED BY <1>1, InterlockInvariance, PTL
=============================================================================
