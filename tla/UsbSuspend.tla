----------------------------- MODULE UsbSuspend -----------------------------
(***************************************************************************)
(* rog5-usb-reconnect, which re-initialises the side USB port after a      *)
(* replug or a role change, and rog5-usb-sleep, which keeps it away from   *)
(* suspend: udev events that start a oneshot service, a run that waits,    *)
(* kicks DisplayPort discovery, unbinds and binds the controller, timers   *)
(* for retries and replays, and the admission, pre and post hooks of a     *)
(* suspend.  Both scripts share one lock and three marker files in /run.   *)
(* Seconds are left out: a wait ends with what it waited for or without.   *)
(***************************************************************************)
EXTENDS Naturals

CONSTANTS
    MaxPasses,    \* turns of the last loop: 3
    MaxReplays,   \* max_replays: replays in a row
    MaxRetries,   \* max_retries: retries of a re-initialisation
    MaxKicks,     \* max_kicks: DP discovery kicks per attach
    MaxEvents,    \* bound: changes at the port
    MaxSuspends,  \* bound: suspends
    MaxTimers,    \* bound: transient timers at one time
    Kills         \* whether runs and hooks are stopped or killed, earlier ones included

ASSUME BoundsAssumption ==
    /\ {MaxPasses, MaxReplays, MaxRetries, MaxKicks, MaxEvents, MaxSuspends} \subseteq Nat
    /\ MaxTimers \in Nat \ {0} /\ Kills \in BOOLEAN

VARIABLES
    port,       \* host_mode: host, or device (a gadget, or nothing attached)
    dp,         \* a DisplayPort sink is connected
    bound,      \* the controller is bound to dwc3
    pending,    \* udev: an event came
    skipped,    \* a run stayed away for a suspend
    suspending, \* the suspend marker
    lock,       \* flock on rog5-usb-reconnect.lock: free | run | hook
    replays, retries, kicks, gaveup,  \* counters and the give-up record: none | nodp | dp
    stamp,      \* a re-initialisation in host mode left its time
    timers,     \* transient timers that will start a run
    pc,         \* the run's next step; off: the service is inactive
    after,      \* where a run goes on after suspend_in_progress
    pass,       \* its turn of the last loop
    dpNow,      \* its dp_now
    unbound,    \* its flag: between unbind and bind
    armed,      \* it set a timer
    stopped,    \* systemd sent it TERM
    udev,       \* what udev has still to do for an event: idle | touch | start
    hook,       \* the suspend's next step
    byHand,     \* this suspend bypassed the admission
    events, suspends,
    unseen,     \* history: no run has looked at the port since its last event
    lost,       \* history: where that event was dropped, or no
    cycles,     \* history: counted re-initialisations in host mode without effect
    bindFailed  \* history: a FAIL or WARN line says that the controller may be unbound

usb == <<port, dp, bound, bindFailed>>
files == <<pending, skipped, suspending>>
tries == <<replays, retries, kicks, gaveup, stamp, timers, cycles>>
local == <<after, pass, dpNow, unbound>>
service == <<armed, stopped>>
outside == <<udev, events, suspends>>
sleep == <<hook, byHand>>
seen == <<unseen, lost>>
vars == <<usb, files, lock, tries, pc, local, service, outside, sleep, seen>>

\* suspend_in_progress looks for these: systemd-sleep runs its hooks, or a job of
\* systemd-suspend.service is queued or running.
Sleeper == hook \in {"pre", "preLock", "stop", "relock", "list", "asleep", "unlocked",
                     "post", "recover", "clear", "unlock", "replay", "done", "postFailed"}
Job == hook # "off" /\ ~byHand

\* The hook will still look at the skipped marker.
WillReplay == hook \in {"mark", "wait", "remark", "admitted", "pre", "preLock", "stop", "relock",
                        "list", "asleep", "unlocked", "post", "recover", "clear", "unlock",
                        "replay", "refuse", "refused"}

\* An event at a port at rest.
Init ==
    /\ port \in {"host", "device"} /\ dp \in BOOLEAN /\ bound = TRUE
    /\ pending = FALSE /\ skipped = FALSE /\ suspending \in {FALSE, Kills} /\ lock = "free"
    /\ replays \in 0 .. MaxReplays /\ retries = 0 /\ kicks = 0 /\ gaveup = "none"
    /\ stamp = FALSE /\ timers = 0
    /\ pc = "off" /\ after = "look" /\ pass = 1 /\ dpNow = "nodp" /\ unbound = FALSE
    /\ armed = FALSE /\ stopped = FALSE
    /\ udev = "touch" /\ hook = "off" /\ byHand = FALSE
    /\ events = 0 /\ suspends = 0
    /\ unseen = TRUE /\ lost = "no" /\ cycles = 0 /\ bindFailed = FALSE

-----------------------------------------------------------------------------
\* The port and udev

\* A start of a oneshot that is active is merged into the running job.
StartRun == pc' = IF pc = "off" THEN "flock" ELSE pc

\* An event that nobody has looked at, whose marker was already set.
Dropped == unseen /\ udev # "touch"

\* The event falls into a gap: somebody drops what would have led to a look.
Gap(where, drop) == lost' = IF lost = "no" /\ drop THEN where ELSE lost

\* Attach, detach, role or display change: the kernel tells udev.
Change ==
    /\ udev = "idle" /\ events < MaxEvents
    /\ \/ port' \in {"host", "device"} /\ UNCHANGED dp
       \/ dp' = ~dp /\ UNCHANGED port
    /\ events' = events + 1 /\ udev' = "touch"
    /\ unseen' = TRUE /\ lost' = "no"
    /\ UNCHANGED <<bound, bindFailed, files, lock, tries, pc, local, suspends, sleep, service>>

\* The rules touch the pending marker first ...
UdevTouch ==
    /\ udev = "touch" /\ pending' = TRUE /\ udev' = "start"
    /\ UNCHANGED <<usb, skipped, suspending, lock, tries, pc, local, events, suspends, sleep, seen, service>>

\* ... then start the service.  A run that has already looked for the marker at
\* its end does not notice.
UdevStart ==
    /\ udev = "start" /\ StartRun /\ udev' = "idle"
    /\ Gap("merged", unseen /\ pc = "exit" /\ timers = 0 /\ ~(skipped /\ WillReplay))
    /\ UNCHANGED <<usb, files, lock, tries, local, events, suspends, sleep, unseen, service>>

\* The role switch changes, by UCSI or by the run's own writes: a start without
\* a marker, merged if a run is active.
RoleEvent ==
    /\ pc = "off" /\ StartRun
    /\ UNCHANGED <<usb, files, lock, tries, local, outside, sleep, seen, service>>

\* At least two seconds later: not while the run that set it ends.
TimerFires ==
    /\ timers > (IF pc = "exit" /\ armed THEN 1 ELSE 0)
    /\ timers' = timers - 1 /\ StartRun
    /\ Gap("merged", Dropped /\ pc = "exit" /\ timers = 1 /\ udev # "start"
                     /\ ~(skipped /\ WillReplay))
    /\ UNCHANGED <<usb, files, lock, replays, retries, kicks, gaveup, stamp, cycles, local, outside,
                   sleep, unseen, service>>

-----------------------------------------------------------------------------
\* rog5-usb-reconnect up to its first look

Goes(step) == pc' = step

\* flock -n; a busy lock ends the run ...
Flock ==
    /\ pc = "flock"
    /\ IF lock = "free" THEN lock' = "run" /\ Goes("begin") ELSE Goes("busy") /\ UNCHANGED lock
    /\ UNCHANGED <<usb, files, tries, local, outside, sleep, seen, service>>

\* ... and is told to post only during a suspend; otherwise the event is dropped.
Busy ==
    /\ pc = "busy"
    /\ IF suspending THEN Goes("skip") /\ UNCHANGED lost ELSE Goes("exit") /\ Gap("busy", Dropped)
    /\ UNCHANGED <<usb, files, lock, tries, local, outside, sleep, unseen, service>>

\* The run takes every event up to now.
Begin ==
    /\ pc = "begin" /\ pending' = FALSE /\ after' = "look" /\ Goes("check")
    /\ UNCHANGED <<usb, skipped, suspending, lock, tries, pass, dpNow, unbound, outside, sleep, seen, service>>

\* suspend_in_progress: a marker without systemd-sleep and without a job is
\* stale; a job list that cannot be read counts as a live suspend.
Check ==
    /\ pc = "check"
    /\ \/ ~suspending /\ Goes(after)
       \/ suspending /\ (Sleeper \/ Job) /\ Goes("skip")
       \/ suspending /\ ~Sleeper /\ Goes("skip")
       \/ suspending /\ ~Sleeper /\ ~Job /\ Goes("stale")
    /\ UNCHANGED <<usb, files, lock, tries, local, outside, sleep, seen, service>>

Stale ==
    /\ pc = "stale" /\ suspending' = FALSE /\ Goes(after)
    /\ UNCHANGED <<usb, pending, skipped, lock, tries, local, outside, sleep, seen, service>>

\* post has looked for skipped runs, or nobody does.
TooLate == IF hook = "done" THEN "late" ELSE "failure"

\* The EXIT trap is set after the first check.
Skip ==
    /\ pc = "skip" /\ skipped' = TRUE /\ Goes(IF after = "look" THEN "exit" ELSE "trap")
    /\ Gap(TooLate, Dropped /\ ~WillReplay)
    /\ UNCHANGED <<usb, pending, suspending, lock, tries, local, outside, sleep, unseen, service>>

\* Each turn of the last loop looks at the port.
Look ==
    /\ pc = "look" /\ Goes(IF port = "host" THEN "hostWait" ELSE "device")
    /\ unseen' = FALSE /\ lost' = "no"
    /\ UNCHANGED <<usb, files, lock, tries, local, outside, sleep, service>>

\* The port changed its mode while the run waited: MaxPasses turns at most.
LookAgain ==
    IF pass = MaxPasses THEN Goes("trap") /\ UNCHANGED pass ELSE Goes("look") /\ pass' = pass + 1

-----------------------------------------------------------------------------
\* host_run

\* A device may enumerate at any time: retries and give-up are forgotten.
Succeeds ==
    /\ bound /\ Goes("trap") /\ retries' = 0 /\ gaveup' = "none" /\ cycles' = 0
    /\ UNCHANGED <<replays, kicks, stamp, timers, pass>>

LeftHost == port # "host" /\ LookAgain /\ UNCHANGED tries

StillHost(step) == port = "host" /\ Goes(step) /\ UNCHANGED <<tries, pass>>

HostWait ==
    /\ pc = "hostWait" /\ (Succeeds \/ LeftHost \/ StillHost("rate"))
    /\ UNCHANGED <<usb, files, lock, after, dpNow, unbound, outside, sleep, seen, service>>

DpState == IF dp THEN "dp" ELSE "nodp"

\* schedule_run; the caller allows for its failure.
Scheduled == armed' = TRUE /\ timers' = IF timers < MaxTimers THEN timers + 1 ELSE timers
NotScheduled == UNCHANGED <<armed, timers>>
Schedule == Scheduled \/ NotScheduled

\* Within 30 s of the last re-initialisation, or after giving up, only a display
\* that connected since counts.
Rate ==
    /\ pc = "rate" /\ dpNow' = DpState
    /\ LET rearmed == gaveup = "nodp" /\ dp
       IN  \/ /\ stamp /\ Goes("trap")
              /\ IF rearmed THEN Schedule ELSE NotScheduled
              /\ gaveup' = IF gaveup # "none" /\ ~dp THEN "nodp" ELSE gaveup
              /\ UNCHANGED <<retries, cycles, after>>
           \/ /\ gaveup # "none" /\ ~rearmed /\ Goes("trap") /\ gaveup' = DpState
              /\ NotScheduled /\ UNCHANGED <<retries, cycles, after>>
           \/ /\ (gaveup = "none" \/ rearmed) /\ Goes("check") /\ after' = "kick"
              /\ gaveup' = "none" /\ NotScheduled
              /\ IF rearmed THEN retries' = 0 /\ cycles' = 0 ELSE UNCHANGED <<retries, cycles>>
    /\ UNCHANGED <<usb, files, lock, replays, kicks, stamp, pass, unbound, outside, sleep, seen, stopped>>

\* dp_kick: only for a partner that powers the phone, without a display.
Kick ==
    /\ pc = "kick"
    /\ \/ Goes("check") /\ after' = "reinit"
       \/ ~dp /\ Goes("kickWait") /\ UNCHANGED after
    /\ UNCHANGED <<usb, files, lock, tries, pass, dpNow, unbound, outside, sleep, seen, service>>

\* Wait for the display or a device; the last look before the request finds no
\* partner to ask, alternate mode already entered or the kicks used up, or asks.
KickWait ==
    /\ pc = "kickWait"
    /\ \/ Succeeds /\ UNCHANGED after
       \/ ~dp /\ LeftHost /\ UNCHANGED after
       \/ dp /\ Goes("kickLit") /\ UNCHANGED <<tries, pass, after>>
       \/ dp /\ Goes("check") /\ after' = "reinit" /\ UNCHANGED <<tries, pass>>
       \/ StillHost("check") /\ after' = "reinit"
       \/ kicks < MaxKicks /\ ~dp /\ StillHost("check") /\ after' = "request"
    /\ UNCHANGED <<usb, files, lock, dpNow, unbound, outside, sleep, seen, service>>

\* The data-role request: the partner rejects it or swaps.  A port found in
\* device mode afterwards is swapped back, which may fail.
Request ==
    /\ pc = "request" /\ kicks' = kicks + 1
    /\ Goes("swapBack")
    /\ \/ UNCHANGED port
       \/ port = "host" /\ port' = "device"
    /\ UNCHANGED <<dp, bound, bindFailed, files, lock, replays, retries, gaveup, stamp, timers,
                   cycles, local, udev, events, suspends, sleep, seen, service>>

SwapBack ==
    /\ pc = "swapBack" /\ Goes("kickPoll")
    /\ \/ UNCHANGED port
       \/ port = "device" /\ port' = "host"
    /\ UNCHANGED <<dp, bound, bindFailed, files, lock, tries, local, outside, sleep, seen, service>>

\* The display comes up after the request, or not.
KickPoll ==
    /\ pc = "kickPoll"
    /\ \/ dp /\ Goes("kickLit") /\ UNCHANGED <<tries, pass, after>>
       \/ ~dp /\ Succeeds /\ UNCHANGED after
       \/ ~dp /\ LeftHost /\ UNCHANGED after
       \/ ~dp /\ StillHost("check") /\ after' = "reinit"
    /\ UNCHANGED <<usb, files, lock, dpNow, unbound, outside, sleep, seen, service>>

\* With the display the hub may enumerate by itself.
KickLit ==
    /\ pc = "kickLit"
    /\ \/ Succeeds /\ UNCHANGED after
       \/ LeftHost /\ UNCHANGED after
       \/ StillHost("check") /\ after' = "reinit"
    /\ UNCHANGED <<usb, files, lock, dpNow, unbound, outside, sleep, seen, service>>

-----------------------------------------------------------------------------
\* The re-initialisation

\* The time is noted before the controller is touched.
Reinit ==
    /\ pc = "reinit" /\ stamp' = TRUE /\ cycles' = cycles + 1 /\ Goes("unbind")
    /\ UNCHANGED <<usb, files, lock, replays, retries, kicks, gaveup, timers, local, outside, sleep, seen, service>>

\* A re-initialisation that the run does not come to count.
Uncounted == cycles' = IF after = "reinit" THEN cycles - 1 ELSE cycles

Unbind ==
    /\ pc = "unbind"
    /\ \/ bound /\ Goes("bind") /\ bound' = FALSE /\ unbound' = TRUE /\ UNCHANGED cycles
       \/ Goes("trap") /\ UNCHANGED <<bound, unbound>> /\ Uncounted
    /\ UNCHANGED <<port, dp, bindFailed, files, lock, replays, retries, kicks, gaveup, stamp, timers,
                   after, pass, dpNow, outside, sleep, seen, service>>

\* Binding changes the role, which is an event; a failure is logged.
Bind ==
    /\ pc = "bind"
    /\ \/ /\ Goes(IF after = "reinit" THEN "settle" ELSE "gadget")
          /\ bound' = TRUE /\ bindFailed' = FALSE /\ unbound' = FALSE
          /\ UNCHANGED cycles
       \/ Goes("trap") /\ bindFailed' = TRUE /\ UNCHANGED <<bound, unbound>> /\ Uncounted
    /\ UNCHANGED <<port, dp, files, lock, replays, retries, kicks, gaveup, stamp, timers,
                   after, pass, dpNow, udev, events, suspends, sleep, seen, service>>

\* Device mode is held for the settle time; only a port that still has a USB
\* device as its partner is switched to host, which may fail.
Settle ==
    /\ pc = "settle"
    /\ \/ port = "host" /\ Goes("enumWait") /\ NotScheduled /\ UNCHANGED <<retries, gaveup, cycles>>
       \/ /\ port = "host" /\ Goes("trap") /\ Uncounted
          /\ NotScheduled /\ UNCHANGED <<retries, gaveup>>
       \/ /\ port # "host" /\ Goes("trap")
          /\ retries' = 0 /\ gaveup' = "none" /\ cycles' = 0 /\ Schedule
    /\ UNCHANGED <<usb, files, lock, replays, kicks, stamp, local, udev, events, suspends, sleep, seen, stopped>>

\* Mutant of EnumWait: giving up leaves no record.
MutEnumWaitNeverGivesUp ==
    /\ pc = "enumWait"
    /\ \/ Succeeds /\ UNCHANGED armed
       \/ /\ retries < MaxRetries /\ Goes("trap") /\ Scheduled /\ retries' = retries + 1
          /\ UNCHANGED <<replays, kicks, gaveup, stamp, cycles, pass>>
       \/ /\ retries >= MaxRetries /\ Goes("trap") /\ retries' = 0
          /\ NotScheduled /\ UNCHANGED <<replays, kicks, gaveup, stamp, cycles, pass>>
    /\ UNCHANGED <<usb, files, lock, after, dpNow, unbound, outside, sleep, seen, stopped>>

\* Nothing enumerated: a counted retry if it can be scheduled, or give up.
EnumWait ==
    /\ pc = "enumWait"
    /\ \/ Succeeds /\ UNCHANGED armed
       \/ /\ retries < MaxRetries /\ Goes("trap")
          /\ \/ Scheduled /\ retries' = retries + 1 /\ UNCHANGED cycles
             \/ NotScheduled /\ UNCHANGED retries /\ Uncounted
          /\ UNCHANGED <<replays, kicks, gaveup, stamp, pass>>
       \/ /\ retries >= MaxRetries /\ Goes("trap") /\ retries' = 0 /\ gaveup' = dpNow
          /\ NotScheduled /\ UNCHANGED <<replays, kicks, stamp, cycles, pass>>
    /\ UNCHANGED <<usb, files, lock, after, dpNow, unbound, outside, sleep, seen, stopped>>

-----------------------------------------------------------------------------
\* device_run

\* Leaving host mode forgets the attempts; without a data-capable supply
\* nothing is to be done.
Device ==
    /\ pc = "device" /\ (Goes("trap") \/ Goes("deviceWait"))
    /\ retries' = 0 /\ gaveup' = "none" /\ kicks' = 0 /\ cycles' = 0
    /\ UNCHANGED <<usb, files, lock, replays, stamp, timers, local, outside, sleep, seen, service>>

DeviceWait ==
    /\ pc = "deviceWait"
    /\ \/ Goes("trap") /\ UNCHANGED <<after, pass>>
       \/ port = "host" /\ LookAgain /\ UNCHANGED after
       \/ port # "host" /\ Goes("check") /\ after' = "unbind" /\ UNCHANGED pass
    /\ UNCHANGED <<usb, files, lock, tries, dpNow, unbound, outside, sleep, seen, service>>

\* The gadget is bound again and given time to be configured.
Gadget ==
    /\ pc = "gadget"
    /\ \/ Goes("trap") /\ UNCHANGED pass
       \/ port = "host" /\ LookAgain
    /\ UNCHANGED <<usb, files, lock, tries, after, dpNow, unbound, outside, sleep, seen, service>>

-----------------------------------------------------------------------------
\* The end of a run

Interruptible == {"look", "hostWait", "rate", "kick", "kickWait", "request", "swapBack", "kickPoll",
                  "kickLit", "reinit", "unbind", "bind", "settle", "enumWait", "device",
                  "deviceWait", "gadget"}
Interrupted ==
    IF pc \in {"unbind", "bind", "settle", "enumWait"} THEN Uncounted ELSE UNCHANGED cycles

\* What the run remembered is of no more use.
Forget == after' = "look" /\ pass' = 1 /\ dpNow' = "nodp" /\ unbound' = FALSE

\* The process ends, its lock is free and systemd may start the service again.
Ends ==
    /\ Goes("off") /\ lock' = (IF lock = "run" THEN "free" ELSE lock) /\ Forget
    /\ armed' = FALSE /\ stopped' = FALSE

\* The run had not yet set its traps.
Early == pc \in {"flock", "busy", "begin"} \/ (pc \in {"check", "skip", "stale"} /\ after = "look")

\* HUP, INT or TERM: without its traps the run ends at once; exit 1 runs the EXIT
\* trap, and in that trap the rest of it is left out.
Signalled(again) ==
    \/ Early /\ Ends /\ UNCHANGED cycles
    \/ /\ pc \in Interruptible \/ (pc \in {"check", "skip", "stale"} /\ after # "look")
       /\ Goes("trap") /\ Interrupted /\ stopped' = again /\ UNCHANGED <<lock, local, armed>>
    \/ /\ pc \in {"trap", "replay"} /\ Goes("exit") /\ stopped' = again
       /\ UNCHANGED <<lock, local, armed, cycles>>

\* systemd stops the service once, at its timeout or for the owner.
Terminated ==
    /\ Kills /\ ~stopped /\ Signalled(TRUE)
    /\ Gap("failure", Dropped /\ \/ Early \/ pc \in {"trap", "replay"}
                                 \/ pc = "look" /\ ~pending)
    /\ UNCHANGED <<usb, files, replays, retries, kicks, gaveup, stamp, timers, outside, sleep,
                   unseen>>

\* Mutant of Trap: the binding is not restored.
MutTrapReplaysOnly ==
    /\ pc = "trap" /\ Goes("replay") /\ Forget
    /\ UNCHANGED <<usb, files, lock, tries, outside, sleep, seen, service>>

\* restore_binding: the controller ends every run bound, or it is logged.
Trap ==
    /\ pc = "trap" /\ Goes("replay") /\ Forget
    /\ IF unbound /\ ~bound
       THEN \/ bound' = TRUE /\ bindFailed' = FALSE
            \/ bindFailed' = TRUE /\ UNCHANGED bound
       ELSE UNCHANGED <<bound, bindFailed>>
    /\ UNCHANGED <<port, dp, files, lock, tries, outside, sleep, seen, service>>

\* Mutant of Replay: the marker of an event during the run is dropped.
MutReplayForgets ==
    /\ pc = "replay" /\ Goes("exit") /\ pending' = FALSE /\ replays' = 0
    /\ UNCHANGED <<usb, skipped, suspending, lock, retries, kicks, gaveup, stamp, timers, cycles, local,
                   outside, sleep, seen, service>>

\* replay_pending: an event during the run gets a run of its own, within bounds.
Replay ==
    /\ pc = "replay" /\ Goes("exit") /\ pending' = FALSE
    /\ \/ ~pending /\ replays' = 0 /\ UNCHANGED <<skipped, timers, armed, lost>>
       \/ /\ pending /\ suspending /\ Sleeper /\ skipped' = TRUE /\ UNCHANGED <<replays, timers, armed>>
          /\ Gap(TooLate, Dropped /\ ~WillReplay)
       \/ /\ pending /\ ~(suspending /\ Sleeper) /\ UNCHANGED skipped
          /\ \/ /\ replays >= MaxReplays /\ replays' = 0 /\ Gap("limit", Dropped)
                /\ UNCHANGED <<timers, armed>>
             \/ /\ replays < MaxReplays /\ Scheduled /\ replays' = replays + 1
                /\ UNCHANGED lost
             \/ /\ replays < MaxReplays /\ Gap("failure", Dropped)
                /\ UNCHANGED <<timers, replays, armed>>
    /\ UNCHANGED <<usb, suspending, lock, retries, kicks, gaveup, stamp, cycles, local, outside,
                   sleep, unseen, stopped>>

Exit ==
    /\ pc = "exit" /\ Ends
    /\ UNCHANGED <<usb, files, tries, outside, sleep, seen>>

-----------------------------------------------------------------------------
\* The suspend: rog5-usb-suspend-admit.service, then systemd-sleep with its hooks

Turns(step) == hook' = step

\* systemctl suspend queues the job and with it the admission; systemd-sleep
\* run by hand goes straight to its hooks.
Suspend ==
    /\ hook = "off" /\ suspends < MaxSuspends /\ suspends' = suspends + 1
    /\ \/ Turns("admit") /\ byHand' = FALSE
       \/ Turns("pre") /\ byHand' = TRUE
    /\ UNCHANGED <<usb, files, lock, tries, pc, local, udev, events, seen, service>>

\* An old record is dropped ...
Admit ==
    /\ hook = "admit" /\ skipped' = FALSE /\ Turns("mark")
    /\ Gap("failure", Dropped /\ skipped)
    /\ UNCHANGED <<usb, pending, suspending, lock, tries, pc, local, outside, byHand, unseen, service>>

\* ... and the marker comes before the lock.
Mark ==
    /\ hook = "mark" /\ suspending' = TRUE /\ Turns("wait")
    /\ UNCHANGED <<usb, pending, skipped, lock, tries, pc, local, outside, byHand, seen, service>>

\* flock -w 50
AdmitLock ==
    /\ hook = "wait"
    /\ \/ lock = "free" /\ lock' = "hook" /\ Turns("remark")
       \/ lock # "free" /\ Turns("refuse") /\ UNCHANGED lock
    /\ UNCHANGED <<usb, files, tries, pc, local, outside, byHand, seen, service>>

\* Mutant of Remark: the marker is not written again under the lock.
MutRemarkForgotten ==
    /\ hook = "remark" /\ lock' = "free" /\ Turns("admitted")
    /\ UNCHANGED <<usb, files, tries, pc, local, outside, byHand, seen, service>>

\* A run may have taken the marker for stale meanwhile: again under the lock.
Remark ==
    /\ hook = "remark" /\ suspending' = TRUE /\ lock' = "free" /\ Turns("admitted")
    /\ UNCHANGED <<usb, pending, skipped, tries, pc, local, outside, byHand, seen, service>>

Refuse ==
    /\ hook = "refuse" /\ suspending' = FALSE /\ Turns("refused")
    /\ UNCHANGED <<usb, pending, skipped, lock, tries, pc, local, outside, byHand, seen, service>>

\* replay_skipped: a run that stayed away gets its look now, unless it is still
\* ending.
ReplaySkipped ==
    /\ skipped' = FALSE
    /\ IF skipped THEN StartRun ELSE UNCHANGED pc
    /\ Gap("merged", Dropped /\ skipped /\ pc = "exit")

Refused ==
    /\ hook = "refused" /\ ReplaySkipped /\ Turns("stopPost")
    /\ UNCHANGED <<usb, pending, suspending, lock, tries, local, outside, byHand, unseen, service>>

\* The admission is killed at its timeout or cannot write its marker; a run that
\* stayed away is forgotten.
AdmitKilled ==
    /\ Kills /\ hook \in {"mark", "wait", "remark"} /\ Turns("stopPost")
    /\ lock' = IF lock = "hook" THEN "free" ELSE lock
    /\ Gap("failure", Dropped /\ skipped)
    /\ UNCHANGED <<usb, files, tries, pc, local, outside, byHand, unseen, service>>

\* ExecStopPost of a failed admission, which fails the suspend job.
StopPost ==
    /\ hook = "stopPost" /\ suspending' = FALSE /\ Turns("off")
    /\ UNCHANGED <<usb, pending, skipped, lock, tries, pc, local, outside, byHand, seen, service>>

Pre ==
    /\ hook \in {"admitted", "pre"} /\ suspending' = TRUE /\ Turns("preLock")
    /\ UNCHANGED <<usb, pending, skipped, lock, tries, pc, local, outside, byHand, seen, service>>

PreLock ==
    /\ hook = "preLock"
    /\ \/ lock = "free" /\ lock' = "hook" /\ Turns("list")
       \/ lock # "free" /\ Turns("stop") /\ UNCHANGED lock
    /\ UNCHANGED <<usb, files, tries, pc, local, outside, byHand, seen, service>>

\* A run that keeps the lock is terminated.
StopRun ==
    /\ hook = "stop" /\ skipped' = TRUE /\ Turns("relock")
    /\ \/ Signalled(stopped)
       \/ pc \in {"off", "exit"} /\ UNCHANGED <<pc, lock, local, service, cycles>>
    /\ UNCHANGED <<usb, pending, suspending, replays, retries, kicks, gaveup, stamp, timers, outside,
                   byHand, seen>>

\* bind_side, only once the lock is held; else the held lock is logged.
Relock ==
    /\ hook = "relock"
    /\ \/ /\ lock = "free" /\ lock' = "hook" /\ Turns("list")
          /\ \/ bound' = TRUE /\ bindFailed' = FALSE
             \/ ~bound /\ bindFailed' = TRUE /\ UNCHANGED bound
       \/ lock # "free" /\ Turns("unlocked") /\ bindFailed' = ~bound /\ UNCHANGED <<lock, bound>>
    /\ UNCHANGED <<port, dp, files, tries, pc, local, outside, byHand, seen, service>>

\* The attached devices are listed; the hook ends and with it its lock.
List ==
    /\ hook = "list" /\ lock' = "free" /\ Turns("asleep")
    /\ UNCHANGED <<usb, files, tries, pc, local, outside, byHand, seen, service>>

\* The kernel suspends and resumes, perhaps without the devices.
Resume ==
    /\ hook \in {"asleep", "unlocked"} /\ Turns("post")
    /\ UNCHANGED <<usb, files, lock, tries, pc, local, outside, byHand, seen, service>>

\* Without the lock there is no recovery and the marker goes stale.
Post ==
    /\ hook = "post"
    /\ \/ lock = "free" /\ lock' = "hook" /\ Turns("recover") /\ UNCHANGED lost
       \/ lock # "free" /\ Turns("postFailed") /\ UNCHANGED lock /\ Gap("failure", Dropped /\ skipped)
    /\ UNCHANGED <<usb, files, tries, pc, local, outside, byHand, unseen, service>>

\* A controller that lost its devices is rebound to its xHCI driver.
Recover ==
    /\ hook = "recover" /\ Turns("clear")
    /\ UNCHANGED <<usb, files, lock, tries, pc, local, outside, byHand, seen, service>>

Clear ==
    /\ hook = "clear" /\ suspending' = FALSE /\ Turns("unlock")
    /\ UNCHANGED <<usb, pending, skipped, lock, tries, pc, local, outside, byHand, seen, service>>

Unlock ==
    /\ hook = "unlock" /\ lock' = "free" /\ Turns("replay")
    /\ UNCHANGED <<usb, files, tries, pc, local, outside, byHand, seen, service>>

PostReplay ==
    /\ hook = "replay" /\ ReplaySkipped /\ Turns("done")
    /\ UNCHANGED <<usb, pending, suspending, lock, tries, local, outside, byHand, unseen, service>>

\* systemd-sleep gives up on a hook after 90 s.
PostKilled ==
    /\ Kills /\ hook \in {"recover", "clear"} /\ Turns("postFailed") /\ lock' = "free"
    /\ Gap("failure", Dropped /\ skipped)
    /\ UNCHANGED <<usb, files, tries, pc, local, outside, byHand, unseen, service>>

SuspendEnds ==
    /\ hook \in {"done", "postFailed"} /\ Turns("off") /\ byHand' = FALSE
    /\ UNCHANGED <<usb, files, lock, tries, pc, local, outside, seen, service>>

-----------------------------------------------------------------------------
Udev == UdevTouch \/ UdevStart \/ RoleEvent
Run ==
    \/ Flock \/ Busy \/ Begin \/ Check \/ Stale \/ Skip \/ Look
    \/ HostWait \/ Rate \/ Kick \/ KickWait \/ Request \/ SwapBack \/ KickPoll \/ KickLit
    \/ Reinit \/ Unbind \/ Bind \/ Settle \/ EnumWait \/ Device \/ DeviceWait \/ Gadget
    \/ Trap \/ Replay \/ Exit
Hooks ==
    \/ Admit \/ Mark \/ AdmitLock \/ Remark \/ Refuse \/ Refused \/ StopPost
    \/ Pre \/ PreLock \/ StopRun \/ Relock \/ List \/ Resume
    \/ Post \/ Recover \/ Clear \/ Unlock \/ PostReplay \/ SuspendEnds
Next ==
    \/ Change \/ Udev \/ TimerFires
    \/ Run \/ Terminated \/ Suspend \/ Hooks \/ AdmitKilled \/ PostKilled

Spec == Init /\ [][Next]_vars

-----------------------------------------------------------------------------
\* An admitted suspend, from its admission to the end of its recovery.
Admitted ==
    /\ ~byHand
    /\ hook \in {"admitted", "preLock", "stop", "relock", "list", "asleep", "unlocked", "post",
                "recover"}

\* No run gets past its suspend check during an admitted suspend, so none is in
\* a transaction when the phone suspends and pre has nobody to terminate: the
\* lock that admit waited for and the marker it wrote under it keep every run
\* away (rog5-usb-sleep admit, suspend_in_progress).
SuspendsQuiet == Admitted => pc \notin Interruptible

\* Only a run that holds the lock may have the controller unbound: whatever
\* fails or is terminated, it is bound again or a log line says otherwise
\* (restore_binding, bind_side).
EndsBound == lock # "run" /\ hook # "relock" => bound \/ bindFailed

\* At most MaxRetries + 1 re-initialisations end with nothing enumerated until a
\* device comes up, the port leaves host mode or a display connects, however many
\* events arrive (host_run, the give-up record).  One that fails, is terminated
\* or whose retry cannot be scheduled is not counted by the script.
ReinitsBounded == cycles <= MaxRetries + 1

\* Nothing is under way that could still look at the port.
AtRest == pc = "off" /\ udev = "idle" /\ timers = 0 /\ hook = "off"

\* Every event at the port is looked at by a run, also one that came during a
\* run or a suspend: at rest it was seen, or it fell into one of five gaps.  busy
\* ("this event is dropped, as before"), limit (replays in a row) and failure (a
\* run or a hook that was stopped, got no lock or no timer, or met a marker outside
\* of a suspend) are the ones the scripts name; merged and late are the subject of
\* the next property.
NoEventForgotten == AtRest /\ unseen => lost # "no"

\* "An event that arrived during this run was merged into it: look again once it
\* has ended", and "if a reconnect run was skipped meanwhile, [post] starts one":
\* no event is dropped because its start was merged into a run, or because a run
\* stayed away for a suspend.
EventsReplayed == AtRest /\ unseen => lost \notin {"merged", "late"}
=============================================================================
