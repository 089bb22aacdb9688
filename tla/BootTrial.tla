------------------------------ MODULE BootTrial ------------------------------
(***************************************************************************)
(* One installed trial across boots: the Slot B loader's decision, the     *)
(* primary system with the service that commits its health, the rollback   *)
(* timer of the Wi-Fi images, RAM boots of the same bundle, reboots and    *)
(* power loss, all around the durable cell of TryOnce.                     *)
(*                                                                         *)
(* The trial helper appears by its effect on the cell, as TrialState shows *)
(* it implements it: a rename that readers see at once, then an fsync and  *)
(* a report.  Either half may fail, and the helper's directory lock keeps  *)
(* the helpers of two services apart.                                      *)
(***************************************************************************)
EXTENDS TryOnce

CONSTANT Selected    \* the trial that the installed selector names

VARIABLES
    image,      \* the primary bundle: production | wifi
    system,     \* what is running: off | loader | primary | fallback | ram
    svc,        \* the commit service of a running system
    known,      \* the state that the service read at its start
    receipt,    \* the Wi-Fi image's healthy.record of this boot is published
    timer,      \* the rollback service
    refusal,    \* the radio was refused before activation (refused_core_ready)
    flock,      \* the service whose helper is between its rename and its exit
    slip        \* history: I/O errors and kills that hit this boot

boot == <<svc, known, receipt, timer, refusal, flock, slip>>
vars == <<cellVars, image, system, boot>>

ASSUME SelectedAssumption == Selected \in Trials

Is(state) == record = Value(Selected, state)

\* What the helper's state operation prints for the running trial.
Seen == IF \E s \in {"pending", "healthy", "failed"} : Is(s) THEN record.state ELSE "error"

Services == {"idle", "wait", "state", "receipt", "commit", "commitSync", "publish",
             "done", "reject", "rejectSync", "rejected", "failed", "skipped"}
Timers == {"armed", "check", "rollbackSync", "reject", "rejectSync", "reboot",
           "kept", "killed"}

\* Every variable has its type.
TypeOK ==
    /\ CellTypeOK
    /\ image \in {"production", "wifi"}
    /\ system \in {"off", "loader", "primary", "fallback", "ram"}
    /\ svc \in Services
    /\ known \in {"none", "pending", "healthy"}
    /\ timer \in Timers
    /\ flock \in {"none", "svc", "timer"}
    /\ slip \subseteq {"svc", "timer", "kill"}
    /\ {receipt, refusal} \subseteq BOOLEAN

Init ==
    /\ CellInit
    /\ image \in {"production", "wifi"}
    /\ system = "off"
    /\ svc = "idle" /\ known = "none" /\ receipt = FALSE
    /\ timer = "armed" /\ refusal = FALSE /\ flock = "none" /\ slip = {}

\* /run and every process of the last boot are gone.
Fresh ==
    /\ svc' = "idle" /\ known' = "none" /\ receipt' = FALSE
    /\ timer' = "armed" /\ refusal' = FALSE /\ flock' = "none" /\ slip' = {}

-----------------------------------------------------------------------------
(* The loader (SlotBLoader) around the helper's decide.                     *)

PowerOn ==
    /\ system = "off"
    /\ system' = "loader"
    /\ UNCHANGED <<cellVars, image, boot>>

\* fastboot boot of a RAM wrapper that embeds the installed primary.
RamBoot ==
    /\ system = "off"
    /\ system' = "ram"
    /\ svc' = "wait"
    /\ refusal' \in BOOLEAN
    /\ UNCHANGED <<cellVars, image, known, receipt, timer, flock, slip>>

\* decide publishes pending before anything else can happen.
Decide ==
    /\ system = "loader" /\ armed = {}
    /\ Arm(Selected)
    /\ UNCHANGED <<image, system, boot>>

DecideSync ==
    /\ system = "loader" /\ armed # {}
    /\ Settle
    /\ UNCHANGED <<image, system, boot>>

\* The helper reported the primary and the loader executes it.
BootPrimary ==
    /\ system = "loader"
    /\ Grant(Selected)
    /\ system' = "primary"
    /\ svc' = "wait"
    /\ refusal' \in BOOLEAN
    /\ UNCHANGED <<image, known, receipt, timer, flock, slip>>

\* Any other answer, a helper that failed on the way, a broken primary or a
\* write window that could not be opened; userdata was unmounted before kexec.
BootFallback ==
    /\ system = "loader"
    /\ survivors' = {record}
    /\ armed' = {}
    /\ system' = "fallback"
    /\ UNCHANGED <<record, unacked, image, boot>>

\* The loader fails, or its watchdog expires, and resets the phone.
LoaderFails ==
    /\ system = "loader"
    /\ CellPowerLoss
    /\ system' = "off"
    /\ UNCHANGED <<image, boot>>

-----------------------------------------------------------------------------
(* The commit service: production-trial-commit, or the Wi-Fi image's        *)
(* healthy.                                                                 *)

Running == system \in {"primary", "ram"}

\* A step of the service that touches neither the cell nor the timer.
Service(from, to) ==
    /\ Running /\ svc = from
    /\ svc' = to
    /\ UNCHANGED <<cellVars, image, system, timer, refusal>>

Quiet == UNCHANGED <<known, receipt, flock, slip>>

\* production-trial-commit asks for the state first, and skips a boot from RAM
\* or one that is not the selected trial; healthy waits for health first and
\* only looks at the bundle's name.  Health may never come.
ReadState ==
    /\ \/ /\ image = "production"
          /\ system = "ram" \/ Seen \in {"error", "failed"}
          /\ Service("wait", "skipped")
          /\ Quiet
       \/ /\ image = "production" => system # "ram"
          /\ Seen \in {"pending", "healthy"}
          /\ Service("wait", IF image = "wifi" THEN "receipt" ELSE "commit")
          /\ known' = Seen
          /\ UNCHANGED <<receipt, flock, slip>>
       \/ /\ image = "production" => system # "ram"
          /\ Service("wait", "failed")
          /\ Quiet

\* healthy publishes its receipt for this boot, or checks the one it finds; the
\* check may also fail on the receipt that was just published.
PublishReceipt ==
    \E published \in BOOLEAN, next \in {"commit", "reject"} :
       /\ published => ~receipt /\ known = "pending"
       /\ receipt' = (receipt \/ published)
       /\ next = "commit" => receipt'
       /\ Service("receipt", next)
       /\ UNCHANGED <<known, flock, slip>>

\* Where a commit that did not succeed goes: healthy's EXIT trap rejects.
Refused == IF image = "wifi" THEN "reject" ELSE "failed"

\* Mutant of CommitHealth: a trial that was rolled back is committed all the same.
MutCommitAfterFence ==
    /\ Running /\ svc = "commit" /\ flock = "none"
    /\ \/ /\ Is("pending") \/ Is("failed")
          /\ Put(Value(Selected, "healthy"))
          /\ unacked' = [unacked EXCEPT ![Selected] = 0]
          /\ svc' = "commitSync" /\ flock' = "svc"
          /\ UNCHANGED <<armed, slip>>
       \/ /\ Is("healthy")
          /\ svc' = IF image = "wifi" THEN "done" ELSE "publish"
          /\ UNCHANGED <<cellVars, flock, slip>>
       \/ /\ svc' = Refused
          /\ slip' = slip \cup {"svc"}
          /\ UNCHANGED <<cellVars, flock>>
    /\ UNCHANGED <<image, system, known, receipt, timer, refusal>>

\* The helper's healthy: it renames, finds the trial healthy already, or
\* refuses; an I/O error may stop it before it did anything.
CommitHealth ==
    /\ Running /\ svc = "commit" /\ flock = "none"
    /\ \/ /\ Commit(Selected)
          /\ svc' = "commitSync" /\ flock' = "svc"
          /\ UNCHANGED slip
       \/ /\ Is("healthy")
          /\ svc' = IF image = "wifi" THEN "done" ELSE "publish"
          /\ UNCHANGED <<cellVars, flock, slip>>
       \/ /\ svc' = Refused
          /\ slip' = IF Is("pending") \/ Is("healthy") THEN slip \cup {"svc"} ELSE slip
          /\ UNCHANGED <<cellVars, flock>>
    /\ UNCHANGED <<image, system, known, receipt, timer, refusal>>

\* The fsync after the rename, and the report; an error after the rename is
\* reported as a failed commit.
CommitSync ==
    /\ Running /\ svc = "commitSync"
    /\ flock' = "none"
    /\ \/ /\ Settle
          /\ svc' = IF image = "wifi" THEN "done" ELSE "publish"
          /\ UNCHANGED slip
       \/ /\ svc' = Refused
          /\ slip' = slip \cup {"svc"}
          /\ UNCHANGED cellVars
    /\ UNCHANGED <<image, system, known, receipt, timer, refusal>>

\* production-trial-commit publishes rog5-production-health after the commit.
PublishHealth ==
    \/ Service("publish", "done") /\ Quiet
    \/ Service("publish", "failed") /\ Quiet

\* finalization_exit: the helper's reject, whose own failure is ignored.
RejectTrial ==
    /\ Running /\ svc = "reject" /\ flock = "none"
    /\ \/ /\ Reject(Selected)
          /\ svc' = "rejectSync" /\ flock' = "svc"
          /\ UNCHANGED slip
       \/ /\ svc' = "rejected"
          /\ slip' = IF Is("pending") \/ Is("healthy") THEN slip \cup {"svc"} ELSE slip
          /\ UNCHANGED <<cellVars, flock>>
    /\ UNCHANGED <<image, system, known, receipt, timer, refusal>>

RejectSync ==
    /\ Running /\ svc = "rejectSync"
    /\ flock' = "none"
    /\ svc' = "rejected"
    /\ \/ Settle /\ UNCHANGED slip
       \/ slip' = slip \cup {"svc"} /\ UNCHANGED cellVars
    /\ UNCHANGED <<image, system, known, receipt, timer, refusal>>

\* SIGTERM after the trap was set: healthy exits through its trap, or leaves the
\* trap it is in, and its helper is stopped where it stands.
TermService ==
    /\ image = "wifi"
    /\ \/ /\ svc \in {"receipt", "commit", "commitSync"}
          /\ Service(svc, "reject") /\ UNCHANGED slip
       \/ /\ svc \in {"reject", "rejectSync"}
          /\ Service(svc, "failed") /\ slip' = slip \cup {"svc"}
    /\ flock' = IF flock = "svc" THEN "none" ELSE flock
    /\ UNCHANGED <<known, receipt>>

\* SIGKILL: the service, or its helper where it stands, is gone.
KillService ==
    /\ Running /\ svc \notin {"idle", "done", "failed", "rejected", "skipped"}
    /\ svc' = "failed"
    /\ flock' = IF flock = "svc" THEN "none" ELSE flock
    /\ slip' = slip \cup {"kill"}
    /\ UNCHANGED <<cellVars, image, system, known, receipt, timer, refusal>>

\* The unit is started again in the same boot.
RestartService ==
    /\ svc \in {"failed", "rejected", "done"}
    /\ Service(svc, "wait")
    /\ known' = "none"
    /\ UNCHANGED <<receipt, flock, slip>>

-----------------------------------------------------------------------------
(* The rollback service (native-wifi/runtime rollback) and its timers.      *)

\* The timers start it at their deadline; they stay armed and may elapse or
\* be reactivated again.
TimerFires ==
    /\ Running /\ image = "wifi" /\ timer \in {"armed", "kept", "killed"}
    /\ timer' = "check"
    /\ UNCHANGED <<cellVars, image, system, svc, known, receipt, refusal, flock, slip>>

\* Mutant of RollbackHealthy: the service waits for a receipt.
MutRollbackHealthyWaits ==
    /\ Running /\ timer = "check" /\ receipt /\ flock = "none"
    /\ timer' = IF Is("healthy") THEN "kept" ELSE "reject"
    /\ UNCHANGED <<cellVars, image, system, svc, known, receipt, refusal, flock, slip>>

\* rollback_healthy: this boot is kept only if its receipt is there and the
\* helper's rollback finds the trial healthy; a pending trial is failed.
RollbackHealthy ==
    /\ Running /\ timer = "check"
    /\ \/ /\ ~receipt
          /\ timer' = "reject"
          /\ UNCHANGED <<cellVars, flock, slip>>
       \/ /\ receipt /\ flock = "none" /\ Is("pending")
          /\ Reject(Selected)
          /\ timer' = "rollbackSync" /\ flock' = "timer"
          /\ UNCHANGED slip
       \/ /\ receipt /\ flock = "none" /\ Is("healthy")
          /\ timer' = "kept"
          /\ UNCHANGED <<cellVars, flock, slip>>
       \/ /\ receipt /\ flock = "none"
          /\ timer' = "reject"
          /\ slip' = IF Is("pending") \/ Is("healthy") THEN slip \cup {"timer"} ELSE slip
          /\ UNCHANGED <<cellVars, flock>>
    /\ UNCHANGED <<image, system, svc, known, receipt, refusal>>

\* The fsync after a rename by the timer's helper; its result only decides
\* what was reported.
TimerSync(from, to) ==
    /\ Running /\ timer = from
    /\ timer' = to
    /\ flock' = "none"
    /\ \/ Settle /\ UNCHANGED slip
       \/ slip' = slip \cup {"timer"} /\ UNCHANGED cellVars
    /\ UNCHANGED <<image, system, svc, known, receipt, refusal>>

RollbackSync == TimerSync("rollbackSync", "reject")

\* Mutant of RollbackReject: an accepted record is left as it is.
MutRollbackRejectPendingOnly ==
    /\ Running /\ timer = "reject" /\ flock = "none"
    /\ \/ /\ Is("pending")
          /\ Reject(Selected)
          /\ timer' = "rejectSync" /\ flock' = "timer"
          /\ UNCHANGED slip
       \/ /\ ~Is("pending")
          /\ timer' = "reboot"
          /\ UNCHANGED <<cellVars, flock, slip>>
    /\ UNCHANGED <<image, system, svc, known, receipt, refusal>>

\* rollback_reject: the helper's reject, best effort.
RollbackReject ==
    /\ Running /\ timer = "reject" /\ flock = "none"
    /\ \/ /\ Reject(Selected)
          /\ timer' = "rejectSync" /\ flock' = "timer"
          /\ UNCHANGED slip
       \/ /\ timer' = "reboot"
          /\ slip' = IF Is("pending") \/ Is("healthy") THEN slip \cup {"timer"} ELSE slip
          /\ UNCHANGED <<cellVars, flock>>
    /\ UNCHANGED <<image, system, svc, known, receipt, refusal>>

RollbackRejectSync == TimerSync("rejectSync", "reboot")

\* A clean reboot: every file system is synced and unmounted.
Shutdown ==
    /\ Running \/ system = "fallback"
    /\ Settle
    /\ system' = "off"
    /\ Fresh
    /\ UNCHANGED image

\* systemctl reboot, unless the radio was refused and the core is ready.
RollbackReboot ==
    /\ Running /\ timer = "reboot"
    /\ \/ refusal /\ timer' = "kept"
          /\ UNCHANGED <<cellVars, image, system, svc, known, receipt, refusal, flock, slip>>
       \/ ~refusal /\ Shutdown

\* TimeoutStartSec of the rollback service.
KillRollback ==
    /\ Running /\ timer \notin {"armed", "kept", "killed"}
    /\ timer' = "killed"
    /\ flock' = IF flock = "timer" THEN "none" ELSE flock
    /\ slip' = slip \cup {"kill"}
    /\ UNCHANGED <<cellVars, image, system, svc, known, receipt, refusal>>

PowerLoss ==
    /\ system # "off"
    /\ CellPowerLoss
    /\ system' = "off"
    /\ Fresh
    /\ UNCHANGED image

Loader == PowerOn \/ RamBoot \/ Decide \/ DecideSync \/ BootPrimary \/ BootFallback
          \/ LoaderFails

CommitService == ReadState \/ PublishReceipt \/ CommitHealth \/ CommitSync \/ PublishHealth
                 \/ RejectTrial \/ RejectSync

Rollback == RollbackHealthy \/ RollbackSync \/ RollbackReject \/ RollbackRejectSync
            \/ RollbackReboot

Next == \/ Loader \/ CommitService \/ TermService \/ KillService \/ RestartService
        \/ TimerFires \/ Rollback \/ KillRollback \/ Shutdown \/ PowerLoss

\* systemd runs the timer at its deadline, a helper that renamed its record
\* returns, and the flock that the rollback waits for is granted in order.
Fairness ==
    /\ WF_vars(timer = "armed" /\ TimerFires)
    /\ WF_vars(CommitSync) /\ WF_vars(RejectSync)
    /\ SF_vars(Rollback)

Spec == Init /\ [][Next]_vars /\ Fairness

-----------------------------------------------------------------------------
(* Properties.                                                              *)

\* The loader, the commit services and the timers together only ever use the
\* record as the durable cell allows: in particular no primary is booted twice
\* without a health commit in between.
ImplementsCell == CellSpec

\* When the rollback is about to reboot, the trial is failed for good, however
\* the commit service ran at the same time: only an I/O error or a kill during
\* this boot can leave anything else on the disk.
RollbackFences ==
    timer = "reboot" /\ slip = {} /\ Seen # "error" =>
        survivors = {Value(Selected, "failed")}

\* A production bundle booted from RAM never changes the record, even when it
\* is a copy of the installed primary.
ProductionRamReadsOnly ==
    [][image = "production" /\ system = "ram" => UNCHANGED <<record, survivors>>]_vars

\* A Wi-Fi trial boot is eventually judged: whatever the commit service does,
\* the rollback reboots it or has found its acceptance (or the refused radio),
\* unless the rollback service itself was killed at its timeout.
TrialBootIsJudged ==
    system = "primary" /\ image = "wifi" /\ timer = "armed" ~>
        system # "primary" \/ timer \in {"kept", "killed"}
=============================================================================
