----------------------------- MODULE HostInstall -----------------------------
(***************************************************************************)
(* install-default-kernel.py --stage on the host, around the script of     *)
(* KernelInstall on the phone: the payload goes into the phone's /run, a   *)
(* marker that forbids a retry is written, the script runs at the end of   *)
(* an SSH session, and the host reports what came of it.  The session may  *)
(* break, or be given up after 240 s, while the script goes on; what the   *)
(* script then writes to its lost output may kill it (Kill).               *)
(***************************************************************************)
EXTENDS KernelInstall

VARIABLES
    host,       \* the host program's next step
    entered,    \* INSTALL-ENTERED.json is on the host's disk
    report,     \* INSTALL-RESULT.json: none | PASS | FAIL
    link,       \* the SSH session of the script: none | up | lost
    source      \* the payload in the phone's /run: none | partial | whole

hostVars == <<host, entered, report, link, source>>
allVars == <<vars, hostVars>>

HostInit ==
    /\ Init
    /\ host = "inspect" /\ entered = FALSE /\ report = "none"
    /\ link = "none" /\ source = "none"

\* Every call of the phone has a timeout; a refused check ends the program.
HostGoes(step) == host' = step

\* Both bundles are verified and the selector is generated; --inspect looks at
\* the phone as the script will.
Inspect ==
    /\ host = "inspect"
    /\ \/ user.rec = oldRec /\ HostGoes("transfer")
       \/ HostGoes("failed")
    /\ UNCHANGED <<vars, entered, report, link, source>>

\* mkdir and one session per file, whose hash comes back.  What was sent stays
\* there when a transfer fails.
Transfer ==
    /\ host = "transfer"
    /\ \/ source' = "whole" /\ HostGoes("preflight")
       \/ source' \in {"none", "partial"} /\ HostGoes("failed")
    /\ UNCHANGED <<vars, entered, report, link>>

\* rm -r of the payload, whose failure is ignored.
RemoveSource == source' \in {"none", source}

\* --preflight; a refusal removes the payload.
Preflight ==
    /\ host = "preflight"
    /\ \/ user.rec = oldRec /\ HostGoes("enter") /\ UNCHANGED source
       \/ HostGoes("failed") /\ RemoveSource
    /\ UNCHANGED <<vars, entered, report, link>>

\* write_new creates the marker and syncs it: from now on no retry.
Enter ==
    /\ host = "enter"
    /\ \/ entered' = TRUE /\ HostGoes("stage")
       \/ entered' \in BOOLEAN /\ HostGoes("failed")
    /\ UNCHANGED <<vars, report, link, source>>

\* The session that runs the script; one that cannot be made is a failure.
Stage ==
    /\ host = "stage"
    /\ \/ link' = "up" /\ HostGoes("wait") /\ UNCHANGED report
       \/ report' = "FAIL" /\ HostGoes("remove") /\ UNCHANGED link
    /\ UNCHANGED <<vars, entered, source>>

\* Mutant of Answered: the status and the last line are not looked at.
MutAnsweredAnyEnd ==
    /\ host = "wait" /\ link = "up" /\ pc \in {"pass", "exited", "killed"}
    /\ HostGoes("read")
    /\ UNCHANGED <<vars, entered, report, link, source>>

\* Status 0 and exactly the line that the script prints at its end.
Answered ==
    /\ host = "wait" /\ link = "up" /\ pc \in {"pass", "exited", "killed"}
    /\ IF pc = "pass" THEN HostGoes("read") /\ UNCHANGED report
       ELSE HostGoes("remove") /\ report' = "FAIL"
    /\ UNCHANGED <<vars, entered, link, source>>

\* The session breaks, or its 240 s are over: the ssh client is gone, the
\* script is not.
LoseLink ==
    /\ host = "wait" /\ link = "up"
    /\ link' = "lost"
    /\ report' = "FAIL"
    /\ HostGoes("remove")
    /\ UNCHANGED <<vars, entered, source>>

\* The active selector is read back.
ReadBack ==
    /\ host = "read"
    /\ \/ fs.sel = "new" /\ report' = "PASS"
       \/ report' = "FAIL"
    /\ HostGoes("remove")
    /\ UNCHANGED <<vars, entered, link, source>>

\* The payload is removed, also from below a script that still runs.
Remove ==
    /\ host = "remove"
    /\ RemoveSource
    /\ HostGoes(IF report = "PASS" THEN "done" ELSE "failed")
    /\ UNCHANGED <<vars, entered, report, link>>

KillHost ==
    /\ host \notin {"done", "failed"}
    /\ HostGoes("failed")
    /\ link' = IF link = "up" THEN "lost" ELSE link
    /\ UNCHANGED <<vars, entered, report, source>>

Host ==
    \/ Inspect \/ Transfer \/ Preflight \/ Enter \/ Stage \/ Answered \/ LoseLink
    \/ ReadBack \/ Remove \/ KillHost

\* The script runs once its session was made; its checks and its copies need
\* the whole payload.
OnPhone ==
    /\ link # "none"
    /\ Script \/ Trap \/ Interrupt \/ Kill
    /\ pc \in {"check", "bundle", "fallback", "stage"} /\ source # "whole"
          => pc' \in {"exited", "trapRemount", "killed"}
    /\ UNCHANGED hostVars

Beside == (GuardRemount \/ GuardLock \/ HelperCheck \/ HelperRename) /\ UNCHANGED hostVars

HostNext == Host \/ OnPhone \/ Beside

\* As in KernelInstall, only the guard is fair.
HostSpec == HostInit /\ [][HostNext]_allVars /\ WF_vars(GuardRemount) /\ WF_vars(GuardLock)

-----------------------------------------------------------------------------
(* Properties.                                                              *)

\* The host's evidence is true of the phone: nothing there was opened or
\* written before the marker ("never allows a retry"), and PASS means that p24
\* is locked and the next boot starts the trial, also when the power fails at
\* once, unless the running trial's helper published meanwhile.
EvidenceIsTrue ==
    /\ ~entered => nodeRO /\ mount = "ro" /\ fs.sel = "old" /\ fs.prim = "none" /\ user.arch = "none"
    /\ report = "PASS" =>
          /\ nodeRO /\ mount = "ro" /\ fs.sel = "new"
          /\ helper # "renamed" => \A p \in disk24, u \in disk23 : NextBoot(p, u) = "trial"
=============================================================================
