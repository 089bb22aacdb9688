-------------------------- MODULE RecoveryControl --------------------------
(***************************************************************************)
(* The recovery control responder                                          *)
(* (tools/recovery_control/rog5-recovery-control.c) between the host on    *)
(* the ACM line, the bundle fetcher (rog5-bundle-fetch.c), the verifier,   *)
(* the kernel's kexec image and the rollback watchdog of recovery-init.    *)
(*                                                                         *)
(* Its records are immutable files in a RAM file system: they survive the  *)
(* responder and are lost at a reboot.  A file appears whole or not at all *)
(* (create_immutable_at links a finished temporary; replace_at renames     *)
(* one), so one record written is one step.  The responder may be killed   *)
(* between any two steps and started again; recovery-init also answers its *)
(* end by a reboot.                                                        *)
(***************************************************************************)
EXTENDS Naturals, Sequences, FiniteSets

CONSTANTS
    Ids,          \* request identities the host uses
    Bundles,      \* bundle name and manifest hash, as one identity
    None,         \* no request, bundle, decision or error
    Requests,     \* the mutations the host sends, again and in any order
    LedgerMax     \* decisions the replay ledger admits (32)

\* The fingerprint of a request covers verb, identity and body.
Prepares == [verb : {"PREPARE"}, id : Ids, bundle : Bundles, prepare : {None}]
Commits == [verb : {"COMMIT_EXEC"}, id : Ids, bundle : Bundles, prepare : Ids]
Mutations == Prepares \cup Commits
\* HELLO and STATUS, and anything that names another session.
Queries == [verb : {"STATUS", "STALE"}, id : {None}, bundle : {None}, prepare : {None}]

ASSUME ConstantsAssumption ==
    /\ None \notin Ids \cup Bundles
    /\ Requests \subseteq Mutations
    /\ LedgerMax \in Nat /\ LedgerMax >= 3

VARIABLES
    mode,         \* full | observation
    records,      \* prepared, claim, execution-started, failure, last-error
    ledger,       \* requests/<id>: the decision recorded for each identity
    bundleRoot,   \* the bundle published below /run/rog5-bundles
    image,        \* the bundle kexec has loaded
    haven,        \* the Haven hardware watchdog: on | off
    watchdog,     \* the rollback watchdog process: armed | dead
    pc,           \* the responder's next step
    state,        \* struct control_state: phase, prepared, claim
    req,          \* the request being handled
    result,       \* its decision
    acm,          \* progress_available: no frame of this request failed
    line,         \* the frames on the ACM line: clean | partial | garbled
    told,         \* history: the first decision the host received, per identity
    drained,      \* history: the claimed response left the phone
    verified,     \* history: verifier runs in this session
    ran           \* history: images kexec -e was called for, in order

persistent == <<records, ledger, bundleRoot, image, haven>>
vars == <<mode, records, ledger, bundleRoot, image, haven, watchdog, pc, state,
          req, result, acm, line, told, drained, verified, ran>>

Phases == {"idle", "prepared", "claimed", "failed"}
Errors == {None, "request", "haven", "exec"}

\* Decisions the ledger keeps, by verb (valid_result_for_verb).
Decisions == {"PREPARED", "FETCH_FAILED", "BUNDLE_ID_CONFLICT", "VERIFY_FAILED",
              "PREPARE_ID_CONFLICT", "BUNDLE_CONFLICT", "SESSION_CONSUMED",
              "PREPARE_REQUIRED", "ALREADY_CLAIMED", "PREPARE_MISMATCH", "CLAIMED"}
\* Answers that depend on the moment and are not recorded.
Unrecorded == {"OK", "STALE_SESSION", "OBSERVATION_ONLY", "LEDGER_FULL"}

\* What the ledger keeps for an identity, and what the host was told of it.
Decided == [request : Mutations, result : Decisions \cup {"REQUEST_CONFLICT"}]

\* An absent request, decision or error is none that occurs.
ASSUME NoneAssumption ==
    None \notin Mutations \cup Queries \cup Decided \cup Decisions \cup Unrecorded
                \cup {"REQUEST_CONFLICT", "request", "haven", "exec"}

Steps == {"load", "reconcile", "closed", "wait", "handle", "fetch", "verify", "kload",
          "unload", "persist", "remember", "send", "sendClaim", "execute", "havenFailed",
          "havenError", "havenUnload", "mark", "fork", "execUnload",
          "execFailed", "execError"}
\* The responder is gone, or the kernel it ran on.
Ended == {"down", "departed"}

NoState == [phase |-> "idle", prepared |-> None, claim |-> None]
NoRecords == [prepared |-> None, claim |-> None, started |-> FALSE,
              failure |-> None, lastError |-> None]

\* A recovery boot: a fresh RAM file system, a new session, a new lease.
Init ==
    /\ mode \in {"full", "observation"}
    /\ records = NoRecords /\ ledger = [i \in Ids |-> None] /\ bundleRoot = None
    /\ image = None /\ haven = "on" /\ watchdog = "armed"
    /\ pc = "load" /\ state = NoState /\ req = None /\ result = None
    /\ acm = TRUE /\ line = "clean"
    /\ told = [i \in Ids |-> None] /\ drained = FALSE /\ verified = 0 /\ ran = <<>>

-----------------------------------------------------------------------------
(* Helpers.                                                                 *)

Go(from, to) == pc = from /\ pc' = to

\* watchdog_armed: polled at every wait and before every irreversible step.
Armed == watchdog = "armed"

history == <<told, drained, verified, ran>>
connection == <<req, result, acm, line>>
world == <<mode, watchdog>>

\* load_state accepts exactly these combinations of records.
Loadable(r) ==
    /\ r.claim # None =>
        /\ r.prepared # None
        /\ r.claim.prepare = r.prepared.id /\ r.claim.bundle = r.prepared.bundle
    /\ r.started => r.claim # None
    /\ r.failure # None => r.claim # None /\ (r.failure = "haven" <=> ~r.started)
    /\ r.lastError = "haven" => r.failure # None

StateOf(r) ==
    [phase |-> IF r.failure # None THEN "failed"
               ELSE IF r.claim # None THEN "claimed"
               ELSE IF r.prepared # None THEN "prepared" ELSE "idle",
     prepared |-> r.prepared, claim |-> r.claim]

\* A write of one frame: cut off, it leaves a partial one, and whatever
\* follows a partial frame on the same connection cannot be parsed.
Frame(whole) ==
    line' = IF line # "clean" THEN "garbled" ELSE IF whole THEN "clean" ELSE "partial"

\* emit_prepare_progress on the ACM line.
Emit ==
    IF acm THEN \E whole \in BOOLEAN : Frame(whole) /\ acm' = whole
    ELSE UNCHANGED <<acm, line>>

SetLastError(e) == records' = [records EXCEPT !.lastError = e]

Recorded == {i \in Ids : ledger[i] # None}
LedgerCount == Cardinality(Recorded)

\* Mutant: a conflicting bundle does not count as an acquisition decision.
MutFetchDecidedConflict ==
    \E i \in Recorded :
        /\ ledger[i].request.verb = "PREPARE" /\ ledger[i].result = "FETCH_FAILED"

\* ledger_count also tells whether an acquisition was decided.
FetchDecided ==
    \E i \in Recorded :
        /\ ledger[i].request.verb = "PREPARE"
        /\ ledger[i].result \in {"FETCH_FAILED", "BUNDLE_ID_CONFLICT", "PREPARE_ID_CONFLICT"}

MatchesPrepared(r) ==
    /\ state.phase # "idle"
    /\ r.prepare = state.prepared.id /\ r.bundle = state.prepared.bundle

\* Mutant: the reserve admits the PREPARE and forgets its commit.
MutHasRoomPrepareOnly ==
    \/ LedgerCount < LedgerMax - 3
    \/ req.verb = "PREPARE" /\ state.phase = "idle" /\ LedgerCount = LedgerMax - 3

\* The last three slots are kept for one PREPARE and its exact COMMIT_EXEC.
HasRoom ==
    \/ LedgerCount < LedgerMax - 3
    \/ req.verb = "PREPARE" /\ state.phase = "idle" /\ LedgerCount = LedgerMax - 3
    \/ /\ req.verb = "COMMIT_EXEC" /\ state.phase = "prepared" /\ MatchesPrepared(req)
       /\ LedgerCount < LedgerMax

\* The answer to a request that was decided before: from the ledger, or from
\* the state when the responder died before it wrote the ledger.
Replay ==
    IF ledger[req.id] # None
    THEN IF ledger[req.id].request = req THEN ledger[req.id].result ELSE "REQUEST_CONFLICT"
    ELSE IF state.phase # "idle" /\ req.id = state.prepared.id
    THEN IF req = state.prepared THEN "PREPARED" ELSE "REQUEST_CONFLICT"
    ELSE IF state.phase \in {"claimed", "failed"} /\ req.id = state.claim.id
    THEN IF req = state.claim THEN "CLAIMED" ELSE "REQUEST_CONFLICT"
    ELSE None

\* What is answered at once: queries, replays, and a full ledger.
Answer ==
    CASE req.verb = "STALE" -> "STALE_SESSION"
      [] req.verb = "STATUS" -> "OK"
      [] req.verb \in {"PREPARE", "COMMIT_EXEC"} ->
            IF mode = "observation" THEN "OBSERVATION_ONLY"
            ELSE IF Replay # None THEN Replay
            ELSE IF ~HasRoom THEN "LEDGER_FULL" ELSE None

\* A PREPARE that starts the fetcher.
Accepts == req.verb = "PREPARE" /\ state.phase = "idle" /\ ~FetchDecided

\* The decision on any other new request.
Decision ==
    CASE req.verb = "PREPARE" /\ state.phase = "idle" -> "PREPARE_ID_CONFLICT"
      [] req.verb = "PREPARE" /\ state.phase = "prepared" ->
            IF req.bundle = state.prepared.bundle THEN "PREPARE_ID_CONFLICT"
            ELSE "BUNDLE_CONFLICT"
      [] req.verb = "PREPARE" /\ state.phase \in {"claimed", "failed"} -> "SESSION_CONSUMED"
      [] req.verb = "COMMIT_EXEC" /\ state.phase = "idle" -> "PREPARE_REQUIRED"
      [] req.verb = "COMMIT_EXEC" /\ state.phase = "prepared" ->
            IF MatchesPrepared(req) THEN "CLAIMED" ELSE "PREPARE_MISMATCH"
      [] req.verb = "COMMIT_EXEC" /\ state.phase \in {"claimed", "failed"} -> "ALREADY_CLAIMED"

\* The process is gone: its memory and its descriptors with it.
Vanish ==
    /\ pc' = "down"
    /\ state' = NoState /\ req' = None /\ result' = None /\ acm' = TRUE /\ line' = "clean"

-----------------------------------------------------------------------------
(* Start.                                                                   *)

Load ==
    /\ pc = "load" /\ Armed
    /\ IF /\ Loadable(records)
          /\ mode = "observation" =>
                records.prepared = None /\ records.lastError = None /\ LedgerCount = 0
       THEN /\ state' = StateOf(records)
            /\ pc' = IF mode = "full" /\ state'.phase # "prepared" THEN "reconcile" ELSE "closed"
            /\ UNCHANGED connection
       ELSE Vanish
    /\ UNCHANGED <<persistent, world, history>>

\* reconcile_uncommitted_image: kexec -c -u, and the end if that fails.
Unload(from, to) ==
    /\ Armed
    /\ \/ Go(from, to) /\ image' = None /\ UNCHANGED <<state, connection>>
       \/ pc = from /\ Vanish /\ image' \in {image, None}
    /\ UNCHANGED <<records, ledger, bundleRoot, haven, world, history>>

Reconcile == Unload("reconcile", "closed")

Open ==
    /\ Go("closed", "wait")
    /\ line' = "clean"
    /\ UNCHANGED <<persistent, world, state, req, result, acm, history>>

-----------------------------------------------------------------------------
(* A connection.                                                            *)

\* End of file, a frame that stalls, or one that does not decode.
Hangup ==
    /\ Go("wait", "closed") /\ Armed
    /\ UNCHANGED <<persistent, world, state, connection, history>>

Receive ==
    /\ Go("wait", "handle") /\ Armed
    /\ req' \in Requests \cup Queries
    /\ acm' = TRUE
    /\ UNCHANGED <<persistent, world, state, result, line, history>>

AnswerAtOnce ==
    /\ Go("handle", "send") /\ Armed
    /\ Answer # None
    /\ result' = Answer
    /\ IF Answer = "LEDGER_FULL" THEN SetLastError("request") ELSE UNCHANGED records
    /\ UNCHANGED <<ledger, bundleRoot, image, haven, world, state, req, acm, line, history>>

Accept ==
    /\ Go("handle", "fetch") /\ Armed
    /\ Answer = None /\ Accepts
    /\ Emit
    /\ UNCHANGED <<persistent, world, state, req, result, history>>

Refuse ==
    /\ Go("handle", "remember")
    /\ Answer = None /\ ~Accepts /\ Decision # "CLAIMED"
    /\ result' = Decision
    /\ UNCHANGED <<persistent, world, state, req, acm, line, history>>

PersistClaim ==
    /\ Go("handle", "remember")
    /\ Answer = None /\ ~Accepts /\ Decision = "CLAIMED"
    /\ records' = [records EXCEPT !.claim = req]
    /\ state' = [state EXCEPT !.phase = "claimed", !.claim = req]
    /\ result' = "CLAIMED"
    /\ UNCHANGED <<ledger, bundleRoot, image, haven, world, req, acm, line, history>>

\* Mutant: rejections of the verifier are not remembered.
MutRememberNotRejections ==
    /\ pc = "remember" /\ Armed
    /\ ledger' = IF result = "VERIFY_FAILED" THEN ledger
                 ELSE [ledger EXCEPT ![req.id] = [request |-> req, result |-> result]]
    /\ IF acm THEN /\ pc' = IF result = "CLAIMED" THEN "sendClaim" ELSE "send"
                   /\ UNCHANGED <<req, result>>
              ELSE pc' = "closed" /\ req' = None /\ result' = None
    /\ UNCHANGED <<records, bundleRoot, image, haven, world, state, acm, line, history>>

\* build_response fails on a dead watchdog; only then the ledger is written.
Remember ==
    /\ pc = "remember" /\ Armed
    /\ ledger' = [ledger EXCEPT ![req.id] = [request |-> req, result |-> result]]
    /\ IF acm THEN /\ pc' = IF result = "CLAIMED" THEN "sendClaim" ELSE "send"
                   /\ UNCHANGED <<req, result>>
              ELSE pc' = "closed" /\ req' = None /\ result' = None
    /\ UNCHANGED <<records, bundleRoot, image, haven, world, state, acm, line, history>>

\* The host has the response.
Tell ==
    told' = IF req.id # None /\ result \notin Unrecorded /\ told[req.id] = None
            THEN [told EXCEPT ![req.id] = [request |-> req, result |-> result]]
            ELSE told

Send ==
    /\ Armed
    /\ \/ Go("send", "wait") /\ UNCHANGED drained
       \/ Go("sendClaim", "execute") /\ drained' = TRUE
    /\ Frame(TRUE) /\ Tell
    /\ req' = None /\ result' = None
    /\ UNCHANGED <<persistent, world, state, acm, verified, ran>>

\* Mutant: a claim is executed although its response did not drain.
MutSendFailsExecutes ==
    /\ \/ Go("send", "closed") \/ Go("sendClaim", "execute")
    /\ Armed
    /\ Frame(FALSE)
    /\ Tell \/ UNCHANGED told
    /\ req' = None /\ result' = None
    /\ UNCHANGED <<persistent, world, state, acm, drained, verified, ran>>

\* A failed write or drain says nothing of what the host received.
SendFails ==
    /\ pc \in {"send", "sendClaim"} /\ pc' = "closed" /\ Armed
    /\ Frame(FALSE)
    /\ Tell \/ UNCHANGED told
    /\ req' = None /\ result' = None
    /\ UNCHANGED <<persistent, world, state, acm, drained, verified, ran>>

-----------------------------------------------------------------------------
(* PREPARE: fetch, verify, load.                                            *)

Fail(from, decision) ==
    /\ Go(from, "remember") /\ Armed
    /\ result' = decision
    /\ SetLastError("request")
    /\ UNCHANGED <<ledger, haven, world, state, req, acm, line, told, drained, ran>>

\* What a fetch that does not finish may have published.
MaybePublished == IF bundleRoot = None THEN {None, req.bundle} ELSE {bundleRoot}

FetchOk ==
    /\ Go("fetch", "verify") /\ Armed
    /\ bundleRoot = None /\ bundleRoot' = req.bundle
    /\ Emit
    /\ UNCHANGED <<records, ledger, image, haven, world, state, req, result, history>>

\* A bundle published earlier is never used again, not even the same one.
FetchConflict ==
    /\ bundleRoot # None
    /\ Fail("fetch", "BUNDLE_ID_CONFLICT")
    /\ UNCHANGED <<bundleRoot, image, verified>>

FetchFails ==
    /\ Fail("fetch", "FETCH_FAILED")
    /\ bundleRoot' \in MaybePublished
    /\ UNCHANGED <<image, verified>>

CountVerifier == verified' = IF verified < 2 THEN verified + 1 ELSE verified

VerifyOk ==
    /\ Go("verify", "kload") /\ Armed
    /\ CountVerifier
    /\ Emit
    /\ UNCHANGED <<persistent, world, state, req, result, told, drained, ran>>

VerifyFails ==
    /\ Fail("verify", "VERIFY_FAILED")
    /\ CountVerifier
    /\ UNCHANGED <<bundleRoot, image>>

LoadOk ==
    /\ Go("kload", "persist") /\ Armed
    /\ image' = req.bundle
    /\ Emit
    /\ UNCHANGED <<records, ledger, bundleRoot, haven, world, state, req, result, history>>

\* Rejected or killed at its deadline, the loader may still have loaded.
LoadFails ==
    /\ Go("kload", "unload") /\ Armed
    /\ image' \in {image, req.bundle}
    /\ UNCHANGED <<records, ledger, bundleRoot, haven, world, state, connection, history>>

\* The loader could not be started at all: nothing to unload.
LoaderNotStarted ==
    /\ Fail("kload", "VERIFY_FAILED")
    /\ UNCHANGED <<bundleRoot, image, verified>>

UnloadRejected ==
    \/ /\ Fail("unload", "VERIFY_FAILED")
       /\ image' = None
       /\ UNCHANGED <<bundleRoot, verified>>
    \/ /\ pc = "unload" /\ Armed
       /\ Vanish /\ image' \in {image, None}
       /\ UNCHANGED <<records, ledger, bundleRoot, haven, world, history>>

\* The last progress frame follows the record, unless the watchdog is dead.
PersistPrepared ==
    /\ Go("persist", "remember")
    /\ records' = [records EXCEPT !.prepared = req]
    /\ state' = [state EXCEPT !.phase = "prepared", !.prepared = req]
    /\ result' = "PREPARED"
    /\ IF Armed THEN Emit ELSE UNCHANGED <<acm, line>>
    /\ UNCHANGED <<ledger, bundleRoot, image, haven, world, req, history>>

-----------------------------------------------------------------------------
(* execute_claim.                                                           *)

HavenOff ==
    /\ Go("execute", "mark") /\ Armed
    /\ haven' = "off"
    /\ UNCHANGED <<records, ledger, bundleRoot, image, world, state, connection, history>>

\* deactivate_haven_watchdog may fail before or after its write took effect.
HavenFails ==
    /\ Go("execute", "havenFailed") /\ Armed
    /\ haven' \in {haven, "off"}
    /\ UNCHANGED <<records, ledger, bundleRoot, image, world, state, connection, history>>

\* Mutant: the failure that is recorded is always that of the executor.
MutPersistFailureExec(from, to, error) ==
    /\ Go(from, to)
    /\ records' = [records EXCEPT !.failure = "exec"]
    /\ state' = [state EXCEPT !.phase = "failed"]
    /\ UNCHANGED <<ledger, bundleRoot, image, haven, world, connection, history>>

\* persist_failure: the immutable record first, then last-error.
PersistFailure(from, to, error) ==
    /\ Go(from, to)
    /\ records' = [records EXCEPT !.failure = error]
    /\ state' = [state EXCEPT !.phase = "failed"]
    /\ UNCHANGED <<ledger, bundleRoot, image, haven, world, connection, history>>

FailureError(from, to, error) ==
    /\ Go(from, to)
    /\ SetLastError(error)
    /\ UNCHANGED <<ledger, bundleRoot, image, haven, world, state, connection, history>>

HavenFailure == PersistFailure("havenFailed", "havenError", "haven")
HavenError == FailureError("havenError", "havenUnload", "haven")
HavenUnload == Unload("havenUnload", "wait")

PersistExecutionStarted ==
    /\ Go("mark", "fork") /\ Armed
    /\ records' = [records EXCEPT !.started = TRUE]
    /\ UNCHANGED <<ledger, bundleRoot, image, haven, world, state, connection, history>>

Called == ran' = IF Len(ran) < 2 THEN Append(ran, image) ELSE ran

\* Mutant: an executor that returned is tried again.
MutKexecRetries ==
    /\ pc = "fork" /\ Armed
    /\ Called
    /\ \/ pc' = "departed" /\ image # None
       \/ pc' \in {"fork", "execUnload"}
    /\ UNCHANGED <<persistent, world, state, connection, told, drained, verified>>

\* kexec -e leaves this kernel, or returns.
Kexec ==
    /\ pc = "fork" /\ Armed
    /\ Called
    /\ \/ pc' = "departed" /\ image # None
       \/ pc' = "execUnload"
    /\ UNCHANGED <<persistent, world, state, connection, told, drained, verified>>

ForkFails ==
    /\ Go("fork", "execUnload") /\ Armed
    /\ UNCHANGED <<persistent, world, state, connection, history>>

ExecUnload == Unload("execUnload", "execFailed")
ExecFailure == PersistFailure("execFailed", "execError", "exec")
ExecError == FailureError("execError", "wait", "exec")

-----------------------------------------------------------------------------
(* The end of the responder and of the session.                             *)

\* Killed at any point.  The fetcher dies with the responder (PDEATHSIG); a
\* loader or executor it started may have done its work.
Crash ==
    /\ pc \notin Ended
    /\ Vanish
    /\ bundleRoot' \in IF pc = "fetch" THEN MaybePublished ELSE {bundleRoot}
    /\ image' \in CASE pc = "kload" -> {image, req.bundle}
                    [] pc \in {"reconcile", "unload", "havenUnload", "execUnload"} -> {image, None}
                    [] OTHER -> {image}
    /\ haven' \in IF pc = "execute" THEN {haven, "off"} ELSE {haven}
    /\ \/ pc = "fork" /\ Called
       \/ UNCHANGED ran
    /\ UNCHANGED <<records, ledger, world, told, drained, verified>>

Restart ==
    /\ Go("down", "load")
    /\ UNCHANGED <<persistent, world, state, connection, history>>

\* Every wait and every step that polls the lease ends a responder whose
\* watchdog died; these are the steps that do not.
Unchecked == {"persist", "havenFailed", "havenError", "execFailed", "execError"}

\* Mutant: waiting for a frame does not poll the lease.
MutFailClosedNotWaiting ==
    /\ pc \notin Ended \cup Unchecked \cup {"wait"} /\ ~Armed
    /\ pc = "handle" => Answer # None \/ Accepts
    /\ Vanish
    /\ UNCHANGED <<persistent, world, history>>

FailClosed ==
    /\ pc \notin Ended \cup Unchecked /\ ~Armed
    /\ pc = "handle" => Answer # None \/ Accepts
    /\ Vanish
    /\ UNCHANGED <<persistent, world, history>>

WatchdogDies ==
    /\ Armed /\ watchdog' = "dead"
    /\ UNCHANGED <<mode, persistent, pc, state, connection, history>>

\* force_rollback: the watchdog fired, recovery-init saw the responder end, or
\* the executed system came back.
Reboot ==
    /\ mode' \in {"full", "observation"}
    /\ records' = NoRecords /\ ledger' = [i \in Ids |-> None] /\ bundleRoot' = None
    /\ image' = None /\ haven' = "on" /\ watchdog' = "armed"
    /\ pc' = "load" /\ state' = NoState /\ req' = None /\ result' = None
    /\ acm' = TRUE /\ line' = "clean"
    /\ told' = [i \in Ids |-> None] /\ drained' = FALSE /\ verified' = 0 /\ ran' = <<>>

Responder ==
    \/ Load \/ Reconcile \/ Open \/ AnswerAtOnce \/ Accept \/ Refuse \/ PersistClaim
    \/ Remember \/ Send \/ SendFails
    \/ FetchOk \/ FetchConflict \/ FetchFails \/ VerifyOk \/ VerifyFails
    \/ LoadOk \/ LoadFails \/ LoaderNotStarted \/ UnloadRejected \/ PersistPrepared
    \/ HavenOff \/ HavenFails \/ HavenFailure \/ HavenError \/ HavenUnload
    \/ PersistExecutionStarted \/ Kexec \/ ForkFails
    \/ ExecUnload \/ ExecFailure \/ ExecError \/ FailClosed

Next == Responder \/ Hangup \/ Receive \/ Crash \/ Restart \/ WatchdogDies \/ Reboot

Spec == Init /\ [][Next]_vars

\* Every wait of the responder has a deadline or polls the lease, so it always
\* takes its next step.  The host owes it nothing.
FairSpec == Spec /\ WF_vars(Responder)

-----------------------------------------------------------------------------
(* Properties.                                                              *)

\* Every variable holds a value of its kind.
TypeOK ==
    /\ mode \in {"full", "observation"}
    /\ records \in [prepared : Prepares \cup {None}, claim : Commits \cup {None},
                    started : BOOLEAN, failure : {None, "haven", "exec"}, lastError : Errors]
    /\ ledger \in [Ids -> Decided \cup {None}]
    /\ bundleRoot \in Bundles \cup {None} /\ image \in Bundles \cup {None}
    /\ haven \in {"on", "off"} /\ watchdog \in {"armed", "dead"}
    /\ pc \in Steps \cup Ended
    /\ state \in [phase : Phases, prepared : Prepares \cup {None}, claim : Commits \cup {None}]
    /\ req \in Mutations \cup Queries \cup {None}
    /\ result \in Decisions \cup Unrecorded \cup {"REQUEST_CONFLICT", None}
    /\ acm \in BOOLEAN /\ line \in {"clean", "partial", "garbled"}
    /\ told \in [Ids -> Decided \cup {None}]
    /\ drained \in BOOLEAN /\ verified \in 0..2
    /\ Len(ran) <= 2 /\ \A n \in 1..Len(ran) : ran[n] \in Bundles \cup {None}

\* handle_request: a repeated identity with the same body gets the decision the
\* host received before, also from a responder that was restarted in between;
\* and serve_connection writes nothing behind a frame that was cut off.
RepliesAgree ==
    /\ pc \in {"send", "sendClaim"} /\ result \notin Unrecorded =>
          (told[req.id] # None /\ told[req.id].request = req => result = told[req.id].result)
    /\ line # "garbled"

\* handle_request: once the host knows that the acquisition failed or conflicted
\* (ledger_count), and once a PREPARED record is durable, nobody's PREPARE
\* fetches, verifies or loads anything again, whoever dies in between.
AcquiresOnce ==
    (\/ records.prepared # None
     \/ \E i \in Ids : told[i] # None /\ told[i].result \in {"FETCH_FAILED", "BUNDLE_ID_CONFLICT"})
        => pc \notin {"fetch", "verify", "kload", "unload", "persist"}

\* run_bundle_verifier: whatever is retried and whoever dies, a session runs the
\* verifier at most once, because the fetcher refuses every published bundle.
VerifiesOnce == verified <= 1

\* handle_request: a session that could be prepared can also be committed; the
\* exact COMMIT_EXEC never finds the ledger full.
CommitHasRoom ==
    pc = "handle" /\ req.verb = "COMMIT_EXEC" /\ state.phase = "prepared" /\ MatchesPrepared(req)
        => Answer # "LEDGER_FULL"

\* load_state: killed between any two records, the responder finds them in a
\* combination that it accepts.
StateLoads == Loadable(records)

\* reconcile_uncommitted_image: a responder that takes requests never leaves an
\* image loaded that no PREPARED record stands for.
NoStrayImage ==
    mode = "full" /\ pc \in {"closed", "wait", "handle"} /\ state.phase \in {"idle", "failed"}
        => image = None

\* execute_claim: kexec -e is only called after the claimed response drained,
\* with the marker on record, the Haven watchdog off, and the claimed bundle's
\* image loaded.
ExecutesProven ==
    pc = "fork" =>
        /\ drained /\ records.started /\ haven = "off"
        /\ records.prepared # None /\ records.claim # None
        /\ image = records.claim.bundle /\ image = bundleRoot

\* A rollback watchdog that dies ends the responder wherever it is: nothing
\* waits or executes on without it.
WatchdogDeathEnds == ~Armed ~> Armed \/ pc \in Ended

Session == INSTANCE OneShot WITH
    Nothing <- None,
    prepared <- IF records.prepared = None THEN None ELSE records.prepared.bundle,
    claimed <- records.claim # None,
    ran <- IF ran = <<>> THEN None
           ELSE IF Len(ran) = 1 /\ ran[1] # None THEN ran[1] ELSE "twice or nothing"

\* The records, the kexec image and the executor implement the one-shot
\* session: one bundle prepared, claimed once, and kexec -e called at most once,
\* with exactly that bundle loaded.
ImplementsOneShot == Session!OneShotSpec
=============================================================================
