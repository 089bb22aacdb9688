------------------------ MODULE RecoveryControlProofs ------------------------
(***************************************************************************)
(* The recovery session for any requests, identities, bundles and ledger   *)
(* size: what the records, the image, the ledger, the answers and the      *)
(* executor have to do with each other at every step of the responder.     *)
(***************************************************************************)
EXTENDS RecoveryControl, FiniteSetTheorems, TLAPS

\* Leaves are left to Zenon; the ones with arithmetic or many cases name SMT.
USE ZenonT(30)

-----------------------------------------------------------------------------
(* The inductive invariant, in six parts.                                   *)

Pipeline == {"fetch", "verify", "kload", "unload", "persist"}
Deciding == Pipeline \cup {"remember"}

Record == [prepared : Prepares \cup {None}, claim : Commits \cup {None}, started : BOOLEAN,
           failure : {None, "haven", "exec"}, lastError : Errors]

\* From the claim's record to the step that ends the Haven watchdog.
Claiming == (pc = "remember" /\ result = "CLAIMED") \/ pc \in {"sendClaim", "execute", "mark"}

\* The records load, the responder's memory is what it would load, and each
\* step of the pipeline and of the execution is at its place in the records.
SessionInv ==
    /\ mode \in {"full", "observation"}
    /\ records \in Record /\ Loadable(records)
    /\ pc \in Steps \ {"load"} => state = StateOf(records)
    /\ req \in Mutations \cup Queries \cup {None}
    /\ pc \in {"handle", "send"} => req # None
    /\ pc \in Deciding => mode = "full" /\ req \in Mutations
    /\ pc = "sendClaim" => req \in Mutations
    /\ pc = "remember" => result \in Decisions
    /\ pc \in Pipeline => req.verb = "PREPARE" /\ records.prepared = None
    /\ pc = "reconcile" => records.prepared = None \/ records.claim # None
    /\ Claiming \/ pc = "havenFailed" =>
          records.claim # None /\ ~records.started /\ records.failure = None
    /\ pc \in {"fork", "execUnload", "execFailed"} =>
          records.claim # None /\ records.started /\ records.failure = None
    /\ pc \in {"havenError", "havenUnload"} => records.claim # None /\ records.failure = "haven"

\* The published bundle, the loaded image and the Haven watchdog.
ImageInv ==
    /\ pc \in Pipeline \ {"fetch"} => bundleRoot = req.bundle
    /\ pc = "persist" => image = req.bundle
    /\ records.prepared # None => bundleRoot = records.prepared.bundle
    /\ (records.prepared # None /\ records.claim = None) \/ Claiming \/ pc = "fork" =>
          image = records.prepared.bundle
    /\ pc \in {"execute", "mark", "fork"} => drained
    /\ pc \in {"mark", "fork"} => haven = "off"
    /\ mode = "full" /\ pc \in {"closed", "wait", "handle", "fetch", "verify", "kload",
                                "remember", "send"}
          /\ (records.prepared = None \/ records.failure # None) => image = None
    /\ pc \in {"execFailed", "execError"} => image = None
    /\ verified \in {0, 1}
    /\ bundleRoot = None \/ pc = "verify" => verified = 0

\* What a repeated request is answered, from the records alone.
Reply(q) ==
    IF ledger[q.id] # None
    THEN IF ledger[q.id].request = q THEN ledger[q.id].result ELSE "REQUEST_CONFLICT"
    ELSE IF records.prepared # None /\ q.id = records.prepared.id
    THEN IF q = records.prepared THEN "PREPARED" ELSE "REQUEST_CONFLICT"
    ELSE IF records.claim # None /\ q.id = records.claim.id
    THEN IF q = records.claim THEN "CLAIMED" ELSE "REQUEST_CONFLICT"
    ELSE None

Refusals == {"FETCH_FAILED", "BUNDLE_ID_CONFLICT"}

\* What the host was told is what the records answer; a request on its way to a
\* decision has none yet.
ReplyInv ==
    /\ ledger \in [Ids -> Decided \cup {None}] /\ told \in [Ids -> Decided \cup {None}]
    /\ \A i \in Ids : told[i] # None =>
          told[i].request.id = i /\ Reply(told[i].request) = told[i].result
    /\ \A i \in Ids : ledger[i] # None /\ ledger[i].result \in Refusals =>
          ledger[i].request.verb = "PREPARE"
    /\ pc \in Deciding => ledger[req.id] = None /\ told[req.id] = None
    /\ pc = "remember" /\ result \in Refusals => req.verb = "PREPARE"
    /\ pc \in Pipeline => ~FetchDecided
    /\ pc \in {"send", "sendClaim"} /\ result \notin Unrecorded =>
          /\ req \in Mutations /\ result \in Decisions \cup {"REQUEST_CONFLICT"}
          /\ Reply(req) = result

\* The reserve of the ledger: until the session is claimed two slots are free,
\* and three while a decision is on its way.
RoomInv ==
    /\ IsFiniteSet(Recorded)
    /\ records.claim = None => LedgerCount <= LedgerMax - 2
    /\ records.claim = None /\ pc \in Deciding => LedgerCount <= LedgerMax - 3

\* The frames on the line.
LineInv ==
    /\ acm \in BOOLEAN
    /\ line \in {"clean", "partial"}
    /\ pc \in Deciding /\ acm => line = "clean"
    /\ pc = "handle" => acm
    /\ pc \notin Deciding \cup Ended \cup {"load", "reconcile", "closed"} => line = "clean"

\* The executor.
RanInv ==
    /\ ~records.started \/ pc = "fork" => ran = <<>>
    /\ ran = <<>> \/ (records.prepared # None /\ ran = <<records.prepared.bundle>>)

IInv == SessionInv /\ ImageInv /\ ReplyInv /\ RoomInv /\ LineInv /\ RanInv

-----------------------------------------------------------------------------
(* The decisions of handle_request.                                         *)

\* A mutation is a PREPARE or a COMMIT_EXEC of some identity.
LEMMA MutationFacts ==
    /\ \A q \in Mutations : /\ q # None /\ q.id \in Ids /\ q.id # None
                            /\ q.bundle \in Bundles /\ q.bundle # None
                            /\ q.verb \in {"PREPARE", "COMMIT_EXEC"}
                            /\ q.verb = "PREPARE" => q \in Prepares
                            /\ q.verb = "COMMIT_EXEC" => q \in Commits
    /\ \A q \in Queries : q.id = None /\ q.verb \in {"STATUS", "STALE"}
  BY ConstantsAssumption, NoneAssumption DEF Mutations, Prepares, Commits, Queries

\* The phase tells which records exist.
LEMMA PhaseFacts ==
    ASSUME NEW r \in Record, Loadable(r)
    PROVE  /\ StateOf(r).prepared = r.prepared /\ StateOf(r).claim = r.claim
           /\ StateOf(r).phase \in {"idle", "prepared", "claimed", "failed"}
           /\ StateOf(r).phase = "idle" <=> r.prepared = None
           /\ StateOf(r).phase = "prepared" <=> r.prepared # None /\ r.claim = None
           /\ StateOf(r).phase = "failed" <=> r.failure # None
  BY DEF StateOf, Loadable, Record

\* A new request is answered at once unless it is a mutation that no record
\* knows and for which the ledger has room.
LEMMA AnswerFacts ==
    ASSUME SessionInv, pc = "handle", Answer = None
    PROVE  mode = "full" /\ req \in Mutations /\ Replay = None /\ HasRoom
  <1>1. req \in Mutations \cup Queries
    BY DEF SessionInv
  <1>2. req.verb # "STALE" /\ req.verb # "STATUS"
    BY NoneAssumption DEF Answer, Unrecorded
  <1>3. req \in Mutations /\ req.verb \in {"PREPARE", "COMMIT_EXEC"}
    BY <1>1, <1>2, MutationFacts
  <1>4. IF mode = "observation" THEN "OBSERVATION_ONLY" = None
        ELSE IF Replay # None THEN Replay = None
        ELSE IF ~HasRoom THEN "LEDGER_FULL" = None ELSE TRUE
    BY <1>3 DEF Answer
  <1> QED BY <1>3, <1>4, NoneAssumption DEF Unrecorded, SessionInv

\* An answer that is not about the moment is a replay.
LEMMA AnswerIsReplay ==
    ASSUME SessionInv, pc = "handle", Answer # None, Answer \notin Unrecorded
    PROVE  req \in Mutations /\ Replay = Answer
  <1>1. req \in Mutations \cup Queries
    BY DEF SessionInv
  <1>2. CASE req \in Queries
    <2>1. req.verb \in {"STATUS", "STALE"}
      BY <1>2, MutationFacts
    <2> QED BY <2>1 DEF Answer, Unrecorded
  <1>3. CASE req \in Mutations
    <2>1. req.verb \in {"PREPARE", "COMMIT_EXEC"}
      BY <1>3, MutationFacts
    <2>2. Answer = IF mode = "observation" THEN "OBSERVATION_ONLY"
                   ELSE IF Replay # None THEN Replay
                   ELSE IF ~HasRoom THEN "LEDGER_FULL" ELSE None
      BY <2>1 DEF Answer
    <2> QED BY <1>3, <2>2 DEF Unrecorded
  <1> QED BY <1>1, <1>2, <1>3

\* The responder replays from its memory what the records say.
LEMMA ReplayIsReply ==
    ASSUME SessionInv, pc = "handle", req \in Mutations
    PROVE  Replay = Reply(req)
  <1>1. state = StateOf(records) /\ records \in Record /\ Loadable(records)
    BY DEF SessionInv, Steps
  <1>2. /\ state.prepared = records.prepared /\ state.claim = records.claim
        /\ state.phase # "idle" <=> records.prepared # None
        /\ state.phase \in {"claimed", "failed"} <=> records.claim # None
    BY <1>1, PhaseFacts DEF Loadable
  <1> QED BY <1>2 DEF Replay, Reply

\* A request that is not a PREPARE of an undecided session is refused, or it is
\* the exact COMMIT_EXEC of the prepared bundle.
LEMMA DecisionFacts ==
    ASSUME SessionInv, pc = "handle", Answer = None, ~Accepts
    PROVE  /\ Decision \in Decisions \ Refusals
           /\ Decision = "CLAIMED" =>
                 /\ req \in Commits /\ records.prepared # None /\ records.claim = None
                 /\ req.prepare = records.prepared.id /\ req.bundle = records.prepared.bundle
           /\ Decision # "CLAIMED" =>
                 ~(req.verb = "COMMIT_EXEC" /\ state.phase = "prepared" /\ MatchesPrepared(req))
  <1>1. state = StateOf(records) /\ records \in Record /\ Loadable(records)
    BY DEF SessionInv, Steps
  <1>2. /\ state.prepared = records.prepared /\ state.claim = records.claim
        /\ state.phase \in {"idle", "prepared", "claimed", "failed"}
        /\ state.phase = "prepared" <=> records.prepared # None /\ records.claim = None
    BY <1>1, PhaseFacts
  <1>3. req \in Mutations /\ req.verb \in {"PREPARE", "COMMIT_EXEC"}
        /\ (req.verb = "COMMIT_EXEC" => req \in Commits)
    BY AnswerFacts, MutationFacts
  <1>4. CASE req.verb = "PREPARE"
    <2>1. Decision \in {"PREPARE_ID_CONFLICT", "BUNDLE_CONFLICT", "SESSION_CONSUMED"}
      BY <1>2, <1>4 DEF Decision
    <2> QED BY <1>4, <2>1 DEF Decisions, Refusals
  <1>5. CASE req.verb = "COMMIT_EXEC" /\ state.phase # "prepared"
    <2>1. Decision \in {"PREPARE_REQUIRED", "ALREADY_CLAIMED"}
      BY <1>2, <1>5 DEF Decision
    <2> QED BY <1>5, <2>1 DEF Decisions, Refusals
  <1>6. CASE req.verb = "COMMIT_EXEC" /\ state.phase = "prepared"
    <2>1. Decision = IF MatchesPrepared(req) THEN "CLAIMED" ELSE "PREPARE_MISMATCH"
      BY <1>6 DEF Decision
    <2> QED BY <1>2, <1>3, <1>6, <2>1 DEF Decisions, Refusals, MatchesPrepared
  <1> QED BY <1>3, <1>4, <1>5, <1>6

-----------------------------------------------------------------------------
(* The records and the responder's memory.                                  *)

\* Every step keeps the records loadable and the memory equal to them.
LEMMA SessionStep == SessionInv /\ [Next]_vars => SessionInv'
  <1> SUFFICES ASSUME SessionInv, [Next]_vars PROVE SessionInv'
    OBVIOUS
  <1> USE ConstantsAssumption, NoneAssumption
      DEF SessionInv, Record, Loadable, StateOf, Steps, Ended, Pipeline, Deciding, Claiming, NoState,
          Errors, Decisions, persistent, connection, world, history
  <1>1. CASE Load
    BY <1>1, SMT DEF Load, Vanish
  <1>2. CASE Reconcile
    BY <1>2 DEF Reconcile, Unload, Vanish, Go
  <1>3. CASE Open
    BY <1>3 DEF Open, Go
  <1>4. CASE AnswerAtOnce
    BY <1>4, SMT DEF AnswerAtOnce, Go, SetLastError
  <1>5. CASE Accept
    BY <1>5, AnswerFacts, SMT DEF Accept, Go, Emit, Accepts
  <1>6. CASE Refuse
    BY <1>6, AnswerFacts, DecisionFacts, SMT DEF Refuse, Go
  <1>7. CASE PersistClaim
    <2>1. /\ pc = "handle" /\ pc' = "remember" /\ result' = "CLAIMED" /\ UNCHANGED <<mode, req>>
          /\ records' = [records EXCEPT !.claim = req]
          /\ state' = [state EXCEPT !.phase = "claimed", !.claim = req]
      BY <1>7 DEF PersistClaim, Go
    <2>2. /\ mode = "full" /\ req \in Mutations /\ req \in Commits /\ req # None
          /\ records.prepared # None /\ records.claim = None
          /\ req.prepare = records.prepared.id /\ req.bundle = records.prepared.bundle
      BY <1>7, AnswerFacts, DecisionFacts, MutationFacts DEF PersistClaim, Go
    <2>3. /\ records' \in Record /\ Loadable(records)'
          /\ records'.claim # None /\ ~records'.started /\ records'.failure = None
      BY <2>1, <2>2
    <2>4. state' = StateOf(records')
      <3>1. state = [phase |-> "prepared", prepared |-> records.prepared, claim |-> None]
        BY <2>1, <2>2
      <3>2. state' = [phase |-> "claimed", prepared |-> records.prepared, claim |-> req]
        BY <2>1, <3>1
      <3>3. records'.prepared = records.prepared /\ records'.claim = req /\ records'.failure = None
        BY <2>1, <2>2
      <3> QED BY <2>2, <3>2, <3>3
    <2> QED BY <2>1, <2>2, <2>3, <2>4
  <1>8. CASE Remember
    BY <1>8 DEF Remember
  <1>9. CASE Send
    BY <1>9 DEF Send, Go
  <1>10. CASE SendFails
    BY <1>10 DEF SendFails
  <1>11. CASE FetchOk
    BY <1>11 DEF FetchOk, Go, Emit
  <1>12. CASE FetchConflict
    BY <1>12 DEF FetchConflict, Fail, Go, SetLastError
  <1>13. CASE FetchFails
    BY <1>13 DEF FetchFails, Fail, Go, SetLastError
  <1>14. CASE VerifyOk
    BY <1>14 DEF VerifyOk, Go, Emit
  <1>15. CASE VerifyFails
    BY <1>15 DEF VerifyFails, Fail, Go, SetLastError
  <1>16. CASE LoadOk
    BY <1>16 DEF LoadOk, Go, Emit
  <1>17. CASE LoadFails
    BY <1>17 DEF LoadFails, Go
  <1>18. CASE LoaderNotStarted
    BY <1>18 DEF LoaderNotStarted, Fail, Go, SetLastError
  <1>19. CASE UnloadRejected
    BY <1>19, SMT DEF UnloadRejected, Fail, Go, SetLastError, Vanish
  <1>20. CASE PersistPrepared
    <2>1. /\ pc = "persist" /\ pc' = "remember" /\ result' = "PREPARED" /\ UNCHANGED <<mode, req>>
          /\ records' = [records EXCEPT !.prepared = req]
          /\ state' = [state EXCEPT !.phase = "prepared", !.prepared = req]
      BY <1>20 DEF PersistPrepared, Go
    <2>2. mode = "full" /\ req \in Mutations /\ req \in Prepares /\ req # None
          /\ records.prepared = None /\ records.claim = None
      BY <2>1, MutationFacts
    <2>3. records' \in Record /\ Loadable(records)'
      BY <2>1, <2>2
    <2>4. state' = StateOf(records')
      <3>1. state = [phase |-> "idle", prepared |-> None, claim |-> None]
        BY <2>1, <2>2
      <3>2. state' = [phase |-> "prepared", prepared |-> req, claim |-> None]
        BY <2>1, <3>1
      <3>3. records'.prepared = req /\ records'.claim = None /\ records'.failure = None
        BY <2>1, <2>2
      <3> QED BY <2>2, <3>2, <3>3
    <2> QED BY <2>1, <2>2, <2>3, <2>4
  <1>21. CASE HavenOff
    BY <1>21 DEF HavenOff, Go
  <1>22. CASE HavenFails
    BY <1>22 DEF HavenFails, Go
  <1>23. CASE HavenFailure
    BY <1>23, SMT DEF HavenFailure, PersistFailure, Go
  <1>24. CASE HavenError
    BY <1>24 DEF HavenError, FailureError, Go, SetLastError
  <1>25. CASE HavenUnload
    BY <1>25 DEF HavenUnload, Unload, Vanish, Go
  <1>26. CASE PersistExecutionStarted
    BY <1>26 DEF PersistExecutionStarted, Go
  <1>27. CASE Kexec
    BY <1>27 DEF Kexec
  <1>28. CASE ForkFails
    BY <1>28 DEF ForkFails, Go
  <1>29. CASE ExecUnload
    BY <1>29 DEF ExecUnload, Unload, Vanish, Go
  <1>30. CASE ExecFailure
    BY <1>30, SMT DEF ExecFailure, PersistFailure, Go
  <1>31. CASE ExecError
    BY <1>31 DEF ExecError, FailureError, Go, SetLastError
  <1>32. CASE FailClosed
    BY <1>32 DEF FailClosed, Vanish
  <1>33. CASE Hangup
    BY <1>33 DEF Hangup, Go
  <1>34. CASE Receive
    BY <1>34 DEF Receive, Go
  <1>35. CASE Crash
    BY <1>35 DEF Crash, Vanish
  <1>36. CASE Restart
    BY <1>36 DEF Restart, Go
  <1>37. CASE WatchdogDies
    BY <1>37, SMT DEF WatchdogDies
  <1>38. CASE Reboot
    BY <1>38 DEF Reboot, NoRecords
  <1>39. CASE UNCHANGED vars
    BY <1>39, SMT DEF vars
  <1> QED
    BY <1>1, <1>2, <1>3, <1>4, <1>5, <1>6, <1>7, <1>8, <1>9, <1>10, <1>11, <1>12, <1>13, <1>14, <1>15, <1>16, <1>17, <1>18, <1>19, <1>20, <1>21, <1>22, <1>23, <1>24, <1>25, <1>26, <1>27, <1>28, <1>29, <1>30, <1>31, <1>32, <1>33, <1>34, <1>35, <1>36, <1>37, <1>38, <1>39 DEF Next, Responder

-----------------------------------------------------------------------------
(* The bundle and the image.                                                *)

\* Every step keeps the published bundle, the image and the Haven watchdog in
\* their relation to the records.
LEMMA ImageStep == SessionInv /\ SessionInv' /\ ImageInv /\ [Next]_vars => ImageInv'
  <1> SUFFICES ASSUME SessionInv, SessionInv', ImageInv, [Next]_vars PROVE ImageInv'
    OBVIOUS
  <1>0. /\ records \in Record /\ Loadable(records)
        /\ pc \in Deciding => req \in Mutations /\ req.bundle # None
        /\ pc \in Pipeline => records.prepared = None
        /\ pc = "reconcile" => records.prepared = None \/ records.claim # None
        /\ Claiming \/ pc = "havenFailed" =>
              records.claim # None /\ ~records.started /\ records.failure = None
        /\ pc \in {"fork", "execUnload", "execFailed"} => records.claim # None /\ records.started /\ records.failure = None
        /\ pc \in {"havenError", "havenUnload"} => records.claim # None /\ records.failure = "haven"
        /\ pc \in Steps \ {"load"} => state = StateOf(records)
        /\ mode \in {"full", "observation"}
    BY MutationFacts DEF SessionInv
  <1> USE ConstantsAssumption, NoneAssumption
      DEF ImageInv, Record, Loadable, Steps, Ended, Pipeline, Deciding, Claiming,
          persistent, connection, world, history
  <1>1. CASE Load
    BY <1>0, <1>1, PhaseFacts DEF Load, Vanish
  <1>2. CASE Reconcile
    BY <1>0, <1>2 DEF Reconcile, Unload, Vanish, Go
  <1>3. CASE Open
    BY <1>0, <1>3 DEF Open, Go
  <1>4. CASE AnswerAtOnce
    BY <1>0, <1>4 DEF AnswerAtOnce, Go, SetLastError
  <1>5. CASE Accept
    BY <1>0, <1>5 DEF Accept, Go, Emit
  <1>6. CASE Refuse
    BY <1>0, <1>6, DecisionFacts DEF Refuse, Go
  <1>7. CASE PersistClaim
    BY <1>0, <1>7, AnswerFacts, DecisionFacts, MutationFacts DEF PersistClaim, Go
  <1>8. CASE Remember
    BY <1>0, <1>8 DEF Remember
  <1>9. CASE Send
    BY <1>0, <1>9 DEF Send, Go
  <1>10. CASE SendFails
    BY <1>0, <1>10 DEF SendFails
  <1>11. CASE FetchOk
    BY <1>0, <1>11 DEF FetchOk, Go, Emit
  <1>12. CASE FetchConflict
    BY <1>0, <1>12 DEF FetchConflict, Fail, Go, SetLastError
  <1>13. CASE FetchFails
    BY <1>0, <1>13 DEF FetchFails, Fail, Go, SetLastError, MaybePublished
  <1>14. CASE VerifyOk
    BY <1>0, <1>14, SMT DEF VerifyOk, Go, Emit, CountVerifier
  <1>15. CASE VerifyFails
    BY <1>0, <1>15, SMT DEF VerifyFails, Fail, Go, SetLastError, CountVerifier
  <1>16. CASE LoadOk
    BY <1>0, <1>16 DEF LoadOk, Go, Emit
  <1>17. CASE LoadFails
    BY <1>0, <1>17 DEF LoadFails, Go
  <1>18. CASE LoaderNotStarted
    BY <1>0, <1>18 DEF LoaderNotStarted, Fail, Go, SetLastError
  <1>19. CASE UnloadRejected
    BY <1>0, <1>19 DEF UnloadRejected, Fail, Go, SetLastError, Vanish
  <1>20. CASE PersistPrepared
    BY <1>0, <1>20, MutationFacts DEF PersistPrepared, Go, Emit
  <1>21. CASE HavenOff
    BY <1>0, <1>21 DEF HavenOff, Go
  <1>22. CASE HavenFails
    BY <1>0, <1>22 DEF HavenFails, Go
  <1>23. CASE HavenFailure
    BY <1>0, <1>23 DEF HavenFailure, PersistFailure, Go
  <1>24. CASE HavenError
    BY <1>0, <1>24 DEF HavenError, FailureError, Go, SetLastError
  <1>25. CASE HavenUnload
    BY <1>0, <1>25 DEF HavenUnload, Unload, Vanish, Go
  <1>26. CASE PersistExecutionStarted
    BY <1>0, <1>26 DEF PersistExecutionStarted, Go
  <1>27. CASE Kexec
    BY <1>0, <1>27 DEF Kexec
  <1>28. CASE ForkFails
    BY <1>0, <1>28 DEF ForkFails, Go
  <1>29. CASE ExecUnload
    BY <1>0, <1>29 DEF ExecUnload, Unload, Vanish, Go
  <1>30. CASE ExecFailure
    BY <1>0, <1>30 DEF ExecFailure, PersistFailure, Go
  <1>31. CASE ExecError
    BY <1>0, <1>31 DEF ExecError, FailureError, Go, SetLastError
  <1>32. CASE FailClosed
    BY <1>0, <1>32 DEF FailClosed, Vanish
  <1>33. CASE Hangup
    BY <1>0, <1>33 DEF Hangup, Go
  <1>34. CASE Receive
    BY <1>0, <1>34 DEF Receive, Go
  <1>35. CASE Crash
    BY <1>0, <1>35 DEF Crash, Vanish, MaybePublished, Called
  <1>36. CASE Restart
    BY <1>0, <1>36 DEF Restart, Go
  <1>37. CASE WatchdogDies
    BY <1>0, <1>37 DEF WatchdogDies
  <1>38. CASE Reboot
    BY <1>0, <1>38 DEF Reboot, NoRecords
  <1>39. CASE UNCHANGED vars
    BY <1>39 DEF vars
  <1> QED
    BY <1>1, <1>2, <1>3, <1>4, <1>5, <1>6, <1>7, <1>8, <1>9, <1>10, <1>11, <1>12, <1>13, <1>14, <1>15, <1>16, <1>17, <1>18, <1>19, <1>20, <1>21, <1>22, <1>23, <1>24, <1>25, <1>26, <1>27, <1>28, <1>29, <1>30, <1>31, <1>32, <1>33, <1>34, <1>35, <1>36, <1>37, <1>38, <1>39 DEF Next, Responder

-----------------------------------------------------------------------------
(* The line and the executor.                                               *)

\* No step writes behind a frame that was cut off.
LEMMA LineStep == LineInv /\ [Next]_vars => LineInv'
  <1> SUFFICES ASSUME LineInv, [Next]_vars PROVE LineInv'
    OBVIOUS
  <1> USE DEF LineInv, Steps, Ended, Pipeline, Deciding, Frame, persistent, connection, world, history
  <1>1. CASE Load
    BY <1>1 DEF Load, Vanish
  <1>2. CASE Reconcile
    BY <1>2 DEF Reconcile, Unload, Vanish, Go
  <1>3. CASE Open
    BY <1>3 DEF Open, Go
  <1>4. CASE AnswerAtOnce
    BY <1>4 DEF AnswerAtOnce, Go, SetLastError
  <1>5. CASE Accept
    BY <1>5 DEF Accept, Go, Emit
  <1>6. CASE Refuse
    BY <1>6 DEF Refuse, Go
  <1>7. CASE PersistClaim
    BY <1>7 DEF PersistClaim, Go
  <1>8. CASE Remember
    BY <1>8 DEF Remember
  <1>9. CASE Send
    BY <1>9 DEF Send, Go
  <1>10. CASE SendFails
    BY <1>10 DEF SendFails
  <1>11. CASE FetchOk
    BY <1>11 DEF FetchOk, Go, Emit
  <1>12. CASE FetchConflict
    BY <1>12 DEF FetchConflict, Fail, Go, SetLastError
  <1>13. CASE FetchFails
    BY <1>13 DEF FetchFails, Fail, Go, SetLastError
  <1>14. CASE VerifyOk
    BY <1>14 DEF VerifyOk, Go, Emit
  <1>15. CASE VerifyFails
    BY <1>15 DEF VerifyFails, Fail, Go, SetLastError
  <1>16. CASE LoadOk
    BY <1>16 DEF LoadOk, Go, Emit
  <1>17. CASE LoadFails
    BY <1>17 DEF LoadFails, Go
  <1>18. CASE LoaderNotStarted
    BY <1>18 DEF LoaderNotStarted, Fail, Go, SetLastError
  <1>19. CASE UnloadRejected
    <2>1. CASE Fail("unload", "VERIFY_FAILED")
      BY <2>1 DEF Fail, Go
    <2>2. CASE Vanish
      BY <2>2 DEF Vanish
    <2> QED BY <1>19, <2>1, <2>2 DEF UnloadRejected
  <1>20. CASE PersistPrepared
    BY <1>20 DEF PersistPrepared, Go, Emit
  <1>21. CASE HavenOff
    BY <1>21 DEF HavenOff, Go
  <1>22. CASE HavenFails
    BY <1>22 DEF HavenFails, Go
  <1>23. CASE HavenFailure
    BY <1>23 DEF HavenFailure, PersistFailure, Go
  <1>24. CASE HavenError
    BY <1>24 DEF HavenError, FailureError, Go, SetLastError
  <1>25. CASE HavenUnload
    BY <1>25 DEF HavenUnload, Unload, Vanish, Go
  <1>26. CASE PersistExecutionStarted
    BY <1>26 DEF PersistExecutionStarted, Go
  <1>27. CASE Kexec
    BY <1>27 DEF Kexec
  <1>28. CASE ForkFails
    BY <1>28 DEF ForkFails, Go
  <1>29. CASE ExecUnload
    BY <1>29 DEF ExecUnload, Unload, Vanish, Go
  <1>30. CASE ExecFailure
    BY <1>30 DEF ExecFailure, PersistFailure, Go
  <1>31. CASE ExecError
    BY <1>31 DEF ExecError, FailureError, Go, SetLastError
  <1>32. CASE FailClosed
    BY <1>32 DEF FailClosed, Vanish
  <1>33. CASE Hangup
    BY <1>33 DEF Hangup, Go
  <1>34. CASE Receive
    BY <1>34 DEF Receive, Go
  <1>35. CASE Crash
    BY <1>35 DEF Crash, Vanish
  <1>36. CASE Restart
    BY <1>36 DEF Restart, Go
  <1>37. CASE WatchdogDies
    BY <1>37 DEF WatchdogDies
  <1>38. CASE Reboot
    BY <1>38 DEF Reboot
  <1>39. CASE UNCHANGED vars
    BY <1>39 DEF vars
  <1> QED
    BY <1>1, <1>2, <1>3, <1>4, <1>5, <1>6, <1>7, <1>8, <1>9, <1>10, <1>11, <1>12, <1>13, <1>14, <1>15, <1>16, <1>17, <1>18, <1>19, <1>20, <1>21, <1>22, <1>23, <1>24, <1>25, <1>26, <1>27, <1>28, <1>29, <1>30, <1>31, <1>32, <1>33, <1>34, <1>35, <1>36, <1>37, <1>38, <1>39 DEF Next, Responder

\* kexec -e is called once, for the prepared bundle, behind the started marker.
LEMMA RanStep == SessionInv /\ ImageInv /\ RanInv /\ [Next]_vars => RanInv'
  <1> SUFFICES ASSUME SessionInv, ImageInv, RanInv, [Next]_vars PROVE RanInv'
    OBVIOUS
  <1>0. /\ records \in Record /\ Loadable(records)
        /\ pc \in Pipeline => records.prepared = None
        /\ pc \in {"mark", "havenFailed"} => ~records.started
        /\ pc \in {"fork", "execFailed"} => records.started /\ records.claim # None
        /\ pc = "fork" => image = records.prepared.bundle
    BY DEF SessionInv, ImageInv, Claiming
  <1> USE ConstantsAssumption, NoneAssumption
      DEF RanInv, Record, Loadable, Steps, Ended, Pipeline, persistent, connection, world, history
  <1>1. CASE Load
    BY <1>0, <1>1 DEF Load, Vanish
  <1>2. CASE Reconcile
    BY <1>0, <1>2 DEF Reconcile, Unload, Vanish, Go
  <1>3. CASE Open
    BY <1>0, <1>3 DEF Open, Go
  <1>4. CASE AnswerAtOnce
    BY <1>0, <1>4 DEF AnswerAtOnce, Go, SetLastError
  <1>5. CASE Accept
    BY <1>0, <1>5 DEF Accept, Go, Emit
  <1>6. CASE Refuse
    BY <1>0, <1>6 DEF Refuse, Go
  <1>7. CASE PersistClaim
    BY <1>0, <1>7 DEF PersistClaim, Go
  <1>8. CASE Remember
    BY <1>0, <1>8 DEF Remember
  <1>9. CASE Send
    BY <1>0, <1>9 DEF Send, Go
  <1>10. CASE SendFails
    BY <1>0, <1>10 DEF SendFails
  <1>11. CASE FetchOk
    BY <1>0, <1>11 DEF FetchOk, Go, Emit
  <1>12. CASE FetchConflict
    BY <1>0, <1>12 DEF FetchConflict, Fail, Go, SetLastError
  <1>13. CASE FetchFails
    BY <1>0, <1>13 DEF FetchFails, Fail, Go, SetLastError
  <1>14. CASE VerifyOk
    BY <1>0, <1>14 DEF VerifyOk, Go, Emit
  <1>15. CASE VerifyFails
    BY <1>0, <1>15 DEF VerifyFails, Fail, Go, SetLastError
  <1>16. CASE LoadOk
    BY <1>0, <1>16 DEF LoadOk, Go, Emit
  <1>17. CASE LoadFails
    BY <1>0, <1>17 DEF LoadFails, Go
  <1>18. CASE LoaderNotStarted
    BY <1>0, <1>18 DEF LoaderNotStarted, Fail, Go, SetLastError
  <1>19. CASE UnloadRejected
    BY <1>0, <1>19 DEF UnloadRejected, Fail, Go, SetLastError, Vanish
  <1>20. CASE PersistPrepared
    BY <1>0, <1>20 DEF PersistPrepared, Go, Emit
  <1>21. CASE HavenOff
    BY <1>0, <1>21 DEF HavenOff, Go
  <1>22. CASE HavenFails
    BY <1>0, <1>22 DEF HavenFails, Go
  <1>23. CASE HavenFailure
    BY <1>0, <1>23 DEF HavenFailure, PersistFailure, Go
  <1>24. CASE HavenError
    BY <1>0, <1>24 DEF HavenError, FailureError, Go, SetLastError
  <1>25. CASE HavenUnload
    BY <1>0, <1>25 DEF HavenUnload, Unload, Vanish, Go
  <1>26. CASE PersistExecutionStarted
    BY <1>0, <1>26 DEF PersistExecutionStarted, Go
  <1>27. CASE Kexec
    BY <1>0, <1>27, SMT DEF Kexec, Called
  <1>28. CASE ForkFails
    BY <1>0, <1>28 DEF ForkFails, Go
  <1>29. CASE ExecUnload
    BY <1>0, <1>29 DEF ExecUnload, Unload, Vanish, Go
  <1>30. CASE ExecFailure
    BY <1>0, <1>30 DEF ExecFailure, PersistFailure, Go
  <1>31. CASE ExecError
    BY <1>0, <1>31 DEF ExecError, FailureError, Go, SetLastError
  <1>32. CASE FailClosed
    BY <1>0, <1>32 DEF FailClosed, Vanish
  <1>33. CASE Hangup
    BY <1>0, <1>33 DEF Hangup, Go
  <1>34. CASE Receive
    BY <1>0, <1>34 DEF Receive, Go
  <1>35. CASE Crash
    <2>1. pc' = "down" /\ UNCHANGED records
      BY <1>35 DEF Crash, Vanish
    <2>2. CASE UNCHANGED ran
      BY <2>1, <2>2
    <2>3. CASE pc = "fork" /\ Called
      <3>1. ran' = <<image>>
        BY <2>3, SMT DEF Called
      <3> QED BY <1>0, <2>1, <2>3, <3>1
    <2> QED BY <1>35, <2>2, <2>3 DEF Crash
  <1>36. CASE Restart
    BY <1>0, <1>36 DEF Restart, Go
  <1>37. CASE WatchdogDies
    BY <1>0, <1>37 DEF WatchdogDies
  <1>38. CASE Reboot
    BY <1>0, <1>38 DEF Reboot, NoRecords
  <1>39. CASE UNCHANGED vars
    BY <1>39 DEF vars
  <1> QED
    BY <1>1, <1>2, <1>3, <1>4, <1>5, <1>6, <1>7, <1>8, <1>9, <1>10, <1>11, <1>12, <1>13, <1>14, <1>15, <1>16, <1>17, <1>18, <1>19, <1>20, <1>21, <1>22, <1>23, <1>24, <1>25, <1>26, <1>27, <1>28, <1>29, <1>30, <1>31, <1>32, <1>33, <1>34, <1>35, <1>36, <1>37, <1>38, <1>39 DEF Next, Responder

-----------------------------------------------------------------------------
(* The ledger and the answers.                                              *)

\* A step that decides and answers nothing: the ledger, the decided records and
\* what the host knows stay, and at most a decision on its way goes on.
Quiet ==
    /\ UNCHANGED <<ledger, told>>
    /\ records'.prepared = records.prepared /\ records'.claim = records.claim
    /\ pc' \in Deciding => pc \in Deciding /\ req' = req
    /\ pc' \in Pipeline => pc \in Pipeline
    /\ pc' = "remember" => pc \in Pipeline \/ UNCHANGED <<pc, req, result>>
    /\ pc' \in {"send", "sendClaim"} => UNCHANGED <<pc, req, result>>

Loud == AnswerAtOnce \/ Accept \/ Refuse \/ PersistClaim \/ Remember \/ Send \/ SendFails
        \/ PersistPrepared \/ Reboot

\* All other steps are quiet.
LEMMA QuietSteps == SessionInv /\ [Next]_vars => Quiet \/ Loud
  <1> SUFFICES ASSUME SessionInv, [Next]_vars, ~Loud PROVE Quiet
    OBVIOUS
  <1>0. records \in Record
    BY DEF SessionInv
  <1> USE DEF Quiet, Record, Steps, Ended, Pipeline, Deciding, persistent, connection, world, history
  <1>1. CASE Load
    BY <1>0, <1>1 DEF Load, Vanish
  <1>2. CASE Reconcile
    BY <1>0, <1>2 DEF Reconcile, Unload, Vanish, Go
  <1>3. CASE Open
    BY <1>0, <1>3 DEF Open, Go
  <1>4. CASE FetchOk
    BY <1>0, <1>4 DEF FetchOk, Go, Emit
  <1>5. CASE FetchConflict
    BY <1>0, <1>5 DEF FetchConflict, Fail, Go, SetLastError
  <1>6. CASE FetchFails
    BY <1>0, <1>6 DEF FetchFails, Fail, Go, SetLastError
  <1>7. CASE VerifyOk
    BY <1>0, <1>7 DEF VerifyOk, Go, Emit
  <1>8. CASE VerifyFails
    BY <1>0, <1>8 DEF VerifyFails, Fail, Go, SetLastError
  <1>9. CASE LoadOk
    BY <1>0, <1>9 DEF LoadOk, Go, Emit
  <1>10. CASE LoadFails
    BY <1>0, <1>10 DEF LoadFails, Go
  <1>11. CASE LoaderNotStarted
    BY <1>0, <1>11 DEF LoaderNotStarted, Fail, Go, SetLastError
  <1>12. CASE UnloadRejected
    BY <1>0, <1>12 DEF UnloadRejected, Fail, Go, SetLastError, Vanish
  <1>13. CASE HavenOff
    BY <1>0, <1>13 DEF HavenOff, Go
  <1>14. CASE HavenFails
    BY <1>0, <1>14 DEF HavenFails, Go
  <1>15. CASE HavenFailure
    BY <1>0, <1>15 DEF HavenFailure, PersistFailure, Go
  <1>16. CASE HavenError
    BY <1>0, <1>16 DEF HavenError, FailureError, Go, SetLastError
  <1>17. CASE HavenUnload
    BY <1>0, <1>17 DEF HavenUnload, Unload, Vanish, Go
  <1>18. CASE PersistExecutionStarted
    BY <1>0, <1>18 DEF PersistExecutionStarted, Go
  <1>19. CASE Kexec
    BY <1>0, <1>19 DEF Kexec
  <1>20. CASE ForkFails
    BY <1>0, <1>20 DEF ForkFails, Go
  <1>21. CASE ExecUnload
    BY <1>0, <1>21 DEF ExecUnload, Unload, Vanish, Go
  <1>22. CASE ExecFailure
    BY <1>0, <1>22 DEF ExecFailure, PersistFailure, Go
  <1>23. CASE ExecError
    BY <1>0, <1>23 DEF ExecError, FailureError, Go, SetLastError
  <1>24. CASE FailClosed
    BY <1>0, <1>24 DEF FailClosed, Vanish
  <1>25. CASE Hangup
    BY <1>0, <1>25 DEF Hangup, Go
  <1>26. CASE Receive
    BY <1>0, <1>26 DEF Receive, Go
  <1>27. CASE Crash
    BY <1>0, <1>27 DEF Crash, Vanish
  <1>28. CASE Restart
    BY <1>0, <1>28 DEF Restart, Go
  <1>29. CASE WatchdogDies
    BY <1>0, <1>29 DEF WatchdogDies
  <1>30. CASE UNCHANGED vars
    BY <1>30 DEF vars
  <1> QED
    BY <1>1, <1>2, <1>3, <1>4, <1>5, <1>6, <1>7, <1>8, <1>9, <1>10, <1>11, <1>12, <1>13, <1>14, <1>15, <1>16, <1>17, <1>18, <1>19, <1>20, <1>21, <1>22, <1>23, <1>24, <1>25, <1>26, <1>27, <1>28, <1>29, <1>30 DEF Next, Responder, Loud

\* Answers stay when ledger and decided records do.
LEMMA ReplyStays ==
    ASSUME UNCHANGED ledger, records'.prepared = records.prepared, records'.claim = records.claim
    PROVE  (\A q : Reply(q)' = Reply(q)) /\ FetchDecided' = FetchDecided
  BY DEF Reply, FetchDecided, Recorded

\* The identity of a request that is about to be decided is new: no record
\* answers it, and the host knows no decision on it.
LEMMA NewIdentity ==
    ASSUME SessionInv, ReplyInv, pc = "handle", Answer = None
    PROVE  /\ req \in Mutations /\ ledger[req.id] = None /\ told[req.id] = None
           /\ records.prepared # None => records.prepared.id # req.id
           /\ records.claim # None => records.claim.id # req.id
  <1>1. req \in Mutations /\ Replay = None /\ req.id \in Ids
    BY AnswerFacts, MutationFacts
  <1>2. Reply(req) = None
    BY <1>1, ReplayIsReply
  <1>3. ledger[req.id] = None
    <2> SUFFICES ASSUME ledger[req.id] # None PROVE FALSE
      OBVIOUS
    <2>1. ledger[req.id].result # None
      BY <1>1, NoneAssumption DEF ReplyInv, Decided
    <2> QED BY <1>2, <2>1, NoneAssumption DEF Reply
  <1>4. /\ records.prepared # None => records.prepared.id # req.id
        /\ records.claim # None => records.claim.id # req.id
    BY <1>2, <1>3, NoneAssumption DEF Reply, Decisions
  <1>5. told[req.id] = None
    <2> SUFFICES ASSUME told[req.id] # None PROVE FALSE
      OBVIOUS
    <2>1. told[req.id].request.id = req.id /\ Reply(told[req.id].request) = told[req.id].result
      BY <1>1 DEF ReplyInv
    <2>2. told[req.id].result # None
      BY <1>1, NoneAssumption DEF ReplyInv, Decided
    <2> QED BY <1>3, <1>4, <2>1, <2>2 DEF Reply
  <1> QED BY <1>1, <1>3, <1>4, <1>5

\* A quiet step preserves the answers.
LEMMA QuietReply == SessionInv /\ ReplyInv /\ Quiet => ReplyInv'
  <1> SUFFICES ASSUME SessionInv, ReplyInv, Quiet PROVE ReplyInv'
    OBVIOUS
  <1>1. (\A q : Reply(q)' = Reply(q)) /\ FetchDecided' = FetchDecided
    BY ReplyStays DEF Quiet
  <1>2. UNCHANGED <<ledger, told>>
    BY DEF Quiet
  <1>3. \A i \in Ids : told'[i] # None =>
          told'[i].request.id = i /\ Reply(told[i].request)' = told'[i].result
    BY <1>1, <1>2 DEF ReplyInv
  <1>4. pc' \in Deciding => ledger'[req'.id] = None /\ told'[req'.id] = None
    BY <1>2 DEF ReplyInv, Quiet
  <1>5. pc' = "remember" /\ result' \in Refusals => req'.verb = "PREPARE"
    BY DEF ReplyInv, Quiet, SessionInv, Deciding
  <1>6. pc' \in Pipeline => ~FetchDecided'
    BY <1>1 DEF ReplyInv, Quiet
  <1>7. pc' \in {"send", "sendClaim"} /\ result' \notin Unrecorded =>
          /\ req' \in Mutations /\ result' \in Decisions \cup {"REQUEST_CONFLICT"}
          /\ Reply(req)' = result'
    BY <1>1 DEF ReplyInv, Quiet
  <1> QED BY <1>2, <1>3, <1>4, <1>5, <1>6, <1>7 DEF ReplyInv

\* What the host receives is what the records answer.
LEMMA TellReply ==
    ASSUME SessionInv, ReplyInv, pc \in {"send", "sendClaim"}, Tell \/ UNCHANGED told,
           UNCHANGED <<ledger, records>>, pc' \notin Deciding \cup {"send", "sendClaim"}
    PROVE  ReplyInv'
  <1>1. (\A q : Reply(q)' = Reply(q)) /\ FetchDecided' = FetchDecided
    BY ReplyStays
  <1>2. CASE UNCHANGED told
    BY <1>1, <1>2 DEF ReplyInv, Deciding, Pipeline
  <1>3. CASE /\ req.id # None /\ result \notin Unrecorded
             /\ told' = [told EXCEPT ![req.id] = [request |-> req, result |-> result]]
    <2>1. /\ req \in Mutations /\ result \in Decisions \cup {"REQUEST_CONFLICT"}
          /\ Reply(req) = result /\ req.id \in Ids
      BY <1>3, MutationFacts DEF ReplyInv
    <2>2. [request |-> req, result |-> result] \in Decided
      BY <2>1 DEF Decided
    <2>3. told' \in [Ids -> Decided \cup {None}]
      BY <1>3, <2>1, <2>2 DEF ReplyInv
    <2>4. ASSUME NEW i \in Ids, told'[i] # None
          PROVE  told'[i].request.id = i /\ Reply(told'[i].request) = told'[i].result
      <3>1. CASE i = req.id
        <4>1. told'[i] = [request |-> req, result |-> result]
          BY <1>3, <3>1 DEF ReplyInv
        <4> QED BY <2>1, <3>1, <4>1, SMT
      <3>2. CASE i # req.id
        <4>1. told'[i] = told[i]
          BY <1>3, <3>2 DEF ReplyInv
        <4> QED BY <2>4, <4>1 DEF ReplyInv
      <3> QED BY <3>1, <3>2
    <2>5. (\A i \in Ids : told[i] # None =>
             told[i].request.id = i /\ Reply(told[i].request) = told[i].result)'
      BY <2>4 DEF Reply
    <2> QED BY <1>1, <2>3, <2>5 DEF ReplyInv, Deciding, Pipeline
  <1> QED BY <1>2, <1>3 DEF Tell

\* Every step keeps what the host was told and what the records answer equal.
LEMMA ReplyStep == SessionInv /\ SessionInv' /\ ReplyInv /\ [Next]_vars => ReplyInv'
  <1> SUFFICES ASSUME SessionInv, SessionInv', ReplyInv, Loud PROVE ReplyInv'
    BY QuietReply, QuietSteps
  <1>0. /\ records \in Record /\ Loadable(records)
        /\ ledger \in [Ids -> Decided \cup {None}] /\ told \in [Ids -> Decided \cup {None}]
    BY DEF SessionInv, ReplyInv
  <1>1. CASE AnswerAtOnce
    <2>1. /\ pc = "handle" /\ pc' = "send" /\ UNCHANGED <<ledger, told, req>> /\ result' = Answer
          /\ Answer # None
          /\ records'.prepared = records.prepared /\ records'.claim = records.claim
      BY <1>0, <1>1 DEF AnswerAtOnce, Go, SetLastError, Record, history
    <2>2. (\A q : Reply(q)' = Reply(q)) /\ FetchDecided' = FetchDecided
      BY <2>1, ReplyStays
    <2>3. ASSUME result' \notin Unrecorded
          PROVE  /\ req' \in Mutations /\ result' \in Decisions \cup {"REQUEST_CONFLICT"}
                 /\ Reply(req)' = result'
      <3>1. req \in Mutations /\ Reply(req) = Answer /\ req.id \in Ids
        BY <2>1, <2>3, AnswerIsReplay, ReplayIsReply, MutationFacts
      <3>2. Reply(req) # None => Reply(req) \in Decisions \cup {"REQUEST_CONFLICT"}
        BY <1>0, <3>1 DEF Reply, Decided, Decisions
      <3> QED BY <2>1, <2>2, <3>1, <3>2
    <2> QED BY <2>1, <2>2, <2>3 DEF ReplyInv, Deciding, Pipeline
  <1>2. CASE Accept
    <2>1. /\ pc = "handle" /\ pc' = "fetch" /\ UNCHANGED <<ledger, told, req, records>>
          /\ Answer = None /\ ~FetchDecided
      BY <1>2 DEF Accept, Go, history, persistent, Accepts
    <2>2. (\A q : Reply(q)' = Reply(q)) /\ FetchDecided' = FetchDecided
      BY <2>1, ReplyStays
    <2> QED BY <2>1, <2>2, NewIdentity DEF ReplyInv, Deciding, Pipeline
  <1>3. CASE Refuse
    <2>1. /\ pc = "handle" /\ pc' = "remember" /\ UNCHANGED <<ledger, told, req, records>>
          /\ Answer = None /\ ~Accepts /\ result' = Decision
      BY <1>3 DEF Refuse, Go, history, persistent
    <2>2. (\A q : Reply(q)' = Reply(q)) /\ FetchDecided' = FetchDecided
      BY <2>1, ReplyStays
    <2>3. result' \notin Refusals
      BY <2>1, DecisionFacts
    <2> QED BY <2>1, <2>2, <2>3, NewIdentity DEF ReplyInv, Deciding, Pipeline
  <1>4. CASE PersistClaim
    <2>1. /\ pc = "handle" /\ pc' = "remember" /\ UNCHANGED <<ledger, told, req>>
          /\ Answer = None /\ result' = "CLAIMED"
          /\ records'.prepared = records.prepared /\ records'.claim = req /\ records.claim = None
      BY <1>0, <1>4, DecisionFacts DEF PersistClaim, Go, history, Record
    <2>2. \A q : q.id # req.id => Reply(q)' = Reply(q)
      BY <2>1 DEF Reply
    <2>3. \A i \in Ids : told[i] # None => i # req.id
      BY <2>1, NewIdentity
    <2>4. \A i \in Ids : told'[i] # None =>
            told'[i].request.id = i /\ Reply(told[i].request)' = told'[i].result
      BY <2>1, <2>2, <2>3 DEF ReplyInv
    <2> QED BY <2>1, <2>4, NewIdentity DEF ReplyInv, Deciding, Pipeline, Refusals
  <1>5. CASE PersistPrepared
    <2>1. /\ pc = "persist" /\ pc' = "remember" /\ UNCHANGED <<ledger, told, req>>
          /\ result' = "PREPARED"
          /\ records'.prepared = req /\ records'.claim = records.claim
          /\ records.prepared = None /\ records.claim = None
      BY <1>0, <1>5 DEF PersistPrepared, Go, history, Record, SessionInv, Pipeline, Loadable
    <2>2. \A q : q.id # req.id => Reply(q)' = Reply(q)
      BY <2>1 DEF Reply
    <2>3. ledger[req.id] = None /\ told[req.id] = None
      BY <2>1 DEF ReplyInv, Deciding, Pipeline
    <2>4. \A i \in Ids : told'[i] # None =>
            told'[i].request.id = i /\ Reply(told[i].request)' = told'[i].result
      BY <2>1, <2>2, <2>3 DEF ReplyInv
    <2> QED BY <2>1, <2>3, <2>4 DEF ReplyInv, Deciding, Pipeline, Refusals
  <1>6. CASE Remember
    <2>1. /\ pc = "remember" /\ pc' \in {"send", "sendClaim", "closed"} /\ UNCHANGED <<records, told>>
          /\ ledger' = [ledger EXCEPT ![req.id] = [request |-> req, result |-> result]]
          /\ pc' # "closed" => UNCHANGED <<req, result>>
      BY <1>6 DEF Remember, history
    <2>2. /\ req \in Mutations /\ req.id \in Ids /\ result \in Decisions
          /\ told[req.id] = None
      BY <2>1, MutationFacts DEF SessionInv, ReplyInv, Deciding
    <2>3. [request |-> req, result |-> result] \in Decided
      BY <2>2 DEF Decided
    <2>4. /\ ledger' \in [Ids -> Decided \cup {None}]
          /\ ledger'[req.id] = [request |-> req, result |-> result] /\ ledger'[req.id] # None
          /\ \A i \in Ids \ {req.id} : ledger'[i] = ledger[i]
      BY <1>0, <2>1, <2>2, <2>3, NoneAssumption
    <2>5. \A q : q.id \in Ids \ {req.id} => Reply(q)' = Reply(q)
      BY <2>1, <2>4 DEF Reply
    <2>6. UNCHANGED <<req, result>> => Reply(req)' = result'
      BY <2>4, SMT DEF Reply
    <2>7. \A i \in Ids : told'[i] # None =>
            told'[i].request.id = i /\ Reply(told[i].request)' = told'[i].result
      BY <2>1, <2>2, <2>5 DEF ReplyInv
    <2>8. \A i \in Ids : ledger'[i] # None /\ ledger'[i].result \in Refusals =>
            ledger'[i].request.verb = "PREPARE"
      BY <2>1, <2>4 DEF ReplyInv
    <2> QED BY <2>1, <2>2, <2>4, <2>6, <2>7, <2>8 DEF ReplyInv, Deciding, Pipeline
  <1>7. CASE Send
    BY <1>7, TellReply DEF Send, Go, persistent, Deciding, Pipeline
  <1>8. CASE SendFails
    BY <1>8, TellReply DEF SendFails, persistent, Deciding, Pipeline
  <1>9. CASE Reboot
    BY <1>9, NoneAssumption DEF Reboot, ReplyInv, Deciding, Pipeline
  <1> QED BY <1>1, <1>2, <1>3, <1>4, <1>5, <1>6, <1>7, <1>8, <1>9 DEF Loud

-----------------------------------------------------------------------------
(* The room in the ledger.                                                  *)

\* The ledger counts the same decisions when it is unchanged.
LEMMA CountStays == UNCHANGED ledger => Recorded' = Recorded /\ LedgerCount' = LedgerCount
  BY DEF Recorded, LedgerCount

\* A decision that is begun leaves the reserve: three slots, or it is the claim.
LEMMA RoomToDecide ==
    ASSUME SessionInv, RoomInv, pc = "handle", Answer = None,
           Accepts \/ Decision # "CLAIMED"
    PROVE  LedgerCount <= LedgerMax - 3
  <1>1. HasRoom /\ LedgerCount \in Nat /\ LedgerMax \in Nat
    BY AnswerFacts, FS_CardinalityType, ConstantsAssumption DEF RoomInv, LedgerCount
  <1>2. ~(req.verb = "COMMIT_EXEC" /\ state.phase = "prepared" /\ MatchesPrepared(req))
    BY DecisionFacts DEF Accepts
  <1> QED BY <1>1, <1>2, SMT DEF HasRoom

\* Every step keeps the reserve.
LEMMA RoomStep ==
    SessionInv /\ SessionInv' /\ ReplyInv /\ RoomInv /\ [Next]_vars => RoomInv'
  <1> SUFFICES ASSUME SessionInv, SessionInv', ReplyInv, RoomInv, Quiet \/ Loud PROVE RoomInv'
    BY QuietSteps
  <1>0. /\ records \in Record /\ LedgerCount \in Nat /\ LedgerMax \in Nat /\ LedgerMax >= 3
    BY FS_CardinalityType, ConstantsAssumption DEF RoomInv, LedgerCount, SessionInv
  <1>1. CASE Quiet
    BY <1>1, CountStays DEF Quiet, RoomInv
  <1>2. CASE AnswerAtOnce
    <2>1. UNCHANGED ledger /\ records'.claim = records.claim /\ pc' = "send"
      BY <1>0, <1>2 DEF AnswerAtOnce, Go, SetLastError, Record
    <2> QED BY <2>1, CountStays DEF RoomInv, Deciding, Pipeline
  <1>3. CASE Accept
    <2>1. UNCHANGED <<ledger, records>> /\ pc = "handle" /\ Answer = None /\ Accepts
      BY <1>3 DEF Accept, Go, persistent
    <2>2. LedgerCount <= LedgerMax - 3
      BY <2>1, RoomToDecide
    <2> QED BY <2>1, <2>2, CountStays DEF RoomInv
  <1>4. CASE Refuse
    <2>1. UNCHANGED <<ledger, records>> /\ pc = "handle" /\ Answer = None /\ Decision # "CLAIMED"
      BY <1>4 DEF Refuse, Go, persistent
    <2>2. LedgerCount <= LedgerMax - 3
      BY <2>1, RoomToDecide
    <2> QED BY <2>1, <2>2, CountStays DEF RoomInv
  <1>5. CASE PersistClaim
    <2>1. UNCHANGED ledger /\ records'.claim = req /\ req \in Mutations
      BY <1>0, <1>5, AnswerFacts DEF PersistClaim, Go, Record
    <2>2. records'.claim # None
      BY <2>1, MutationFacts
    <2> QED BY <2>1, <2>2, CountStays DEF RoomInv
  <1>6. CASE PersistPrepared
    <2>1. UNCHANGED ledger /\ records'.claim = records.claim /\ pc = "persist"
      BY <1>0, <1>6 DEF PersistPrepared, Go, Record
    <2> QED BY <2>1, CountStays DEF RoomInv, Deciding, Pipeline
  <1>7. CASE Remember
    <2>1. /\ pc = "remember" /\ pc' \notin Deciding /\ UNCHANGED records
          /\ ledger' = [ledger EXCEPT ![req.id] = [request |-> req, result |-> result]]
      BY <1>7 DEF Remember, Deciding, Pipeline
    <2>2. /\ req \in Mutations /\ req.id \in Ids /\ result \in Decisions /\ ledger[req.id] = None
          /\ ledger \in [Ids -> Decided \cup {None}]
      BY <2>1, MutationFacts DEF SessionInv, ReplyInv, Deciding
    <2>3. [request |-> req, result |-> result] # None
      BY <2>2, NoneAssumption, SMT DEF Decided
    <2>4. Recorded' = Recorded \cup {req.id} /\ req.id \notin Recorded
      BY <2>1, <2>2, <2>3 DEF Recorded
    <2>5. IsFiniteSet(Recorded') /\ Cardinality(Recorded') = Cardinality(Recorded) + 1
      BY <2>4, FS_AddElement DEF RoomInv
    <2>6. LedgerCount' = LedgerCount + 1
      BY <2>5 DEF LedgerCount
    <2>7. records.claim = None => LedgerCount <= LedgerMax - 3
      BY <2>1 DEF RoomInv, Deciding
    <2> QED BY <1>0, <2>1, <2>5, <2>6, <2>7, SMT DEF RoomInv
  <1>8. CASE Send \/ SendFails
    BY <1>8, CountStays DEF Send, SendFails, Go, persistent, RoomInv, Deciding, Pipeline
  <1>9. CASE Reboot
    <2>1. Recorded' = {}
      BY <1>9 DEF Reboot, Recorded
    <2>2. IsFiniteSet(Recorded') /\ LedgerCount' = 0
      BY <2>1, FS_EmptySet DEF LedgerCount
    <2>3. pc' \notin Deciding
      BY <1>9 DEF Reboot, Deciding, Pipeline
    <2> QED BY <1>0, <2>2, <2>3, SMT DEF RoomInv
  <1> QED BY <1>1, <1>2, <1>3, <1>4, <1>5, <1>6, <1>7, <1>8, <1>9 DEF Loud

-----------------------------------------------------------------------------
(* The theorems.                                                            *)

\* A recovery boot starts with no record, image, decision or frame.
LEMMA InitInv == Init => IInv
  <1> SUFFICES ASSUME Init PROVE IInv
    OBVIOUS
  <1>1. SessionInv
    BY NoneAssumption DEF Init, SessionInv, NoRecords, Record, Loadable, Steps, Deciding, Pipeline, Claiming, Errors
  <1>2. ImageInv /\ LineInv /\ RanInv
    BY DEF Init, NoRecords, ImageInv, LineInv, RanInv, Deciding, Pipeline, Claiming, Ended
  <1>3. ReplyInv
    BY DEF Init, ReplyInv, Deciding, Pipeline
  <1>4. Recorded = {}
    BY DEF Init, Recorded
  <1>5. RoomInv
    BY <1>4, FS_EmptySet, ConstantsAssumption, SMT DEF Init, RoomInv, LedgerCount, Deciding, Pipeline
  <1> QED BY <1>1, <1>2, <1>3, <1>5 DEF IInv

\* All six parts hold in every reachable state.
THEOREM SessionInvariance == Spec => []IInv
  <1>1. IInv /\ [Next]_vars => IInv'
    BY SessionStep, ImageStep, ReplyStep, RoomStep, LineStep, RanStep DEF IInv
  <1> QED BY <1>1, InitInv, PTL DEF Spec

\* A repeated request gets the decision the host received before, and nothing
\* follows a frame that was cut off.
THEOREM RepliesAlwaysAgree == Spec => []RepliesAgree
  <1>1. IInv => RepliesAgree
    <2> SUFFICES ASSUME IInv PROVE RepliesAgree
      OBVIOUS
    <2>1. ASSUME pc \in {"send", "sendClaim"}, result \notin Unrecorded,
                 told[req.id] # None, told[req.id].request = req
          PROVE  result = told[req.id].result
      <3>1. req \in Mutations /\ Reply(req) = result
        BY <2>1 DEF IInv, ReplyInv
      <3>2. req.id \in Ids
        BY <3>1, MutationFacts
      <3> QED BY <2>1, <3>1, <3>2 DEF IInv, ReplyInv
    <2> QED BY <2>1 DEF RepliesAgree, IInv, LineInv
  <1> QED BY <1>1, SessionInvariance, PTL

\* After an acquisition that the host knows to have failed, and after a durable
\* PREPARED, nothing is fetched, verified or loaded.
THEOREM AlwaysAcquiresOnce == Spec => []AcquiresOnce
  <1>1. IInv => AcquiresOnce
    <2> SUFFICES ASSUME IInv PROVE AcquiresOnce
      OBVIOUS
    <2>1. ASSUME NEW i \in Ids, told[i] # None, told[i].result \in Refusals
          PROVE  FetchDecided
      <3>1. told[i].request.id = i /\ Reply(told[i].request) = told[i].result
        BY <2>1 DEF IInv, ReplyInv
      <3>2. ledger[i] # None /\ ledger[i].result = told[i].result
        BY <2>1, <3>1, NoneAssumption DEF Reply, Refusals, Decisions
      <3>3. ledger[i].request.verb = "PREPARE"
        BY <2>1, <3>2 DEF IInv, ReplyInv
      <3> QED BY <2>1, <3>2, <3>3 DEF FetchDecided, Recorded, Refusals
    <2> QED BY <2>1, SMT DEF AcquiresOnce, IInv, SessionInv, ReplyInv, Refusals, Pipeline
  <1> QED BY <1>1, SessionInvariance, PTL

\* run_bundle_verifier: the verifier runs at most once in a session, because a
\* published bundle is never fetched again.
THEOREM AlwaysVerifiesOnce == Spec => []VerifiesOnce
  <1>1. IInv => VerifiesOnce
    BY SMT DEF VerifiesOnce, IInv, ImageInv
  <1> QED BY <1>1, SessionInvariance, PTL

\* The exact COMMIT_EXEC of a prepared session never finds the ledger full,
\* whatever its size and whatever was decided before.
THEOREM CommitAlwaysHasRoom == Spec => []CommitHasRoom
  <1>1. IInv => CommitHasRoom
    <2> SUFFICES ASSUME IInv, pc = "handle", req.verb = "COMMIT_EXEC", state.phase = "prepared",
                        MatchesPrepared(req)
                 PROVE  Answer # "LEDGER_FULL"
      BY DEF CommitHasRoom
    <2>1. records.claim = None
      <3>1. state = StateOf(records) /\ records \in Record /\ Loadable(records)
        BY DEF IInv, SessionInv, Steps
      <3> QED BY <3>1, PhaseFacts
    <2>2. LedgerCount < LedgerMax
      BY <2>1, FS_CardinalityType, ConstantsAssumption, SMT DEF IInv, RoomInv, LedgerCount
    <2>3. HasRoom
      BY <2>2 DEF HasRoom
    <2>4. Replay # "LEDGER_FULL"
      <3>1. req \in Mutations
        BY MutationFacts DEF IInv, SessionInv
      <3>2. Replay = Reply(req) /\ req.id \in Ids
        BY <3>1, ReplayIsReply, MutationFacts DEF IInv
      <3>3. Reply(req) \in Decisions \cup {"REQUEST_CONFLICT", None}
        <4>1. ledger[req.id] \in Decided \cup {None}
          BY <3>2 DEF IInv, ReplyInv
        <4>2. ledger[req.id] # None => ledger[req.id].result \in Decisions \cup {"REQUEST_CONFLICT"}
          BY <4>1 DEF Decided
        <4>3. {"PREPARED", "CLAIMED"} \subseteq Decisions
          BY DEF Decisions
        <4> QED BY <4>2, <4>3 DEF Reply
      <3> QED BY <3>2, <3>3, NoneAssumption DEF Decisions, Unrecorded
    <2>5. Answer = IF mode = "observation" THEN "OBSERVATION_ONLY"
                   ELSE IF Replay # None THEN Replay ELSE None
      BY <2>3 DEF Answer
    <2> QED BY <2>4, <2>5, NoneAssumption DEF Unrecorded
  <1> QED BY <1>1, SessionInvariance, PTL

\* Killed between any two records, the responder can load what it finds.
THEOREM StateAlwaysLoads == Spec => []StateLoads
  <1>1. IInv => StateLoads
    BY DEF IInv, SessionInv, StateLoads
  <1> QED BY <1>1, SessionInvariance, PTL

\* A responder that takes requests has no image loaded but the prepared one.
THEOREM NeverStrayImage == Spec => []NoStrayImage
  <1>1. IInv => NoStrayImage
    <2> SUFFICES ASSUME IInv, mode = "full", pc \in {"closed", "wait", "handle"},
                        state.phase \in {"idle", "failed"}
                 PROVE  image = None
      BY DEF NoStrayImage
    <2>1. state = StateOf(records) /\ records \in Record /\ Loadable(records)
      BY DEF IInv, SessionInv, Steps
    <2>2. records.prepared = None \/ records.failure # None
      BY <2>1, PhaseFacts
    <2> QED BY <2>2 DEF IInv, ImageInv
  <1> QED BY <1>1, SessionInvariance, PTL

\* kexec -e is only reached with the response drained, the marker written, the
\* Haven watchdog off and the claimed image loaded.
THEOREM AlwaysExecutesProven == Spec => []ExecutesProven
  <1>1. IInv => ExecutesProven
    BY DEF IInv, SessionInv, ImageInv, Loadable, ExecutesProven
  <1> QED BY <1>1, SessionInvariance, PTL

-----------------------------------------------------------------------------
(* The session implements OneShot.                                          *)

\* Only the executor, or a kill while it is at work, calls kexec -e.
LEMMA OnlyForkCalls == [Next]_vars => UNCHANGED ran \/ (pc = "fork" /\ Called) \/ Reboot
  <1> SUFFICES ASSUME [Next]_vars PROVE UNCHANGED ran \/ (pc = "fork" /\ Called) \/ Reboot
    OBVIOUS
  <1>1. CASE Kexec
    BY <1>1 DEF Kexec
  <1>2. CASE Crash
    BY <1>2 DEF Crash
  <1>3. CASE
            Load \/ Reconcile \/ Open \/ AnswerAtOnce \/ Accept \/ Refuse \/ PersistClaim
         \/ Remember \/ Send \/ SendFails \/ FetchOk \/ FetchConflict
    BY <1>3 DEF history,
       Load, Vanish, Reconcile, Unload, Go, Open, AnswerAtOnce, SetLastError, Accept, Emit,
       Refuse, PersistClaim, Remember, Send, SendFails, FetchOk, FetchConflict, Fail
  <1>4. CASE
            FetchFails \/ VerifyOk \/ VerifyFails \/ LoadOk \/ LoadFails \/ LoaderNotStarted
         \/ UnloadRejected \/ PersistPrepared \/ HavenOff \/ HavenFails \/ HavenFailure
         \/ HavenError
    BY <1>4 DEF history,
       FetchFails, Fail, Go, SetLastError, VerifyOk, Emit, VerifyFails, LoadOk, LoadFails,
       LoaderNotStarted, UnloadRejected, Vanish, PersistPrepared, HavenOff, HavenFails,
       HavenFailure, PersistFailure, HavenError, FailureError
  <1>5. CASE
            HavenUnload \/ PersistExecutionStarted \/ ForkFails \/ ExecUnload \/ ExecFailure
         \/ ExecError \/ FailClosed \/ Hangup \/ Receive \/ Restart \/ WatchdogDies
    BY <1>5 DEF history,
       HavenUnload, Unload, Vanish, Go, PersistExecutionStarted, ForkFails, ExecUnload,
       ExecFailure, PersistFailure, ExecError, FailureError, SetLastError, FailClosed, Hangup,
       Receive, Restart, WatchdogDies
  <1>6. CASE UNCHANGED vars
    BY <1>6 DEF vars
  <1> QED BY <1>1, <1>2, <1>3, <1>4, <1>5, <1>6 DEF Next, Responder

\* The session's bundle and claim change only with their records.
LEMMA SessionStays ==
    ASSUME records'.prepared = records.prepared, records'.claim = records.claim, UNCHANGED ran
    PROVE  UNCHANGED Session!oneShotVars
  BY DEF Session!oneShotVars

\* Every step of the responder is a step of the session or none.
LEMMA SessionRefines == IInv /\ IInv' /\ [Next]_vars => [Session!OneShotNext]_(Session!oneShotVars)
  <1> SUFFICES ASSUME IInv, IInv', [Next]_vars
               PROVE  Session!OneShotNext \/ UNCHANGED Session!oneShotVars
    OBVIOUS
  <1>0. /\ SessionInv /\ records \in Record /\ Loadable(records)
        /\ ran = <<>> \/ ran = <<records.prepared.bundle>>
    BY DEF IInv, SessionInv, RanInv
  <1>1. CASE Reboot
    BY <1>1 DEF Reboot, NoRecords, Session!OneShotNext, Session!NewSession, Session!Fresh
  <1>2. CASE PersistPrepared
    <2>1. /\ pc = "persist" /\ records' = [records EXCEPT !.prepared = req] /\ UNCHANGED ran
      BY <1>2 DEF PersistPrepared, Go, history
    <2>2. /\ records.prepared = None /\ req \in Mutations
      BY <2>1 DEF IInv, SessionInv, Pipeline, Deciding
    <2>3. /\ records'.prepared = req /\ req # None /\ req.bundle \in Bundles
          /\ records'.claim = records.claim
      BY <1>0, <2>1, <2>2, MutationFacts DEF Record
    <2>4. Session!Bind(req.bundle)
      BY <2>1, <2>2, <2>3 DEF Session!Bind
    <2> QED BY <2>3, <2>4 DEF Session!OneShotNext
  <1>3. CASE PersistClaim
    <2>1. /\ pc = "handle" /\ records' = [records EXCEPT !.claim = req] /\ UNCHANGED ran
          /\ Answer = None /\ ~Accepts /\ Decision = "CLAIMED"
      BY <1>3 DEF PersistClaim, Go, history
    <2>2. /\ records.prepared # None /\ records.claim = None /\ req \in Mutations
      BY <1>0, <2>1, DecisionFacts, AnswerFacts
    <2>3. records.prepared \in Mutations /\ records.prepared.bundle # None
      BY <1>0, <2>2, MutationFacts DEF Record, Mutations
    <2>4. /\ records'.prepared = records.prepared /\ records'.claim = req /\ req # None
      BY <1>0, <2>1, <2>2, MutationFacts DEF Record
    <2>5. Session!Grant
      BY <2>1, <2>2, <2>3, <2>4, SMT DEF Session!Grant
    <2> QED BY <2>5 DEF Session!OneShotNext
  <1>4. ASSUME ~Reboot, ~PersistPrepared, ~PersistClaim
        PROVE  Session!OneShotNext \/ UNCHANGED Session!oneShotVars
    <2>1. records'.prepared = records.prepared /\ records'.claim = records.claim
      <3>1. CASE Quiet
        BY <3>1 DEF Quiet
      <3>2. CASE Loud
        BY <1>0, <1>4, <3>2 DEF Loud, AnswerAtOnce, SetLastError, Accept, Refuse, Remember, Send,
           SendFails, persistent, Record
      <3> QED BY <1>0, <3>1, <3>2, QuietSteps
    <2>2. CASE UNCHANGED ran
      BY <2>1, <2>2, SessionStays
    <2>3. CASE pc = "fork" /\ Called
      <3>1. /\ records.claim # None /\ records.prepared # None /\ ran = <<>>
            /\ image = records.prepared.bundle
        BY <1>0, <2>3 DEF IInv, SessionInv, ImageInv, RanInv, Loadable
      <3>2. records.prepared.bundle # None
        BY <1>0, <3>1, MutationFacts, SMT DEF Record, Mutations
      <3>3. ran' = <<records.prepared.bundle>>
        BY <2>3, <3>1, SMT DEF Called
      <3>4. Session!Run
        BY <2>1, <3>1, <3>2, <3>3 DEF Session!Run
      <3> QED BY <3>4 DEF Session!OneShotNext
    <2> QED BY <1>4, <2>2, <2>3, OnlyForkCalls
  <1> QED BY <1>1, <1>2, <1>3, <1>4

\* The responder with its records, children and restarts implements the
\* one-shot session.
THEOREM SessionIsOneShot == Spec => ImplementsOneShot
  <1>1. Init => Session!Fresh
    BY SMT DEF Init, NoRecords, Session!Fresh
  <1> QED BY <1>1, SessionRefines, SessionInvariance, PTL DEF Spec, ImplementsOneShot, Session!OneShotSpec
=============================================================================
