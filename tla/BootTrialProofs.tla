--------------------------- MODULE BootTrialProofs ---------------------------
(***************************************************************************)
(* The boot chain around the record, for any set of trials: the durable    *)
(* cell of TryOnce grants one boot, loader, commit service and rollback    *)
(* timer use the record as the cell allows, a rollback fences its trial,   *)
(* and a RAM boot writes nothing.                                          *)
(***************************************************************************)
EXTENDS BootTrial, TLAPS

-----------------------------------------------------------------------------
(* The durable cell grants at most one unacknowledged boot.                 *)

\* Every value that power loss may leave knows of the granted boot: it is the
\* trial's pending or failed record, from which no decision arms again.
GrantKnown ==
    \A t \in Trials : unacked[t] # 0 =>
        /\ unacked[t] = 1
        /\ t \notin armed
        /\ survivors \subseteq {Value(t, "pending"), Value(t, "failed")}

CellInv ==
    /\ CellTypeOK
    /\ record \in survivors
    /\ \A t \in armed : record = Value(t, "pending")
    /\ GrantKnown

\* A record names its trial and its state (render_record is injective).
LEMMA ValueInjective ==
    \A t, u, r, s : Value(t, r) = Value(u, s) <=> t = u /\ r = s
  <1>1. SUFFICES ASSUME NEW t, NEW u, NEW r, NEW s, Value(t, r) = Value(u, s)
                 PROVE  t = u /\ r = s
    OBVIOUS
  <1>2. Value(t, r).trial = Value(u, s).trial /\ Value(t, r).state = Value(u, s).state
    BY <1>1
  <1> QED BY <1>2 DEF Value

\* The invariant holds of a cell at rest.
LEMMA CellInitInv == CellInit => CellInv
  BY DEF CellInit, CellInv, CellTypeOK, GrantKnown

\* Every operation, and power loss, preserves the invariant.
LEMMA CellNextInv == CellInv /\ [CellNext]_cellVars => CellInv'
  <1> SUFFICES ASSUME CellInv, [CellNext]_cellVars PROVE CellInv'
    OBVIOUS
  <1> USE DEF CellInv, CellTypeOK, GrantKnown
  <1>0. \A t \in Trials, s \in {"pending", "healthy", "failed"} :
           Value(t, s) \in Records /\ Value(t, s) # Absent
    BY AbsentAssumption DEF Records
  <1>1. ASSUME NEW t \in Trials, Arm(t) PROVE CellInv'
    <2>1. \A u \in Trials : unacked[u] = 0
      BY <1>0, <1>1, ValueInjective DEF Arm
    <2> QED BY <1>0, <1>1, <2>1 DEF Arm, Put
  <1>2. ASSUME NEW t \in Trials, Grant(t) PROVE CellInv'
    <2>1. \A u \in Trials : unacked[u] = 0
      BY <1>2, ValueInjective DEF Grant
    <2> QED BY <1>2, <2>1 DEF Grant
  <1>3. ASSUME NEW t \in Trials, Commit(t) PROVE CellInv'
    <2>1. \A u \in Trials \ {t} : unacked[u] = 0
      BY <1>3, ValueInjective DEF Commit
    <2> QED BY <1>0, <1>3, <2>1 DEF Commit, Put
  <1>4. ASSUME NEW t \in Trials, Reject(t) PROVE CellInv'
    <2>1. \A u \in Trials \ {t} : unacked[u] = 0
      BY <1>4, ValueInjective DEF Reject
    <2> QED BY <1>0, <1>4, <2>1 DEF Reject, Put
  <1>5. CASE Lapse BY <1>5 DEF Lapse
  <1>6. CASE Settle BY <1>6 DEF Settle
  <1>7. CASE CellPowerLoss BY <1>7 DEF CellPowerLoss
  <1>8. CASE UNCHANGED cellVars BY <1>8 DEF cellVars
  <1> QED BY <1>1, <1>2, <1>3, <1>4, <1>5, <1>6, <1>7, <1>8 DEF CellNext

\* A primary system is never booted twice without a health commit in between,
\* for every set of trials and every sequence of operations and power losses.
THEOREM CellSafety == CellSpec => []BootedOnceUnacknowledged
  <1>1. CellInv => BootedOnceUnacknowledged
    <2> SUFFICES ASSUME CellInv, NEW t \in Trials PROVE unacked[t] <= 1
      BY ZenonT(30) DEF BootedOnceUnacknowledged
    <2>1. unacked[t] = 0 \/ unacked[t] = 1
      BY DEF CellInv, GrantKnown
    <2> QED BY <2>1
  <1> QED BY <1>1, CellInitInv, CellNextInv, PTL DEF CellSpec

-----------------------------------------------------------------------------
(* The inductive invariant.                                                 *)

\* The helper that renamed holds the lock until it returns or dies, and the
\* record is the one it wrote.
LockInv ==
    /\ svc = "commitSync" => flock = "svc" /\ Is("healthy")
    /\ svc = "rejectSync" => flock = "svc" /\ Is("failed")
    /\ timer \in {"rollbackSync", "rejectSync"} => flock = "timer" /\ Is("failed")
    /\ flock = "svc" => svc \in {"commitSync", "rejectSync"}
    /\ ~Running => svc = "idle" /\ timer = "armed" /\ flock = "none"

\* A failed record that no helper is writing is durable, unless an error or a
\* kill hit this boot; so is any record while the phone is off or runs a
\* production bundle from RAM.
FenceInv ==
    /\ Is("failed") /\ flock = "none" /\ slip = {} => survivors = {record}
    /\ timer = "reboot" /\ slip = {} => ~Is("pending") /\ ~Is("healthy")
    /\ timer = "reboot" /\ slip = {} /\ Is("failed") => survivors = {record}
    /\ system = "off" => survivors = {record}

\* Neither the commit service nor the timer of a production bundle acts on a
\* boot from RAM.
RamInv ==
    image = "production" =>
        /\ timer = "armed"
        /\ system = "ram" => svc \in {"wait", "skipped", "failed"} /\ survivors = {record}

IInv == LockInv /\ FenceInv /\ RamInv /\ system \in {"off", "loader", "primary", "fallback", "ram"}

-----------------------------------------------------------------------------
(* Preservation.                                                            *)

\* The three states of the selected trial's record are three values.
LEMMA ThreeStates ==
    /\ Value(Selected, "pending") # Value(Selected, "healthy")
    /\ Value(Selected, "pending") # Value(Selected, "failed")
    /\ Value(Selected, "healthy") # Value(Selected, "failed")
  BY ValueInjective

\* The cell's absent value is none of them.
LEMMA AbsentIsNone ==
    \A s \in {"pending", "healthy", "failed"} : Absent # Value(Selected, s)
  BY AbsentAssumption, SelectedAssumption DEF Records

\* Every boot starts with the invariant.
LEMMA InitInv == Init => IInv
  BY SMT DEF Init, CellInit, IInv, LockInv, FenceInv, RamInv, Running

\* Every step of the loader, the service, the timer and power loss keeps it.
LEMMA NextInv == IInv /\ [Next]_vars => IInv'
  <1> SUFFICES ASSUME IInv, [Next]_vars PROVE IInv'
    OBVIOUS
  <1> USE ThreeStates, AbsentIsNone
      DEF IInv, LockInv, FenceInv, RamInv, Running, Is, cellVars, boot
  <1>1. CASE PowerOn
    BY <1>1 DEF PowerOn
  <1>2. CASE RamBoot
    BY <1>2 DEF RamBoot
  <1>3. CASE Decide
    BY <1>3 DEF Decide, Arm, Put
  <1>4. CASE DecideSync
    BY <1>4 DEF DecideSync, Settle
  <1>5. CASE BootPrimary
    BY <1>5 DEF BootPrimary, Grant
  <1>6. CASE BootFallback
    BY <1>6 DEF BootFallback
  <1>7. CASE LoaderFails
    BY <1>7 DEF LoaderFails, CellPowerLoss
  <1>8. CASE ReadState
    BY <1>8 DEF ReadState, Service, Quiet
  <1>9. CASE PublishReceipt
    BY <1>9 DEF PublishReceipt, Service, Quiet
  <1>10. CASE CommitHealth
    BY <1>10 DEF CommitHealth, Commit, Put, Refused
  <1>11. CASE CommitSync
    BY <1>11 DEF CommitSync, Settle, Refused
  <1>12. CASE PublishHealth
    BY <1>12 DEF PublishHealth, Service, Quiet
  <1>13. CASE RejectTrial
    BY <1>13 DEF RejectTrial, Reject, Put
  <1>14. CASE RejectSync
    BY <1>14 DEF RejectSync, Settle
  <1>15. CASE TermService
    BY <1>15 DEF TermService, Service
  <1>16. CASE KillService
    BY <1>16 DEF KillService
  <1>17. CASE RestartService
    BY <1>17 DEF RestartService, Service
  <1>18. CASE TimerFires
    BY <1>18 DEF TimerFires
  <1>19. CASE RollbackHealthy
    BY <1>19 DEF RollbackHealthy, Reject, Put
  <1>20. CASE RollbackSync
    BY <1>20 DEF RollbackSync, TimerSync, Settle
  <1>21. CASE RollbackReject
    BY <1>21 DEF RollbackReject, Reject, Put
  <1>22. CASE RollbackRejectSync
    BY <1>22 DEF RollbackRejectSync, TimerSync, Settle
  <1>23. CASE RollbackReboot
    BY <1>23 DEF RollbackReboot, Shutdown, Fresh, Settle
  <1>24. CASE KillRollback
    BY <1>24 DEF KillRollback
  <1>25. CASE Shutdown
    BY <1>25 DEF Shutdown, Fresh, Settle
  <1>26. CASE PowerLoss
    BY <1>26 DEF PowerLoss, Fresh, CellPowerLoss
  <1>27. CASE UNCHANGED vars
    BY <1>27 DEF vars
  <1> QED
    BY <1>1, <1>2, <1>3, <1>4, <1>5, <1>6, <1>7, <1>8, <1>9, <1>10, <1>11, <1>12, <1>13, <1>14, <1>15, <1>16, <1>17, <1>18, <1>19, <1>20, <1>21, <1>22, <1>23, <1>24, <1>25, <1>26, <1>27, ZenonT(30)
       DEF Next, Loader, CommitService, Rollback

-----------------------------------------------------------------------------
(* The theorems.                                                            *)

\* Each step of the boot chain is an operation of the cell, or leaves it alone.
LEMMA StepIsCellStep ==
    ASSUME CellInv, Next
    PROVE  CellNext \/ UNCHANGED cellVars
  <1> USE SelectedAssumption
  <1>1. CASE Decide \/ BootPrimary
    BY <1>1 DEF Decide, BootPrimary, CellNext
  <1>2. CASE CommitHealth \/ RejectTrial \/ RollbackHealthy \/ RollbackReject
    BY <1>2 DEF CommitHealth, RejectTrial, RollbackHealthy, RollbackReject, CellNext
  <1>3. CASE DecideSync \/ CommitSync \/ RejectSync \/ RollbackSync \/ RollbackRejectSync
    BY <1>3 DEF DecideSync, CommitSync, RejectSync, RollbackSync, RollbackRejectSync, TimerSync,
       CellNext
  <1>4. CASE BootFallback
    <2>1. record' \in survivors /\ survivors' = {record'} /\ armed' = {} /\ UNCHANGED unacked
      BY <1>4 DEF BootFallback, CellInv
    <2> QED BY <2>1 DEF CellNext, CellPowerLoss
  <1>5. CASE LoaderFails \/ PowerLoss \/ Shutdown
    BY <1>5 DEF LoaderFails, PowerLoss, Shutdown, CellNext
  <1>6. CASE RollbackReboot
    BY <1>6 DEF RollbackReboot, Shutdown, CellNext
  <1>7. CASE PowerOn \/ RamBoot \/ TimerFires \/ KillRollback \/ KillService
    BY <1>7 DEF PowerOn, RamBoot, TimerFires, KillRollback, KillService
  <1>8. CASE ReadState \/ PublishReceipt \/ PublishHealth \/ TermService \/ RestartService
    BY <1>8 DEF ReadState, PublishReceipt, PublishHealth, TermService, RestartService, Service
  <1> QED BY <1>1, <1>2, <1>3, <1>4, <1>5, <1>6, <1>7, <1>8
          DEF Next, Loader, CommitService, Rollback

\* Both invariants hold in every reachable state.
THEOREM ChainInvariance == Spec => [](IInv /\ CellInv)
  <1>1. Init => IInv /\ CellInv
    BY InitInv, CellInitInv DEF Init
  <1>2. IInv /\ CellInv /\ [Next]_vars => (IInv /\ CellInv)'
    <2> SUFFICES ASSUME IInv, CellInv, [Next]_vars PROVE IInv' /\ CellInv'
      OBVIOUS
    <2>1. CellNext \/ UNCHANGED cellVars
      BY StepIsCellStep DEF vars
    <2> QED BY <2>1, NextInv, CellNextInv
  <1> QED BY <1>1, <1>2, PTL DEF Spec

\* Loader, commit services and timers together implement the durable cell.
THEOREM ChainIsCell == Spec => ImplementsCell
  <1>1. CellInv /\ [Next]_vars => [CellNext]_cellVars
    BY StepIsCellStep DEF vars
  <1>2. Init => CellInit
    BY DEF Init
  <1> QED BY <1>1, <1>2, ChainInvariance, PTL DEF Spec, ImplementsCell, CellSpec

\* No primary is booted twice without its health having been committed, over
\* any sequence of boots, rollbacks, kills and power losses.
THEOREM ChainBootsOnce == Spec => []BootedOnceUnacknowledged
  <1>1. CellInv => BootedOnceUnacknowledged
    <2> SUFFICES ASSUME CellInv, NEW t \in Trials PROVE unacked[t] <= 1
      BY ZenonT(30) DEF BootedOnceUnacknowledged
    <2>1. unacked[t] = 0 \/ unacked[t] = 1
      BY DEF CellInv, GrantKnown
    <2> QED BY <2>1
  <1> QED BY <1>1, ChainInvariance, PTL

\* A rollback that is about to reboot has failed the trial for good, unless an
\* error or a kill hit this boot.
THEOREM RollbackAlwaysFences == Spec => []RollbackFences
  <1>1. IInv => RollbackFences
    <2> SUFFICES ASSUME IInv, timer = "reboot", slip = {}, Seen # "error"
                 PROVE  survivors = {Value(Selected, "failed")}
      BY DEF RollbackFences
    <2>1. Is("pending") \/ Is("healthy") \/ Is("failed")
      BY DEF Seen
    <2> QED BY <2>1 DEF IInv, FenceInv, Is
  <1> QED BY <1>1, ChainInvariance, PTL

\* A production bundle booted from RAM never changes the record.
THEOREM ProductionRamOnlyReads == Spec => ProductionRamReadsOnly
  <1>1. IInv /\ [Next]_vars =>
          [image = "production" /\ system = "ram" => UNCHANGED <<record, survivors>>]_vars
    <2> SUFFICES ASSUME IInv, Next, image = "production", system = "ram"
                 PROVE  UNCHANGED <<record, survivors>>
      OBVIOUS
    <2>1. timer = "armed" /\ svc \in {"wait", "skipped", "failed"} /\ survivors = {record}
      BY DEF IInv, RamInv
    <2>2. CASE Shutdown \/ PowerLoss
      BY <2>1, <2>2 DEF Shutdown, PowerLoss, Settle, CellPowerLoss
    <2>3. CASE Loader
      BY <2>3 DEF Loader, PowerOn, RamBoot, Decide, DecideSync, BootPrimary, BootFallback,
         LoaderFails
    <2>4. CASE CommitService
      BY <2>1, <2>4 DEF CommitService, ReadState, PublishReceipt, CommitHealth, CommitSync,
         PublishHealth, RejectTrial, RejectSync, Service, cellVars
    <2>5. CASE Rollback \/ TimerFires \/ KillRollback
      BY <2>1, <2>5 DEF Rollback, RollbackHealthy, RollbackSync, RollbackReject,
         RollbackRejectSync, RollbackReboot, TimerSync, TimerFires, KillRollback, cellVars
    <2>6. CASE TermService \/ KillService \/ RestartService
      BY <2>6 DEF TermService, KillService, RestartService, Service, cellVars
    <2> QED BY <2>2, <2>3, <2>4, <2>5, <2>6 DEF Next
  <1> QED BY <1>1, ChainInvariance, PTL DEF Spec, ProductionRamReadsOnly
=============================================================================
