------------------------------- MODULE TryOnce -------------------------------
(***************************************************************************)
(* What the try-once record promises the boot chain, without files, locks  *)
(* or system calls: one durable cell.  Readers see its newest value at     *)
(* once; power loss leaves one of the values since the cell last settled.  *)
(* The primary system of a trial is granted a boot only by the decision    *)
(* that armed the cell, and only once the armed value cannot be lost.      *)
(***************************************************************************)
EXTENDS Naturals

CONSTANTS
    Trials,     \* trial identities
    Absent      \* the value of a cell that holds no record

VARIABLES
    record,     \* the cell as readers see it
    survivors,  \* the values that power loss may leave
    armed,      \* trials whose arming decision has not been reported yet
    unacked     \* boots granted to each trial's primary since its last commit

cellVars == <<record, survivors, armed, unacked>>

Value(t, s) == [trial |-> t, state |-> s]

Records == {Value(t, s) : t \in Trials, s \in {"pending", "healthy", "failed"}}

ASSUME AbsentAssumption == Absent \notin Records

CellTypeOK ==
    /\ record \in Records \cup {Absent}
    /\ survivors \in SUBSET (Records \cup {Absent})
    /\ armed \in SUBSET Trials
    /\ unacked \in [Trials -> Nat]

CellInit ==
    /\ record \in Records \cup {Absent}
    /\ survivors = {record}
    /\ armed = {}
    /\ unacked = [t \in Trials |-> 0]

Put(v) == record' = v /\ survivors' = survivors \cup {v}

\* decide: a new or an accepted trial is armed before its primary may boot.
Arm(t) ==
    /\ record \in {Absent, Value(t, "healthy")}
    /\ Put(Value(t, "pending"))
    /\ armed' = {t}
    /\ UNCHANGED unacked

\* Mutant of Grant: the primary is reported before the pending record is durable.
MutGrantEarly(t) ==
    /\ t \in armed
    /\ armed' = {}
    /\ unacked' = [unacked EXCEPT ![t] = @ + 1]
    /\ UNCHANGED <<record, survivors>>

\* decide reports the primary.
Grant(t) ==
    /\ t \in armed
    /\ survivors = {Value(t, "pending")}
    /\ armed' = {}
    /\ unacked' = [unacked EXCEPT ![t] = @ + 1]
    /\ UNCHANGED <<record, survivors>>

\* The arming decision dies before it reports.
Lapse == armed' = {} /\ UNCHANGED <<record, survivors, unacked>>

\* healthy: the boot that was granted is acknowledged.
Commit(t) ==
    /\ record = Value(t, "pending")
    /\ armed = {}
    /\ Put(Value(t, "healthy"))
    /\ unacked' = [unacked EXCEPT ![t] = 0]
    /\ UNCHANGED armed

\* reject and rollback: the trial is over.
Reject(t) ==
    /\ record \in {Value(t, "pending"), Value(t, "healthy")}
    /\ armed = {}
    /\ Put(Value(t, "failed"))
    /\ UNCHANGED <<armed, unacked>>

\* The newest value reaches the disk.
Settle == survivors' = {record} /\ UNCHANGED <<record, armed, unacked>>

CellPowerLoss ==
    /\ record' \in survivors
    /\ survivors' = {record'}
    /\ armed' = {}
    /\ UNCHANGED unacked

CellNext ==
    \/ \E t \in Trials : Arm(t) \/ Grant(t) \/ Commit(t) \/ Reject(t)
    \/ Lapse
    \/ Settle
    \/ CellPowerLoss

CellSpec == CellInit /\ [][CellNext]_cellVars

\* No primary system is booted twice without its health having been committed
\* in between, whatever the order of decisions, commits, rejections and power
\* losses (decide in rog5-persistent-trial-state.c).
BootedOnceUnacknowledged == \A t \in Trials : unacked[t] <= 1
=============================================================================
