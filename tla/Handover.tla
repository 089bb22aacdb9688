------------------------------ MODULE Handover ------------------------------
(***************************************************************************)
(* What fetching a recovery bundle promises its caller, without roots,     *)
(* connections or processes: the phone holds nothing, or one build, the    *)
(* one that was asked for, out of those the host has packaged; it keeps it *)
(* until the phone restarts; and "ok" is answered only when it is there.   *)
(***************************************************************************)

CONSTANTS
    Builds,     \* manifest identities
    Nothing     \* no build

VARIABLES
    offered,    \* builds that were packaged and published on the host
    wanted,     \* the build that the latest request names
    answer,     \* its answer: none | held (not given yet) | ok | failed
    phone       \* the build that the phone holds

handVars == <<offered, wanted, answer, phone>>

HandInit ==
    /\ offered = {}
    /\ wanted = Nothing
    /\ answer = "failed"
    /\ phone = Nothing

Offer(b) ==
    /\ offered' = offered \cup {b}
    /\ UNCHANGED <<wanted, answer, phone>>

\* A request ends before the next one begins; it may be refused at once.
Ask(b) ==
    /\ answer \in {"ok", "failed"}
    /\ wanted' = b
    /\ answer' \in {"none", "failed"}
    /\ UNCHANGED <<offered, phone>>

HandOver ==
    /\ answer = "none"
    /\ phone = Nothing
    /\ wanted \in offered
    /\ phone' = wanted
    /\ answer' = "held"
    /\ UNCHANGED <<offered, wanted>>

\* Only the request that brought the build is answered ok.
Answer ==
    /\ \/ answer = "held" /\ answer' \in {"ok", "failed"}
       \/ answer = "none" /\ answer' = "failed"
    /\ UNCHANGED <<offered, wanted, phone>>

Restart ==
    /\ phone' = Nothing
    /\ answer' = "failed"
    /\ UNCHANGED <<offered, wanted>>

HandNext ==
    \/ \E b \in Builds : Offer(b) \/ Ask(b)
    \/ HandOver
    \/ Answer
    \/ Restart

HandSpec == HandInit /\ [][HandNext]_handVars
=============================================================================
