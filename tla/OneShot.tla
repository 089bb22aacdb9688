------------------------------ MODULE OneShot ------------------------------
(***************************************************************************)
(* What one recovery session promises its operator: at most one bundle is  *)
(* prepared, that bundle alone can be claimed, and a claim is worth at     *)
(* most one attempt to execute it.  Only a reboot starts a new session.    *)
(***************************************************************************)
CONSTANTS
    Bundles,    \* bundle identities (name and manifest hash)
    Nothing     \* no bundle

VARIABLES
    prepared,   \* the bundle the session is bound to
    claimed,    \* its execution was granted
    ran         \* the image kexec -e was called for

oneShotVars == <<prepared, claimed, ran>>

Fresh == prepared = Nothing /\ ~claimed /\ ran = Nothing

Bind(b) ==
    /\ prepared = Nothing
    /\ prepared' = b
    /\ UNCHANGED <<claimed, ran>>

Grant ==
    /\ prepared # Nothing /\ ~claimed
    /\ claimed' = TRUE
    /\ UNCHANGED <<prepared, ran>>

Run ==
    /\ claimed /\ ran = Nothing
    /\ ran' = prepared
    /\ UNCHANGED <<prepared, claimed>>

NewSession == Fresh'

OneShotNext == (\E b \in Bundles : Bind(b)) \/ Grant \/ Run \/ NewSession

OneShotSpec == Fresh /\ [][OneShotNext]_oneShotVars
=============================================================================
