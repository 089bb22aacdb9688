------------------------- MODULE MCRecoveryControl -------------------------
(* Two PREPAREs of one bundle under two identities, one of another bundle    *)
(* and one that reuses an identity; the commits of both bundles, a commit    *)
(* that names the wrong bundle, and one that reuses a PREPARE's identity.    *)
EXTENDS RecoveryControl

CONSTANTS i1, i2, i3, b1, b2

Prepare(i, b) == [verb |-> "PREPARE", id |-> i, bundle |-> b, prepare |-> None]
Commit(i, p, b) == [verb |-> "COMMIT_EXEC", id |-> i, bundle |-> b, prepare |-> p]

HostRequests ==
    {Prepare(i1, b1), Prepare(i2, b1), Prepare(i2, b2),
     Commit(i2, i1, b1), Commit(i3, i1, b1), Commit(i3, i2, b1), Commit(i3, i2, b2)}
=============================================================================
