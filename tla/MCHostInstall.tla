---------------------------- MODULE MCHostInstall ----------------------------
(* One install from the host, with and without a new fallback and a previous *)
(* record.                                                                   *)
EXTENDS HostInstall
=============================================================================
