----------------------------- MODULE MCBootTrial -----------------------------
(* The selected trial, and another one whose record may still be there.      *)
EXTENDS BootTrial

MCAbsent == [trial |-> "none", state |-> "absent"]
=============================================================================
