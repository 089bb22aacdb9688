---------------------------- MODULE MCSlotBLoader ----------------------------
(* Every mode, request, selector and set of broken bundles of one run.       *)
EXTENDS SlotBLoader
=============================================================================
