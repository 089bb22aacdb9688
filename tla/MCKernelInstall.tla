--------------------------- MODULE MCKernelInstall ---------------------------
(* The module has no constants: one install, with and without a new          *)
(* fallback and a previous record.                                           *)
EXTENDS KernelInstall
=============================================================================
