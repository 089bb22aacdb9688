--------------------------- MODULE MCPackageUpdate ---------------------------
(* One or two updates; the configurations choose what disturbs them.         *)
EXTENDS PackageUpdate
=============================================================================
