--------------------------- MODULE MCBundleSupply ---------------------------
(* Two builds of one bundle in three parts: manifest, signature, payload.    *)
EXTENDS BundleSupply
=============================================================================
