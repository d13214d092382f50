------------------------------ MODULE MCAutoFix ------------------------------
(***************************************************************************)
(* The cycle without crashes: what it loses, it loses by itself.           *)
(***************************************************************************)
EXTENDS AutoFix
=============================================================================
