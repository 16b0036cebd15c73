----------------------------- MODULE DhmpSessionMC -----------------------------
(***************************************************************************)
(* Small instances of DhmpSession for TLC.                                 *)
(***************************************************************************)
EXTENDS DhmpSessionInv
===============================================================================
