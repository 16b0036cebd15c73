------------------------------ MODULE DhmpDaRPCMC ------------------------------
(***************************************************************************)
(* Small instances of DhmpDaRPC for TLC.                                   *)
(***************************************************************************)
EXTENDS DhmpDaRPCInv
===============================================================================
