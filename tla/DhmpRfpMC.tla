------------------------------ MODULE DhmpRfpMC -------------------------------
(***************************************************************************)
(* Small instances of DhmpRfp for TLC. The first client has set its        *)
(* regions up with room to spare, the second one with exactly the length   *)
(* it calls with, as test/client.c does. The low byte of 257 looks like a  *)
(* time, that of 4 does not.                                               *)
(***************************************************************************)
EXTENDS DhmpRfpInv, TLC

CONSTANTS c1, c2

ShortLength == 4
OneRegistered == (c1 :> 8)

LongLength == 257
TwoRegistered == (c1 :> 300) @@ (c2 :> 257)
===============================================================================
