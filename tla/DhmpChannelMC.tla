----------------------------- MODULE DhmpChannelMC -----------------------------
(***************************************************************************)
(* Small instances of DhmpChannel for TLC.                                 *)
(***************************************************************************)
EXTENDS DhmpChannelInv, TLC

CONSTANTS c1, c2, r1, r2

(* Two regions and three messages, the last of which may close, on one connection; *)
(* operations on the other.                                                      *)
MCRegions == (c1 :> {r1, r2}) @@ (c2 :> {r1})
MCMaxMsgs == (c1 :> 3) @@ (c2 :> 0)
===============================================================================
