------------------------------- MODULE DhmpL5MC -------------------------------
(***************************************************************************)
(* A small instance of DhmpL5 for TLC: two clients.                        *)
(***************************************************************************)
EXTENDS DhmpL5Inv, TLC

CONSTANTS c1, c2

TwoNodes == (c1 :> 0) @@ (c2 :> 1)
===============================================================================
