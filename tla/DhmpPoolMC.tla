------------------------------ MODULE DhmpPoolMC ------------------------------
(***************************************************************************)
(* Small instances of DhmpPool for TLC: one client process with two        *)
(* application threads, and two client processes with one thread each,     *)
(* which the server has given the node ids 0 and 1.                        *)
(***************************************************************************)
EXTENDS DhmpPoolInv, TLC

CONSTANTS c1, c2, t1, t2

OneClientOf == (t1 :> c1) @@ (t2 :> c1)
TwoClientsOf == (t1 :> c1) @@ (t2 :> c2)

FirstNode == (c1 :> 0)
BothNodes == (c1 :> 0) @@ (c2 :> 1)

(* Bounds what the garbage lengths in answers to oversize requests add up to: *)
(* a connection with more than one unit on its books is not followed further. *)
UsedBound == \A c \in Client : used[c] <= 1
===============================================================================
