----------------------------- MODULE DhmpModelsMC -----------------------------
(***************************************************************************)
(* A small instance of DhmpModels for TLC: a process with two threads and  *)
(* a second process, with one object each.                                   *)
(***************************************************************************)
EXTENDS DhmpModels, TLC

CONSTANTS c1, c2, t1, t2, t3, o1, o2, l1, l2, l3

MCClientOf == (t1 :> c1) @@ (t2 :> c1) @@ (t3 :> c2)
MCOwnerOf == (o1 :> c1) @@ (o2 :> c2)

(* The first object lies across two lines, the second on one.                  *)
MCObjectOf == (l1 :> o1) @@ (l2 :> o1) @@ (l3 :> o2)
MCFirstLine == (o1 :> l1) @@ (o2 :> l3)

(* One process with two threads: its calls go through one work list. *)
TwoThreads ==
     (t1 :> {<<"model_A_writeImm", 1>>, <<"model_1_octopus_R", 0>>, <<"model_D_send", 0>>})
  @@ (t2 :> {<<"model_1_octopus", 0>>, <<"model_B_send", 1>>})
  @@ (t3 :> {})

(* Two processes that overwrite each other's entry in the task list, one of    *)
(* which asks without a flag; and one that uses no entry.                      *)
TwoClients ==
     (t1 :> {<<"model_A_writeImm", 1>>})
  @@ (t2 :> {})
  @@ (t3 :> {<<"model_A_writeImm", 0>>, <<"model_1_octopus", 0>>})

WithLog ==
     (t1 :> {<<"model_A_writeImm", 1>>, <<"model_1_clover", 0>>})
  @@ (t2 :> {<<"model_6_Tailwind", 0>>})
  @@ (t3 :> {})

(* Writes that are not followed by a message or a swap. *)
PlainWrites ==
     (t1 :> {<<"model_A_write", 1>>, <<"model_1_clover_R", 0>>})
  @@ (t2 :> {<<"model_D_write", 0>>, <<"model_1_octopus_R", 0>>})
  @@ (t3 :> {})

MCPrograms == {TwoThreads, TwoClients, WithLog, PlainWrites}
===============================================================================
