------------------------------- MODULE RemoteLog -------------------------------
(***************************************************************************)
(* What windowed asynchronous calls on the server's objects promise: the   *)
(* calls are applied one at a time, each once, in the order in which they  *)
(* were put in, and no more than a window of them is ever owed.            *)
(***************************************************************************)
EXTENDS Naturals, Sequences

CONSTANTS Object, Value, Zero, Window

VARIABLES
  mem,     \* [Object -> the first word of its value]
  pending  \* the calls that are not applied yet, oldest first

Batch == (SUBSET Object) \ {{}}

(* A call reads or writes a batch of objects. *)
Calls == [op : {"write", "read"}, objs : Batch, val : Value]

Applied(m, c) ==
  [o \in Object |-> IF c.op = "write" /\ o \in c.objs THEN c.val ELSE m[o]]

Init ==
  /\ mem = [o \in Object |-> Zero]
  /\ pending = <<>>

Submit(c) ==
  /\ Len(pending) < Window
  /\ pending' = Append(pending, c)
  /\ UNCHANGED mem

Apply ==
  /\ pending # <<>>
  /\ mem' = Applied(mem, Head(pending))
  /\ pending' = Tail(pending)

Next == Apply \/ \E c \in Calls : Submit(c)

Spec == Init /\ [][Next]_<<mem, pending>>
===============================================================================
