----------------------------- MODULE RemoteStream -----------------------------
(***************************************************************************)
(* What a connection promises the handlers at its end: the messages of     *)
(* each peer are handled one after the other in the order in which they    *)
(* were sent, each once, until the connection ends.                        *)
(***************************************************************************)
EXTENDS Naturals

CONSTANT Conns

VARIABLES
  sent,    \* [Conns -> how many messages the peer has sent]
  handled  \* [Conns -> the number of the message handled last]

Init ==
  /\ sent = [c \in Conns |-> 0]
  /\ handled = [c \in Conns |-> 0]

Send(c) ==
  /\ sent' = [sent EXCEPT ![c] = @ + 1]
  /\ UNCHANGED handled

Handle(c) ==
  /\ handled[c] < sent[c]
  /\ handled' = [handled EXCEPT ![c] = @ + 1]
  /\ UNCHANGED sent

(* The messages that are not handled by then never are. *)
End(c) ==
  /\ sent' = [sent EXCEPT ![c] = 0]
  /\ handled' = [handled EXCEPT ![c] = 0]

Next == \E c \in Conns : Send(c) \/ Handle(c) \/ End(c)

Spec == Init /\ [][Next]_<<sent, handled>>
===============================================================================
