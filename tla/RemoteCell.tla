------------------------------ MODULE RemoteCell ------------------------------
(***************************************************************************)
(* What a remote procedure call of one client on its object promises: a    *)
(* read or a write of the object takes its whole effect in one step of the *)
(* server between the call and its return, and exactly once. Each client   *)
(* has one call at a time, which its work thread serves.                   *)
(***************************************************************************)
CONSTANTS Client, Value, Zero, NULL

VARIABLES
  cell,     \* [Client -> the content of the client's object in the server]
  request,  \* [Client -> the pending call, NULL between calls]
  answer    \* [Client -> what the call returns, NoAnswer until it took effect]

cellVars == <<cell, request, answer>>

NoAnswer == [is |-> "pending", res |-> NULL]
Answer(r) == [is |-> "answered", res |-> r]

Requests == [op : {"read", "write"}, val : Value]

Init ==
  /\ cell = [c \in Client |-> Zero]
  /\ request = [c \in Client |-> NULL]
  /\ answer = [c \in Client |-> NoAnswer]

Invoke(c, q) ==
  /\ request[c] = NULL
  /\ request' = [request EXCEPT ![c] = q]
  /\ UNCHANGED <<cell, answer>>

Read(c) ==
  /\ request[c] # NULL /\ request[c].op = "read"
  /\ answer[c] = NoAnswer
  /\ answer' = [answer EXCEPT ![c] = Answer(cell[c])]
  /\ UNCHANGED <<cell, request>>

Write(c) ==
  /\ request[c] # NULL /\ request[c].op = "write"
  /\ answer[c] = NoAnswer
  /\ cell' = [cell EXCEPT ![c] = request[c].val]
  /\ answer' = [answer EXCEPT ![c] = Answer(NULL)]
  /\ UNCHANGED request

Respond(c) ==
  /\ answer[c] # NoAnswer
  /\ request' = [request EXCEPT ![c] = NULL]
  /\ answer' = [answer EXCEPT ![c] = NoAnswer]
  /\ UNCHANGED cell

Next ==
  \E c \in Client :
    \/ \E q \in Requests : Invoke(c, q)
    \/ Read(c) \/ Write(c) \/ Respond(c)

Spec == Init /\ [][Next]_cellVars
===============================================================================
