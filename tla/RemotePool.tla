------------------------------ MODULE RemotePool ------------------------------
(***************************************************************************)
(* What the pool promises its callers. Each process has a heap of its own: *)
(* the remote regions it has been given, with their contents. A call takes *)
(* its whole effect in one step between its invocation and its return, a   *)
(* region handed out is in nobody's heap and zeroed, and a call on an      *)
(* address outside the heap of its process changes nothing.                *)
(***************************************************************************)
CONSTANTS Client, Thread, ClientOf, Addr, Value, Zero, NULL

VARIABLES
  heap,     \* [Client -> a function from the addresses held to their contents]
  request,  \* [Thread -> the pending call, NULL between calls]
  answer    \* [Thread -> what the call returns, NoAnswer until it took effect]

poolVars == <<heap, request, answer>>

NoAnswer == [is |-> "pending", res |-> NULL]
Answer(r) == [is |-> "answered", res |-> r]

Requests == [op : {"malloc", "free", "read", "write"}, addr : Addr \cup {NULL}, val : Value]

Init ==
  /\ heap = [c \in Client |-> [a \in {} |-> Zero]]
  /\ request = [t \in Thread |-> NULL]
  /\ answer = [t \in Thread |-> NoAnswer]

Held(c) == DOMAIN heap[c]

Invoke(t, q) ==
  /\ request[t] = NULL
  /\ request' = [request EXCEPT ![t] = q]
  /\ UNCHANGED <<heap, answer>>

(* The call of t takes effect: its process then has heap h. *)
Effect(t, h, r) ==
  /\ request[t] # NULL /\ answer[t] = NoAnswer
  /\ heap' = [heap EXCEPT ![ClientOf[t]] = h]
  /\ answer' = [answer EXCEPT ![t] = Answer(r)]
  /\ UNCHANGED request

Malloc(t) ==
  /\ request[t] # NULL /\ request[t].op = "malloc"
  /\ \E a \in Addr \ UNION {Held(d) : d \in Client} :
       LET h == heap[ClientOf[t]]
       IN Effect(t, [b \in DOMAIN h \cup {a} |-> IF b = a THEN Zero ELSE h[b]], a)

Free(t) ==
  /\ request[t] # NULL /\ request[t].op = "free"
  /\ LET h == heap[ClientOf[t]]
     IN Effect(t, [b \in DOMAIN h \ {request[t].addr} |-> h[b]], NULL)

Read(t) ==
  /\ request[t] # NULL /\ request[t].op = "read"
  /\ LET h == heap[ClientOf[t]]
         a == request[t].addr
     IN Effect(t, h, IF a \in DOMAIN h THEN h[a] ELSE NULL)

Write(t) ==
  /\ request[t] # NULL /\ request[t].op = "write"
  /\ LET h == heap[ClientOf[t]]
         a == request[t].addr
     IN Effect(t, [b \in DOMAIN h |-> IF b = a THEN request[t].val ELSE h[b]], NULL)

Respond(t) ==
  /\ answer[t] # NoAnswer
  /\ request' = [request EXCEPT ![t] = NULL]
  /\ answer' = [answer EXCEPT ![t] = NoAnswer]
  /\ UNCHANGED heap

Next ==
  \E t \in Thread :
    \/ \E q \in Requests : Invoke(t, q)
    \/ Malloc(t) \/ Free(t) \/ Read(t) \/ Write(t)
    \/ Respond(t)

Spec == Init /\ [][Next]_poolVars
===============================================================================
