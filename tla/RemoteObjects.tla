---------------------------- MODULE RemoteObjects -----------------------------
(***************************************************************************)
(* What the models of remote access promise the threads that call them:    *)
(* an object of the server is written or read in one step, between the     *)
(* call and its return, and exactly once. A call that is neither a read    *)
(* nor a write leaves the objects alone.                                   *)
(***************************************************************************)
CONSTANTS Thread, Object, Value, Zero, NULL

VARIABLES
  store,    \* [Object -> Value]
  request,  \* [Thread -> the pending call, NULL between calls]
  answer    \* [Thread -> what the call returns, NoAnswer until it took effect]

objectVars == <<store, request, answer>>

NoAnswer == [is |-> "pending", res |-> NULL]
Answer(r) == [is |-> "answered", res |-> r]

Requests == [op : {"read", "write", "other"}, obj : Object, val : Value]

Init ==
  /\ store = [o \in Object |-> Zero]
  /\ request = [t \in Thread |-> NULL]
  /\ answer = [t \in Thread |-> NoAnswer]

Invoke(t, q) ==
  /\ request[t] = NULL
  /\ request' = [request EXCEPT ![t] = q]
  /\ UNCHANGED <<store, answer>>

Pending(t, op) == request[t] # NULL /\ request[t].op = op /\ answer[t] = NoAnswer

Read(t) ==
  /\ Pending(t, "read")
  /\ answer' = [answer EXCEPT ![t] = Answer(store[request[t].obj])]
  /\ UNCHANGED <<store, request>>

Write(t) ==
  /\ Pending(t, "write")
  /\ store' = [store EXCEPT ![request[t].obj] = request[t].val]
  /\ answer' = [answer EXCEPT ![t] = Answer(NULL)]
  /\ UNCHANGED request

Other(t) ==
  /\ Pending(t, "other")
  /\ answer' = [answer EXCEPT ![t] = Answer(NULL)]
  /\ UNCHANGED <<store, request>>

Respond(t) ==
  /\ answer[t] # NoAnswer
  /\ request' = [request EXCEPT ![t] = NULL]
  /\ answer' = [answer EXCEPT ![t] = NoAnswer]
  /\ UNCHANGED store

Next ==
  \E t \in Thread :
    \/ \E q \in Requests : Invoke(t, q)
    \/ Read(t) \/ Write(t) \/ Other(t) \/ Respond(t)

Spec == Init /\ [][Next]_objectVars
===============================================================================
