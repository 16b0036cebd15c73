------------------------------ MODULE RemoteFetch ------------------------------
(***************************************************************************)
(* What a remote procedure call by RFP promises when nothing orders the    *)
(* bytes of a request: the server still takes it up at most once, in one   *)
(* step between the call and its return. What it then does is what the     *)
(* call says or, part by part, what the client's earlier calls left in the *)
(* request region: their operation, their data. A read returns what the    *)
(* server has put out last, which is the object's content at that step     *)
(* unless the server took it for a write.                                  *)
(***************************************************************************)
CONSTANTS Client, Value, Zero, NULL

VARIABLES
  cell,     \* [Client -> the content of the client's object in the server]
  request,  \* [Client -> the pending call, NULL between calls]
  left,     \* [Client -> what the calls before it left to be seen]
  shown,    \* [Client -> what the server has put out last for the client to fetch]
  answer    \* [Client -> what the call returns, NoAnswer until it took effect]

fetchVars == <<cell, request, left, shown, answer>>

NoAnswer == [is |-> "pending", res |-> NULL]
Answer(r) == [is |-> "answered", res |-> r]

Requests == [op : {"read", "write"}, val : Value]

Init ==
  /\ cell = [c \in Client |-> Zero]
  /\ request = [c \in Client |-> NULL]
  /\ left = [c \in Client |-> [op |-> "none", val |-> Zero]]
  /\ shown = [c \in Client |-> Zero]
  /\ answer = [c \in Client |-> NoAnswer]

Invoke(c, q) ==
  /\ request[c] = NULL
  /\ request' = [request EXCEPT ![c] = q]
  /\ UNCHANGED <<cell, left, shown, answer>>

(* The server does op with v for the pending call. *)
Serve(c, op, v) ==
  /\ request[c] # NULL /\ answer[c] = NoAnswer
  /\ op \in {request[c].op, left[c].op}
  /\ op = "write" => v = left[c].val \/ (v = request[c].val /\ request[c].op = "write")
  /\ cell' = [cell EXCEPT ![c] = IF op = "write" THEN v ELSE @]
  /\ shown' = [shown EXCEPT ![c] = IF op = "read" THEN cell[c] ELSE @]
  /\ answer' = [answer EXCEPT ![c] =
                  Answer(IF request[c].op = "read" THEN shown'[c] ELSE NULL)]
  /\ UNCHANGED <<request, left>>

(* What the returned call leaves: a read leaves the data of an older write. *)
Leaves(q, l) == [op |-> q.op, val |-> IF q.op = "write" THEN q.val ELSE l.val]

Respond(c) ==
  /\ answer[c] # NoAnswer
  /\ request' = [request EXCEPT ![c] = NULL]
  /\ answer' = [answer EXCEPT ![c] = NoAnswer]
  /\ left' = [left EXCEPT ![c] = Leaves(request[c], @)]
  /\ UNCHANGED <<cell, shown>>

Next ==
  \E c \in Client :
    \/ \E q \in Requests : Invoke(c, q)
    \/ \E op \in {"none", "read", "write"}, v \in Value : Serve(c, op, v)
    \/ Respond(c)

Spec == Init /\ [][Next]_fetchVars
===============================================================================
