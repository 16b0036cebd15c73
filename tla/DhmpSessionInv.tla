---------------------------- MODULE DhmpSessionInv ----------------------------
(***************************************************************************)
(* What the connections promise: the server counts what it lists, a node   *)
(* id is a client's own as long as none has left, no side keeps a          *)
(* connection the other has dropped.                                       *)
(***************************************************************************)
EXTENDS DhmpSession

(* The variables keep their types, and no node id is out of the slots.        *)
TypeOK ==
  /\ app \in [Client -> {"new", "resolving", "init", "up", "calling", "closing", "draining",
                         "joining", "gone", "dead"}]
  /\ trans \in [Client -> {"INIT", "CONNECTING", "CONNECTED", "DISCONNECTED", "ERROR"}]
  /\ stop \in [Client -> BOOLEAN]
  /\ epoll \in [Client -> {"wait", "check", "exited"}]
  /\ work \in [Client -> {"none", "call", "spin", "close"}]
  /\ clientEvent \in [Client -> SUBSET {"ROUTE_RESOLVED", "ESTABLISHED", "CONNECT_ERROR",
                                        "DISCONNECTED", "OTHER"}]
  /\ wire \in [Client -> {"none", "requested", "refused", "accepted", "up", "down"}]
  /\ msg \in [Client -> {"none", "call", "close"}]
  /\ answer \in [Client -> {"none", "sent", "received"}]
  /\ serverEvent \in [Client -> SUBSET {"CONNECT_REQUEST", "ESTABLISHED", "CONNECT_ERROR",
                                        "DISCONNECTED", "OTHER"}]
  /\ srv \in [Client -> {"none", "INIT", "CONNECTING", "CONNECTED", "DISCONNECTED", "ERROR"}]
  /\ node_id \in [Client -> Slot \cup {0}]
  /\ client_list \in SUBSET Client
  /\ connect_trans \in [Slot -> Client \cup {NULL}]
  /\ cur_connections \in Nat
  /\ client_num \in Nat

(* cur_connections, from which node ids are made, counts client_list, and what *)
(* is listed is what the server has made and not destroyed: a connection whose *)
(* accept failed is among it, for good.                                        *)
ConnectionsCounted ==
  /\ cur_connections = Cardinality(client_list)
  /\ \A c \in Client : c \in client_list <=> srv[c] \in {"INIT", "CONNECTING", "CONNECTED"}

(* As long as the server has dropped no connection, each has a node id and a   *)
(* slot of connect_trans to itself, those whose accept failed included (an id  *)
(* is given out again once a connection has been dropped).                     *)
NoneDropped == \A c \in Client : srv[c] \notin {"DISCONNECTED", "ERROR"}

SlotsAreOwn ==
  NoneDropped =>
    /\ \A c \in client_list : connect_trans[node_id[c]] = c
    /\ \A c, d \in client_list : node_id[c] = node_id[d] => c = d

(* L5_run scans the ids below client_num, which a failed accept does not raise *)
(* although it uses up an id: the ids of listed clients that the scan does not *)
(* reach are at most as many as accepts have failed, and none if none has.     *)
FailedAccepts == {c \in Client : srv[c] = "INIT"}

ScanReachesNodes ==
  \A c \in client_list : node_id[c] < client_num + Cardinality(FailedAccepts)

(* No half-open connection: a client that takes itself for connected is listed *)
(* by the server or about to be told, and the server drops a connection whose  *)
(* client has left or died.                                                    *)
NoHalfOpen ==
  \A c \in Client :
    /\ Alive(c) /\ trans[c] = "CONNECTED" =>
         c \in client_list \/ "DISCONNECTED" \in clientEvent[c]
    /\ srv[c] = "CONNECTED" /\ (trans[c] = "DISCONNECTED" \/ ~Alive(c)) =>
         "DISCONNECTED" \in serverEvent[c]

-------------------------------------------------------------------------------
(* The inductive invariant: what may wait for a connection at either side, by *)
(* what its adapters and its threads have done.                               *)
InUse(c) == app[c] \in {"up", "calling", "closing", "draining", "joining", "gone"}

EventsFit(c) ==
  /\ wire[c] = "none"      => srv[c] = "none" /\ serverEvent[c] = {}
  /\ wire[c] = "requested" => srv[c] = "none" /\ serverEvent[c] = {"CONNECT_REQUEST"}
  /\ wire[c] = "refused"   => srv[c] \in {"none", "INIT"} /\ serverEvent[c] = {}
  /\ wire[c] = "accepted"  => srv[c] = "CONNECTING" /\ serverEvent[c] = {}
  /\ wire[c] = "up" =>
       \/ srv[c] = "CONNECTING" /\ serverEvent[c] = {"ESTABLISHED"}
       \/ srv[c] = "CONNECTED" /\ serverEvent[c] = {}
  /\ wire[c] = "down" =>
       \/ srv[c] \in {"none", "INIT"} /\ serverEvent[c] \in {{}, {"OTHER"}}
       \/ srv[c] = "CONNECTING" /\ serverEvent[c] \in {{}, {"OTHER"}, {"CONNECT_ERROR"}}
       \/ srv[c] = "CONNECTING" /\ serverEvent[c] = {"ESTABLISHED", "DISCONNECTED"}
       \/ srv[c] = "CONNECTED" /\ serverEvent[c] = {"DISCONNECTED"}
       \/ srv[c] \in {"DISCONNECTED", "ERROR"} /\ serverEvent[c] = {}

SidesAgree(c) ==
  /\ "OTHER" \in clientEvent[c] =>
       clientEvent[c] = {"OTHER"} /\ wire[c] \in {"none", "down"}
  /\ "ROUTE_RESOLVED" \in clientEvent[c] =>
       /\ clientEvent[c] = {"ROUTE_RESOLVED"}
       /\ wire[c] = "none" /\ trans[c] \in {"INIT", "CONNECTING"} /\ ~InUse(c)
  /\ app[c] = "new" => wire[c] = "none" /\ clientEvent[c] = {} /\ trans[c] = "INIT"
  /\ "ESTABLISHED" \in clientEvent[c] => trans[c] \in {"INIT", "CONNECTING"}
  /\ trans[c] = "CONNECTED" \/ "ESTABLISHED" \in clientEvent[c] =>
       \/ wire[c] = "up"
       \/ wire[c] = "down" /\ (Alive(c) => "DISCONNECTED" \in clientEvent[c])
  /\ "DISCONNECTED" \in clientEvent[c] \/ trans[c] = "DISCONNECTED" => wire[c] = "down"
  /\ trans[c] = "ERROR" => wire[c] \in {"none", "down"} /\ clientEvent[c] = {}
  /\ "CONNECT_ERROR" \in clientEvent[c] => clientEvent[c] = {"CONNECT_ERROR"} /\ wire[c] = "down"
  /\ InUse(c) => trans[c] \in {"CONNECTED", "DISCONNECTED", "ERROR"}
  /\ app[c] \in {"joining", "gone"} => trans[c] # "CONNECTED"
  /\ app[c] = "dead" => wire[c] # "up" /\ clientEvent[c] = {}

SlotsGoUp ==
  /\ cur_connections <= client_num + Cardinality(FailedAccepts)
  /\ NoneDropped => \A c \in client_list : node_id[c] < cur_connections

SessionInv ==
  /\ TypeOK /\ ConnectionsCounted /\ SlotsGoUp /\ SlotsAreOwn /\ ScanReachesNodes
  /\ \A c \in Client : EventsFit(c) /\ SidesAgree(c)

-------------------------------------------------------------------------------
(* A client that closes its connection is dropped by the server.              *)
ClosingLeaves ==
  \A c \in Client : app[c] = "closing" ~> c \notin client_list

(* A call is answered if both sides know that they are connected.             *)
ConnectedCallReturns ==
  \A c \in Client :
    (work[c] = "call" /\ trans[c] = "CONNECTED" /\ srv[c] = "CONNECTED")
      ~> app[c] \in {"up", "dead"}

(* dhmp_client_init returns if it has set CONNECTING before the epoll thread   *)
(* came to connect (afterwards it may overwrite CONNECTED and spin for good),  *)
(* unless the attempt ended without an event that has a case: then nothing is  *)
(* established, nothing more will come and the spin has no end.                *)
Stranded(c) ==
  /\ trans[c] = "CONNECTING" /\ clientEvent[c] = {}
  /\ wire[c] \in {"none", "down"}

PromptInitReturns ==
  \A c \in Client :
    (app[c] = "init" /\ "ROUTE_RESOLVED" \in clientEvent[c])
      ~> app[c] \in {"up", "dead"} \/ Stranded(c)

(* dhmp_client_destroy returns: "clean RDMA resources" (include/dhmp.h).       *)
DestroyReturns ==
  \A c \in Client : app[c] = "closing" ~> ~Alive(c)
===============================================================================
