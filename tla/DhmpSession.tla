------------------------------ MODULE DhmpSession ------------------------------
(***************************************************************************)
(* The life of the connections: client processes that initialise, call,    *)
(* destroy themselves or die, and the one epoll thread of the server that  *)
(* gives out node ids, lists the connections and drops them.               *)
(*                                                                         *)
(* A client process has its application thread, its work thread and its    *)
(* epoll thread. A call stands for any that sends a message and spins for  *)
(* its answer (dhmp_malloc, dhmp_free, GetAddr_request1). Each process     *)
(* connects once; a restarted program is another process.                  *)
(***************************************************************************)
EXTENDS Integers, FiniteSets

CONSTANTS
  Client,               \* the client processes
  DHMP_CLIENT_NODE_NUM, \* the slots of server->connect_trans
  NULL

(* The code does not check that a node id is in range: a process more than  *)
(* there are slots would write behind the array.                            *)
ASSUME SessionAssumption ==
  /\ IsFiniteSet(Client)
  /\ DHMP_CLIENT_NODE_NUM \in Nat
  /\ Cardinality(Client) <= DHMP_CLIENT_NODE_NUM
  /\ NULL \notin Client

VARIABLES
  app,          \* [Client -> where the application thread is]
  trans,        \* [Client -> client->connect_trans->trans_state]
  stop,         \* [Client -> client->ctx.stop]
  epoll,        \* [Client -> where the client's epoll thread is]
  work,         \* [Client -> the work the application waits for]
  clientEvent,  \* [Client -> the CM events that wait for its epoll thread]
  wire,         \* [Client -> the connection as the two adapters see it]
  msg,          \* [Client -> the message that waits for the server]
  answer,       \* [Client -> where the answer to its call is]
  serverEvent,  \* [Client -> the CM events of its connection at the server]
  srv,          \* [Client -> trans_state of the server's transport]
  node_id,      \* [Client -> node_id of the server's transport]
  client_list,  \* server->client_list
  connect_trans, \* server->connect_trans
  cur_connections, client_num

clientVars == <<app, trans, stop, epoll, work>>
serverVars == <<srv, node_id, client_list, connect_trans, cur_connections, client_num>>
wireVars == <<clientEvent, wire, msg, answer, serverEvent>>
vars == <<clientVars, wireVars, serverVars>>

-------------------------------------------------------------------------------
Slot == 0..(DHMP_CLIENT_NODE_NUM - 1)

Init ==
  /\ app         = [c \in Client |-> "new"]
  /\ trans       = [c \in Client |-> "INIT"]
  /\ stop        = [c \in Client |-> FALSE]
  /\ epoll       = [c \in Client |-> "wait"]
  /\ work        = [c \in Client |-> "none"]
  /\ clientEvent = [c \in Client |-> {}]
  /\ wire        = [c \in Client |-> "none"]
  /\ msg         = [c \in Client |-> "none"]
  /\ answer      = [c \in Client |-> "none"]
  /\ serverEvent = [c \in Client |-> {}]
  /\ srv         = [c \in Client |-> "none"]
  /\ node_id     = [c \in Client |-> 0]
  /\ client_list = {}
  /\ connect_trans = [i \in Slot |-> NULL]
  /\ cur_connections = 0
  /\ client_num  = 0

Alive(c) == app[c] \notin {"gone", "dead"}

-------------------------------------------------------------------------------
(* The application thread. *)

(* dhmp_client_init up to rdma_resolve_addr. What comes of it is that the route *)
(* is resolved, an event without a case (ADDR_ERROR, ROUTE_ERROR) or nothing    *)
(* (rdma_resolve_route fails). If rdma_resolve_addr itself fails,               *)
(* dhmp_transport_connect returns with the state as it was, which nobody looks  *)
(* at.                                                                          *)
ClientInit(c) ==
  /\ app[c] = "new"
  /\ \/ /\ app' = [app EXCEPT ![c] = "resolving"]
        /\ \E e \in {{}, {"ROUTE_RESOLVED"}, {"OTHER"}} :
             clientEvent' = [clientEvent EXCEPT ![c] = e]
     \/ /\ app' = [app EXCEPT ![c] = "init"]
        /\ UNCHANGED clientEvent
  /\ UNCHANGED <<trans, stop, epoll, work, wire, msg, answer, serverEvent, serverVars>>

(* The last statement of dhmp_transport_connect, which may come after the *)
(* epoll thread has connected.                                            *)
SetConnecting(c) ==
  /\ app[c] = "resolving"
  /\ trans' = [trans EXCEPT ![c] = "CONNECTING"]
  /\ app' = [app EXCEPT ![c] = "init"]
  /\ UNCHANGED <<stop, epoll, work, wireVars, serverVars>>

InitDone(c) ==
  /\ app[c] = "init"
  /\ trans[c] \in {"CONNECTED", "DISCONNECTED", "ERROR"}
  /\ app' = [app EXCEPT ![c] = "up"]
  /\ UNCHANGED <<trans, stop, epoll, work, wireVars, serverVars>>

(* dhmp_malloc does not look at trans_state. *)
Call(c) ==
  /\ app[c] = "up"
  /\ app' = [app EXCEPT ![c] = "calling"]
  /\ work' = [work EXCEPT ![c] = "call"]
  /\ UNCHANGED <<trans, stop, epoll, wireVars, serverVars>>

CallDone(c) ==
  /\ app[c] = "calling" /\ work[c] = "none"
  /\ app' = [app EXCEPT ![c] = "up"]
  /\ UNCHANGED <<trans, stop, epoll, work, wireVars, serverVars>>

(* dhmp_client_destroy with dhmp_close_connection. *)
Destroy(c) ==
  /\ app[c] = "up"
  /\ \/ /\ trans[c] = "CONNECTED"
        /\ app' = [app EXCEPT ![c] = "closing"]
        /\ work' = [work EXCEPT ![c] = "close"]
     \/ /\ trans[c] # "CONNECTED"
        /\ app' = [app EXCEPT ![c] = "draining"]
        /\ UNCHANGED work
  /\ UNCHANGED <<trans, stop, epoll, wireVars, serverVars>>

CloseDone(c) ==
  /\ app[c] = "closing" /\ work[c] = "none"
  /\ app' = [app EXCEPT ![c] = "draining"]
  /\ UNCHANGED <<trans, stop, epoll, work, wireVars, serverVars>>

(* The spin while CONNECTED ends, and stop is set. *)
SetStop(c) ==
  /\ app[c] = "draining"
  /\ trans[c] # "CONNECTED"
  /\ stop' = [stop EXCEPT ![c] = TRUE]
  /\ app' = [app EXCEPT ![c] = "joining"]
  /\ UNCHANGED <<trans, epoll, work, wireVars, serverVars>>

(* pthread_join of the epoll thread and free(client). *)
Join(c) ==
  /\ app[c] = "joining"
  /\ epoll[c] = "exited"
  /\ app' = [app EXCEPT ![c] = "gone"]
  /\ UNCHANGED <<trans, stop, epoll, work, wireVars, serverVars>>

AppThread(c) ==
  \/ SetConnecting(c) \/ InitDone(c) \/ CallDone(c)
  \/ CloseDone(c) \/ SetStop(c) \/ Join(c)

-------------------------------------------------------------------------------
(* The work thread. dhmp_post_send drops a message if not CONNECTED. *)
Posted(c, m) == IF trans[c] = "CONNECTED" THEN m ELSE msg[c]

SendCall(c) ==
  /\ work[c] = "call" /\ Alive(c)
  /\ msg' = [msg EXCEPT ![c] = Posted(c, "call")]
  /\ work' = [work EXCEPT ![c] = "spin"]
  /\ UNCHANGED <<app, trans, stop, epoll, clientEvent, wire, answer, serverEvent, serverVars>>

Answered(c) ==
  /\ work[c] = "spin" /\ Alive(c)
  /\ answer[c] = "received"
  /\ answer' = [answer EXCEPT ![c] = "none"]
  /\ work' = [work EXCEPT ![c] = "none"]
  /\ UNCHANGED <<app, trans, stop, epoll, clientEvent, wire, msg, serverEvent, serverVars>>

(* dhmp_close_work_handler. *)
SendClose(c) ==
  /\ work[c] = "close" /\ Alive(c)
  /\ msg' = [msg EXCEPT ![c] = Posted(c, "close")]
  /\ work' = [work EXCEPT ![c] = "none"]
  /\ UNCHANGED <<app, trans, stop, epoll, clientEvent, wire, answer, serverEvent, serverVars>>

WorkThread(c) == SendCall(c) \/ Answered(c) \/ SendClose(c)

-------------------------------------------------------------------------------
(* The client's epoll thread, dhmp_context_run: it waits, handles an event and *)
(* then looks at stop. Once dhmp_destroy_source has removed the descriptors   *)
(* nothing wakes it from its wait.                                            *)
Handle(c, e) ==
  /\ Alive(c)
  /\ epoll[c] = "wait" /\ e \in clientEvent[c]
  /\ epoll' = [epoll EXCEPT ![c] = "check"]

(* on_cm_route_resolved: dhmp_qp_create fails and that is all, rdma_connect is  *)
(* called, or rdma_connect fails and stop is set.                               *)
OnRouteResolved(c) ==
  /\ Handle(c, "ROUTE_RESOLVED")
  /\ clientEvent' = [clientEvent EXCEPT ![c] = {}]
  /\ \/ UNCHANGED <<trans, stop, wire, serverEvent>>
     \/ /\ wire' = [wire EXCEPT ![c] = "requested"]
        /\ serverEvent' = [serverEvent EXCEPT ![c] = {"CONNECT_REQUEST"}]
        /\ UNCHANGED <<trans, stop>>
     \/ /\ stop' = [stop EXCEPT ![c] = TRUE]
        /\ trans' = [trans EXCEPT ![c] = "ERROR"]
        /\ UNCHANGED <<wire, serverEvent>>
  /\ UNCHANGED <<app, work, msg, answer, serverVars>>

(* Mutant: the state is left as it was. *)
OnEstablishedKeepsState(c) ==
  /\ Handle(c, "ESTABLISHED")
  /\ clientEvent' = [clientEvent EXCEPT ![c] = @ \ {"ESTABLISHED"}]
  /\ UNCHANGED <<app, trans, stop, work, wire, msg, answer, serverEvent, serverVars>>

OnEstablished(c) ==
  /\ Handle(c, "ESTABLISHED")
  /\ clientEvent' = [clientEvent EXCEPT ![c] = @ \ {"ESTABLISHED"}]
  /\ trans' = [trans EXCEPT ![c] = "CONNECTED"]
  /\ UNCHANGED <<app, stop, work, wire, msg, answer, serverEvent, serverVars>>

(* on_cm_disconnected and on_cm_error. The resources go before the state. *)
OnDisconnected(c) ==
  /\ Handle(c, "DISCONNECTED") /\ "ESTABLISHED" \notin clientEvent[c]
  /\ clientEvent' = [clientEvent EXCEPT ![c] = {}]
  /\ trans' = [trans EXCEPT ![c] = "DISCONNECTED"]
  /\ UNCHANGED <<app, stop, work, wire, msg, answer, serverEvent, serverVars>>

OnError(c) ==
  /\ Handle(c, "CONNECT_ERROR")
  /\ clientEvent' = [clientEvent EXCEPT ![c] = {}]
  /\ trans' = [trans EXCEPT ![c] = "ERROR"]
  /\ UNCHANGED <<app, stop, work, wire, msg, answer, serverEvent, serverVars>>

(* The default case of dhmp_handle_ec_event: REJECTED, UNREACHABLE, ADDR_ERROR  *)
(* and ROUTE_ERROR are taken and change nothing.                                *)
OnOtherEvent(c) ==
  /\ Handle(c, "OTHER")
  /\ clientEvent' = [clientEvent EXCEPT ![c] = @ \ {"OTHER"}]
  /\ UNCHANGED <<app, trans, stop, work, wire, msg, answer, serverEvent, serverVars>>

(* dhmp_wc_recv_handler on the answer to a call, which sets its recv_flag. *)
OnAnswer(c) ==
  /\ Alive(c) /\ epoll[c] = "wait" /\ answer[c] = "sent"
  /\ trans[c] \notin {"DISCONNECTED", "ERROR"}
  /\ answer' = [answer EXCEPT ![c] = "received"]
  /\ epoll' = [epoll EXCEPT ![c] = "check"]
  /\ UNCHANGED <<app, trans, stop, work, clientEvent, wire, msg, serverEvent, serverVars>>

CheckStop(c) ==
  /\ Alive(c) /\ epoll[c] = "check"
  /\ epoll' = [epoll EXCEPT ![c] = IF stop[c] THEN "exited" ELSE "wait"]
  /\ UNCHANGED <<app, trans, stop, work, wireVars, serverVars>>

ClientEpoll(c) ==
  \/ OnRouteResolved(c) \/ OnEstablished(c) \/ OnDisconnected(c) \/ OnError(c)
  \/ OnOtherEvent(c) \/ OnAnswer(c) \/ CheckStop(c)

-------------------------------------------------------------------------------
(* The connection managers and the end of a process. *)
Established(c) ==
  /\ wire[c] = "accepted" /\ Alive(c)
  /\ wire' = [wire EXCEPT ![c] = "up"]
  /\ clientEvent' = [clientEvent EXCEPT ![c] = {"ESTABLISHED"}]
  /\ serverEvent' = [serverEvent EXCEPT ![c] = {"ESTABLISHED"}]
  /\ UNCHANGED <<clientVars, msg, answer, serverVars>>

(* The handshake fails, or the server has not accepted. The client is told    *)
(* CONNECT_ERROR or something dhmp_handle_ec_event has no case for (REJECTED,  *)
(* UNREACHABLE); so is the server, or nothing. What it has not accepted is     *)
(* never reported to it as a CONNECT_ERROR.                                    *)
HandshakeFails(c) ==
  /\ wire[c] \in {"accepted", "refused"}
  /\ wire' = [wire EXCEPT ![c] = "down"]
  /\ \E e \in {"CONNECT_ERROR", "OTHER"} :
       clientEvent' = [clientEvent EXCEPT ![c] = IF Alive(c) THEN {e} ELSE {}]
  /\ \E e \in {{}, {"CONNECT_ERROR"}, {"OTHER"}} :
       /\ wire[c] = "refused" => e # {"CONNECT_ERROR"}
       /\ serverEvent' = [serverEvent EXCEPT ![c] = e]
  /\ UNCHANGED <<clientVars, msg, answer, serverVars>>

Handshake(c) == Established(c) \/ HandshakeFails(c)

(* The process ends where it is; its kernel closes an established connection. *)
Die(c) ==
  /\ Alive(c) /\ app[c] # "new"
  /\ app' = [app EXCEPT ![c] = "dead"]
  /\ work' = [work EXCEPT ![c] = "none"]
  /\ clientEvent' = [clientEvent EXCEPT ![c] = {}]
  /\ \/ /\ wire[c] = "up"
        /\ wire' = [wire EXCEPT ![c] = "down"]
        /\ serverEvent' = [serverEvent EXCEPT ![c] = @ \cup {"DISCONNECTED"}]
     \/ /\ wire[c] # "up"
        /\ UNCHANGED <<wire, serverEvent>>
  /\ UNCHANGED <<trans, stop, epoll, msg, answer, serverVars>>

-------------------------------------------------------------------------------
(* The server's epoll thread. *)

(* Mutant: the slot is taken after the count is raised. *)
ServerConnectRequestLate(c) ==
  /\ "CONNECT_REQUEST" \in serverEvent[c]
  /\ serverEvent' = [serverEvent EXCEPT ![c] = {}]
  /\ \/ /\ wire' = [wire EXCEPT ![c] = "refused"]
        /\ UNCHANGED serverVars
     \/ /\ node_id' = [node_id EXCEPT ![c] = cur_connections]
        /\ cur_connections' = cur_connections + 1
        /\ connect_trans' = [connect_trans EXCEPT ![cur_connections + 1] = c]
        /\ client_list' = client_list \cup {c}
        /\ \/ /\ wire' = [wire EXCEPT ![c] = "refused"]
              /\ srv' = [srv EXCEPT ![c] = "INIT"]
              /\ UNCHANGED client_num
           \/ /\ wire' = [wire EXCEPT ![c] = "accepted"]
              /\ srv' = [srv EXCEPT ![c] = "CONNECTING"]
              /\ client_num' = client_num + 1
  /\ UNCHANGED <<clientVars, clientEvent, msg, answer>>

(* on_cm_connect_request. If the transport or its queue pair cannot be made,   *)
(* nothing is kept. If rdma_accept fails, the transport stays listed, counted  *)
(* and in its slot, in the state it was made with.                             *)
ServerConnectRequest(c) ==
  /\ "CONNECT_REQUEST" \in serverEvent[c]
  /\ serverEvent' = [serverEvent EXCEPT ![c] = {}]
  /\ \/ /\ wire' = [wire EXCEPT ![c] = "refused"]
        /\ UNCHANGED serverVars
     \/ /\ node_id' = [node_id EXCEPT ![c] = cur_connections]
        /\ cur_connections' = cur_connections + 1
        /\ connect_trans' = [connect_trans EXCEPT ![cur_connections] = c]
        /\ client_list' = client_list \cup {c}
        /\ \/ /\ wire' = [wire EXCEPT ![c] = "refused"]
              /\ srv' = [srv EXCEPT ![c] = "INIT"]
              /\ UNCHANGED client_num
           \/ /\ wire' = [wire EXCEPT ![c] = "accepted"]
              /\ srv' = [srv EXCEPT ![c] = "CONNECTING"]
              /\ client_num' = client_num + 1
  /\ UNCHANGED <<clientVars, clientEvent, msg, answer>>

ServerEstablished(c) ==
  /\ "ESTABLISHED" \in serverEvent[c]
  /\ serverEvent' = [serverEvent EXCEPT ![c] = @ \ {"ESTABLISHED"}]
  /\ srv' = [srv EXCEPT ![c] = "CONNECTED"]
  /\ UNCHANGED <<clientVars, clientEvent, wire, msg, answer,
                 node_id, client_list, connect_trans, cur_connections, client_num>>

(* Mutant: the state is left as it was. *)
DropKeepsState(c, state) ==
  /\ cur_connections' = cur_connections - 1
  /\ client_list' = client_list \ {c}
  /\ UNCHANGED <<srv, node_id, connect_trans, client_num>>

(* Mutant: the connection stays counted. *)
DropKeepsCount(c, state) ==
  /\ srv' = [srv EXCEPT ![c] = state]
  /\ client_list' = client_list \ {c}
  /\ UNCHANGED <<node_id, connect_trans, cur_connections, client_num>>

(* Mutant: the number of clients falls too. *)
DropCounts(c, state) ==
  /\ srv' = [srv EXCEPT ![c] = state]
  /\ cur_connections' = cur_connections - 1
  /\ client_num' = client_num - 1
  /\ client_list' = client_list \ {c}
  /\ UNCHANGED <<node_id, connect_trans>>

(* dhmp_destroy_source, and the connection is taken from the list. *)
Drop(c, state) ==
  /\ srv' = [srv EXCEPT ![c] = state]
  /\ cur_connections' = cur_connections - 1
  /\ client_list' = client_list \ {c}
  /\ UNCHANGED <<node_id, connect_trans, client_num>>

(* on_cm_disconnected. *)
ServerDisconnected(c) ==
  /\ "DISCONNECTED" \in serverEvent[c] /\ "ESTABLISHED" \notin serverEvent[c]
  /\ serverEvent' = [serverEvent EXCEPT ![c] = {}]
  /\ Drop(c, "DISCONNECTED")
  /\ UNCHANGED <<clientVars, clientEvent, wire, msg, answer>>

(* on_cm_error. *)
ServerError(c) ==
  /\ "CONNECT_ERROR" \in serverEvent[c]
  /\ serverEvent' = [serverEvent EXCEPT ![c] = {}]
  /\ Drop(c, "ERROR")
  /\ UNCHANGED <<clientVars, clientEvent, wire, msg, answer>>

(* The default case: the event is taken. *)
ServerOther(c) ==
  /\ "OTHER" \in serverEvent[c]
  /\ serverEvent' = [serverEvent EXCEPT ![c] = @ \ {"OTHER"}]
  /\ UNCHANGED <<clientVars, clientEvent, wire, msg, answer, serverVars>>

(* The completion channel is served until dhmp_destroy_source. *)
Receives(c, m) == srv[c] \in {"CONNECTING", "CONNECTED"} /\ msg[c] = m

(* Mutant: the request is not answered. *)
ServerCallOnlyReceives(c) ==
  /\ Receives(c, "call")
  /\ msg' = [msg EXCEPT ![c] = "none"]
  /\ UNCHANGED <<clientVars, clientEvent, wire, serverEvent, answer, serverVars>>

(* A request is handled; its answer is dropped if the event of the connection *)
(* comes to the server behind it.                                             *)
ServerCall(c) ==
  /\ Receives(c, "call")
  /\ msg' = [msg EXCEPT ![c] = "none"]
  /\ answer' = [answer EXCEPT ![c] = IF srv[c] = "CONNECTED" THEN "sent" ELSE @]
  /\ UNCHANGED <<clientVars, clientEvent, wire, serverEvent, serverVars>>

(* Mutant: the server does not disconnect. *)
ServerCloseOnlyReceives(c) ==
  /\ Receives(c, "close")
  /\ msg' = [msg EXCEPT ![c] = "none"]
  /\ UNCHANGED <<clientVars, clientEvent, wire, serverEvent, answer, serverVars>>

(* CLOSE_CONNECTION: rdma_disconnect, which both sides are told of. *)
ServerClose(c) ==
  /\ Receives(c, "close")
  /\ msg' = [msg EXCEPT ![c] = "none"]
  /\ \/ /\ wire[c] = "up"
        /\ wire' = [wire EXCEPT ![c] = "down"]
        /\ clientEvent' = [clientEvent EXCEPT ![c] = @ \cup {"DISCONNECTED"}]
        /\ serverEvent' = [serverEvent EXCEPT ![c] = @ \cup {"DISCONNECTED"}]
     \/ /\ wire[c] # "up"
        /\ UNCHANGED <<wire, clientEvent, serverEvent>>
  /\ UNCHANGED <<clientVars, answer, serverVars>>

ServerEpoll(c) ==
  \/ ServerConnectRequest(c) \/ ServerEstablished(c)
  \/ ServerDisconnected(c) \/ ServerError(c) \/ ServerOther(c)
  \/ ServerCall(c) \/ ServerClose(c)

-------------------------------------------------------------------------------
Next ==
  \E c \in Client :
    \/ ClientInit(c) \/ Call(c) \/ Destroy(c) \/ Die(c)
    \/ AppThread(c) \/ WorkThread(c) \/ ClientEpoll(c)
    \/ Handshake(c) \/ ServerEpoll(c)

Spec == Init /\ [][Next]_vars

(* Threads are scheduled, the epoll threads get to every ready descriptor and *)
(* the connection managers finish a handshake. Whether a process calls,       *)
(* destroys its client or dies is up to it.                                   *)
FairSpec ==
  /\ Spec
  /\ \A c \in Client :
       /\ WF_vars(AppThread(c)) /\ WF_vars(WorkThread(c)) /\ WF_vars(ClientEpoll(c))
       /\ WF_vars(Handshake(c)) /\ WF_vars(ServerEpoll(c))
===============================================================================
