-------------------------- MODULE DhmpSessionProofs --------------------------
(***************************************************************************)
(* The server's account of its connections is right, and the two sides     *)
(* agree on each, for every number of client processes.                    *)
(***************************************************************************)
EXTENDS DhmpSessionInv, FiniteSetTheorems, TLAPS

(* The steps of client c, its connection and the server's work for it.        *)
StepOf(c) ==
  \/ ClientInit(c) \/ Call(c) \/ Destroy(c) \/ Die(c)
  \/ AppThread(c) \/ WorkThread(c) \/ ClientEpoll(c)
  \/ Handshake(c) \/ ServerEpoll(c)

(* Those of them that leave the server's account as it is. *)
OutsideStep(c) ==
  \/ ClientInit(c) \/ Call(c) \/ Destroy(c) \/ Die(c)
  \/ AppThread(c) \/ WorkThread(c) \/ ClientEpoll(c)
  \/ Handshake(c) \/ ServerOther(c) \/ ServerCall(c) \/ ServerClose(c)

(* Nothing that the invariant says of client d alone changes. *)
Same(d) ==
  /\ app'[d] = app[d] /\ trans'[d] = trans[d] /\ clientEvent'[d] = clientEvent[d]
  /\ wire'[d] = wire[d] /\ srv'[d] = srv[d] /\ serverEvent'[d] = serverEvent[d]

Listed(c) == c \in client_list <=> srv[c] \in {"INIT", "CONNECTING", "CONNECTED"}

-------------------------------------------------------------------------------
(* There are never more connections than slots. *)
LEMMA Listing ==
  ASSUME SessionAssumption, client_list \in SUBSET Client
  PROVE  /\ IsFiniteSet(client_list) /\ Cardinality(client_list) \in Nat
         /\ \A c \in Client \ client_list : Cardinality(client_list) \in Slot
<1>1. IsFiniteSet(client_list) /\ Cardinality(client_list) \in Nat
  BY FS_Subset, FS_CardinalityType DEF SessionAssumption
<1>2. ASSUME NEW c \in Client \ client_list PROVE Cardinality(client_list) \in Slot
  <2>1. client_list \cup {c} \in SUBSET Client
    OBVIOUS
  <2>2. Cardinality(client_list \cup {c}) = Cardinality(client_list) + 1
    BY <1>1, FS_AddElement
  <2>3. Cardinality(client_list \cup {c}) <= Cardinality(Client)
    BY <2>1, FS_Subset DEF SessionAssumption
  <2>4. Cardinality(Client) \in Nat
    BY FS_CardinalityType DEF SessionAssumption
  <2> QED BY <1>1, <2>2, <2>3, <2>4 DEF SessionAssumption, Slot
<1> QED BY <1>1, <1>2

(* The first state keeps the invariant. *)
LEMMA InitInv == ASSUME SessionAssumption PROVE Init => SessionInv
<1> SUFFICES ASSUME Init PROVE SessionInv
  OBVIOUS
<1>1. TypeOK
  BY DEF Init, TypeOK
<1>2. ConnectionsCounted
  BY FS_EmptySet DEF Init, ConnectionsCounted
<1>3. SlotsGoUp /\ SlotsAreOwn /\ ScanReachesNodes
  <2>1. FailedAccepts = {}
    BY DEF Init, FailedAccepts
  <2>2. Cardinality(FailedAccepts) = 0
    BY <2>1, FS_EmptySet
  <2> QED BY <2>2 DEF Init, SlotsGoUp, SlotsAreOwn, ScanReachesNodes
<1>4. ASSUME NEW c \in Client PROVE EventsFit(c) /\ SidesAgree(c)
  BY DEF Init, EventsFit, SidesAgree, InUse, Alive
<1> QED BY <1>1, <1>2, <1>3, <1>4 DEF SessionInv

-------------------------------------------------------------------------------
(* A client's threads, the adapters and the handling of its messages keep the *)
(* types.                                                                     *)
LEMMA OutsideType ==
  ASSUME TypeOK, NEW c \in Client, OutsideStep(c)
  PROVE  TypeOK' /\ UNCHANGED serverVars
<1> USE DEF TypeOK, clientVars, wireVars, serverVars
<1>1. CASE ClientInit(c)
  BY <1>1 DEF ClientInit
<1>2. CASE Call(c)
  BY <1>2 DEF Call
<1>3. CASE Destroy(c)
  BY <1>3 DEF Destroy
<1>4. CASE Die(c)
  BY <1>4 DEF Die
<1>5. CASE AppThread(c)
  <2>1. CASE SetConnecting(c) \/ InitDone(c) \/ CallDone(c)
    BY <2>1 DEF SetConnecting, InitDone, CallDone
  <2>2. CASE CloseDone(c) \/ Join(c)
    BY <2>2 DEF CloseDone, Join
  <2>3. CASE SetStop(c)
    BY <2>3 DEF SetStop
  <2> QED BY <1>5, <2>1, <2>2, <2>3 DEF AppThread
<1>6. CASE WorkThread(c)
  BY <1>6 DEF WorkThread, SendCall, Answered, SendClose, Posted
<1>7. CASE ClientEpoll(c)
  <2>1. CASE OnRouteResolved(c)
    <3>1. trans' \in [Client -> {"INIT", "CONNECTING", "CONNECTED", "DISCONNECTED", "ERROR"}]
          /\ stop' \in [Client -> BOOLEAN]
      <4>1. /\ trans' = trans \/ trans' = [trans EXCEPT ![c] = "ERROR"]
            /\ stop' = stop \/ stop' = [stop EXCEPT ![c] = TRUE]
        <5> HIDE DEF TypeOK
        <5> QED BY <2>1 DEF OnRouteResolved
      <4>2. /\ trans \in [Client -> {"INIT", "CONNECTING", "CONNECTED", "DISCONNECTED", "ERROR"}]
            /\ stop \in [Client -> BOOLEAN]
        OBVIOUS
      <4> HIDE DEF TypeOK
      <4> QED BY <4>1, <4>2
    <3>2. wire' \in [Client -> {"none", "requested", "refused", "accepted", "up", "down"}]
      BY <2>1 DEF OnRouteResolved
    <3>3. serverEvent' \in [Client -> SUBSET {"CONNECT_REQUEST", "ESTABLISHED",
                                             "CONNECT_ERROR", "DISCONNECTED", "OTHER"}]
      BY <2>1 DEF OnRouteResolved
    <3> QED BY <2>1, <3>1, <3>2, <3>3 DEF OnRouteResolved, Handle
  <2>2. CASE OnEstablished(c) \/ OnDisconnected(c)
    BY <2>2 DEF OnEstablished, OnDisconnected, Handle
  <2>3. CASE OnError(c) \/ OnOtherEvent(c) \/ OnAnswer(c) \/ CheckStop(c)
    BY <2>3 DEF OnError, OnOtherEvent, OnAnswer, CheckStop, Handle
  <2> QED BY <1>7, <2>1, <2>2, <2>3 DEF ClientEpoll
<1>8. CASE Handshake(c)
  BY <1>8 DEF Handshake, Established, HandshakeFails
<1>9. CASE ServerCall(c)
  BY <1>9 DEF ServerCall
<1>10. CASE ServerClose(c)
  BY <1>10 DEF ServerClose
<1>11. CASE ServerOther(c)
  BY <1>11 DEF ServerOther
<1> QED
  BY <1>1, <1>2, <1>3, <1>4, <1>5, <1>6, <1>7, <1>8, <1>9, <1>10, <1>11 DEF OutsideStep

(* They leave every other client alone. *)
LEMMA OutsideOthers ==
  ASSUME TypeOK, NEW c \in Client, OutsideStep(c), NEW d \in Client, d # c
  PROVE  Same(d)
<1> USE DEF TypeOK, clientVars, wireVars, serverVars, Same
<1>1. CASE ClientInit(c)
  BY <1>1 DEF ClientInit
<1>2. CASE Call(c)
  BY <1>2 DEF Call
<1>3. CASE Destroy(c)
  BY <1>3 DEF Destroy
<1>4. CASE Die(c)
  BY <1>4 DEF Die
<1>5. CASE AppThread(c)
  BY <1>5 DEF AppThread, SetConnecting, InitDone, CallDone, CloseDone, SetStop, Join
<1>6. CASE WorkThread(c)
  BY <1>6 DEF WorkThread, SendCall, Answered, SendClose
<1>7. CASE ClientEpoll(c)
  BY <1>7 DEF ClientEpoll, OnRouteResolved, OnEstablished, OnDisconnected, OnError,
              OnOtherEvent, OnAnswer, CheckStop, Handle
<1>8. CASE Handshake(c)
  BY <1>8 DEF Handshake, Established, HandshakeFails
<1>9. CASE ServerCall(c)
  BY <1>9 DEF ServerCall
<1>10. CASE ServerClose(c)
  BY <1>10 DEF ServerClose
<1>11. CASE ServerOther(c)
  BY <1>11 DEF ServerOther
<1> QED
  BY <1>1, <1>2, <1>3, <1>4, <1>5, <1>6, <1>7, <1>8, <1>9, <1>10, <1>11 DEF OutsideStep

(* They keep what the two sides agree on. *)
LEMMA OutsideOwn ==
  ASSUME TypeOK, NEW c \in Client, EventsFit(c), SidesAgree(c), OutsideStep(c)
  PROVE  EventsFit(c)' /\ SidesAgree(c)'
<1> USE DEF TypeOK, clientVars, wireVars, serverVars, EventsFit, SidesAgree, Alive, InUse
<1>1. CASE ClientInit(c)
  BY <1>1 DEF ClientInit
<1>2. CASE Call(c)
  BY <1>2 DEF Call
<1>3. CASE Destroy(c)
  BY <1>3 DEF Destroy
<1>4. CASE Die(c)
  BY <1>4 DEF Die
<1>5. CASE SetConnecting(c)
  BY <1>5 DEF SetConnecting
<1>6. CASE InitDone(c) \/ CallDone(c) \/ CloseDone(c)
  BY <1>6 DEF InitDone, CallDone, CloseDone
<1>7. CASE SetStop(c) \/ Join(c)
  BY <1>7 DEF SetStop, Join
<1>8. CASE WorkThread(c)
  BY <1>8 DEF WorkThread, SendCall, Answered, SendClose
<1>9. CASE OnRouteResolved(c)
  BY <1>9 DEF OnRouteResolved, Handle
<1>10. CASE OnEstablished(c)
  BY <1>10 DEF OnEstablished, Handle
<1>11. CASE OnDisconnected(c)
  BY <1>11 DEF OnDisconnected, Handle
<1>12. CASE OnError(c)
  BY <1>12 DEF OnError, Handle
<1>13. CASE OnOtherEvent(c) \/ OnAnswer(c) \/ CheckStop(c)
  BY <1>13 DEF OnOtherEvent, OnAnswer, CheckStop, Handle
<1>14. CASE Established(c)
  BY <1>14 DEF Established
<1>15. CASE HandshakeFails(c)
  BY <1>15 DEF HandshakeFails
<1>16. CASE ServerCall(c)
  BY <1>16 DEF ServerCall
<1>17. CASE ServerClose(c)
  BY <1>17 DEF ServerClose
<1>18. CASE ServerOther(c)
  BY <1>18 DEF ServerOther
<1> QED
  BY <1>1, <1>2, <1>3, <1>4, <1>5, <1>6, <1>7, <1>8, <1>9, <1>10, <1>11, <1>12, <1>13,
     <1>14, <1>15, <1>16, <1>17, <1>18
  DEF OutsideStep, AppThread, ClientEpoll, Handshake

-------------------------------------------------------------------------------
(* The server's own steps: they keep the types, leave the other clients alone *)
(* and keep what the two sides agree on.                                      *)
LEMMA ServerStep ==
  ASSUME SessionAssumption, SessionInv, NEW c \in Client,
         \/ ServerConnectRequest(c) \/ ServerEstablished(c)
         \/ ServerDisconnected(c) \/ ServerError(c)
  PROVE  /\ TypeOK'
         /\ \A d \in Client \ {c} : Same(d) /\ (c # d => node_id'[d] = node_id[d])
         /\ EventsFit(c)' /\ SidesAgree(c)'
<1> USE DEF TypeOK, clientVars, wireVars
<1>1. EventsFit(c) /\ SidesAgree(c) /\ TypeOK
  BY DEF SessionInv
<1>2. cur_connections = Cardinality(client_list) /\ Listed(c)
  BY DEF SessionInv, ConnectionsCounted, Listed
<1>3. CASE ServerConnectRequest(c)
  <2>1. wire[c] = "requested" /\ srv[c] = "none"
    BY <1>1, <1>3 DEF ServerConnectRequest, EventsFit
  <2>2. c \notin client_list
    BY <1>2, <2>1 DEF Listed
  <2>3. cur_connections \in Slot
    BY <1>1, <1>2, <2>2, Listing
  <2>4. TypeOK'
    BY <1>1, <1>3, <2>3 DEF ServerConnectRequest, serverVars
  <2>5. \A d \in Client \ {c} : Same(d) /\ (c # d => node_id'[d] = node_id[d])
    BY <1>1, <1>3 DEF ServerConnectRequest, Same, serverVars
  <2>6. EventsFit(c)' /\ SidesAgree(c)'
    BY <1>1, <1>3, <2>1 DEF ServerConnectRequest, EventsFit, SidesAgree, Alive, InUse, serverVars
  <2> QED BY <2>4, <2>5, <2>6
<1>4. CASE ServerEstablished(c)
  <2>1. TypeOK'
    BY <1>1, <1>4 DEF ServerEstablished
  <2>2. \A d \in Client \ {c} : Same(d) /\ (c # d => node_id'[d] = node_id[d])
    BY <1>1, <1>4 DEF ServerEstablished, Same
  <2>3. EventsFit(c)' /\ SidesAgree(c)'
    BY <1>1, <1>4 DEF ServerEstablished, EventsFit, SidesAgree, Alive, InUse
  <2> QED BY <2>1, <2>2, <2>3
<1>5. ASSUME NEW state \in {"DISCONNECTED", "ERROR"}, Drop(c, state),
             serverEvent' = [serverEvent EXCEPT ![c] = {}],
             UNCHANGED <<clientVars, clientEvent, wire, msg, answer>>,
             wire[c] = "down", srv[c] \in {"CONNECTING", "CONNECTED"}
      PROVE  /\ TypeOK'
             /\ \A d \in Client \ {c} : Same(d) /\ (c # d => node_id'[d] = node_id[d])
             /\ EventsFit(c)' /\ SidesAgree(c)'
  <2>1. cur_connections - 1 \in Nat
    <3>1. c \in client_list
      BY <1>2, <1>5 DEF Listed
    <3>2. Cardinality(client_list) # 0
      BY <1>1, <3>1, Listing, FS_EmptySet
    <3> QED BY <1>1, <1>2, <3>2, Listing
  <2>2. TypeOK'
    BY <1>1, <1>5, <2>1 DEF Drop
  <2>3. \A d \in Client \ {c} : Same(d) /\ (c # d => node_id'[d] = node_id[d])
    BY <1>1, <1>5 DEF Drop, Same
  <2>4. EventsFit(c)' /\ SidesAgree(c)'
    BY <1>1, <1>5 DEF Drop, EventsFit, SidesAgree, Alive, InUse
  <2> QED BY <2>2, <2>3, <2>4
<1>6. CASE ServerDisconnected(c)
  <2>1. wire[c] = "down" /\ srv[c] \in {"CONNECTING", "CONNECTED"}
    BY <1>1, <1>6 DEF ServerDisconnected, EventsFit
  <2> QED BY <1>5, <1>6, <2>1 DEF ServerDisconnected
<1>7. CASE ServerError(c)
  <2>1. wire[c] = "down" /\ srv[c] \in {"CONNECTING", "CONNECTED"}
    BY <1>1, <1>7 DEF ServerError, EventsFit
  <2> QED BY <1>5, <1>7, <2>1 DEF ServerError
<1> QED BY <1>3, <1>4, <1>6, <1>7

(* The failed accepts are finitely many, as many as before if none is new, and *)
(* one more if one is.                                                         *)
LEMMA Accepts ==
  ASSUME SessionAssumption
  PROVE  IsFiniteSet(FailedAccepts) /\ Cardinality(FailedAccepts) \in Nat
BY FS_Subset, FS_CardinalityType DEF SessionAssumption, FailedAccepts

LEMMA NoAcceptFails ==
  ASSUME NEW c \in Client, srv[c] # "INIT", srv'[c] # "INIT",
         \A d \in Client \ {c} : srv'[d] = srv[d]
  PROVE  FailedAccepts' = FailedAccepts
BY DEF FailedAccepts

LEMMA AcceptFails ==
  ASSUME SessionAssumption, NEW c \in Client, srv[c] # "INIT", srv'[c] = "INIT",
         \A d \in Client \ {c} : srv'[d] = srv[d]
  PROVE  Cardinality(FailedAccepts') = Cardinality(FailedAccepts) + 1
<1>1. FailedAccepts' = FailedAccepts \cup {c} /\ c \notin FailedAccepts
  BY DEF FailedAccepts
<1> QED BY <1>1, Accepts, FS_AddElement

(* A connection gets its node id, its slot and its place in the list.          *)
Taken(c) ==
  /\ node_id' = [node_id EXCEPT ![c] = cur_connections]
  /\ cur_connections' = cur_connections + 1
  /\ connect_trans' = [connect_trans EXCEPT ![cur_connections] = c]
  /\ client_list' = client_list \cup {c}

(* What of the server's account does not depend on whether rdma_accept fails.  *)
LEMMA TakenAccount ==
  ASSUME SessionAssumption, TypeOK, ConnectionsCounted, SlotsGoUp, SlotsAreOwn,
         NEW c \in Client, Taken(c), srv[c] = "none", c \notin client_list,
         srv'[c] \in {"INIT", "CONNECTING"},
         \A d \in Client \ {c} : srv'[d] = srv[d] /\ node_id'[d] = node_id[d]
  PROVE  /\ ConnectionsCounted' /\ SlotsAreOwn'
         /\ NoneDropped' => \A d \in client_list' : node_id'[d] < cur_connections'
<1>1. /\ IsFiniteSet(client_list) /\ cur_connections = Cardinality(client_list)
      /\ cur_connections \in Nat /\ client_list \in SUBSET Client
      /\ \A d \in Client : node_id[d] \in Nat
  BY Listing DEF ConnectionsCounted, TypeOK, Slot
<1>2. cur_connections \in Slot
  BY <1>1, Listing
<1>3. /\ node_id'[c] = cur_connections /\ client_list' = client_list \cup {c}
      /\ cur_connections' = cur_connections + 1
  BY DEF Taken, TypeOK
<1>4. ConnectionsCounted'
  <2>1. Cardinality(client_list') = cur_connections + 1
    <3>1. Cardinality(client_list \cup {c}) = Cardinality(client_list) + 1
      BY <1>1, FS_AddElement
    <3> QED BY <1>1, <1>3, <3>1
  <2>2. \A d \in Client \ {c} : Listed(d)'
    BY <1>3 DEF Listed, ConnectionsCounted
  <2>3. Listed(c)'
    BY <1>3 DEF Listed
  <2> QED BY <1>3, <2>1, <2>2, <2>3 DEF ConnectionsCounted, Listed
<1>5. NoneDropped' => NoneDropped
  BY DEF NoneDropped
<1>6. NoneDropped' => \A d \in client_list' : node_id'[d] < cur_connections'
  BY <1>1, <1>3, <1>5 DEF SlotsGoUp
<1>7. SlotsAreOwn'
  <2> SUFFICES ASSUME NoneDropped'
               PROVE  /\ \A d \in client_list' : connect_trans'[node_id'[d]] = d
                      /\ \A d, e \in client_list' : node_id'[d] = node_id'[e] => d = e
    BY DEF SlotsAreOwn
  <2>1. \A d \in client_list : node_id[d] < cur_connections /\ connect_trans[node_id[d]] = d
    BY <1>5 DEF SlotsGoUp, SlotsAreOwn
  <2>2. \A d \in client_list : node_id'[d] = node_id[d] /\ node_id[d] # cur_connections
    BY <1>1, <2>1
  <2>3. \A d \in client_list : node_id[d] \in Slot
    <3> TAKE d \in client_list
    <3>1. node_id[d] \in Slot \cup {0} /\ node_id[d] \in Nat
      BY <1>1 DEF TypeOK
    <3> QED BY <1>2, <3>1 DEF Slot
  <2>4. connect_trans'[cur_connections] = c
    BY <1>2 DEF TypeOK, Taken
  <2>5. \A d \in client_list : connect_trans'[node_id[d]] = d
    BY <2>1, <2>2, <2>3 DEF TypeOK, Taken
  <2>6. \A d, e \in client_list : node_id[d] = node_id[e] => d = e
    BY <1>5 DEF SlotsAreOwn
  <2> QED BY <1>3, <2>2, <2>4, <2>5, <2>6
<1> QED BY <1>4, <1>6, <1>7

(* The server's account after its own steps. *)
LEMMA ServerAccount ==
  ASSUME SessionAssumption, SessionInv, NEW c \in Client,
         \/ ServerConnectRequest(c) \/ ServerEstablished(c)
         \/ ServerDisconnected(c) \/ ServerError(c)
  PROVE  (ConnectionsCounted /\ SlotsGoUp /\ SlotsAreOwn /\ ScanReachesNodes)'
<1> DEFINE Account == ConnectionsCounted /\ SlotsGoUp /\ SlotsAreOwn /\ ScanReachesNodes
           Failed == Cardinality(FailedAccepts)
<1>1. EventsFit(c) /\ TypeOK /\ Account
  BY DEF SessionInv
<1>2. /\ IsFiniteSet(client_list) /\ cur_connections = Cardinality(client_list)
      /\ cur_connections \in Nat /\ client_num \in Nat /\ client_list \in SUBSET Client
      /\ \A d \in Client : node_id[d] \in Nat
  BY <1>1, Listing DEF ConnectionsCounted, TypeOK, Slot
<1>3. \A d \in Client \ {c} : Same(d) /\ node_id'[d] = node_id[d]
  BY ServerStep
<1>4. \A d \in Client \ {c} : Listed(d)' <=> (d \in client_list' <=> d \in client_list)
  BY <1>1, <1>3 DEF Listed, Same, ConnectionsCounted
<1>5. Failed \in Nat
  BY Accepts
<1>6. \A d \in Client \ {c} : srv'[d] = srv[d]
  BY <1>3 DEF Same
<1>7. CASE ServerConnectRequest(c)
  <2>1. srv[c] = "none" /\ c \notin client_list
    BY <1>1, <1>7 DEF ServerConnectRequest, EventsFit, ConnectionsCounted, TypeOK
  <2>2. CASE UNCHANGED serverVars
    <3>1. FailedAccepts' = FailedAccepts
      BY <2>2 DEF serverVars, FailedAccepts
    <3> QED BY <1>1, <2>2, <3>1 DEF serverVars, ConnectionsCounted, SlotsGoUp, SlotsAreOwn,
               ScanReachesNodes, NoneDropped
  <2>3. ASSUME Taken(c), srv'[c] \in {"INIT", "CONNECTING"},
               client_num' + Failed' = client_num + Failed + 1
        PROVE  Account'
    <3>1. /\ ConnectionsCounted' /\ SlotsAreOwn'
          /\ NoneDropped' => \A d \in client_list' : node_id'[d] < cur_connections'
      BY <1>1, <1>3, <1>6, <2>1, <2>3, TakenAccount
    <3>2. /\ node_id'[c] = cur_connections /\ client_list' = client_list \cup {c}
          /\ cur_connections' = cur_connections + 1
      BY <1>1, <2>3 DEF Taken, TypeOK
    <3>3. cur_connections <= client_num + Failed
      BY <1>1 DEF SlotsGoUp
    <3>4. cur_connections' <= client_num' + Failed'
      BY <1>2, <1>5, <2>3, <3>2, <3>3
    <3>5. \A d \in client_list : node_id'[d] = node_id[d] /\ node_id[d] < client_num + Failed
      BY <1>1, <1>2, <1>3, <2>1 DEF ScanReachesNodes
    <3>6. \A d \in client_list' : node_id'[d] < client_num' + Failed'
      BY <1>2, <1>5, <2>3, <3>2, <3>3, <3>5
    <3>7. ScanReachesNodes' /\ SlotsGoUp'
      BY <3>1, <3>4, <3>6 DEF ScanReachesNodes, SlotsGoUp
    <3> QED BY <3>1, <3>7
  <2>4. CASE Taken(c) /\ srv' = [srv EXCEPT ![c] = "INIT"] /\ client_num' = client_num
    <3>1. srv'[c] = "INIT"
      BY <1>1, <2>4 DEF TypeOK
    <3>2. Failed' = Failed + 1
      BY <1>6, <2>1, <3>1, AcceptFails
    <3> QED BY <1>2, <1>5, <2>3, <2>4, <3>1, <3>2
  <2>5. CASE Taken(c) /\ srv' = [srv EXCEPT ![c] = "CONNECTING"] /\ client_num' = client_num + 1
    <3>1. srv'[c] = "CONNECTING"
      BY <1>1, <2>5 DEF TypeOK
    <3>2. FailedAccepts' = FailedAccepts
      BY <1>6, <2>1, <3>1, NoAcceptFails
    <3> QED BY <1>2, <1>5, <2>3, <2>5, <3>1, <3>2
  <2> QED BY <1>7, <2>2, <2>4, <2>5 DEF ServerConnectRequest, Taken
<1>8. CASE ServerEstablished(c)
  <2>1. srv[c] = "CONNECTING" /\ srv'[c] = "CONNECTED"
    BY <1>1, <1>8 DEF ServerEstablished, EventsFit, TypeOK
  <2>2. UNCHANGED <<node_id, client_list, connect_trans, cur_connections, client_num>>
    BY <1>8 DEF ServerEstablished
  <2>3. ConnectionsCounted'
    BY <1>1, <1>4, <2>1, <2>2 DEF ConnectionsCounted, Listed
  <2>4. FailedAccepts' = FailedAccepts
    BY <1>6, <2>1, NoAcceptFails
  <2>5. NoneDropped' => NoneDropped
    BY <1>6, <2>1 DEF NoneDropped
  <2> QED BY <1>1, <2>2, <2>3, <2>4, <2>5 DEF SlotsGoUp, SlotsAreOwn, ScanReachesNodes
<1>9. ASSUME NEW state \in {"DISCONNECTED", "ERROR"}, Drop(c, state),
             srv[c] \in {"CONNECTING", "CONNECTED"}
      PROVE  Account'
  <2>1. c \in client_list
    BY <1>1, <1>9 DEF ConnectionsCounted
  <2>2. /\ srv'[c] = state /\ client_list' = client_list \ {c}
        /\ cur_connections' = cur_connections - 1
        /\ UNCHANGED <<node_id, connect_trans, client_num>>
    BY <1>1, <1>9 DEF Drop, TypeOK
  <2>3. ConnectionsCounted'
    <3>1. Cardinality(client_list') = cur_connections - 1
      BY <1>2, <2>1, <2>2, FS_RemoveElement
    <3>2. Listed(c)' /\ \A d \in Client \ {c} : Listed(d)'
      BY <1>4, <1>9, <2>2 DEF Listed
    <3> QED BY <2>2, <3>1, <3>2 DEF ConnectionsCounted, Listed
  <2>4. FailedAccepts' = FailedAccepts
    BY <1>6, <1>9, <2>2, NoAcceptFails
  <2>5. ~NoneDropped'
    BY <1>9, <2>2 DEF NoneDropped
  <2>6. cur_connections' <= client_num' + Failed'
    BY <1>1, <1>2, <1>5, <2>2, <2>4 DEF SlotsGoUp
  <2>7. ScanReachesNodes'
    BY <1>1, <2>2, <2>4 DEF ScanReachesNodes
  <2> QED BY <2>3, <2>5, <2>6, <2>7 DEF SlotsGoUp, SlotsAreOwn
<1>10. CASE ServerDisconnected(c) \/ ServerError(c)
  <2>1. srv[c] \in {"CONNECTING", "CONNECTED"}
    BY <1>1, <1>10 DEF ServerDisconnected, ServerError, EventsFit, TypeOK
  <2> QED BY <1>9, <1>10, <2>1 DEF ServerDisconnected, ServerError
<1> QED BY <1>7, <1>8, <1>10

-------------------------------------------------------------------------------
(* What the invariant says of a client depends on that client alone. *)
LEMMA Frame ==
  ASSUME NEW d \in Client, Same(d), EventsFit(d), SidesAgree(d)
  PROVE  EventsFit(d)' /\ SidesAgree(d)'
BY DEF Same, EventsFit, SidesAgree, Alive, InUse

(* The inductive invariant: the server's account is right and the two sides of *)
(* every connection agree, whatever clients come, call, leave or die.          *)
THEOREM SessionAgrees == ASSUME SessionAssumption PROVE Spec => []SessionInv
<1>1. Init => SessionInv
  BY InitInv
<1>2. SessionInv /\ [Next]_vars => SessionInv'
  <2> SUFFICES ASSUME SessionInv, [Next]_vars PROVE SessionInv'
    OBVIOUS
  <2>1. CASE UNCHANGED vars
    BY <2>1 DEF vars, clientVars, wireVars, serverVars, SessionInv, TypeOK,
                ConnectionsCounted, SlotsGoUp, SlotsAreOwn, ScanReachesNodes,
                NoneDropped, FailedAccepts, EventsFit, SidesAgree, Alive, InUse
  <2>2. ASSUME NEW c \in Client, OutsideStep(c) PROVE SessionInv'
    <3>1. TypeOK' /\ UNCHANGED serverVars
      BY <2>2, OutsideType DEF SessionInv
    <3>2. (ConnectionsCounted /\ SlotsGoUp /\ SlotsAreOwn /\ ScanReachesNodes)'
      BY <3>1 DEF SessionInv, serverVars, ConnectionsCounted, SlotsGoUp, SlotsAreOwn,
                  ScanReachesNodes, NoneDropped, FailedAccepts
    <3>3. EventsFit(c)' /\ SidesAgree(c)'
      BY <2>2, OutsideOwn DEF SessionInv
    <3>4. ASSUME NEW d \in Client, d # c PROVE EventsFit(d)' /\ SidesAgree(d)'
      <4>1. Same(d)
        BY <2>2, <3>4, OutsideOthers DEF SessionInv
      <4> QED BY <4>1, Frame DEF SessionInv
    <3> QED BY <3>1, <3>2, <3>3, <3>4 DEF SessionInv
  <2>3. ASSUME NEW c \in Client,
               \/ ServerConnectRequest(c) \/ ServerEstablished(c)
               \/ ServerDisconnected(c) \/ ServerError(c)
        PROVE  SessionInv'
    <3>1. TypeOK' /\ EventsFit(c)' /\ SidesAgree(c)' /\ \A d \in Client \ {c} : Same(d)
      BY <2>3, ServerStep
    <3>2. (ConnectionsCounted /\ SlotsGoUp /\ SlotsAreOwn /\ ScanReachesNodes)'
      BY <2>3, ServerAccount
    <3>3. \A d \in Client \ {c} : EventsFit(d)' /\ SidesAgree(d)'
      BY <3>1, Frame DEF SessionInv
    <3> QED BY <3>1, <3>2, <3>3 DEF SessionInv
  <2> QED BY <2>1, <2>2, <2>3 DEF Next, OutsideStep, ServerEpoll
<1> QED BY <1>1, <1>2, PTL DEF Spec

(* The variables keep their types, node ids among them: none is ever out of    *)
(* the slots of connect_trans.                                                 *)
THEOREM SessionTypes == ASSUME SessionAssumption PROVE Spec => []TypeOK
<1>1. SessionInv => TypeOK
  BY DEF SessionInv
<1> QED BY <1>1, SessionAgrees, PTL

(* The count node ids are made from is that of the list.                       *)
THEOREM CountsTheList == ASSUME SessionAssumption PROVE Spec => []ConnectionsCounted
<1>1. SessionInv => ConnectionsCounted
  BY DEF SessionInv
<1> QED BY <1>1, SessionAgrees, PTL

(* While none has been dropped, every client has a node id and a slot of its own.      *)
THEOREM OwnSlots == ASSUME SessionAssumption PROVE Spec => []SlotsAreOwn
<1>1. SessionInv => SlotsAreOwn
  BY DEF SessionInv
<1> QED BY <1>1, SessionAgrees, PTL

(* The scan of L5_run misses no more listed clients' ids than accepts failed.  *)
THEOREM ScanFallsShort == ASSUME SessionAssumption PROVE Spec => []ScanReachesNodes
<1>1. SessionInv => ScanReachesNodes
  BY DEF SessionInv
<1> QED BY <1>1, SessionAgrees, PTL

(* No side keeps a connection the other has dropped.                           *)
THEOREM NoneHalfOpen == ASSUME SessionAssumption PROVE Spec => []NoHalfOpen
<1>1. SessionInv => NoHalfOpen
  <2> SUFFICES ASSUME SessionInv, NEW c \in Client
               PROVE  /\ Alive(c) /\ trans[c] = "CONNECTED" =>
                           c \in client_list \/ "DISCONNECTED" \in clientEvent[c]
                      /\ srv[c] = "CONNECTED" /\ (trans[c] = "DISCONNECTED" \/ ~Alive(c)) =>
                           "DISCONNECTED" \in serverEvent[c]
    BY DEF NoHalfOpen
  <2>1. EventsFit(c) /\ SidesAgree(c) /\ TypeOK /\ ConnectionsCounted
    BY DEF SessionInv
  <2>2. Alive(c) /\ trans[c] = "CONNECTED" =>
          c \in client_list \/ "DISCONNECTED" \in clientEvent[c]
    BY <2>1 DEF EventsFit, SidesAgree, ConnectionsCounted
  <2>3. srv[c] = "CONNECTED" /\ (trans[c] = "DISCONNECTED" \/ ~Alive(c)) =>
          "DISCONNECTED" \in serverEvent[c]
    BY <2>1 DEF EventsFit, SidesAgree, Alive, TypeOK, InUse
  <2> QED BY <2>2, <2>3
<1> QED BY <1>1, SessionAgrees, PTL
===============================================================================
