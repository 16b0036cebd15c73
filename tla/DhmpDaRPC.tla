------------------------------- MODULE DhmpDaRPC -------------------------------
(***************************************************************************)
(* The DaRPC calls of one client: its application threads share a window   *)
(* of para_request_num requests, one work thread sends them and goes on as *)
(* soon as they are delivered, the server's epoll thread applies them and  *)
(* the client's epoll thread returns the places in the window.             *)
(*                                                                         *)
(* An object is the first word of its value, the only one the work thread  *)
(* copies. What a read brings back is left out: the server sizes the       *)
(* answer by a variable it has not set. The connection stays up.           *)
(***************************************************************************)
EXTENDS Integers, Sequences, FiniteSets

CONSTANTS
  Thread,  \* the application threads of the client
  NoOne,   \* no thread
  Object, Value, Zero,
  Window,  \* what para_request_num starts with, 5 in dhmp_client_init
  Ring     \* the responses that fit into the server's send region

ASSUME DaRPCAssumption ==
  /\ IsFiniteSet(Thread) /\ NoOne \notin Thread
  /\ Zero \in Value
  /\ Window \in Nat \ {0}
  /\ Ring \in Nat /\ Ring >= Window

VARIABLES
  pc,        \* [Thread -> where the call is]
  call,      \* [Thread -> wwork: what is called]
  para_request_num,
  work_list, \* client->work_list: the threads whose work waits
  worker,    \* the work thread, and whose work it has
  requests,  \* received by the server's adapter
  mem,       \* [Object -> its first word at the server]
  cur_pos,   \* the next free place of the server's send region
  posted,    \* the places of the responses the server's adapter is to send
  responses  \* how many the client's adapter has received

callVars == <<pc, call>>
workVars == <<work_list, worker>>
serverVars == <<mem, cur_pos, posted>>
vars == <<callVars, para_request_num, workVars, requests, serverVars, responses>>

-------------------------------------------------------------------------------
(* The requests of the client that are not applied yet, oldest first. *)
NotSent == IF worker.pc \in {"taken", "posted"} THEN <<call[worker.t]>> ELSE <<>>
Waiting == [i \in DOMAIN work_list |-> call[work_list[i]]]
Pending == requests \o NotSent \o Waiting

Log == INSTANCE RemoteLog WITH pending <- Pending

NoCall == [op |-> "read", objs |-> {}, val |-> Zero]

Init ==
  /\ pc = [t \in Thread |-> "idle"]
  /\ call = [t \in Thread |-> NoCall]
  /\ para_request_num = Window
  /\ work_list = <<>>
  /\ worker = [pc |-> "idle", t |-> NoOne]
  /\ requests = <<>>
  /\ mem = [o \in Object |-> Zero]
  /\ cur_pos = 0
  /\ posted = <<>>
  /\ responses = 0

-------------------------------------------------------------------------------
(* An application thread, in amper_sendRPC_DaRPC. *)
Call(t, c) ==
  /\ pc[t] = "idle"
  /\ call' = [call EXCEPT ![t] = c]
  /\ pc' = [pc EXCEPT ![t] = "window"]
  /\ UNCHANGED <<para_request_num, workVars, requests, serverVars, responses>>

(* The loop over mutex_request_num: a place in the window is taken. *)
EnterWindow(t) ==
  /\ pc[t] = "window"
  /\ para_request_num # 0
  /\ para_request_num' = para_request_num - 1
  /\ pc' = [pc EXCEPT ![t] = "entered"]
  /\ UNCHANGED <<call, workVars, requests, serverVars, responses>>

(* Mutant: the work goes before what waits. *)
EnqueueFirst(t) ==
  /\ pc[t] = "entered"
  /\ work_list' = <<t>> \o work_list
  /\ pc' = [pc EXCEPT ![t] = "waiting"]
  /\ UNCHANGED <<call, para_request_num, worker, requests, serverVars, responses>>

Enqueue(t) ==
  /\ pc[t] = "entered"
  /\ work_list' = Append(work_list, t)
  /\ pc' = [pc EXCEPT ![t] = "waiting"]
  /\ UNCHANGED <<call, para_request_num, worker, requests, serverVars, responses>>

(* done_flag is seen. *)
Return(t) ==
  /\ pc[t] = "done"
  /\ call' = [call EXCEPT ![t] = NoCall]
  /\ pc' = [pc EXCEPT ![t] = "idle"]
  /\ UNCHANGED <<para_request_num, workVars, requests, serverVars, responses>>

-------------------------------------------------------------------------------
(* The work thread and its adapter. *)
(* Mutant: the work is not taken out of the list. *)
TakeWorkKeeps ==
  /\ worker.pc = "idle" /\ work_list # <<>>
  /\ worker' = [pc |-> "taken", t |-> Head(work_list)]
  /\ UNCHANGED <<callVars, para_request_num, work_list, requests, serverVars, responses>>

TakeWork ==
  /\ worker.pc = "idle" /\ work_list # <<>>
  /\ worker' = [pc |-> "taken", t |-> Head(work_list)]
  /\ work_list' = Tail(work_list)
  /\ UNCHANGED <<callVars, para_request_num, requests, serverVars, responses>>

(* The request is posted, and after it a read of no bytes. *)
PostRequest ==
  /\ worker.pc = "taken"
  /\ worker' = [worker EXCEPT !.pc = "posted"]
  /\ UNCHANGED <<callVars, para_request_num, work_list, requests, serverVars, responses>>

DeliverRequest ==
  /\ worker.pc = "posted"
  /\ requests' = Append(requests, call[worker.t])
  /\ worker' = [worker EXCEPT !.pc = "delivered"]
  /\ UNCHANGED <<callVars, para_request_num, work_list, serverVars, responses>>

(* Mutant: done_flag is not set. *)
DoneKeepsFlag ==
  /\ worker.pc = "delivered"
  /\ worker' = [pc |-> "idle", t |-> NoOne]
  /\ UNCHANGED <<callVars, para_request_num, work_list, requests, serverVars, responses>>

(* The read is complete, which it is only after the request is delivered. The *)
(* response is not waited for.                                                *)
Done ==
  /\ worker.pc = "delivered"
  /\ pc' = [pc EXCEPT ![worker.t] = "done"]
  /\ worker' = [pc |-> "idle", t |-> NoOne]
  /\ UNCHANGED <<call, para_request_num, work_list, requests, serverVars, responses>>

WorkThread == TakeWork \/ PostRequest \/ Done

-------------------------------------------------------------------------------
(* The server's epoll thread and its adapter. *)

(* Mutant: the region is never left. *)
PlaceAtStart == 0

(* dhmp_send_task_create: where the next response goes. *)
Place == IF cur_pos = Ring THEN 0 ELSE cur_pos

(* Mutant: a request is put back and not answered. *)
HandleRequestLater ==
  /\ requests # <<>>
  /\ requests' = Append(Tail(requests), Head(requests))
  /\ UNCHANGED <<callVars, para_request_num, workVars, serverVars, responses>>

(* amper_DaRPC_request_handler, for the whole batch, and dhmp_post_send. *)
HandleRequest ==
  /\ requests # <<>>
  /\ requests' = Tail(requests)
  /\ mem' = Log!Applied(mem, Head(requests))
  /\ posted' = Append(posted, Place)
  /\ cur_pos' = Place + 1
  /\ UNCHANGED <<callVars, para_request_num, workVars, responses>>

DeliverResponse ==
  /\ posted # <<>>
  /\ posted' = Tail(posted)
  /\ responses' = responses + 1
  /\ UNCHANGED <<callVars, para_request_num, workVars, requests, mem, cur_pos>>

-------------------------------------------------------------------------------
(* Mutant: the place in the window is not returned. *)
OnResponseKeeps ==
  /\ responses > 0
  /\ responses' = responses - 1
  /\ UNCHANGED <<callVars, para_request_num, workVars, requests, serverVars>>

(* amper_DaRPC_response_handler on the client's epoll thread. The recv_flag it *)
(* sets is read by nobody.                                                     *)
OnResponse ==
  /\ responses > 0
  /\ responses' = responses - 1
  /\ para_request_num' = para_request_num + 1
  /\ UNCHANGED <<callVars, workVars, requests, serverVars>>

-------------------------------------------------------------------------------
Next ==
  \/ \E t \in Thread :
       \/ \E c \in Log!Calls : Call(t, c)
       \/ EnterWindow(t) \/ Enqueue(t) \/ Return(t)
  \/ WorkThread \/ DeliverRequest
  \/ HandleRequest \/ DeliverResponse
  \/ OnResponse

Spec == Init /\ [][Next]_vars

(* Threads are scheduled and adapters deliver. Whether a thread calls is up to *)
(* it, and nothing says which of several threads gets mutex_request_num.       *)
FairSpec ==
  /\ Spec
  /\ \A t \in Thread : WF_vars(EnterWindow(t)) /\ WF_vars(Enqueue(t)) /\ WF_vars(Return(t))
  /\ WF_vars(WorkThread) /\ WF_vars(DeliverRequest)
  /\ WF_vars(HandleRequest) /\ WF_vars(DeliverResponse)
  /\ WF_vars(OnResponse)
===============================================================================
