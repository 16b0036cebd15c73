------------------------------- MODULE DhmpPool -------------------------------
(***************************************************************************)
(* The data plane of the distributed memory pool, on established           *)
(* connections: dhmp_malloc, dhmp_free, dhmp_read and dhmp_write as the    *)
(* application threads of several client processes call them, the work     *)
(* list and the single work thread that serve the calls of one process,    *)
(* the RDMA verbs and messages they turn into, the client's and the        *)
(* server's epoll threads, and the areas the server hands out.             *)
(*                                                                         *)
(* An application thread builds the work on its own stack, queues it and   *)
(* spins on done_flag, so the work is named by the thread that made it.    *)
(* A connection has at most one message in flight at a time (the work      *)
(* thread waits for each answer), so messages form a set; the order of the *)
(* one-sided verbs of a connection is kept by the guards.                  *)
(***************************************************************************)
EXTENDS Integers, Sequences, FiniteSets, Functions

CONSTANTS
  Client,            \* the client processes
  Thread,            \* the application threads of all of them
  ClientOf,          \* [Thread -> Client], the process a thread runs in
  NodeId,            \* [Client -> Nat], rdma_trans->node_id at the server
  Info,              \* where a client's malloc may put a struct dhmp_addr_info
  Addr,              \* where the server's nvm_malloc may put an area
  Value,             \* contents of a region, as far as a reader tells them apart
  Zero,              \* the content nvm_malloc's memset leaves
  NULL,
  Size,              \* the lengths the applications ask for
  SINGLE_AREA_SIZE,  \* the largest length dhmp_malloc_request_handler serves
  RegMayFail         \* TRUE: ibv_reg_mr may fail on the server

ASSUME PoolAssumption ==
  /\ ClientOf \in [Thread -> Client]
  /\ NodeId \in [Client -> Nat]
  /\ Zero \in Value
  /\ NULL \notin Addr \cup Value \cup [op : {"malloc", "free", "read", "write"},
                                       addr : Addr \cup {NULL}, val : Value]
  /\ Size \subseteq Nat
  /\ SINGLE_AREA_SIZE \in Nat
  /\ RegMayFail \in BOOLEAN

VARIABLES
  call,       \* [Thread -> the work structure on the thread's stack]
  workList,   \* [Client -> client->work_list]
  worker,     \* [Client -> where the work thread is, on whose work, on which entry]
  addrInfo,   \* [Client -> [Info -> struct dhmp_addr_info]]
  ht,         \* [Client -> the entries linked in client->addr_info_ht]
  wr,         \* [Client -> progress of the posted RDMA WRITE]
  rd,         \* [Client -> progress of the posted RDMA READ]
  msgs,       \* the SEND messages in flight
  areaList,   \* the addresses of the areas linked in server->area_list[0]
  areaLen,    \* [Addr -> area->mr->length]
  mem,        \* [Addr -> content of the server's memory]
  used,       \* [Client -> rdma_trans->nvm_used_size at the server]
  serverUp    \* FALSE once the server process has crashed

clientVars == <<call, workList, worker, addrInfo, ht>>
verbVars   == <<wr, rd>>
serverVars == <<areaList, areaLen, mem, used, serverUp>>
vars       == <<clientVars, verbVars, msgs, serverVars>>

-------------------------------------------------------------------------------
Verb == {"none", "posted", "performed", "done", "error"}

NoCall == [op |-> "none", info |-> NULL, addr |-> NULL, len |-> 0, val |-> Zero,
           recv |-> FALSE, done |-> FALSE, res |-> NULL]

IdleWorker == [pc |-> "idle", work |-> NULL, info |-> NULL]

Init ==
  /\ call     = [t \in Thread |-> NoCall]
  /\ workList = [c \in Client |-> <<>>]
  /\ worker   = [c \in Client |-> IdleWorker]
  /\ addrInfo = [c \in Client |-> [i \in Info |->
                   [live |-> FALSE, addr |-> NULL, len |-> 0, write_flag |-> FALSE]]]
  /\ ht       = [c \in Client |-> {}]
  /\ wr       = [c \in Client |-> "none"]
  /\ rd       = [c \in Client |-> "none"]
  /\ msgs     = {}
  /\ areaList = {}
  /\ areaLen  = [a \in Addr |-> 0]
  /\ mem      = [a \in Addr |-> Zero]
  /\ used     = [c \in Client |-> 0]
  /\ serverUp = TRUE

-------------------------------------------------------------------------------
(* The application threads. *)

(* Queue the work a thread has built and start to spin on its done_flag. *)
Submit(t, work) ==
  /\ call[t].op = "none"
  /\ call' = [call EXCEPT ![t] = work]
  /\ workList' = [workList EXCEPT ![ClientOf[t]] = Append(@, t)]

(* dhmp_malloc; it gives up without a trace when its own malloc fails. *)
CallMalloc(t, len) ==
  LET c == ClientOf[t] IN
  \E i \in {j \in Info : ~addrInfo[c][j].live} :
    /\ Submit(t, [NoCall EXCEPT !.op = "malloc", !.info = i, !.len = len])
    /\ addrInfo' = [addrInfo EXCEPT ![c][i] = [@ EXCEPT !.live = TRUE, !.len = 0]]
    /\ UNCHANGED <<worker, ht, verbVars, msgs, serverVars>>

CallFree(t, a) ==
  /\ Submit(t, [NoCall EXCEPT !.op = "free", !.addr = a])
  /\ UNCHANGED <<worker, addrInfo, ht, verbVars, msgs, serverVars>>

CallRead(t, a) ==
  /\ Submit(t, [NoCall EXCEPT !.op = "read", !.addr = a])
  /\ UNCHANGED <<worker, addrInfo, ht, verbVars, msgs, serverVars>>

CallWrite(t, a, v) ==
  /\ Submit(t, [NoCall EXCEPT !.op = "write", !.addr = a, !.val = v])
  /\ UNCHANGED <<worker, addrInfo, ht, verbVars, msgs, serverVars>>

(* The spin ends, the work is freed and the call returns. *)
Return(t) ==
  /\ call[t].done
  /\ call' = [call EXCEPT ![t] = NoCall]
  /\ UNCHANGED <<workList, worker, addrInfo, ht, verbVars, msgs, serverVars>>

-------------------------------------------------------------------------------
(* The work thread of client c. *)

(* dhmp_work_handle_thread takes the oldest work, one at a time. *)
TakeWork(c) ==
  /\ worker[c].pc = "idle"
  /\ workList[c] # <<>>
  /\ worker' = [worker EXCEPT ![c] =
       [pc |-> "start", work |-> Head(workList[c]), info |-> NULL]]
  /\ workList' = [workList EXCEPT ![c] = Tail(@)]
  /\ UNCHANGED <<call, addrInfo, ht, verbVars, msgs, serverVars>>

Handling(c, pc, op) == worker[c].pc = pc /\ call[worker[c].work].op = op

(* done_flag = true: the work thread goes back to its list. *)
FinishWork(c, res) ==
  /\ call' = [call EXCEPT ![worker[c].work] = [@ EXCEPT !.done = TRUE, !.res = res]]
  /\ worker' = [worker EXCEPT ![c] = IdleWorker]

(* The work thread has sent for entry i and spins until the answer is there. *)
Await(c, pc, i) ==
  worker' = [worker EXCEPT ![c] = [@ EXCEPT !.pc = pc, !.info = i]]

(* dhmp_get_addr_info_from_ht: the entries that match an address. *)
Lookup(c, a) == {i \in ht[c] : addrInfo[c][i].addr = a}

Mr(c, i) == [addr |-> addrInfo[c][i].addr, len |-> addrInfo[c][i].len]

(* Free, read and write of an address the hash table does not hold. *)
AddrNotFound(c) ==
  /\ \E op \in {"free", "read", "write"} : Handling(c, "start", op)
  /\ Lookup(c, call[worker[c].work].addr) = {}
  /\ FinishWork(c, NULL)
  /\ UNCHANGED <<workList, addrInfo, ht, verbVars, msgs, serverVars>>

MallocSend(c) ==
  LET t == worker[c].work IN
  /\ Handling(c, "start", "malloc")
  /\ msgs' = msgs \cup {[type |-> "MALLOC_REQUEST", client |-> c, info |-> call[t].info,
                         task |-> t, size |-> call[t].len]}
  /\ Await(c, "malloc", call[t].info)
  /\ UNCHANGED <<call, workList, addrInfo, ht, verbVars, serverVars>>

(* Mutant: the spin on recv_flag is gone. *)
MallocFinishAtOnce(c) ==
  LET i == worker[c].info IN
  /\ worker[c].pc = "malloc"
  /\ FinishWork(c, addrInfo[c][i].addr)
  /\ IF addrInfo[c][i].addr = NULL
     THEN /\ addrInfo' = [addrInfo EXCEPT ![c][i].live = FALSE]
          /\ UNCHANGED ht
     ELSE /\ addrInfo' = [addrInfo EXCEPT ![c][i].write_flag = FALSE]
          /\ ht' = [ht EXCEPT ![c] = @ \cup {i}]
  /\ UNCHANGED <<workList, verbVars, msgs, serverVars>>

(* The spin on recv_flag ends: link the entry, or drop it if nothing came. *)
MallocFinish(c) ==
  LET i == worker[c].info IN
  /\ worker[c].pc = "malloc"
  /\ call[worker[c].work].recv
  /\ FinishWork(c, addrInfo[c][i].addr)
  /\ IF addrInfo[c][i].addr = NULL
     THEN /\ addrInfo' = [addrInfo EXCEPT ![c][i].live = FALSE]
          /\ UNCHANGED ht
     ELSE /\ addrInfo' = [addrInfo EXCEPT ![c][i].write_flag = FALSE]
          /\ ht' = [ht EXCEPT ![c] = @ \cup {i}]
  /\ UNCHANGED <<workList, verbVars, msgs, serverVars>>

FreeRequestOf(c, i, mr) == [type |-> "FREE_REQUEST", client |-> c, info |-> i, mr |-> mr]

(* Mutant: the entry stays in the hash table. *)
FreeSendKeepsEntry(c) ==
  /\ Handling(c, "start", "free")
  /\ \E i \in Lookup(c, call[worker[c].work].addr) :
       /\ msgs' = msgs \cup {FreeRequestOf(c, i, Mr(c, i))}
       /\ Await(c, "free", i)
  /\ UNCHANGED <<call, workList, addrInfo, ht, verbVars, serverVars>>

(* Mutant: the work thread does not wait for FREE_RESPONSE to drop the entry. *)
FreeSendNoWait(c) ==
  /\ Handling(c, "start", "free")
  /\ \E i \in Lookup(c, call[worker[c].work].addr) :
       msgs' = msgs \cup {FreeRequestOf(c, i, Mr(c, i))}
  /\ FinishWork(c, NULL)
  /\ UNCHANGED <<workList, addrInfo, ht, verbVars, serverVars>>

FreeSend(c) ==
  /\ Handling(c, "start", "free")
  /\ \E i \in Lookup(c, call[worker[c].work].addr) :
       /\ ht' = [ht EXCEPT ![c] = @ \ {i}]
       /\ msgs' = msgs \cup {FreeRequestOf(c, i, Mr(c, i))}
       /\ Await(c, "free", i)
  /\ UNCHANGED <<call, workList, addrInfo, verbVars, serverVars>>

(* The spin until FREE_RESPONSE has cleared nvm_mr.addr ends. *)
FreeFinish(c) ==
  /\ worker[c].pc = "free"
  /\ addrInfo[c][worker[c].info].addr = NULL
  /\ addrInfo' = [addrInfo EXCEPT ![c][worker[c].info].live = FALSE]
  /\ FinishWork(c, NULL)
  /\ UNCHANGED <<workList, ht, verbVars, msgs, serverVars>>

ReadPost(c) ==
  /\ Handling(c, "start", "read")
  /\ \E i \in Lookup(c, call[worker[c].work].addr) :
       /\ ~addrInfo[c][i].write_flag
       /\ Await(c, "read", i)
  /\ rd' = [rd EXCEPT ![c] = "posted"]
  /\ UNCHANGED <<call, workList, addrInfo, ht, wr, msgs, serverVars>>

(* dhmp_rdma_write posts the WRITE and, under FLUSH1, an empty READ behind it. *)
WritePost(c) ==
  /\ Handling(c, "start", "write")
  /\ \E i \in Lookup(c, call[worker[c].work].addr) :
       /\ ~addrInfo[c][i].write_flag
       /\ addrInfo' = [addrInfo EXCEPT ![c][i].write_flag = TRUE]
       /\ Await(c, "write", i)
  /\ wr' = [wr EXCEPT ![c] = "posted"]
  /\ rd' = [rd EXCEPT ![c] = "posted"]
  /\ UNCHANGED <<call, workList, ht, msgs, serverVars>>

ReadFinish(c) ==
  /\ worker[c].pc = "read"
  /\ rd[c] = "done"
  /\ rd' = [rd EXCEPT ![c] = "none"]
  /\ FinishWork(c, call[worker[c].work].res)
  /\ UNCHANGED <<workList, addrInfo, ht, wr, msgs, serverVars>>

WriteFinish(c) ==
  /\ worker[c].pc = "write"
  /\ rd[c] = "done" /\ wr[c] = "done"
  /\ wr' = [wr EXCEPT ![c] = "none"]
  /\ rd' = [rd EXCEPT ![c] = "none"]
  /\ FinishWork(c, NULL)
  /\ UNCHANGED <<workList, addrInfo, ht, msgs, serverVars>>

WorkThread(c) ==
  \/ TakeWork(c) \/ AddrNotFound(c)
  \/ MallocSend(c) \/ MallocFinish(c)
  \/ FreeSend(c) \/ FreeFinish(c)
  \/ ReadPost(c) \/ ReadFinish(c)
  \/ WritePost(c) \/ WriteFinish(c)

-------------------------------------------------------------------------------
(* The adapters. A reliable connection performs the verbs in posting order,   *)
(* against the registered regions of the server; an address outside them is a *)
(* remote access error, whose completion sets no flag.                        *)

Target(c) == addrInfo[c][worker[c].info].addr

Reachable(a) == serverUp /\ a \in areaList

PerformWrite(c) ==
  /\ wr[c] = "posted"
  /\ IF Reachable(Target(c))
     THEN /\ mem' = [mem EXCEPT ![Target(c)] = call[worker[c].work].val]
          /\ wr' = [wr EXCEPT ![c] = "performed"]
     ELSE /\ wr' = [wr EXCEPT ![c] = "error"]
          /\ UNCHANGED mem
  /\ UNCHANGED <<clientVars, rd, msgs, areaList, areaLen, used, serverUp>>

PerformRead(c) ==
  /\ rd[c] = "posted"
  /\ wr[c] \in {"none", "performed", "done"}
  /\ IF Reachable(Target(c))
     THEN /\ rd' = [rd EXCEPT ![c] = "performed"]
          /\ call' = IF worker[c].pc = "read"
                     THEN [call EXCEPT ![worker[c].work].res = mem[Target(c)]]
                     ELSE call
     ELSE /\ rd' = [rd EXCEPT ![c] = "error"]
          /\ UNCHANGED call
  /\ UNCHANGED <<workList, worker, addrInfo, ht, wr, msgs, serverVars>>

Adapter(c) == PerformWrite(c) \/ PerformRead(c)

-------------------------------------------------------------------------------
(* The client's epoll thread: dhmp_wc_success_handler on the client's queue,  *)
(* whose completions come in posting order.                                   *)

(* Mutant: the completion leaves write_flag up. *)
CompleteWriteKeepsFlag(c) ==
  /\ wr[c] = "performed"
  /\ wr' = [wr EXCEPT ![c] = "done"]
  /\ UNCHANGED <<call, workList, worker, addrInfo, ht, rd, msgs, serverVars>>

CompleteWrite(c) ==
  /\ wr[c] = "performed"
  /\ addrInfo' = [addrInfo EXCEPT ![c][worker[c].info].write_flag = FALSE]
  /\ wr' = [wr EXCEPT ![c] = "done"]
  /\ UNCHANGED <<call, workList, worker, ht, rd, msgs, serverVars>>

CompleteRead(c) ==
  /\ rd[c] = "performed"
  /\ wr[c] # "performed"
  /\ rd' = [rd EXCEPT ![c] = "done"]
  /\ UNCHANGED <<clientVars, wr, msgs, serverVars>>

OnMallocResponse(m) ==
  /\ m.type = "MALLOC_RESPONSE"
  /\ addrInfo' = [addrInfo EXCEPT ![m.client][m.info] =
                   [@ EXCEPT !.addr = m.mr.addr, !.len = m.mr.len]]
  /\ call' = [call EXCEPT ![m.task].recv = TRUE]
  /\ msgs' = msgs \ {m}
  /\ UNCHANGED <<workList, worker, ht, verbVars, serverVars>>

(* dhmp_malloc_error_handler clears the entry and leaves recv_flag alone. *)
OnMallocError(m) ==
  /\ m.type = "MALLOC_ERROR"
  /\ addrInfo' = [addrInfo EXCEPT ![m.client][m.info] =
                   [@ EXCEPT !.addr = NULL, !.len = m.size]]
  /\ msgs' = msgs \ {m}
  /\ UNCHANGED <<call, workList, worker, ht, verbVars, serverVars>>

(* Mutant: the address the work thread spins on is not cleared. *)
OnFreeResponseNoClear(m) ==
  /\ m.type = "FREE_RESPONSE"
  /\ msgs' = msgs \ {m}
  /\ UNCHANGED <<clientVars, verbVars, serverVars>>

OnFreeResponse(m) ==
  /\ m.type = "FREE_RESPONSE"
  /\ addrInfo' = [addrInfo EXCEPT ![m.client][m.info].addr = NULL]
  /\ msgs' = msgs \ {m}
  /\ UNCHANGED <<call, workList, worker, ht, verbVars, serverVars>>

ClientEpoll(c) ==
  \/ CompleteWrite(c) \/ CompleteRead(c)
  \/ \E m \in {n \in msgs : n.client = c} :
       OnMallocResponse(m) \/ OnMallocError(m) \/ OnFreeResponse(m)

-------------------------------------------------------------------------------
(* The server's epoll thread. *)

Reply(m, mr) == [type |-> "MALLOC_RESPONSE", client |-> m.client, info |-> m.info,
                 task |-> m.task, mr |-> mr]

(* Mutant: the new area is not zeroed. *)
GrantNoMemset(m) ==
  /\ m.size <= SINGLE_AREA_SIZE
  /\ \E a \in Addr \ areaList :
       /\ areaList' = areaList \cup {a}
       /\ areaLen' = [areaLen EXCEPT ![a] = m.size]
       /\ msgs' = (msgs \ {m}) \cup {Reply(m, [addr |-> a, len |-> m.size])}
  /\ used' = [used EXCEPT ![m.client] = @ + m.size]
  /\ UNCHANGED mem

(* dhmp_malloc_request_handler for is_special = 0: dhmp_area_create succeeds, *)
Grant(m) ==
  /\ m.size <= SINGLE_AREA_SIZE
  /\ \E a \in Addr \ areaList :
       /\ areaList' = areaList \cup {a}
       /\ areaLen' = [areaLen EXCEPT ![a] = m.size]
       /\ mem' = [mem EXCEPT ![a] = Zero]
       /\ msgs' = (msgs \ {m}) \cup {Reply(m, [addr |-> a, len |-> m.size])}
  /\ used' = [used EXCEPT ![m.client] = @ + m.size]

(* or fails, *)
Refuse(m) ==
  /\ m.size <= SINGLE_AREA_SIZE
  /\ RegMayFail
  /\ msgs' = (msgs \ {m}) \cup
       {[type |-> "MALLOC_ERROR", client |-> m.client, info |-> m.info, size |-> m.size]}
  /\ UNCHANGED <<areaList, areaLen, mem, used>>

(* or is not called for a length over the limit. Then res is still true and    *)
(* the reply carries whatever the uninitialised response.mr holds.             *)
ReplyGarbage(m) ==
  /\ m.size > SINGLE_AREA_SIZE
  /\ \E a \in Addr \cup {NULL}, len \in Size :
       /\ msgs' = (msgs \ {m}) \cup {Reply(m, [addr |-> a, len |-> len])}
       /\ used' = [used EXCEPT ![m.client] = @ + len]
  /\ UNCHANGED <<areaList, areaLen, mem>>

OnMallocRequest(m) ==
  /\ serverUp
  /\ m.type = "MALLOC_REQUEST"
  /\ Grant(m) \/ Refuse(m) \/ ReplyGarbage(m)
  /\ UNCHANGED <<clientVars, verbVars, serverUp>>

FreeResponseTo(m) == [type |-> "FREE_RESPONSE", client |-> m.client, info |-> m.info]

(* Mutant: nvm_used_size is not reduced. *)
OnFreeRequestKeepsSize(m) ==
  /\ serverUp
  /\ m.type = "FREE_REQUEST"
  /\ areaList' = areaList \ {m.mr.addr}
  /\ msgs' = (msgs \ {m}) \cup {FreeResponseTo(m)}
  /\ UNCHANGED <<clientVars, verbVars, areaLen, mem, used, serverUp>>

(* Mutant: the area is not taken out of the list. *)
OnFreeRequestKeepsArea(m) ==
  /\ serverUp
  /\ m.type = "FREE_REQUEST"
  /\ used' = [used EXCEPT ![m.client] = @ - m.mr.len]
  /\ msgs' = (msgs \ {m}) \cup {FreeResponseTo(m)}
  /\ UNCHANGED <<clientVars, verbVars, areaList, areaLen, mem, serverUp>>

(* dhmp_free_request_handler. Only area_list[0] is ever initialised: the walk  *)
(* over another node's list starts at a garbage head and faults.               *)
OnFreeRequest(m) ==
  /\ serverUp
  /\ m.type = "FREE_REQUEST"
  /\ used' = [used EXCEPT ![m.client] = @ - m.mr.len]
  /\ IF NodeId[m.client] = 0
     THEN /\ areaList' = areaList \ {m.mr.addr}
          /\ msgs' = (msgs \ {m}) \cup {FreeResponseTo(m)}
          /\ UNCHANGED serverUp
     ELSE /\ serverUp' = FALSE
          /\ msgs' = msgs \ {m}
          /\ UNCHANGED areaList
  /\ UNCHANGED <<clientVars, verbVars, areaLen, mem>>

ServerEpoll(c) ==
  \E m \in {n \in msgs : n.client = c} : OnMallocRequest(m) \/ OnFreeRequest(m)

-------------------------------------------------------------------------------
AppThread(t) ==
  \/ \E len \in Size : CallMalloc(t, len)
  \/ \E a \in Addr : CallFree(t, a) \/ CallRead(t, a)
  \/ \E a \in Addr, v \in Value : CallWrite(t, a, v)
  \/ Return(t)

Next ==
  \/ \E t \in Thread : AppThread(t)
  \/ \E c \in Client : WorkThread(c) \/ Adapter(c) \/ ClientEpoll(c) \/ ServerEpoll(c)

(* Every thread is scheduled by the kernel and the fabric delivers: weak       *)
(* fairness for each of them. Nothing obliges an application to call.          *)
Fairness ==
  /\ \A t \in Thread : WF_vars(Return(t))
  /\ \A c \in Client : /\ WF_vars(WorkThread(c))
                       /\ WF_vars(Adapter(c))
                       /\ WF_vars(ClientEpoll(c))
                       /\ WF_vars(ServerEpoll(c))

Spec == Init /\ [][Next]_vars
FairSpec == Spec /\ Fairness

-------------------------------------------------------------------------------
(* Every variable keeps its shape: the structures of the client and the       *)
(* server, and the messages of dhmp.h that travel between them.               *)
Mrs == [addr : Addr \cup {NULL}, len : Nat]

Messages ==
       [type : {"MALLOC_REQUEST"}, client : Client, info : Info, task : Thread, size : Size]
  \cup [type : {"MALLOC_RESPONSE"}, client : Client, info : Info, task : Thread, mr : Mrs]
  \cup [type : {"MALLOC_ERROR"}, client : Client, info : Info, size : Size]
  \cup [type : {"FREE_REQUEST"}, client : Client, info : Info,
        mr : [addr : Addr, len : Nat]]
  \cup [type : {"FREE_RESPONSE"}, client : Client, info : Info]

Calls ==
  LET Call(ops, infos, addrs, lens) ==
        [op : ops, info : infos, addr : addrs, len : lens, val : Value,
         recv : BOOLEAN, done : BOOLEAN, res : Addr \cup Value \cup {NULL}]
  IN Call({"none"}, {NULL}, {NULL}, {0}) \cup Call({"malloc"}, Info, {NULL}, Size)
       \cup Call({"free", "read", "write"}, {NULL}, Addr, {0})

Entries == [live : BOOLEAN, addr : Addr \cup {NULL}, len : Nat, write_flag : BOOLEAN]

Workers ==
       [pc : {"idle"}, work : {NULL}, info : {NULL}]
  \cup [pc : {"start"}, work : Thread, info : {NULL}]
  \cup [pc : {"malloc", "free", "read", "write"}, work : Thread, info : Info]

TypeOK ==
  /\ call \in [Thread -> Calls]
  /\ workList \in [Client -> Seq(Thread)]
  /\ worker \in [Client -> Workers]
  /\ addrInfo \in [Client -> [Info -> Entries]]
  /\ ht \in [Client -> SUBSET Info]
  /\ wr \in [Client -> Verb]
  /\ rd \in [Client -> Verb]
  /\ msgs \subseteq Messages
  /\ areaList \subseteq Addr
  /\ areaLen \in [Addr -> Nat]
  /\ mem \in [Addr -> Value]
  /\ used \in [Client -> Int]
  /\ serverUp \in BOOLEAN

(* Each entry of a client's hash table names a region that is registered at    *)
(* the server under the length the entry records, and no two entries, of one   *)
(* process or of two, name the same region: what dhmp_malloc returned is the   *)
(* caller's until it is freed, whatever the other threads and clients do.      *)
EntriesNameLiveAreas ==
  /\ \A c \in Client : \A i \in ht[c] :
       /\ addrInfo[c][i].addr \in areaList
       /\ areaLen[addrInfo[c][i].addr] = addrInfo[c][i].len
  /\ \A c, d \in Client : \A i \in ht[c], j \in ht[d] :
       addrInfo[c][i].addr = addrInfo[d][j].addr => c = d /\ i = j

(* While the server runs, no posted READ or WRITE meets an area the server has *)
(* deregistered: a racing dhmp_free cannot pull the region from under a verb.  *)
NoAccessFault ==
  serverUp => \A c \in Client : wr[c] # "error" /\ rd[c] # "error"

(* "check no the same addr write task in qp": an entry's write_flag is up      *)
(* exactly while a WRITE to it is in the queue pair, so the spin on the flag   *)
(* neither lets two writes meet nor waits for a write that is over.            *)
WriteFlagMeansInFlight ==
  \A c \in Client : \A i \in ht[c] :
    addrInfo[c][i].write_flag <=>
      wr[c] \in {"posted", "performed", "error"} /\ worker[c].info = i

(* The pointers that travel are good when they come back: a message names an   *)
(* addr_info that is still allocated and a work structure whose thread still   *)
(* spins, and so does the work the work thread is on.                          *)
PointersAreGood ==
  /\ \A m \in msgs : addrInfo[m.client][m.info].live
  /\ \A m \in msgs : m.type \in {"MALLOC_REQUEST", "MALLOC_RESPONSE"} =>
       call[m.task].op = "malloc" /\ ~call[m.task].done
  /\ \A c \in Client : worker[c].pc # "idle" =>
       call[worker[c].work].op # "none" /\ ~call[worker[c].work].done
  /\ \A c \in Client : wr[c] # "none" \/ rd[c] # "none" =>
       addrInfo[c][worker[c].info].live

(* While the server runs, the nvm_used_size of the connections adds up to what *)
(* the areas in the list take.                                                 *)
BooksBalance ==
  FoldFunction(+, 0, used) = FoldFunctionOnSet(+, 0, areaLen, areaList)

UsedSizeIsExact == serverUp => BooksBalance

(* Every call returns: the spins of the application thread, of the work thread *)
(* and of the verbs all end.                                                   *)
EveryCallReturns ==
  \A t \in Thread : call[t].op # "none" ~> call[t].op = "none"

(* The process of client c is held up by an answer that ends no spin: its      *)
(* malloc was refused, or its verb met no registered area.                     *)
HeldUp(c) ==
  \/ worker[c].pc = "malloc" /\ ~call[worker[c].work].recv
       /\ \A m \in msgs : m.client # c
  \/ wr[c] = "error" \/ rd[c] = "error"

(* Errors are contained: while the server runs, a call returns unless its own  *)
(* process is held up. A malloc the server refuses another client, or answers  *)
(* with garbage, and a free that finds nothing, keep no one else waiting.      *)
ErrorsAreContained ==
  \A t \in Thread :
    call[t].op # "none" ~> call[t].op = "none" \/ HeldUp(ClientOf[t]) \/ ~serverUp

(* "dhmp_free: release remote memory": once the work thread has taken a        *)
(* region out of the hash table, the server lets go of the area.               *)
FreeReleasesArea ==
  \A c \in Client, a \in Addr :
    (worker[c].pc = "free" /\ addrInfo[c][worker[c].info].addr = a /\ a \in areaList)
      ~> a \notin areaList

-------------------------------------------------------------------------------
(* The pool implements RemotePool. A malloc takes effect when its entry is     *)
(* linked, a free when its entry is unlinked, a read or a write when the       *)
(* adapter performs it, a call on an unknown address when the lookup fails.    *)
HeapOf(c) == [a \in {addrInfo[c][i].addr : i \in ht[c]} |-> mem[a]]

TookEffect(t) ==
  \/ call[t].done
  \/ LET c == ClientOf[t]
     IN /\ worker[c].pc # "idle" /\ worker[c].work = t
        /\ \/ worker[c].pc = "free"
           \/ worker[c].pc = "read" /\ rd[c] \in {"performed", "done"}
           \/ worker[c].pc = "write" /\ wr[c] \in {"performed", "done"}

RequestOf(t) ==
  IF call[t].op = "none" THEN NULL
  ELSE [op |-> call[t].op, addr |-> call[t].addr, val |-> call[t].val]

AnswerOf(t) ==
  IF TookEffect(t) THEN [is |-> "answered", res |-> call[t].res]
                   ELSE [is |-> "pending", res |-> NULL]

Abstract == INSTANCE RemotePool WITH
  heap <- [c \in Client |-> HeapOf(c)],
  request <- [t \in Thread |-> RequestOf(t)],
  answer <- [t \in Thread |-> AnswerOf(t)]

(* Every interleaving of the threads, the adapters and the server is one in    *)
(* which each call takes effect at once: no read returns a stale or a foreign  *)
(* value, no two callers are given the same region.                            *)
ImplementsRemotePool == Abstract!Spec

(* A garbage answer breaks that for as long as the regions on the books of the *)
(* connections are not those in the list; whenever the books balance again the *)
(* steps are those of RemotePool, so no other error corrupts or loses a region.*)
PoolWhileBooksBalance ==
  [][serverUp /\ BooksBalance /\ BooksBalance' => Abstract!Next]_(Abstract!poolVars)
===============================================================================
