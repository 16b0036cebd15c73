------------------------------ MODULE DhmpModels ------------------------------
(***************************************************************************)
(* The models of remote access of dhmp_client.c that share the data plane  *)
(* of the pool: A (write, writeImm), B (send), D (write, send), octopus,   *)
(* clover and Tailwind. Each is a program of works; the works of a         *)
(* process's threads go through its work list to its one work thread,      *)
(* which turns them into verbs and messages on one queue pair.             *)
(*                                                                         *)
(* The adapter performs what is posted on a queue pair in order. It may    *)
(* acknowledge a WRITE before the data is in the server's memory, which is *)
(* what the empty READ behind it (FLUSH1) is for. What is in memory is     *)
(* lost with the power unless its cache line was flushed or evicted. An    *)
(* object lies on one or more lines, as malloc and its length have it; the *)
(* handlers flush the one at its address, however long it is.              *)
(***************************************************************************)
EXTENDS Integers, Sequences

CONSTANTS
  Client,             \* the client processes
  Thread,             \* the application threads of all of them
  ClientOf,           \* [Thread -> Client]
  Object,             \* regions handed out by dhmp_malloc
  OwnerOf,            \* [Object -> Client]
  Line,               \* the cache lines the objects lie on, each for one of them
  ObjectOf,           \* [Line -> Object]
  FirstLine,          \* [Object -> Line], the line at the object's address
  Programs,           \* which thread may call which models with which values
  Value, Zero, NULL,
  accessnum,          \* the accesses of one call of model_6_Tailwind
  Tailwind_log_size,  \* the slots of a Tailwind log
  Count               \* the bytes of a record of it

VARIABLES
  uses,        \* [Thread -> the calls in its program]
  call,        \* [Thread -> the model it is in, and the work on its stack]
  workList,    \* [Client -> client->work_list]
  worker,      \* [Client -> the work thread: whose work, which flags it spins on]
  write_flag,  \* the objects whose addr_info->write_flag is up
  up,          \* [Client -> the process has not crashed]
  net,         \* [Client -> what is posted and not performed]
  recvq,       \* [Client -> receives the server has not handled]
  resp,        \* [Client -> responses the client has not handled]
  tasklist,    \* server->tasklist[0], which getFreeList always returns
  mem,         \* [Object -> what a reader sees]
  nvm,         \* [Line -> what is left of it when the power goes]
  log          \* [Client -> the bytes of Tailwind_buffer]

threadVars == <<call, workList>>
clientVars == <<call, workList, worker, write_flag, up>>
queueVars  == <<net, recvq, resp>>
serverVars == <<tasklist, mem, nvm, log>>
steps      == <<clientVars, queueVars, serverVars>>
vars       == <<uses, steps>>

-------------------------------------------------------------------------------
(* The works each model goes through. clover's pointer is read before and      *)
(* swapped after, 0 for 0; nothing is stored to it or used of it, so it is not *)
(* told from the object.                                                       *)
Works == [
  model_A_write     |-> <<"REQADDR1", "WRITE">>,
  model_A_writeImm  |-> <<"REQADDR1", "WRITEIMM">>,
  model_B_send      |-> <<"SEND">>,
  model_D_write     |-> <<"WRITE">>,
  model_D_send      |-> <<"SEND2">>,
  model_1_octopus   |-> <<"REQADDR1", "WRITE", "CLOVER">>,
  model_1_octopus_R |-> <<"REQADDR1", "READ">>,
  model_1_clover    |-> <<"READ", "WRITE", "CLOVER">>,
  model_1_clover_R  |-> <<"READ">>,
  model_6_Tailwind  |-> [k \in 1..accessnum |->
                           IF k \in {1, accessnum} THEN "Tailwind_RPC" ELSE "Tailwind"]]

Models == DOMAIN Works

ASSUME ModelsAssumption ==
  /\ ClientOf \in [Thread -> Client]
  /\ OwnerOf \in [Object -> Client]
  /\ ObjectOf \in [Line -> Object] /\ FirstLine \in [Object -> Line]
  /\ \A o \in Object : ObjectOf[FirstLine[o]] = o
  /\ Programs \subseteq [Thread -> SUBSET (Models \X Value)]
  /\ Zero \in Value
  /\ NULL \notin Thread \cup Client \cup Object \cup Value
  /\ accessnum \in Nat /\ accessnum >= 2
  /\ Tailwind_log_size \in Nat \ {0}
  /\ Count \in Nat \ {0}

Writes == {"WRITE", "WRITE_WITH_IMM", "LOG"}

(* Enough of the buffer for its slots and the record behind the last one. *)
LogBytes == 0..(Tailwind_log_size * Count + Count - 1)

NoCall == [model |-> "none", step |-> 0, obj |-> NULL, val |-> Zero,
           recv |-> FALSE, done |-> FALSE, res |-> NULL]

IdleWorker == [pc |-> "idle", thread |-> NULL, flags |-> {}]

Init ==
  /\ uses \in Programs
  /\ call = [t \in Thread |-> NoCall]
  /\ workList = [c \in Client |-> <<>>]
  /\ worker = [c \in Client |-> IdleWorker]
  /\ write_flag = {}
  /\ up = [c \in Client |-> TRUE]
  /\ net = [c \in Client |-> <<>>]
  /\ recvq = [c \in Client |-> <<>>]
  /\ resp = [c \in Client |-> <<>>]
  /\ tasklist = [obj |-> NULL, client |-> NULL, cmpflag |-> NULL]
  /\ mem = [o \in Object |-> Zero]
  /\ nvm = [l \in Line |-> Zero]
  /\ log = [c \in Client |-> [b \in LogBytes |-> 0]]

-------------------------------------------------------------------------------
(* The application threads. *)

(* A work is built on the stack and queued; the thread spins on its done_flag. *)
Submit(t, next) ==
  /\ up[ClientOf[t]]
  /\ call' = [call EXCEPT ![t] = next]
  /\ workList' = [workList EXCEPT ![ClientOf[t]] = Append(@, t)]
  /\ UNCHANGED <<worker, write_flag, up, queueVars, serverVars>>

Call(t, m, o, v) ==
  /\ call[t].model = "none"
  /\ Submit(t, [NoCall EXCEPT !.model = m, !.step = 1, !.obj = o, !.val = v])

LastStep(t) == call[t].step = Len(Works[call[t].model])

Continue(t) ==
  /\ call[t].done /\ ~LastStep(t)
  /\ Submit(t, [call[t] EXCEPT !.step = @ + 1, !.recv = FALSE, !.done = FALSE])

Return(t) ==
  /\ up[ClientOf[t]]
  /\ call[t].done /\ LastStep(t)
  /\ call' = [call EXCEPT ![t] = NoCall]
  /\ UNCHANGED <<workList, worker, write_flag, up, queueVars, serverVars>>

-------------------------------------------------------------------------------
(* The work thread of client c. *)

WorkOf(t) == Works[call[t].model][call[t].step]

(* dhmp_work_handle_thread takes the oldest work and calls its handler, which  *)
(* posts and then spins on flags.                                              *)
Handling(c, work) ==
  /\ worker[c].pc = "idle" /\ workList[c] # <<>>
  /\ WorkOf(Head(workList[c])) = work
  /\ workList' = [workList EXCEPT ![c] = Tail(@)]

Spin(c, pc, flags) ==
  worker' = [worker EXCEPT ![c] = [pc |-> pc, thread |-> Head(workList[c]), flags |-> flags]]

(* Mutant: the slot is taken for a byte. *)
AtByte(t) == (call[t].step - 1) % Tailwind_log_size

(* Where in the log the access goes. dhmp_work.c:588 takes a slot, the RPCs    *)
(* take what they are given for bytes.                                         *)
At(t) ==
  LET i == (call[t].step - 1) % Tailwind_log_size
  IN IF WorkOf(t) = "Tailwind" THEN i * Count ELSE i

(* A work request of the work that is served, and what travels with it: the    *)
(* pointer to the work and, in an address request, the one to cmpflag.         *)
Request(t, op) ==
  [op |-> op, task |-> t, obj |-> call[t].obj, val |-> call[t].val, at |-> At(t),
   cmpflag |-> IF call[t].model = "model_A_writeImm" THEN t ELSE NULL, acked |-> FALSE]

Post(c, t, ops) ==
  net' = [net EXCEPT ![c] = @ \o [k \in DOMAIN ops |-> Request(t, ops[k])]]

(* The handler of a work posts ops and spins until flags are gone, at pc.      *)
Handle(c, work, ops, pc, flags) ==
  /\ Handling(c, work)
  /\ Post(c, Head(workList[c]), ops)
  /\ Spin(c, pc, flags)
  /\ UNCHANGED <<call, up, recvq, resp, serverVars>>

(* A write waits for the flag of its entry and raises it, a read only waits.   *)
FlagIsDown(c) == call[Head(workList[c])].obj \notin write_flag

RaiseFlag(c) ==
  FlagIsDown(c) /\ write_flag' = write_flag \cup {call[Head(workList[c])].obj}

(* ReqAddr1, Send and Tailwind_RPC: a message, then the spin on recv_flag. *)
MessageWork(c) ==
  /\ \E work \in {"REQADDR1", "SEND", "Tailwind_RPC"} : Handle(c, work, <<work>>, "recv", {})
  /\ UNCHANGED write_flag

(* dhmp_rdma_write under FLUSH1. *)
WriteWork(c) ==
  /\ Handle(c, "WRITE", <<"WRITE", "FLUSH">>, "verbs", {"write", "read"})
  /\ RaiseFlag(c)

(* dhmp_rdma_write2 and dhmp_post_writeImm flush nothing. *)
BareWriteWork(c) ==
  /\ \/ Handle(c, "SEND2", <<"WRITE">>, "verbs", {"write"})
     \/ Handle(c, "WRITEIMM", <<"WRITE_WITH_IMM">>, "verbs", {"write"})
  /\ RaiseFlag(c)

ReadWork(c) ==
  /\ Handle(c, "READ", <<"READ">>, "verbs", {"read"})
  /\ FlagIsDown(c)
  /\ UNCHANGED write_flag

CloverWork(c) ==
  /\ Handle(c, "CLOVER", <<"CAS">>, "verbs", {"read"})
  /\ UNCHANGED write_flag

TailwindWork(c) ==
  /\ Handle(c, "Tailwind", <<"LOG", "FLUSH">>, "verbs", {"write", "read"})
  /\ UNCHANGED write_flag

VerbsDone(c) == worker[c].pc = "verbs" /\ worker[c].flags = {}

(* Only when its WRITE is done does send2 ask the server to flush. *)
Send2Work(c) ==
  /\ VerbsDone(c) /\ WorkOf(worker[c].thread) = "SEND2"
  /\ Post(c, worker[c].thread, <<"SEND2">>)
  /\ worker' = [worker EXCEPT ![c].pc = "recv"]
  /\ UNCHANGED <<threadVars, write_flag, up, recvq, resp, serverVars>>

FinishWork(c) ==
  /\ call' = [call EXCEPT ![worker[c].thread].done = TRUE]
  /\ worker' = [worker EXCEPT ![c] = IdleWorker]
  /\ UNCHANGED <<workList, write_flag, up, queueVars, serverVars>>

(* Mutant: the work is done when its verbs are posted. *)
FinishPosted(c) ==
  \/ worker[c].pc = "verbs" /\ WorkOf(worker[c].thread) # "SEND2" /\ FinishWork(c)
  \/ worker[c].pc = "recv" /\ call[worker[c].thread].recv /\ FinishWork(c)

Finish(c) ==
  \/ VerbsDone(c) /\ WorkOf(worker[c].thread) # "SEND2" /\ FinishWork(c)
  \/ worker[c].pc = "recv" /\ call[worker[c].thread].recv /\ FinishWork(c)

WorkThread(c) ==
  /\ up[c]
  /\ \/ MessageWork(c) \/ WriteWork(c) \/ BareWriteWork(c) \/ Send2Work(c)
     \/ ReadWork(c) \/ CloverWork(c) \/ TailwindWork(c) \/ Finish(c)

-------------------------------------------------------------------------------
(* The adapter performs the head of what client c has posted. *)

Posted(c, ops) == net[c] # <<>> /\ Head(net[c]).op \in ops

Receive(c) == recvq' = [recvq EXCEPT ![c] = Append(@, Head(net[c]))]

(* A record's bytes go where the request says. *)
Logged(old, at) ==
  [b \in LogBytes |-> IF b \in at..(at + Count - 1) THEN b - at + 1 ELSE old[b]]

PerformWrite(c) ==
  /\ Posted(c, {"WRITE", "WRITE_WITH_IMM"})
  /\ LET r == Head(net[c])
     IN /\ mem' = [mem EXCEPT ![r.obj] = r.val]
        /\ \/ r.op = "WRITE" /\ UNCHANGED recvq
           \/ r.op = "WRITE_WITH_IMM" /\ Receive(c)
  /\ net' = [net EXCEPT ![c] = Tail(@)]
  /\ UNCHANGED <<clientVars, resp, tasklist, nvm, log>>

PerformLog(c) ==
  /\ Posted(c, {"LOG"})
  /\ log' = [log EXCEPT ![c] = Logged(@, Head(net[c]).at)]
  /\ net' = [net EXCEPT ![c] = Tail(@)]
  /\ UNCHANGED <<clientVars, recvq, resp, tasklist, mem, nvm>>

(* What model_1_octopus_R reads goes to its caller, what the others read to a  *)
(* buffer nobody looks at. A swap of 0 for 0 changes nothing.                  *)
PerformRead(c) ==
  /\ Posted(c, {"READ", "FLUSH", "CAS"})
  /\ LET r == Head(net[c])
     IN call' = IF r.op = "READ" /\ call[r.task].model = "model_1_octopus_R"
                THEN [call EXCEPT ![r.task].res = mem[r.obj]] ELSE call
  /\ net' = [net EXCEPT ![c] = Tail(@)]
  /\ UNCHANGED <<workList, worker, write_flag, up, recvq, resp, serverVars>>

Deliver(c) ==
  /\ Posted(c, {"REQADDR1", "SEND", "SEND2", "Tailwind_RPC"})
  /\ Receive(c)
  /\ net' = [net EXCEPT ![c] = Tail(@)]
  /\ UNCHANGED <<clientVars, resp, serverVars>>

Adapter(c) == PerformWrite(c) \/ PerformLog(c) \/ PerformRead(c) \/ Deliver(c)

(* A cache line may be written back at any time. *)
Evict(l) ==
  /\ nvm' = [nvm EXCEPT ![l] = mem[ObjectOf[l]]]
  /\ UNCHANGED <<clientVars, queueVars, tasklist, mem, log>>

-------------------------------------------------------------------------------
(* The epoll thread of client c. *)

(* dhmp_wc_success_handler lowers the flag that task->addr_info points to. The *)
(* task of a Tailwind write has what an earlier task left there, or NULL.      *)
LowerFlag(c) ==
  LET t == worker[c].thread
  IN \/ WorkOf(t) # "Tailwind" /\ write_flag' = write_flag \ {call[t].obj}
     \/ WorkOf(t) = "Tailwind"
        /\ \E old \in {{}} \cup {{o} : o \in {p \in Object : OwnerOf[p] = c}} :
             write_flag' = write_flag \ old

(* Mutant: the flag stays up. *)
CompleteWriteKeepsFlag(c) ==
  /\ "write" \in worker[c].flags
  /\ worker' = [worker EXCEPT ![c].flags = @ \ {"write"}]
  /\ net' = [net EXCEPT ![c] = [k \in DOMAIN @ |-> [@[k] EXCEPT !.acked = TRUE]]]
  /\ UNCHANGED <<threadVars, write_flag, up, recvq, resp, serverVars>>

(* The WRITE is acknowledged, performed or not. *)
CompleteWrite(c) ==
  /\ "write" \in worker[c].flags
  /\ LowerFlag(c)
  /\ worker' = [worker EXCEPT ![c].flags = @ \ {"write"}]
  /\ net' = [net EXCEPT ![c] = [k \in DOMAIN @ |-> [@[k] EXCEPT !.acked = TRUE]]]
  /\ UNCHANGED <<threadVars, up, recvq, resp, serverVars>>

(* A READ or a swap is complete once it is performed, in its turn. *)
CompleteRead(c) ==
  /\ worker[c].flags = {"read"}
  /\ net[c] = <<>>
  /\ worker' = [worker EXCEPT ![c].flags = {}]
  /\ UNCHANGED <<threadVars, write_flag, up, queueVars, serverVars>>

(* dhmp_WriteImm_response_handler stores through the pointer it is handed: a   *)
(* crash if it is NULL; nobody looks at the flag otherwise. The other          *)
(* responses raise the recv_flag of the work they name.                        *)
OnResponse(c) ==
  /\ resp[c] # <<>>
  /\ resp' = [resp EXCEPT ![c] = Tail(@)]
  /\ LET r == Head(resp[c])
     IN \/ /\ r.type = "WriteImm"
           /\ up' = [up EXCEPT ![c] = r.cmpflag # NULL]
           /\ UNCHANGED call
        \/ /\ r.type # "WriteImm"
           /\ call' = [call EXCEPT ![r.task].recv = TRUE]
           /\ UNCHANGED up
  /\ UNCHANGED <<workList, worker, write_flag, net, recvq, serverVars>>

ClientEpoll(c) == up[c] /\ (CompleteWrite(c) \/ CompleteRead(c) \/ OnResponse(c))

-------------------------------------------------------------------------------
(* The epoll thread of the server handles the receives of client c in order. *)

Received(c, op) == recvq[c] # <<>> /\ Head(recvq[c]).op = op

Consume(c) == recvq' = [recvq EXCEPT ![c] = Tail(@)]

Respond(c, answer) == resp' = [resp EXCEPT ![c] = Append(@, answer)]

ResponseTo(c) == [type |-> Head(recvq[c]).op, task |-> Head(recvq[c]).task]

OnReqAddr1(c) ==
  /\ Received(c, "REQADDR1") /\ Consume(c)
  /\ tasklist' = [obj |-> Head(recvq[c]).obj, client |-> c, cmpflag |-> Head(recvq[c]).cmpflag]
  /\ Respond(c, ResponseTo(c))
  /\ UNCHANGED <<clientVars, net, mem, nvm, log>>

(* _mm_clflush(server_addr): one line, whatever the length. *)
Flush(o, v) == nvm' = [nvm EXCEPT ![FirstLine[o]] = v]

(* Mutant: the answer goes back on the connection the immediate came from. *)
OnWriteImmToSender(c) ==
  /\ Received(c, "WRITE_WITH_IMM") /\ Consume(c)
  /\ Flush(tasklist.obj, mem[tasklist.obj])
  /\ Respond(c, [type |-> "WriteImm", cmpflag |-> tasklist.cmpflag])
  /\ UNCHANGED <<clientVars, net, tasklist, mem, log>>

(* The immediate names the entry, and the entry the line to flush and the      *)
(* client to answer, whoever sent the immediate.                               *)
OnWriteImm(c) ==
  /\ Received(c, "WRITE_WITH_IMM") /\ Consume(c)
  /\ Flush(tasklist.obj, mem[tasklist.obj])
  /\ Respond(tasklist.client, [type |-> "WriteImm", cmpflag |-> tasklist.cmpflag])
  /\ UNCHANGED <<clientVars, net, tasklist, mem, log>>

OnSend(c) ==
  /\ Received(c, "SEND") /\ Consume(c)
  /\ LET r == Head(recvq[c])
     IN /\ mem' = [mem EXCEPT ![r.obj] = r.val]
        /\ Flush(r.obj, r.val)
  /\ Respond(c, ResponseTo(c))
  /\ UNCHANGED <<clientVars, net, tasklist, log>>

(* Mutant: the answer goes out and nothing is flushed. *)
OnSend2Unflushed(c) ==
  /\ Received(c, "SEND2") /\ Consume(c)
  /\ Respond(c, ResponseTo(c))
  /\ UNCHANGED <<clientVars, net, tasklist, mem, nvm, log>>

OnSend2(c) ==
  /\ Received(c, "SEND2") /\ Consume(c)
  /\ LET o == Head(recvq[c]).obj IN Flush(o, mem[o])
  /\ Respond(c, ResponseTo(c))
  /\ UNCHANGED <<clientVars, net, tasklist, mem, log>>

OnTailwindRPC(c) ==
  /\ Received(c, "Tailwind_RPC") /\ Consume(c)
  /\ log' = [log EXCEPT ![c] = Logged(@, Head(recvq[c]).at)]
  /\ Respond(c, ResponseTo(c))
  /\ UNCHANGED <<clientVars, net, tasklist, mem, nvm>>

ServerEpoll(c) ==
  OnReqAddr1(c) \/ OnWriteImm(c) \/ OnSend(c) \/ OnSend2(c) \/ OnTailwindRPC(c)

-------------------------------------------------------------------------------
AppThread(t) ==
  \/ \E use \in uses[t] : \E o \in {p \in Object : OwnerOf[p] = ClientOf[t]} :
       Call(t, use[1], o, use[2])
  \/ Continue(t) \/ Return(t)

Next ==
  /\ \/ \E t \in Thread : AppThread(t)
     \/ \E c \in Client : WorkThread(c) \/ Adapter(c) \/ ClientEpoll(c) \/ ServerEpoll(c)
     \/ \E l \in Line : Evict(l)
  /\ UNCHANGED uses

Spec == Init /\ [][Next]_vars

(* Every thread is scheduled and the fabric delivers; nothing obliges a thread *)
(* to call or a cache to write back.                                           *)
FairSpec ==
  /\ Spec
  /\ \A t \in Thread : WF_steps(Continue(t) \/ Return(t))
  /\ \A c \in Client : /\ WF_steps(WorkThread(c)) /\ WF_steps(Adapter(c))
                       /\ WF_steps(ClientEpoll(c)) /\ WF_steps(ServerEpoll(c))

-------------------------------------------------------------------------------
(* What dhmp_send and dhmp_send2 return from is durable as far as the line at  *)
(* the object's address reaches: it has been flushed with what they wrote,     *)
(* although send2's WRITE may be acknowledged before it is performed and       *)
(* nothing but the order of the queue pair keeps the flush behind it. An       *)
(* object that lies on that one line is durable as a whole.                    *)
SendEnds(t) == call'[t].done /\ ~call[t].done /\ WorkOf(t) \in {"SEND", "SEND2"}

SendIsDurable ==
  [][\A t \in Thread :
       SendEnds(t) => nvm'[FirstLine[call[t].obj]] = call[t].val]_vars

(* The handlers' comment, "get server addr from dhmp_addr & copy & flush":     *)
(* what a send returns from is durable, every line of it.                      *)
WholeSendIsDurable ==
  [][\A t \in Thread :
       SendEnds(t) => \A l \in Line : ObjectOf[l] = call[t].obj => nvm'[l] = call[t].val]_vars

(* Whichever client's address request was the last to overwrite the entry, the *)
(* object, the connection and the flag in it belong together, and an immediate *)
(* finds an entry: the answer to it never hands a process a pointer into the   *)
(* stack of another.                                                           *)
FlagIsOwn ==
  /\ tasklist.client # NULL =>
       /\ OwnerOf[tasklist.obj] = tasklist.client
       /\ tasklist.cmpflag # NULL => ClientOf[tasklist.cmpflag] = tasklist.client
  /\ \A c \in Client : Received(c, "WRITE_WITH_IMM") => tasklist.client # NULL
  /\ \A c \in Client : \A k \in DOMAIN resp[c] :
       resp[c][k].type = "WriteImm" /\ resp[c][k].cmpflag # NULL
         => ClientOf[resp[c][k].cmpflag] = c

(* A Tailwind client may die at any point: the slots whose writes had returned *)
(* are whole, unless the closing RPC has been sent. That one takes the number  *)
(* of its slot for bytes, so it may lie across two slots.                      *)
Slot(c, k) == [p \in 1..Count |-> log[c][k * Count + p - 1]]

LogReadable ==
  \A t \in Thread :
    LET i == IF call[t].done THEN call[t].step ELSE call[t].step - 1 IN
    call[t].model = "model_6_Tailwind" /\ call[t].step < accessnum =>
      \A k \in 0..(Tailwind_log_size - 1) :
        k < i => Slot(ClientOf[t], k) = [p \in 1..Count |-> p]

(* Every call returns, unless its process has crashed on an answer to a stale  *)
(* immediate: no flag anyone spins on is left up or down for good.             *)
EveryModelReturns ==
  \A t \in Thread :
    call[t].model # "none" ~> call[t].model = "none" \/ ~up[ClientOf[t]]

-------------------------------------------------------------------------------
(* The models implement RemoteObjects. A write takes effect when it is         *)
(* acknowledged or performed, whichever is first: only its own process can     *)
(* read the object, and its reads stay behind the write.                       *)
Returned(c, o) == {k \in DOMAIN net[c] : /\ net[c][k].op \in {"WRITE", "WRITE_WITH_IMM"}
                                         /\ net[c][k].acked /\ net[c][k].obj = o}

StoreOf(o) ==
  LET c == OwnerOf[o]
      late == Returned(c, o)
  IN IF late = {} THEN mem[o]
     ELSE net[c][CHOOSE k \in late : \A l \in late : l <= k].val

(* The step at which a model writes its object or reads it for its caller.     *)
Others == {"model_1_clover_R", "model_6_Tailwind"}

EffectStep(m) ==
  CHOOSE k \in DOMAIN Works[m] :
    Works[m][k] \in IF m = "model_1_octopus_R" THEN {"READ"}
                    ELSE {"WRITE", "WRITEIMM", "SEND", "SEND2"}

(* The work of that step is still to be taken, performed or handled.           *)
Owed(t) ==
  LET c == ClientOf[t] IN
  /\ ~call[t].done
  /\ \/ worker[c].thread # t
     \/ \E k \in DOMAIN net[c] :
          net[c][k].task = t /\ ~net[c][k].acked
            /\ net[c][k].op \in {"WRITE", "WRITE_WITH_IMM", "SEND", "READ"}
     \/ \E k \in DOMAIN recvq[c] : recvq[c][k].task = t /\ recvq[c][k].op = "SEND"

TookEffect(t) ==
  LET m == call[t].model IN
  /\ m # "none"
  /\ IF m \in Others THEN call[t].done /\ LastStep(t)
     ELSE \/ call[t].step > EffectStep(m)
          \/ call[t].step = EffectStep(m) /\ ~Owed(t)

(* NULL stands for no request. *)
ASSUME NullIsNoRequest ==
  NULL \notin [op : {"read", "write", "other"}, obj : Object, val : Value]

RequestOf(t) ==
  IF call[t].model = "none" THEN NULL
  ELSE [op |-> IF call[t].model = "model_1_octopus_R" THEN "read"
               ELSE IF call[t].model \in Others THEN "other" ELSE "write",
        obj |-> call[t].obj, val |-> call[t].val]

AnswerOf(t) ==
  IF TookEffect(t) THEN [is |-> "answered", res |-> call[t].res]
                   ELSE [is |-> "pending", res |-> NULL]

Abstract == INSTANCE RemoteObjects WITH
  store <- [o \in Object |-> StoreOf(o)],
  request <- [t \in Thread |-> RequestOf(t)],
  answer <- [t \in Thread |-> AnswerOf(t)]

(* Each model reads or writes its object at one point between its call and its *)
(* return, although a write with immediate may be performed after the call has *)
(* returned and the works of several threads are interleaved.                  *)
ImplementsRemoteObjects == Abstract!Spec
===============================================================================
