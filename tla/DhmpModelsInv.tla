----------------------------- MODULE DhmpModelsInv -----------------------------
(***************************************************************************)
(* The inductive invariant of DhmpModels: a process has at most one        *)
(* message under way, which is the one its work thread waits for, and      *)
(* whatever a queue pair carries belongs to its process.                   *)
(***************************************************************************)
EXTENDS DhmpModels

MessageOps == {"REQADDR1", "SEND", "SEND2", "Tailwind_RPC"}
WriteOps == {"WRITE", "WRITE_WITH_IMM"}
Ops == MessageOps \cup WriteOps \cup {"LOG", "FLUSH", "READ", "CAS"}
VerbWorks == {"WRITE", "WRITEIMM", "SEND2", "READ", "CLOVER", "Tailwind"}

Posts ==
  [op : Ops, task : Thread, obj : Object, val : Value, at : Int,
   cmpflag : Thread \cup {NULL}, acked : BOOLEAN]

Answers ==
  [type : MessageOps, task : Thread] \cup [type : {"WriteImm"}, cmpflag : Thread \cup {NULL}]

Calls ==
  [model : Models \cup {"none"}, step : Nat, obj : Object \cup {NULL}, val : Value,
   recv : BOOLEAN, done : BOOLEAN, res : Value \cup {NULL}]

WorkerStates ==
  [pc : {"idle", "verbs", "recv"}, thread : Thread \cup {NULL}, flags : SUBSET {"write", "read"}]

(* The variables keep their types. *)
TypeOK ==
  /\ uses \in Programs
  /\ call \in [Thread -> Calls]
  /\ workList \in [Client -> Seq(Thread)]
  /\ worker \in [Client -> WorkerStates]
  /\ write_flag \subseteq Object
  /\ up \in [Client -> BOOLEAN]
  /\ net \in [Client -> Seq(Posts)] /\ recvq \in [Client -> Seq(Posts)]
  /\ resp \in [Client -> Seq(Answers)]
  /\ tasklist \in [obj : Object \cup {NULL}, client : Client \cup {NULL},
                   cmpflag : Thread \cup {NULL}]
  /\ mem \in [Object -> Value] /\ nvm \in [Line -> Value]
  /\ log \in [Client -> [LogBytes -> 0..Count]]

-------------------------------------------------------------------------------
(* A thread in a call is at one of its works, on an object of its process, and *)
(* the entry of the task list is set once it has passed an address request.    *)
CallInv(t) ==
  /\ call[t].done => call[t].model # "none"
  /\ call[t].model # "none" =>
       /\ call[t].step \in 1..Len(Works[call[t].model])
       /\ call[t].obj \in Object /\ OwnerOf[call[t].obj] = ClientOf[t]
       /\ \A k \in 1..call[t].step :
            /\ k < call[t].step \/ call[t].recv \/ call[t].done
            /\ Works[call[t].model][k] = "REQADDR1"
            => tasklist.client # NULL

(* Thread t waits, not yet served, for the work it has queued. *)
Queued(t) ==
  call[t].model # "none" /\ ~call[t].done /\ ~call[t].recv /\ worker[ClientOf[t]].thread # t

ListInv(c) ==
  /\ \A k \in DOMAIN workList[c] : ClientOf[workList[c][k]] = c /\ Queued(workList[c][k])
  /\ \A j, k \in DOMAIN workList[c] : workList[c][j] = workList[c][k] => j = k

(* The work thread is idle or serves a thread of its process that waits. *)
WorkerInv(c) ==
  IF worker[c].pc = "idle" THEN worker[c] = IdleWorker
  ELSE LET t == worker[c].thread IN
       /\ t \in Thread /\ ClientOf[t] = c
       /\ call[t].model # "none" /\ ~call[t].done
       /\ IF worker[c].pc = "recv" THEN WorkOf(t) \in MessageOps /\ worker[c].flags = {}
          ELSE WorkOf(t) \in VerbWorks /\ ~call[t].recv

(* The work thread of c waits for the message op of thread t. *)
Awaits(c, t, op) ==
  worker[c].pc = "recv" /\ worker[c].thread = t /\ WorkOf(t) = op /\ ~call[t].recv

(* A request r of process c: what it names belongs to c; if it is a message,   *)
(* the work thread waits for it, on behalf of the call it was made from.       *)
Owned(c, r) ==
  /\ OwnerOf[r.obj] = c
  /\ r.cmpflag # NULL => ClientOf[r.cmpflag] = c
  /\ r.op = "WRITE_WITH_IMM" => tasklist.client # NULL
  /\ r.op \in MessageOps =>
       Awaits(c, r.task, r.op) /\ r.obj = call[r.task].obj /\ r.val = call[r.task].val

(* A message is the last of what is posted or received, and there is only one. *)
NetInv(c) ==
  \A k \in DOMAIN net[c] :
    Owned(c, net[c][k]) /\ (net[c][k].op \in MessageOps => k = Len(net[c]))

RecvInv(c) ==
  \A k \in DOMAIN recvq[c] :
    /\ Owned(c, recvq[c][k])
    /\ recvq[c][k].op \in MessageOps => k = Len(recvq[c]) /\ net[c] = <<>>

NoMessage(c) ==
  net[c] = <<>> /\ \A k \in DOMAIN recvq[c] : recvq[c][k].op \notin MessageOps

IsReply(c, k) == resp[c][k].type # "WriteImm"

RespInv(c) ==
  /\ \A k \in DOMAIN resp[c] :
       IF IsReply(c, k)
         THEN /\ Awaits(c, resp[c][k].task, resp[c][k].type) /\ NoMessage(c)
              /\ resp[c][k].type = "REQADDR1" => tasklist.client # NULL
         ELSE resp[c][k].cmpflag # NULL => ClientOf[resp[c][k].cmpflag] = c
  /\ \A j, k \in DOMAIN resp[c] : IsReply(c, j) /\ IsReply(c, k) => j = k
  /\ worker[c].pc = "recv" /\ call[worker[c].thread].recv =>
       NoMessage(c) /\ \A k \in DOMAIN resp[c] : ~IsReply(c, k)

EntryInv ==
  tasklist.client # NULL =>
    /\ tasklist.obj \in Object /\ OwnerOf[tasklist.obj] = tasklist.client
    /\ tasklist.cmpflag # NULL => ClientOf[tasklist.cmpflag] = tasklist.client

-------------------------------------------------------------------------------
(* The last write to o that c has posted and the adapter has yet to perform is *)
(* one of v, or there is none and o holds v.                                   *)
WritesTo(c, o, k) == net[c][k].op \in WriteOps /\ net[c][k].obj = o

Ends(c, o, v) ==
  \/ mem[o] = v /\ \A k \in DOMAIN net[c] : ~WritesTo(c, o, k)
  \/ \E k \in DOMAIN net[c] :
       WritesTo(c, o, k) /\ net[c][k].val = v
         /\ \A j \in DOMAIN net[c] : j > k => ~WritesTo(c, o, j)

(* How far the value of a send or send2 has come when the server handles it,   *)
(* and that it is durable from then on.                                        *)
Sends(c) ==
  worker[c].pc # "idle" /\ WorkOf(worker[c].thread) \in {"SEND", "SEND2"}

Answered(c) ==
  \/ call[worker[c].thread].recv
  \/ \E k \in DOMAIN resp[c] : IsReply(c, k)

SendInv(c) ==
  Sends(c) =>
    LET t == worker[c].thread
        o == call[t].obj
    IN /\ WorkOf(t) = "SEND2" => Ends(c, o, call[t].val)
       /\ Answered(c) => mem[o] = call[t].val /\ nvm[FirstLine[o]] = call[t].val

ProcessInv(c) ==
  ListInv(c) /\ WorkerInv(c) /\ NetInv(c) /\ RecvInv(c) /\ RespInv(c) /\ SendInv(c)

ModelsInv ==
  /\ TypeOK
  /\ EntryInv
  /\ \A t \in Thread : CallInv(t)
  /\ \A c \in Client : ProcessInv(c)

-------------------------------------------------------------------------------
(* How a Tailwind log fills. What is posted or received for an access goes to  *)
(* where the access belongs, and an access is in the log when no such request  *)
(* is left: the completion of the empty READ comes behind its WRITE, and the   *)
(* answer of the server behind its RPC.                                        *)
Tailwind == "model_6_Tailwind"
Accesses == {"LOG", "Tailwind_RPC"}

InPlace(c, r) ==
  /\ r.op \in Accesses => r.at = At(r.task)
  /\ r.op = "LOG" =>
       /\ worker[c].pc = "verbs" /\ worker[c].thread = r.task /\ "read" \in worker[c].flags
       /\ WorkOf(r.task) = "Tailwind"

PostsInPlace(c) ==
  /\ \A k \in DOMAIN net[c] : InPlace(c, net[c][k])
  /\ \A k \in DOMAIN recvq[c] : recvq[c][k].op # "LOG" /\ InPlace(c, recvq[c][k])

(* The access thread t is at has been taken up and performed. *)
Placed(t) ==
  LET c == ClientOf[t] IN
  /\ worker[c].pc # "idle" /\ worker[c].thread = t
  /\ \A k \in DOMAIN net[c] : net[c][k].op \notin Accesses
  /\ \A k \in DOMAIN recvq[c] : recvq[c][k].op \notin Accesses

Written(t) == IF call[t].done \/ Placed(t) THEN call[t].step ELSE call[t].step - 1

Whole(c, k) == \A b \in 0..(Count - 1) : log[c][k * Count + b] = b + 1

LogFills(t) ==
  call[t].model = Tailwind /\ call[t].step < accessnum =>
    \A k \in 0..(Tailwind_log_size - 1) : k < Written(t) => Whole(ClientOf[t], k)

(* A thread calls what its program lists. *)
Listed(t) == call[t].model # "none" => \E v \in Value : <<call[t].model, v>> \in uses[t]

LogInv ==
  /\ \A c \in Client : PostsInPlace(c)
  /\ \A t \in Thread : LogFills(t) /\ Listed(t)

(* One thread of a process at most writes to its log. The log has no lock: the *)
(* closing RPC of a thread would land in the slots of another.                 *)
OneWriter ==
  \A p \in Programs : \A t, u \in Thread : \A v, w \in Value :
    <<Tailwind, v>> \in p[t] /\ <<Tailwind, w>> \in p[u] /\ ClientOf[t] = ClientOf[u]
      => t = u

-------------------------------------------------------------------------------
(* What has yet to take effect is posted for the call that is served: a WRITE  *)
(* that is not acknowledged is the last on its queue pair, a READ stands       *)
(* behind everything, and only model_1_octopus_R brings something back.        *)
Serves(c, r, works) ==
  /\ worker[c].pc = "verbs" /\ worker[c].thread = r.task
  /\ WorkOf(r.task) \in works
  /\ r.obj = call[r.task].obj /\ r.val = call[r.task].val

InOrder(c) ==
  \A k \in DOMAIN net[c] :
    LET r == net[c][k] IN
    /\ r.op \in WriteOps /\ ~r.acked =>
         /\ Serves(c, r, {"WRITE", "WRITEIMM", "SEND2"}) /\ "write" \in worker[c].flags
         /\ \A j \in DOMAIN net[c] : j > k => net[c][j].op \notin WriteOps
    /\ r.op = "READ" =>
         /\ Serves(c, r, {"READ"}) /\ worker[c].flags = {"read"}
         /\ ~r.acked /\ k = Len(net[c])
    /\ r.op = "SEND" => ~r.acked

EffectInv ==
  /\ \A c \in Client : InOrder(c)
  /\ \A t \in Thread : call[t].res # NULL => call[t].model = "model_1_octopus_R"
===============================================================================
