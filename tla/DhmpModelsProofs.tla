--------------------------- MODULE DhmpModelsProofs ---------------------------
(***************************************************************************)
(* Whatever an answer makes a process store through is its own, what send  *)
(* and send2 return from is durable, a Tailwind log that one thread fills  *)
(* can be read, and the models implement RemoteObjects: for any processes  *)
(* and threads, any program of calls, any log.                             *)
(***************************************************************************)
EXTENDS DhmpModelsInv, TLAPS, WellFoundedInduction, NaturalsInduction

WorkNames == MessageOps \cup VerbWorks

(* The models but Tailwind are short. *)
LEMMA ShortWorks ==
  ASSUME NEW m \in Models, m # "model_6_Tailwind"
  PROVE  \/ \E a \in WorkNames : Works[m] = <<a>> /\ a # "WRITEIMM"
         \/ \E a, b \in WorkNames :
              Works[m] = <<a, b>> /\ a # "WRITEIMM" /\ (b = "WRITEIMM" => a = "REQADDR1")
         \/ \E a, b, d \in WorkNames :
              Works[m] = <<a, b, d>> /\ "WRITEIMM" \notin {a, b, d}
<1>1. m \in {"model_A_write", "model_A_writeImm", "model_B_send", "model_D_write",
              "model_D_send", "model_1_octopus", "model_1_octopus_R", "model_1_clover",
              "model_1_clover_R"}
  BY DEF Models, Works
<1>2. /\ Works["model_A_write"] = <<"REQADDR1", "WRITE">>
      /\ Works["model_A_writeImm"] = <<"REQADDR1", "WRITEIMM">>
      /\ Works["model_B_send"] = <<"SEND">>
      /\ Works["model_D_write"] = <<"WRITE">>
      /\ Works["model_D_send"] = <<"SEND2">>
      /\ Works["model_1_octopus"] = <<"REQADDR1", "WRITE", "CLOVER">>
      /\ Works["model_1_octopus_R"] = <<"REQADDR1", "READ">>
      /\ Works["model_1_clover"] = <<"READ", "WRITE", "CLOVER">>
      /\ Works["model_1_clover_R"] = <<"READ">>
  BY DEF Works
<1>3. /\ "REQADDR1" \in WorkNames /\ "SEND" \in WorkNames /\ "SEND2" \in WorkNames
      /\ "WRITE" \in WorkNames /\ "WRITEIMM" \in WorkNames /\ "READ" \in WorkNames
      /\ "CLOVER" \in WorkNames
  BY DEF WorkNames, MessageOps, VerbWorks
<1>4. CASE m \in {"model_B_send", "model_D_write", "model_D_send", "model_1_clover_R"}
  <2>1. \E a \in WorkNames : Works[m] = <<a>> /\ a # "WRITEIMM"
    BY <1>2, <1>3, <1>4
  <2> QED
    BY <2>1
<1>5. CASE m \in {"model_A_write", "model_A_writeImm", "model_1_octopus_R"}
  <2>1. \E a, b \in WorkNames :
          Works[m] = <<a, b>> /\ a # "WRITEIMM" /\ (b = "WRITEIMM" => a = "REQADDR1")
    BY <1>2, <1>3, <1>5
  <2> QED
    BY <2>1
<1>6. CASE m \in {"model_1_octopus", "model_1_clover"}
  <2>1. \E a, b, d \in WorkNames : Works[m] = <<a, b, d>> /\ "WRITEIMM" \notin {a, b, d}
    BY <1>2, <1>3, <1>6
  <2> QED
    BY <2>1
<1> QED
  BY <1>1, <1>4, <1>5, <1>6

LEMMA TailwindWorks ==
  /\ Works["model_6_Tailwind"] \in [1..accessnum -> WorkNames]
  /\ \A k \in 1..accessnum : Works["model_6_Tailwind"][k] # "WRITEIMM"
<1>1. Works["model_6_Tailwind"] = [k \in 1..accessnum |->
                      IF k \in {1, accessnum} THEN "Tailwind_RPC" ELSE "Tailwind"]
  BY DEF Works
<1> QED
  BY <1>1 DEF WorkNames, MessageOps, VerbWorks

(* Every model is a sequence of works. *)
LEMMA WorksType ==
  ASSUME NEW m \in Models
  PROVE  Works[m] \in Seq(WorkNames) /\ Len(Works[m]) \in Nat \ {0}
<1>1. CASE m = "model_6_Tailwind"
  <2>1. accessnum \in Nat /\ Works[m] \in [1..accessnum -> WorkNames]
    BY <1>1, TailwindWorks, ModelsAssumption
  <2> QED
    BY <2>1, ModelsAssumption
<1>2. CASE m # "model_6_Tailwind"
  <2>1. CASE \E a \in WorkNames : Works[m] = <<a>>
    BY <2>1
  <2>2. CASE \E a, b \in WorkNames : Works[m] = <<a, b>>
    BY <2>2
  <2>3. CASE \E a, b, d \in WorkNames : Works[m] = <<a, b, d>>
    BY <2>3
  <2> QED
    BY <1>2, <2>1, <2>2, <2>3, ShortWorks
<1> QED
  BY <1>1, <1>2

(* No model writes with an immediate before it has asked for an entry. *)
LEMMA ImmAfterRequest ==
  ASSUME NEW m \in Models, NEW s \in 1..Len(Works[m]), Works[m][s] = "WRITEIMM"
  PROVE  \E k \in 1..Len(Works[m]) : k < s /\ Works[m][k] = "REQADDR1"
<1>1. CASE m = "model_6_Tailwind"
  <2>1. Len(Works[m]) = accessnum
    BY <1>1, TailwindWorks, ModelsAssumption
  <2> QED
    BY <1>1, <2>1, TailwindWorks
<1>2. CASE m # "model_6_Tailwind"
  BY <1>2, ShortWorks
<1> QED
  BY <1>1, <1>2

-------------------------------------------------------------------------------
(* Types. *)

LEMMA ServedWork ==
  ASSUME ModelsInv, NEW c \in Client, workList[c] # <<>>
  PROVE  LET t == Head(workList[c])
         IN /\ t \in Thread /\ ClientOf[t] = c /\ Queued(t)
            /\ call[t].model \in Models /\ call[t].obj \in Object /\ OwnerOf[call[t].obj] = c
            /\ call[t].step \in 1..Len(Works[call[t].model])
            /\ WorkOf(t) \in WorkNames
<1> DEFINE t == Head(workList[c])
<1>1. workList[c] \in Seq(Thread) /\ 1 \in DOMAIN workList[c] /\ t = workList[c][1]
  BY DEF ModelsInv, TypeOK
<1>2. t \in Thread /\ ClientOf[t] = c /\ Queued(t)
  BY <1>1 DEF ModelsInv, ProcessInv, ListInv
<1>3. call[t].model # "none" /\ call[t] \in Calls
  BY <1>2 DEF Queued, ModelsInv, TypeOK
<1>4. call[t].model \in Models
  BY <1>3 DEF Calls
<1>5. /\ call[t].obj \in Object /\ OwnerOf[call[t].obj] = c
      /\ call[t].step \in 1..Len(Works[call[t].model])
  BY <1>2, <1>3 DEF ModelsInv, CallInv
<1>6. WorkOf(t) \in WorkNames
  BY <1>4, <1>5, WorksType DEF WorkOf
<1> QED
  BY <1>2, <1>4, <1>5, <1>6

LEMMA RequestType ==
  ASSUME TypeOK, NEW t \in Thread, call[t].obj \in Object, NEW op \in Ops
  PROVE  Request(t, op) \in Posts
<1>1. call[t].step \in Nat /\ call[t].val \in Value
  BY DEF TypeOK, Calls
<1>2. (call[t].step - 1) % Tailwind_log_size \in Int
  BY <1>1, ModelsAssumption
<1>3. ((call[t].step - 1) % Tailwind_log_size) * Count \in Int
  BY <1>2, ModelsAssumption
<1>4. At(t) \in Int
  BY <1>2, <1>3 DEF At
<1> QED
  BY <1>1, <1>4 DEF Request, Posts

LEMMA PostType ==
  ASSUME TypeOK, NEW c \in Client, NEW t \in Thread, call[t].obj \in Object,
         NEW ops \in Seq(Ops), Post(c, t, ops)
  PROVE  net' \in [Client -> Seq(Posts)]
<1>1. [k \in DOMAIN ops |-> Request(t, ops[k])] \in Seq(Posts)
  BY RequestType
<1>2. net[c] \o [k \in DOMAIN ops |-> Request(t, ops[k])] \in Seq(Posts)
  BY <1>1 DEF TypeOK
<1> QED
  BY <1>2 DEF Post, TypeOK

LEMMA SubmitTypes ==
  ASSUME TypeOK, NEW t \in Thread, NEW next \in Calls, Submit(t, next), UNCHANGED uses
  PROVE  TypeOK'
<1>1. call' \in [Thread -> Calls]
  BY DEF Submit, TypeOK
<1>2. ClientOf[t] \in Client
  BY ModelsAssumption
<1>3. workList' \in [Client -> Seq(Thread)]
  BY <1>2 DEF Submit, TypeOK
<1> QED
  BY <1>1, <1>3 DEF Submit, TypeOK, queueVars, serverVars

(* A thread calls models with values. *)
LEMMA UseTypes ==
  ASSUME uses \in Programs, NEW t \in Thread, NEW use \in uses[t]
  PROVE  use \in Models \X Value /\ use[1] \in Models /\ use[2] \in Value
<1>1. PICK S : S = Models \X Value
  OBVIOUS
<1>2. uses \in [Thread -> SUBSET S]
  BY <1>1, ModelsAssumption
<1>3. use \in S
  BY <1>2
<1>4. use \in Models \X Value
  BY <1>1, <1>3
<1> QED
  BY <1>4

LEMMA AppThreadTypes ==
  ASSUME ModelsInv, NEW t \in Thread, AppThread(t), UNCHANGED uses
  PROVE  TypeOK'
<1> USE DEF ModelsInv
<1>1. NoCall \in Calls
  BY ModelsAssumption DEF NoCall, Calls
<1>2. ASSUME NEW use \in uses[t], NEW o \in Object, Call(t, use[1], o, use[2])
      PROVE  TypeOK'
  <2>1. use \in Models \X Value
    BY UseTypes DEF ModelsInv, TypeOK
  <2>2. [NoCall EXCEPT !.model = use[1], !.step = 1, !.obj = o, !.val = use[2]] \in Calls
    BY <1>1, <2>1 DEF Calls
  <2> QED
    BY <1>2, <2>2, SubmitTypes DEF Call
<1>3. CASE Continue(t)
  <2>1. call[t] \in Calls
    BY DEF TypeOK
  <2>2. \A r \in Calls, n \in Nat :
          [r EXCEPT !.step = n, !.recv = FALSE, !.done = FALSE] \in Calls
    BY DEF Calls
  <2>3. call[t].step + 1 \in Nat
    BY <2>1 DEF Calls
  <2>4. [call[t] EXCEPT !.step = call[t].step + 1, !.recv = FALSE, !.done = FALSE] \in Calls
    BY <2>1, <2>2, <2>3
  <2> QED
    BY <1>3, <2>4, SubmitTypes DEF Continue
<1>4. CASE Return(t)
  <2>1. call' \in [Thread -> Calls]
    BY <1>1, <1>4 DEF Return, TypeOK
  <2> QED
    BY <1>4, <2>1 DEF Return, TypeOK, queueVars, serverVars
<1> QED
  BY <1>2, <1>3, <1>4 DEF AppThread

LEMMA HandleTypes ==
  ASSUME ModelsInv, NEW c \in Client, NEW work, NEW ops \in Seq(Ops),
         NEW pc \in {"verbs", "recv"}, NEW flags \in SUBSET {"write", "read"},
         Handle(c, work, ops, pc, flags), write_flag' \subseteq Object, UNCHANGED uses
  PROVE  TypeOK'
<1> DEFINE t == Head(workList[c])
<1>1. workList[c] # <<>> /\ workList' = [workList EXCEPT ![c] = Tail(@)]
  BY DEF Handle, Handling
<1>2. t \in Thread /\ call[t].obj \in Object
  BY <1>1, ServedWork
<1>3. workList' \in [Client -> Seq(Thread)]
  BY <1>1 DEF ModelsInv, TypeOK
<1>4. net' \in [Client -> Seq(Posts)]
  BY <1>2, PostType DEF Handle, ModelsInv
<1>5. worker' \in [Client -> WorkerStates]
  BY <1>2 DEF Handle, Spin, ModelsInv, TypeOK, WorkerStates
<1> QED
  BY <1>3, <1>4, <1>5 DEF Handle, serverVars, ModelsInv, TypeOK

LEMMA SetsOfPosts ==
  /\ \A op \in Ops : <<op>> \in Seq(Ops)
  /\ \A o, p \in Ops : <<o, p>> \in Seq(Ops)
  OBVIOUS

LEMMA FinishTypes ==
  ASSUME ModelsInv, NEW c \in Client, FinishWork(c), worker[c].pc # "idle", UNCHANGED uses
  PROVE  TypeOK'
<1> USE DEF ModelsInv
<1>1. worker[c].thread \in Thread
  BY DEF ProcessInv, WorkerInv
<1>2. \A r \in Calls : [r EXCEPT !.done = TRUE] \in Calls
  BY DEF Calls
<1>3. call' \in [Thread -> Calls]
  BY <1>1, <1>2 DEF FinishWork, TypeOK
<1>4. worker' \in [Client -> WorkerStates]
  BY DEF FinishWork, IdleWorker, TypeOK, WorkerStates
<1> QED
  BY <1>3, <1>4 DEF FinishWork, queueVars, serverVars, TypeOK

LEMMA WorkThreadTypes ==
  ASSUME ModelsInv, NEW c \in Client, WorkThread(c), UNCHANGED uses
  PROVE  TypeOK'
<1> USE DEF ModelsInv
<1>1. write_flag \subseteq Object
  BY DEF TypeOK
<1>2. CASE MessageWork(c)
  <2>1. PICK work \in {"REQADDR1", "SEND", "Tailwind_RPC"} : Handle(c, work, <<work>>, "recv", {})
    BY <1>2 DEF MessageWork
  <2>2. <<work>> \in Seq(Ops)
    BY SetsOfPosts DEF Ops, MessageOps
  <2> QED
    BY <1>1, <1>2, <2>1, <2>2, HandleTypes DEF MessageWork
<1>3. ASSUME RaiseFlag(c), workList[c] # <<>>
      PROVE  write_flag' \subseteq Object
  BY <1>1, <1>3, ServedWork DEF RaiseFlag
<1>4. CASE WriteWork(c)
  <2>1. <<"WRITE", "FLUSH">> \in Seq(Ops)
    BY SetsOfPosts DEF Ops, WriteOps
  <2>2. workList[c] # <<>>
    BY <1>4 DEF WriteWork, Handle, Handling
  <2> QED
    BY <1>3, <1>4, <2>1, <2>2, HandleTypes DEF WriteWork
<1>5. CASE BareWriteWork(c)
  <2>1. <<"WRITE">> \in Seq(Ops) /\ <<"WRITE_WITH_IMM">> \in Seq(Ops)
    BY SetsOfPosts DEF Ops, WriteOps
  <2>2. workList[c] # <<>>
    BY <1>5 DEF BareWriteWork, Handle, Handling
  <2>3. write_flag' \subseteq Object
    BY <1>3, <1>5, <2>2 DEF BareWriteWork
  <2> QED
    BY <1>5, <2>1, <2>3, HandleTypes DEF BareWriteWork
<1>6. CASE Send2Work(c)
  <2>1. worker[c].pc # "idle"
    BY <1>6 DEF Send2Work, VerbsDone
  <2>2. worker[c].thread \in Thread /\ call[worker[c].thread].obj \in Object
    BY <2>1 DEF ProcessInv, WorkerInv, CallInv
  <2>3. <<"SEND2">> \in Seq(Ops)
    BY SetsOfPosts DEF Ops, MessageOps
  <2>4. net' \in [Client -> Seq(Posts)]
    BY <1>6, <2>2, <2>3, PostType DEF Send2Work
  <2>5. worker' \in [Client -> WorkerStates]
    <3>1. worker \in [Client -> WorkerStates] /\ worker[c] \in WorkerStates
      BY DEF TypeOK
    <3>2. [worker[c] EXCEPT !.pc = "recv"] \in WorkerStates
      BY <3>1 DEF WorkerStates
    <3>3. worker' = [worker EXCEPT ![c] = [worker[c] EXCEPT !.pc = "recv"]]
      BY <1>6 DEF Send2Work
    <3> HIDE DEF ModelsInv
    <3> QED
      BY <3>1, <3>2, <3>3
  <2> QED
    BY <1>6, <2>4, <2>5 DEF Send2Work, threadVars, serverVars, TypeOK
<1>7. CASE ReadWork(c) \/ CloverWork(c) \/ TailwindWork(c)
  <2>1. <<"READ">> \in Seq(Ops) /\ <<"CAS">> \in Seq(Ops) /\ <<"LOG", "FLUSH">> \in Seq(Ops)
    BY SetsOfPosts DEF Ops
  <2>2. write_flag' \subseteq Object
    BY <1>1, <1>7 DEF ReadWork, CloverWork, TailwindWork
  <2>3. CASE ReadWork(c)
    BY <2>1, <2>2, <2>3, HandleTypes DEF ReadWork
  <2>4. CASE CloverWork(c)
    BY <2>1, <2>2, <2>4, HandleTypes DEF CloverWork
  <2>5. CASE TailwindWork(c)
    BY <2>1, <2>2, <2>5, HandleTypes DEF TailwindWork
  <2> QED
    BY <1>7, <2>3, <2>4, <2>5
<1>8. CASE Finish(c)
  BY <1>8, FinishTypes DEF Finish, VerbsDone
<1> QED
  BY <1>2, <1>4, <1>5, <1>6, <1>7, <1>8 DEF WorkThread

LEMMA HeadOfSeq ==
  ASSUME NEW S, NEW s \in Seq(S), s # <<>>
  PROVE  Head(s) \in S /\ Tail(s) \in Seq(S) /\ Head(s) = s[1] /\ 1 \in DOMAIN s
  OBVIOUS

LEMMA LoggedType ==
  ASSUME NEW old \in [LogBytes -> 0..Count], NEW at \in Int
  PROVE  Logged(old, at) \in [LogBytes -> 0..Count]
<1>1. ASSUME NEW b \in LogBytes, b \in at..(at + Count - 1)
      PROVE  b - at + 1 \in 0..Count
  BY <1>1, ModelsAssumption DEF LogBytes
<1> QED
  BY <1>1 DEF Logged

LEMMA AdapterTypes ==
  ASSUME ModelsInv, NEW c \in Client, Adapter(c), UNCHANGED uses
  PROVE  TypeOK'
<1> USE DEF ModelsInv
<1> DEFINE r == Head(net[c])
<1>1. net[c] # <<>> /\ net' = [net EXCEPT ![c] = Tail(@)]
  BY DEF Adapter, PerformWrite, PerformLog, PerformRead, Deliver, Posted
<1>2. net \in [Client -> Seq(Posts)] /\ recvq \in [Client -> Seq(Posts)]
  BY DEF TypeOK
<1>3. r \in Posts /\ Tail(net[c]) \in Seq(Posts)
  BY <1>1, <1>2, HeadOfSeq
<1>4. net' \in [Client -> Seq(Posts)]
  BY <1>1, <1>2, <1>3
<1>5. Append(recvq[c], r) \in Seq(Posts)
  BY <1>2, <1>3
<1>6. Receive(c) => recvq' \in [Client -> Seq(Posts)]
  BY <1>2, <1>5 DEF Receive
<1>7. r.obj \in Object /\ r.val \in Value /\ r.task \in Thread /\ r.at \in Int
  BY <1>3 DEF Posts
<1>8. CASE PerformWrite(c)
  <2>1. recvq' \in [Client -> Seq(Posts)]
    BY <1>2, <1>6, <1>8 DEF PerformWrite
  <2>2. mem' \in [Object -> Value]
    BY <1>7, <1>8 DEF PerformWrite, TypeOK
  <2> QED
    BY <1>4, <1>8, <2>1, <2>2 DEF PerformWrite, clientVars, TypeOK
<1>9. CASE PerformLog(c)
  <2>1. log' \in [Client -> [LogBytes -> 0..Count]]
    BY <1>7, <1>9, LoggedType DEF PerformLog, TypeOK
  <2> QED
    BY <1>4, <1>9, <2>1 DEF PerformLog, clientVars, TypeOK
<1>10. CASE PerformRead(c)
  <2>1. mem[r.obj] \in Value /\ call[r.task] \in Calls
    BY <1>7 DEF TypeOK
  <2>2. \A k \in Calls, v \in Value : [k EXCEPT !.res = v] \in Calls
    BY DEF Calls
  <2>3. call' \in [Thread -> Calls]
    BY <1>7, <1>10, <2>1, <2>2 DEF PerformRead, TypeOK
  <2> QED
    BY <1>4, <1>10, <2>3 DEF PerformRead, serverVars, TypeOK
<1>11. CASE Deliver(c)
  BY <1>4, <1>6, <1>11 DEF Deliver, clientVars, serverVars, TypeOK
<1> QED
  BY <1>8, <1>9, <1>10, <1>11 DEF Adapter

LEMMA ClientEpollTypes ==
  ASSUME ModelsInv, NEW c \in Client, ClientEpoll(c), UNCHANGED uses
  PROVE  TypeOK'
<1> USE DEF ModelsInv
<1>1. CASE CompleteWrite(c)
  <2>1. \A r \in Posts : [r EXCEPT !.acked = TRUE] \in Posts
    BY DEF Posts
  <2>2. \A s \in Seq(Posts) : [k \in DOMAIN s |-> [s[k] EXCEPT !.acked = TRUE]] \in Seq(Posts)
    BY <2>1
  <2>3. net' \in [Client -> Seq(Posts)]
    BY <1>1, <2>2 DEF CompleteWrite, TypeOK
  <2>4. worker' \in [Client -> WorkerStates]
    <3>1. \A w \in WorkerStates : [w EXCEPT !.flags = w.flags \ {"write"}] \in WorkerStates
      BY DEF WorkerStates
    <3> QED
      BY <1>1, <3>1 DEF CompleteWrite, TypeOK
  <2>5. write_flag' \subseteq Object
    BY <1>1 DEF CompleteWrite, LowerFlag, TypeOK
  <2> QED
    BY <1>1, <2>3, <2>4, <2>5 DEF CompleteWrite, threadVars, serverVars, TypeOK
<1>2. CASE CompleteRead(c)
  <2>1. worker' \in [Client -> WorkerStates]
    <3>1. \A w \in WorkerStates : [w EXCEPT !.flags = {}] \in WorkerStates
      BY DEF WorkerStates
    <3> QED
      BY <1>2, <3>1 DEF CompleteRead, TypeOK
  <2> QED
    BY <1>2, <2>1 DEF CompleteRead, threadVars, queueVars, serverVars, TypeOK
<1>3. CASE OnResponse(c)
  <2>1. resp[c] \in Seq(Answers) /\ resp[c] # <<>>
    BY <1>3 DEF OnResponse, TypeOK
  <2>2. Head(resp[c]) \in Answers /\ Tail(resp[c]) \in Seq(Answers)
    BY <2>1, HeadOfSeq
  <2>3. resp' \in [Client -> Seq(Answers)]
    BY <1>3, <2>2 DEF OnResponse, TypeOK
  <2>4. up' \in [Client -> BOOLEAN]
    BY <1>3 DEF OnResponse, TypeOK
  <2>5. \A k \in Calls : [k EXCEPT !.recv = TRUE] \in Calls
    BY DEF Calls
  <2>6. call' \in [Thread -> Calls]
    <3>1. Head(resp[c]).type # "WriteImm" => Head(resp[c]).task \in Thread
      BY <2>2 DEF Answers
    <3>2. call \in [Thread -> Calls]
      BY DEF TypeOK
    <3>3. \/ call' = call
          \/ /\ Head(resp[c]).type # "WriteImm"
             /\ call' = [call EXCEPT ![Head(resp[c]).task].recv = TRUE]
      BY <1>3 DEF OnResponse
    <3> QED
      BY <2>5, <3>1, <3>2, <3>3
  <2> QED
    BY <1>3, <2>3, <2>4, <2>6 DEF OnResponse, serverVars, TypeOK
<1> QED
  BY <1>1, <1>2, <1>3 DEF ClientEpoll

LEMMA ReceivedPost ==
  ASSUME ModelsInv, NEW c \in Client, recvq[c] # <<>>
  PROVE  /\ Head(recvq[c]) \in Posts /\ Head(recvq[c]) = recvq[c][1] /\ 1 \in DOMAIN recvq[c]
         /\ Owned(c, Head(recvq[c]))
         /\ Head(recvq[c]).obj \in Object /\ Head(recvq[c]).val \in Value
         /\ Head(recvq[c]).task \in Thread /\ Head(recvq[c]).at \in Int
         /\ Head(recvq[c]).cmpflag \in Thread \cup {NULL}
<1>1. recvq[c] \in Seq(Posts)
  BY DEF ModelsInv, TypeOK
<1>2. Head(recvq[c]) \in Posts /\ Head(recvq[c]) = recvq[c][1] /\ 1 \in DOMAIN recvq[c]
  BY <1>1, HeadOfSeq
<1>3. Owned(c, recvq[c][1])
  BY <1>2 DEF ModelsInv, ProcessInv, RecvInv
<1>4. /\ Head(recvq[c]).obj \in Object /\ Head(recvq[c]).val \in Value
      /\ Head(recvq[c]).task \in Thread /\ Head(recvq[c]).at \in Int
      /\ Head(recvq[c]).cmpflag \in Thread \cup {NULL}
  BY <1>2 DEF Posts
<1> QED
  BY <1>2, <1>3, <1>4

LEMMA RespondTypes ==
  ASSUME ModelsInv, NEW d, NEW answer \in Answers, Respond(d, answer)
  PROVE  resp' \in [Client -> Seq(Answers)]
<1>1. resp \in [Client -> Seq(Answers)] /\ resp' = [resp EXCEPT ![d] = Append(@, answer)]
  BY DEF Respond, ModelsInv, TypeOK
<1>2. CASE d \in Client
  <2>1. Append(resp[d], answer) \in Seq(Answers)
    BY <1>1, <1>2
  <2> QED
    BY <1>1, <2>1
<1>3. CASE d \notin Client
  BY <1>1, <1>3
<1> QED
  BY <1>2, <1>3

LEMMA ServerEpollTypes ==
  ASSUME ModelsInv, NEW c \in Client, ServerEpoll(c), UNCHANGED uses
  PROVE  TypeOK'
<1> DEFINE r == Head(recvq[c])
<1>1. recvq[c] # <<>> /\ recvq' = [recvq EXCEPT ![c] = Tail(@)]
  BY DEF ServerEpoll, OnReqAddr1, OnWriteImm, OnSend, OnSend2, OnTailwindRPC, Received, Consume
<1>2. recvq' \in [Client -> Seq(Posts)]
  BY <1>1, HeadOfSeq DEF ModelsInv, TypeOK
<1>3. /\ r.obj \in Object /\ r.val \in Value /\ r.task \in Thread /\ r.at \in Int
      /\ r.cmpflag \in Thread \cup {NULL}
  BY <1>1, ReceivedPost
<1>4. ASSUME r.op \in MessageOps, Respond(c, ResponseTo(c))
      PROVE  resp' \in [Client -> Seq(Answers)]
  <2>1. ResponseTo(c) \in Answers
    BY <1>3, <1>4 DEF ResponseTo, Answers
  <2> QED
    BY <1>4, <2>1, RespondTypes
<1>5. CASE OnReqAddr1(c)
  <2>1. resp' \in [Client -> Seq(Answers)]
    BY <1>4, <1>5 DEF OnReqAddr1, Received, MessageOps
  <2>2. tasklist' \in [obj : Object \cup {NULL}, client : Client \cup {NULL},
                       cmpflag : Thread \cup {NULL}]
    BY <1>3, <1>5 DEF OnReqAddr1
  <2> QED
    BY <1>2, <1>5, <2>1, <2>2 DEF OnReqAddr1, clientVars, ModelsInv, TypeOK
<1>6. CASE OnWriteImm(c)
  <2>1. tasklist.cmpflag \in Thread \cup {NULL}
    BY DEF ModelsInv, TypeOK
  <2>2. [type |-> "WriteImm", cmpflag |-> tasklist.cmpflag] \in Answers
    BY <2>1 DEF Answers
  <2>3. resp' \in [Client -> Seq(Answers)]
    BY <1>6, <2>2, RespondTypes DEF OnWriteImm
  <2>4. nvm' \in [Line -> Value]
    <3>1. Owned(c, r) /\ r.op = "WRITE_WITH_IMM"
      BY <1>6, ReceivedPost DEF OnWriteImm, Received
    <3>2. tasklist.obj \in Object
      BY <3>1 DEF Owned, ModelsInv, EntryInv
    <3> QED
      BY <1>6, <3>2, ModelsAssumption DEF OnWriteImm, Flush, ModelsInv, TypeOK
  <2> QED
    BY <1>2, <1>6, <2>3, <2>4 DEF OnWriteImm, clientVars, ModelsInv, TypeOK
<1>7. CASE OnSend(c)
  <2>1. resp' \in [Client -> Seq(Answers)]
    BY <1>4, <1>7 DEF OnSend, Received, MessageOps
  <2>2. mem' \in [Object -> Value] /\ nvm' \in [Line -> Value]
    BY <1>3, <1>7 DEF OnSend, Flush, ModelsInv, TypeOK
  <2> QED
    BY <1>2, <1>7, <2>1, <2>2 DEF OnSend, clientVars, ModelsInv, TypeOK
<1>8. CASE OnSend2(c)
  <2>1. resp' \in [Client -> Seq(Answers)]
    BY <1>4, <1>8 DEF OnSend2, Received, MessageOps
  <2>2. nvm' \in [Line -> Value]
    BY <1>3, <1>8 DEF OnSend2, Flush, ModelsInv, TypeOK
  <2> QED
    BY <1>2, <1>8, <2>1, <2>2 DEF OnSend2, clientVars, ModelsInv, TypeOK
<1>9. CASE OnTailwindRPC(c)
  <2>1. resp' \in [Client -> Seq(Answers)]
    BY <1>4, <1>9 DEF OnTailwindRPC, Received, MessageOps
  <2>2. log' \in [Client -> [LogBytes -> 0..Count]]
    BY <1>3, <1>9, LoggedType DEF OnTailwindRPC, ModelsInv, TypeOK
  <2> QED
    BY <1>2, <1>9, <2>1, <2>2 DEF OnTailwindRPC, clientVars, ModelsInv, TypeOK
<1> QED
  BY <1>5, <1>6, <1>7, <1>8, <1>9 DEF ServerEpoll

LEMMA NextTypes ==
  ASSUME ModelsInv, Next
  PROVE  TypeOK'
<1>1. ASSUME NEW l \in Line, Evict(l), UNCHANGED uses
      PROVE  TypeOK'
  BY <1>1, ModelsAssumption DEF Evict, clientVars, queueVars, ModelsInv, TypeOK
<1> QED
  BY <1>1, AppThreadTypes, WorkThreadTypes, AdapterTypes, ClientEpollTypes, ServerEpollTypes
     DEF Next

-------------------------------------------------------------------------------
(* What a step that does not touch a part of process d leaves of its invariant. *)

SameCall(t) ==
  /\ call'[t].model = call[t].model /\ call'[t].step = call[t].step
  /\ call'[t].obj = call[t].obj /\ call'[t].val = call[t].val
  /\ call'[t].recv = call[t].recv /\ call'[t].done = call[t].done

SameCalls(d) == \A t \in Thread : ClientOf[t] = d => SameCall(t)

ServedSame(d) == worker[d].pc # "idle" => SameCall(worker[d].thread)

EntryStays == tasklist.client # NULL => tasklist'.client # NULL

LEMMA SameWork ==
  ASSUME NEW t, SameCall(t)
  PROVE  WorkOf(t)' = WorkOf(t)
  BY DEF SameCall, WorkOf

LEMMA CallFrame ==
  ASSUME NEW t \in Thread, CallInv(t), SameCall(t), EntryStays
  PROVE  CallInv(t)'
  BY DEF CallInv, SameCall, EntryStays

LEMMA ListFrame ==
  ASSUME ModelsInv, NEW d \in Client, workList'[d] = workList[d],
         worker'[d].thread = worker[d].thread, SameCalls(d)
  PROVE  ListInv(d)'
<1>1. workList[d] \in Seq(Thread) /\ ListInv(d)
  BY DEF ModelsInv, ProcessInv, TypeOK
<1>2. ASSUME NEW k \in DOMAIN workList[d]
      PROVE  ClientOf[workList[d][k]] = d /\ Queued(workList[d][k])'
  BY <1>1 DEF ListInv, Queued, SameCalls, SameCall
<1> QED
  BY <1>1, <1>2 DEF ListInv

LEMMA WorkerFrame ==
  ASSUME ModelsInv, NEW d \in Client, worker'[d] = worker[d], ServedSame(d)
  PROVE  WorkerInv(d)'
<1>1. WorkerInv(d)
  BY DEF ModelsInv, ProcessInv
<1>2. CASE worker[d].pc = "idle"
  BY <1>1, <1>2 DEF WorkerInv, IdleWorker
<1>3. CASE worker[d].pc # "idle"
  <2> DEFINE t == worker[d].thread
  <2>1. t \in Thread /\ SameCall(t) /\ WorkOf(t)' = Works[call'[t].model][call'[t].step]
    BY <1>1, <1>3 DEF WorkerInv, ServedSame, WorkOf
  <2> QED
    BY <1>1, <1>3, <2>1 DEF WorkerInv, SameCall, WorkOf
<1> QED
  BY <1>2, <1>3

LEMMA AwaitsFrame ==
  ASSUME ModelsInv, NEW d \in Client, worker'[d] = worker[d], ServedSame(d),
         NEW t \in Thread, NEW op, Awaits(d, t, op)
  PROVE  Awaits(d, t, op)' /\ SameCall(t)
<1>1. WorkerInv(d) /\ worker[d].pc = "recv" /\ worker[d].thread = t
  BY DEF Awaits, ModelsInv, ProcessInv
<1>2. ClientOf[t] = d
  BY <1>1 DEF WorkerInv
<1> QED
  BY <1>2 DEF Awaits, ServedSame, SameCall, WorkOf

LEMMA OwnedFrame ==
  ASSUME ModelsInv, NEW d \in Client, worker'[d] = worker[d], ServedSame(d), EntryStays,
         NEW r \in Posts, Owned(d, r)
  PROVE  Owned(d, r)'
<1>1. r.task \in Thread
  BY DEF Posts
<1>2. r.op \in MessageOps => Awaits(d, r.task, r.op)' /\ SameCall(r.task)
  BY <1>1, AwaitsFrame DEF Owned
<1> QED
  BY <1>2 DEF Owned, EntryStays, SameCall

LEMMA NetFrame ==
  ASSUME ModelsInv, NEW d \in Client, worker'[d] = worker[d], ServedSame(d), EntryStays,
         net'[d] = net[d]
  PROVE  NetInv(d)'
<1>1. net[d] \in Seq(Posts) /\ NetInv(d)
  BY DEF ModelsInv, ProcessInv, TypeOK
<1>2. ASSUME NEW k \in DOMAIN net[d]
      PROVE  net[d][k] \in Posts /\ Owned(d, net[d][k])'
  <2>1. net[d][k] \in Posts /\ Owned(d, net[d][k])
    BY <1>1 DEF NetInv
  <2> QED
    BY <2>1, OwnedFrame
<1> QED
  BY <1>1, <1>2 DEF NetInv, Owned, Awaits, WorkOf

LEMMA RecvFrame ==
  ASSUME ModelsInv, NEW d \in Client, worker'[d] = worker[d], ServedSame(d), EntryStays,
         net'[d] = net[d], recvq'[d] = recvq[d]
  PROVE  RecvInv(d)'
<1>1. recvq[d] \in Seq(Posts) /\ RecvInv(d)
  BY DEF ModelsInv, ProcessInv, TypeOK
<1>2. ASSUME NEW k \in DOMAIN recvq[d]
      PROVE  recvq[d][k] \in Posts /\ Owned(d, recvq[d][k])'
  <2>1. recvq[d][k] \in Posts /\ Owned(d, recvq[d][k])
    BY <1>1 DEF RecvInv
  <2> QED
    BY <2>1, OwnedFrame
<1> QED
  BY <1>1, <1>2 DEF RecvInv, Owned, Awaits, WorkOf

AwaitsNext(d, t, op) ==
  /\ worker'[d].pc = "recv" /\ worker'[d].thread = t
  /\ Works[call'[t].model][call'[t].step] = op /\ ~call'[t].recv

(* An answer to an immediate may come in meanwhile. *)
RespGrows(d) ==
  \/ resp'[d] = resp[d]
  \/ \E a \in Answers : /\ a.type = "WriteImm" /\ (a.cmpflag # NULL => ClientOf[a.cmpflag] = d)
                        /\ resp'[d] = Append(resp[d], a)

LEMMA RepliesFrame ==
  ASSUME ModelsInv, NEW d \in Client, RespGrows(d)
  PROVE  /\ \A k \in DOMAIN resp'[d] :
              IsReply(d, k)' => k \in DOMAIN resp[d] /\ IsReply(d, k) /\ resp'[d][k] = resp[d][k]
         /\ \A k \in DOMAIN resp'[d] :
              ~IsReply(d, k)' /\ resp'[d][k].cmpflag # NULL => ClientOf[resp'[d][k].cmpflag] = d
<1>1. resp[d] \in Seq(Answers) /\ RespInv(d)
  BY DEF ModelsInv, ProcessInv, TypeOK
<1>2. CASE resp'[d] = resp[d]
  BY <1>1, <1>2 DEF IsReply, RespInv
<1>3. ASSUME NEW a \in Answers, a.type = "WriteImm", a.cmpflag # NULL => ClientOf[a.cmpflag] = d,
             resp'[d] = Append(resp[d], a)
      PROVE  \A k \in DOMAIN resp'[d] :
               \/ k \in DOMAIN resp[d] /\ resp'[d][k] = resp[d][k]
               \/ resp'[d][k] = a
  BY <1>1, <1>3
<1>4. CASE resp'[d] # resp[d]
  <2>1. PICK a \in Answers : /\ a.type = "WriteImm" /\ (a.cmpflag # NULL => ClientOf[a.cmpflag] = d)
                             /\ resp'[d] = Append(resp[d], a)
    BY <1>4 DEF RespGrows
  <2>2. \A k \in DOMAIN resp'[d] :
          \/ k \in DOMAIN resp[d] /\ resp'[d][k] = resp[d][k]
          \/ resp'[d][k] = a
    BY <1>3, <2>1
  <2> QED
    BY <1>1, <2>1, <2>2 DEF IsReply, RespInv
<1> QED
  BY <1>2, <1>4

LEMMA RespFrame ==
  ASSUME ModelsInv, NEW d \in Client, worker'[d] = worker[d], ServedSame(d), EntryStays,
         NoMessage(d) => NoMessage(d)', RespGrows(d)
  PROVE  RespInv(d)'
<1>1. resp[d] \in Seq(Answers) /\ RespInv(d)
  BY DEF ModelsInv, ProcessInv, TypeOK
<1>2. ASSUME NEW k \in DOMAIN resp'[d], IsReply(d, k)'
      PROVE  /\ AwaitsNext(d, resp'[d][k].task, resp'[d][k].type) /\ NoMessage(d)'
             /\ resp'[d][k].type = "REQADDR1" => tasklist'.client # NULL
  <2>1. k \in DOMAIN resp[d] /\ IsReply(d, k) /\ resp'[d][k] = resp[d][k]
    BY <1>2, RepliesFrame
  <2>2. resp[d][k] \in Answers /\ Awaits(d, resp[d][k].task, resp[d][k].type) /\ NoMessage(d)
    BY <1>1, <2>1 DEF RespInv
  <2>3. resp[d][k].task \in Thread
    BY <2>1, <2>2 DEF Answers, IsReply
  <2>4. \A t \in Thread : \A op : Awaits(d, t, op) => AwaitsNext(d, t, op)
    BY AwaitsFrame DEF Awaits, AwaitsNext, WorkOf
  <2>5. resp[d][k].type = "REQADDR1" => tasklist'.client # NULL
    BY <1>1, <2>1 DEF RespInv, EntryStays
  <2> QED
    BY <2>1, <2>2, <2>3, <2>4, <2>5
<1>3. \A j, k \in DOMAIN resp'[d] : IsReply(d, j)' /\ IsReply(d, k)' => j = k
  BY <1>1, RepliesFrame DEF RespInv
<1>4. ASSUME worker'[d].pc = "recv", call'[worker'[d].thread].recv
      PROVE  NoMessage(d)' /\ \A k \in DOMAIN resp'[d] : ~IsReply(d, k)'
  <2>1. call[worker[d].thread].recv
    BY <1>4 DEF ModelsInv, ProcessInv, WorkerInv, ServedSame, SameCall
  <2>2. NoMessage(d) /\ \A k \in DOMAIN resp[d] : ~IsReply(d, k)
    BY <1>1, <1>4, <2>1 DEF RespInv
  <2> QED
    BY <2>2, RepliesFrame
<1>5. \A k \in DOMAIN resp'[d] :
        ~IsReply(d, k)' /\ resp'[d][k].cmpflag # NULL => ClientOf[resp'[d][k].cmpflag] = d
  BY RepliesFrame
<1> QED
  BY <1>2, <1>3, <1>4, <1>5 DEF RespInv, IsReply, Awaits, AwaitsNext, WorkOf

(* The first lines of two objects are two lines. *)
LEMMA FirstLines ==
  \A o \in Object :
    /\ FirstLine[o] \in Line /\ ObjectOf[FirstLine[o]] = o
    /\ \A p \in Object : FirstLine[o] = FirstLine[p] => o = p
BY ModelsAssumption

LEMMA SendFrame ==
  ASSUME ModelsInv, NEW d \in Client, worker'[d] = worker[d], ServedSame(d), RespGrows(d),
         net'[d] = net[d],
         \A o \in Object : OwnerOf[o] = d =>
           mem'[o] = mem[o] /\ nvm'[FirstLine[o]] \in {nvm[FirstLine[o]], mem[o]}
  PROVE  SendInv(d)'
<1> DEFINE t == worker[d].thread
           o == call[t].obj
<1>1. SUFFICES ASSUME Sends(d)'
      PROVE  SendInv(d)'
  BY DEF SendInv, Sends, WorkOf
<1>2. worker[d].pc # "idle" /\ t \in Thread /\ SameCall(t) /\ OwnerOf[o] = d /\ o \in Object
  BY <1>1 DEF Sends, ModelsInv, ProcessInv, WorkerInv, ServedSame, CallInv
<1>3. Sends(d) /\ SendInv(d)
  BY <1>1, <1>2 DEF Sends, ModelsInv, ProcessInv, SameCall, WorkOf
<1>4. Answered(d)' => Answered(d)
  BY <1>2, RepliesFrame DEF Answered, SameCall, IsReply
<1>5. ASSUME NEW p \in Object, OwnerOf[p] = d, NEW v, Ends(d, p, v)
      PROVE  Ends(d, p, v)'
  BY <1>5 DEF Ends, WritesTo
<1>6. WorkOf(t) = "SEND2" => Ends(d, o, call[t].val)'
  BY <1>2, <1>3, <1>5 DEF SendInv, SameCall
<1> QED
  BY <1>2, <1>3, <1>4, <1>6 DEF SendInv, Sends, SameCall, WorkOf

LEMMA SameServed ==
  ASSUME ModelsInv, NEW d \in Client, SameCalls(d)
  PROVE  ServedSame(d)
  BY DEF ModelsInv, ProcessInv, WorkerInv, SameCalls, ServedSame

(* A step that touches nothing of process d but the answers to its immediates. *)
LEMMA OtherProcess ==
  ASSUME ModelsInv, NEW d \in Client, SameCalls(d), RespGrows(d), EntryStays,
         worker'[d] = worker[d], workList'[d] = workList[d],
         net'[d] = net[d], recvq'[d] = recvq[d],
         \A o \in Object : OwnerOf[o] = d =>
           mem'[o] = mem[o] /\ nvm'[FirstLine[o]] \in {nvm[FirstLine[o]], mem[o]}
  PROVE  ProcessInv(d)'
<1>1. ServedSame(d)
  BY SameServed
<1>2. NoMessage(d) => NoMessage(d)'
  BY DEF NoMessage
<1>3. ListInv(d)' /\ WorkerInv(d)'
  BY <1>1, ListFrame, WorkerFrame
<1>4. NetInv(d)' /\ RecvInv(d)'
  BY <1>1, NetFrame, RecvFrame
<1>5. RespInv(d)' /\ SendInv(d)'
  BY <1>1, <1>2, RespFrame, SendFrame
<1> QED
  BY <1>3, <1>4, <1>5 DEF ProcessInv

-------------------------------------------------------------------------------
(* The application threads. *)

(* A thread that is not in a call, or whose work is done, is not queued. *)
LEMMA NotQueued ==
  ASSUME ModelsInv, NEW t \in Thread, call[t].model = "none" \/ call[t].done
  PROVE  /\ \A c \in Client : worker[c].thread # t
         /\ \A c \in Client : \A k \in DOMAIN workList[c] : workList[c][k] # t
<1>1. ASSUME NEW c \in Client
      PROVE  worker[c].thread # t
  <2>1. WorkerInv(c)
    BY DEF ModelsInv, ProcessInv
  <2> QED
    BY <2>1, ModelsAssumption DEF WorkerInv, IdleWorker
<1>2. ASSUME NEW c \in Client, NEW k \in DOMAIN workList[c]
      PROVE  workList[c][k] # t
  BY DEF ModelsInv, ProcessInv, ListInv, Queued
<1> QED
  BY <1>1, <1>2

LEMMA CallChanges ==
  ASSUME ModelsInv, NEW t \in Thread, call[t].model = "none" \/ call[t].done,
         NEW next \in Calls, call' = [call EXCEPT ![t] = next],
         UNCHANGED <<worker, net, recvq, resp, tasklist, mem, nvm>>
  PROVE  /\ \A u \in Thread : u # t => SameCall(u) /\ CallInv(u)'
         /\ \A c \in Client : /\ c # ClientOf[t] => SameCalls(c)
                              /\ WorkerInv(c)' /\ NetInv(c)' /\ RecvInv(c)'
                              /\ RespInv(c)' /\ SendInv(c)'
<1>1. call \in [Thread -> Calls]
  BY DEF ModelsInv, TypeOK
<1>2. \A u \in Thread : u # t => SameCall(u)
  BY <1>1 DEF SameCall
<1>3. \A u \in Thread : u # t => CallInv(u)'
  BY <1>2, CallFrame DEF ModelsInv, EntryStays
<1>4. ASSUME NEW c \in Client
      PROVE  /\ c # ClientOf[t] => SameCalls(c)
             /\ WorkerInv(c)' /\ NetInv(c)' /\ RecvInv(c)' /\ RespInv(c)' /\ SendInv(c)'
  <2>1. worker[c].pc # "idle" => worker[c].thread \in Thread
    BY DEF ModelsInv, ProcessInv, WorkerInv
  <2>2. ServedSame(c) /\ EntryStays /\ RespGrows(c)
    BY <1>2, <2>1, NotQueued DEF ServedSame, EntryStays, RespGrows
  <2>3. NoMessage(c) => NoMessage(c)'
    BY DEF NoMessage
  <2>4. c # ClientOf[t] => SameCalls(c)
    BY <1>2 DEF SameCalls
  <2> QED
    BY <2>2, <2>3, <2>4, WorkerFrame, NetFrame, RecvFrame, RespFrame, SendFrame
<1> QED
  BY <1>2, <1>3, <1>4

LEMMA SubmitKeeps ==
  ASSUME ModelsInv, NEW t \in Thread, call[t].model = "none" \/ call[t].done,
         NEW next \in Calls, next.model # "none", ~next.recv, ~next.done,
         Submit(t, next)
  PROVE  /\ \A u \in Thread : u # t => CallInv(u)'
         /\ \A c \in Client : ProcessInv(c)'
<1>1. /\ call' = [call EXCEPT ![t] = next]
      /\ UNCHANGED <<worker, net, recvq, resp, tasklist, mem, nvm>>
      /\ workList' = [workList EXCEPT ![ClientOf[t]] = Append(@, t)]
  BY DEF Submit, queueVars, serverVars
<1>2. ASSUME NEW c \in Client
      PROVE  ListInv(c)'
  <2>1. CASE c # ClientOf[t]
    <3>1. workList'[c] = workList[c] /\ SameCalls(c)
      BY <1>1, <2>1, CallChanges DEF ModelsInv, TypeOK
    <3> QED
      BY <1>1, <3>1, ListFrame
  <2>2. CASE c = ClientOf[t]
    <3>1. /\ workList[c] \in Seq(Thread) /\ ListInv(c)
          /\ workList'[c] = Append(workList[c], t)
      BY <1>1, <2>2 DEF ModelsInv, ProcessInv, TypeOK
    <3>2. call'[t] = next /\ \A u \in Thread : u # t => SameCall(u)
      BY <1>1, CallChanges DEF ModelsInv, TypeOK
    <3>3. ASSUME NEW u \in Thread, Queued(u), u # t, ClientOf[u] = c
          PROVE  Queued(u)'
      BY <1>1, <3>2, <3>3 DEF Queued, SameCall
    <3>4. Queued(t)' /\ ClientOf[t] = c
      BY <1>1, <2>2, <3>2, NotQueued DEF Queued
    <3>5. \A k \in DOMAIN workList[c] : /\ workList[c][k] \in Thread /\ workList[c][k] # t
                                        /\ ClientOf[workList[c][k]] = c /\ Queued(workList[c][k])
      BY <3>1, NotQueued DEF ListInv
    <3>6. \A k \in DOMAIN workList'[c] :
            \/ k \in DOMAIN workList[c] /\ workList'[c][k] = workList[c][k]
            \/ k = Len(workList[c]) + 1 /\ workList'[c][k] = t
      BY <3>1
    <3>7. \A k \in DOMAIN workList'[c] : ClientOf[workList'[c][k]] = c /\ Queued(workList[c][k])'
      BY <3>3, <3>4, <3>5, <3>6 DEF Queued
    <3>8. \A j, k \in DOMAIN workList'[c] : workList'[c][j] = workList'[c][k] => j = k
      BY <3>1, <3>5, <3>6 DEF ListInv
    <3> QED
      BY <3>7, <3>8 DEF ListInv
  <2> QED
    BY <2>1, <2>2
<1> QED
  BY <1>1, <1>2, CallChanges DEF ProcessInv

Parts ==
  EntryInv /\ (\A t \in Thread : CallInv(t)) /\ (\A c \in Client : ProcessInv(c))

LEMMA AppThreadKeeps ==
  ASSUME ModelsInv, NEW t \in Thread, AppThread(t), UNCHANGED uses
  PROVE  Parts'
<1> DEFINE c == ClientOf[t]
<1>1. call[t] \in Calls /\ CallInv(t)
  BY DEF ModelsInv, TypeOK
<1>2. tasklist' = tasklist
  BY DEF AppThread, Call, Continue, Return, Submit, serverVars
<1>3. EntryInv'
  BY <1>2 DEF ModelsInv, EntryInv
<1>4. ASSUME NEW use \in uses[t], NEW o \in Object, OwnerOf[o] = c, Call(t, use[1], o, use[2])
      PROVE  Parts'
  <2> DEFINE next == [NoCall EXCEPT !.model = use[1], !.step = 1, !.obj = o, !.val = use[2]]
  <2>1. use[1] \in Models /\ use[2] \in Value
    BY UseTypes DEF ModelsInv, TypeOK
  <2>2. /\ next.model = use[1] /\ next.step = 1 /\ next.obj = o /\ next.val = use[2]
        /\ ~next.recv /\ ~next.done
    BY DEF NoCall
  <2>3. next \in Calls
    <3>1. NoCall \in Calls
      BY ModelsAssumption DEF NoCall, Calls
    <3> QED
      BY <2>1, <3>1 DEF Calls
  <2>4. use[1] # "none"
    BY <2>1 DEF Models, Works
  <2>5. /\ \A u \in Thread : u # t => CallInv(u)'
        /\ \A d \in Client : ProcessInv(d)'
    BY <1>4, <2>2, <2>3, <2>4, SubmitKeeps DEF Call
  <2>6. call'[t] = next
    BY <1>4 DEF Call, Submit, ModelsInv, TypeOK
  <2>7. 1 \in 1..Len(Works[use[1]])
    BY <2>1, WorksType
  <2>8. CallInv(t)'
    BY <1>4, <2>2, <2>6, <2>7 DEF CallInv
  <2> QED
    BY <1>3, <2>5, <2>8 DEF Parts
<1>5. CASE Continue(t)
  <2> DEFINE next == [call[t] EXCEPT !.step = call[t].step + 1, !.recv = FALSE, !.done = FALSE]
  <2>1. call[t].done /\ ~LastStep(t) /\ Submit(t, next)
    BY <1>5 DEF Continue
  <2>2. /\ next.model = call[t].model /\ next.step = call[t].step + 1 /\ next.obj = call[t].obj
        /\ ~next.recv /\ ~next.done
    BY <1>1 DEF Calls
  <2>3. next \in Calls
    <3>1. \A r \in Calls, n \in Nat :
            [r EXCEPT !.step = n, !.recv = FALSE, !.done = FALSE] \in Calls
      BY DEF Calls
    <3>2. call[t].step + 1 \in Nat
      BY <1>1 DEF Calls
    <3> QED
      BY <1>1, <3>1, <3>2
  <2>4. call'[t] = next
    BY <2>1 DEF Submit, ModelsInv, TypeOK
  <2>5. CASE call[t].model # "none"
    <3>1. /\ \A u \in Thread : u # t => CallInv(u)'
          /\ \A d \in Client : ProcessInv(d)'
      BY <2>1, <2>2, <2>3, <2>5, SubmitKeeps
    <3>2. /\ call[t].step \in 1..Len(Works[call[t].model])
          /\ call[t].step # Len(Works[call[t].model])
          /\ Len(Works[call[t].model]) \in Nat
      BY <1>1, <2>1, <2>5, WorksType DEF LastStep, CallInv, Calls
    <3>3. call[t].step + 1 \in 1..Len(Works[call[t].model])
      BY <3>2
    <3>4. ASSUME NEW k \in 1..(call[t].step + 1), k < call[t].step + 1,
                 Works[call[t].model][k] = "REQADDR1"
          PROVE  tasklist'.client # NULL
      <4>1. k \in 1..call[t].step
        BY <3>2, <3>4
      <4> QED
        BY <1>1, <1>2, <2>1, <2>5, <3>4, <4>1 DEF CallInv
    <3>5. CallInv(t)'
      BY <1>1, <2>2, <2>4, <2>5, <3>3, <3>4 DEF CallInv
    <3> QED
      BY <1>3, <3>1, <3>5 DEF Parts
  <2>6. CASE call[t].model = "none"
    BY <1>1, <2>1, <2>6 DEF CallInv
  <2> QED
    BY <2>5, <2>6
<1>6. CASE Return(t)
  <2>1. /\ call' = [call EXCEPT ![t] = NoCall] /\ call[t].done
        /\ UNCHANGED <<worker, net, recvq, resp, tasklist, mem, nvm, workList>>
    BY <1>6 DEF Return, queueVars, serverVars
  <2>2. NoCall \in Calls /\ NoCall.model = "none" /\ ~NoCall.done
    BY ModelsAssumption DEF NoCall, Calls
  <2>3. /\ \A u \in Thread : u # t => SameCall(u) /\ CallInv(u)'
        /\ \A d \in Client : WorkerInv(d)' /\ NetInv(d)' /\ RecvInv(d)'
             /\ RespInv(d)' /\ SendInv(d)'
    BY <2>1, <2>2, CallChanges
  <2>4. CallInv(t)'
    BY <2>1, <2>2 DEF CallInv, ModelsInv, TypeOK
  <2>5. ASSUME NEW d \in Client
        PROVE  ListInv(d)'
    <3>1. ListInv(d) /\ workList[d] \in Seq(Thread)
      BY DEF ModelsInv, ProcessInv, TypeOK
    <3>2. ASSUME NEW k \in DOMAIN workList[d]
          PROVE  ClientOf[workList[d][k]] = d /\ Queued(workList[d][k])'
      <4>1. workList[d][k] \in Thread /\ workList[d][k] # t /\ Queued(workList[d][k])
        BY <2>1, <3>1, NotQueued DEF ListInv
      <4>2. SameCall(workList[d][k])
        BY <2>3, <4>1
      <4> QED
        BY <2>1, <3>1, <4>1, <4>2 DEF ListInv, Queued, SameCall
    <3> QED
      BY <2>1, <3>1, <3>2 DEF ListInv
  <2> QED
    BY <1>3, <2>3, <2>4, <2>5 DEF Parts, ProcessInv
<1> QED
  BY <1>4, <1>5, <1>6 DEF AppThread

-------------------------------------------------------------------------------
(* The work thread. *)

(* While the work thread waits for no message, none is under way. *)
LEMMA NoneUnderWay ==
  ASSUME ModelsInv, NEW c \in Client,
         worker[c].pc # "recv" \/ call[worker[c].thread].recv
  PROVE  /\ \A k \in DOMAIN net[c] : net[c][k].op \notin MessageOps
         /\ \A k \in DOMAIN recvq[c] : recvq[c][k].op \notin MessageOps
         /\ \A k \in DOMAIN resp[c] : ~IsReply(c, k)
<1>1. \A t, op : ~Awaits(c, t, op)
  BY DEF Awaits
<1> QED
  BY <1>1 DEF ModelsInv, ProcessInv, NetInv, RecvInv, RespInv, Owned

(* What is posted comes behind what was. *)
LEMMA Posting ==
  ASSUME ModelsInv, NEW c \in Client, NEW t \in Thread, NEW ops \in Seq(Ops), Post(c, t, ops)
  PROVE  /\ Len(net'[c]) = Len(net[c]) + Len(ops)
         /\ \A k \in DOMAIN net'[c] :
              \/ k \in DOMAIN net[c] /\ net'[c][k] = net[c][k]
              \/ \E j \in DOMAIN ops : k = Len(net[c]) + j /\ net'[c][k] = Request(t, ops[j])
         /\ \A j \in DOMAIN ops : /\ Len(net[c]) + j \in DOMAIN net'[c]
                                  /\ net'[c][Len(net[c]) + j] = Request(t, ops[j])
         /\ \A d \in Client : d # c => net'[d] = net[d]
<1> DEFINE reqs == [k \in DOMAIN ops |-> Request(t, ops[k])]
           Reqs == {Request(t, op) : op \in Ops}
<1>1. net \in [Client -> Seq(Posts)] /\ net' = [net EXCEPT ![c] = @ \o reqs]
  BY DEF ModelsInv, TypeOK, Post
<1>2. net'[c] = net[c] \o reqs /\ \A d \in Client : d # c => net'[d] = net[d]
  BY <1>1
<1>3. \A op \in Ops : Request(t, op) \in Reqs
  OBVIOUS
<1>4. reqs \in Seq(Reqs) /\ Len(reqs) = Len(ops)
        /\ \A j \in DOMAIN ops : reqs[j] = Request(t, ops[j])
  <2> HIDE DEF Reqs
  <2> QED
    BY <1>3
<1>5. net[c] \in Seq(Posts)
  BY <1>1
<1> HIDE DEF reqs, Reqs
<1>7. Len(net'[c]) = Len(net[c]) + Len(ops)
  <2> DEFINE S == Reqs \cup Posts
  <2>1. net[c] \in Seq(S) /\ reqs \in Seq(S)
    BY <1>4, <1>5
  <2>2. \A s1, s2 \in Seq(S) : Len(s1 \o s2) = Len(s1) + Len(s2)
    OBVIOUS
  <2> QED
    BY <1>2, <1>4, <2>1, <2>2
<1>8. ASSUME NEW k \in DOMAIN net'[c]
      PROVE  \/ k \in DOMAIN net[c] /\ net'[c][k] = net[c][k]
             \/ \E j \in DOMAIN ops : k = Len(net[c]) + j /\ net'[c][k] = Request(t, ops[j])
  <2>1. k \in 1..(Len(net[c]) + Len(ops))
    BY <1>2, <1>4, <1>5
  <2>2. CASE k <= Len(net[c])
    BY <1>2, <1>4, <1>5, <2>1, <2>2
  <2>3. CASE k > Len(net[c])
    <3>1. k - Len(net[c]) \in DOMAIN ops /\ k = Len(net[c]) + (k - Len(net[c]))
      BY <1>5, <2>1, <2>3
    <3>2. net'[c][k] = reqs[k - Len(net[c])]
      BY <1>2, <1>4, <1>5, <2>1, <2>3
    <3> QED
      BY <1>4, <3>1, <3>2
  <2> QED
    BY <1>5, <2>1, <2>2, <2>3
<1>9. ASSUME NEW j \in DOMAIN ops
      PROVE  Len(net[c]) + j \in DOMAIN net'[c] /\ net'[c][Len(net[c]) + j] = Request(t, ops[j])
  BY <1>2, <1>4, <1>5
<1> QED
  BY <1>2, <1>7, <1>8, <1>9

LEMMA TailIndices ==
  ASSUME NEW S, NEW s \in Seq(S), s # <<>>
  PROVE  /\ Len(Tail(s)) = Len(s) - 1 /\ Len(s) \in Nat \ {0}
         /\ \A k \in DOMAIN Tail(s) : k \in Nat \ {0} /\ k + 1 \in DOMAIN s /\ Tail(s)[k] = s[k + 1]
         /\ \A k \in DOMAIN s : k \in 1..Len(s)
  OBVIOUS

OwnedNext(c, r) ==
  /\ OwnerOf[r.obj] = c
  /\ r.cmpflag # NULL => ClientOf[r.cmpflag] = c
  /\ r.op = "WRITE_WITH_IMM" => tasklist'.client # NULL
  /\ r.op \in MessageOps =>
       AwaitsNext(c, r.task, r.op) /\ r.obj = call'[r.task].obj /\ r.val = call'[r.task].val

LEMMA NextOwned ==
  ASSUME NEW c, NEW r
  PROVE  Owned(c, r)' <=> OwnedNext(c, r)
  BY DEF Owned, OwnedNext, Awaits, AwaitsNext, WorkOf

(* What the handler of a work posts: one message, or verbs of its kind. *)
Suits(work, ops, pc, flags) ==
  \/ pc = "recv" /\ flags = {} /\ work \in MessageOps \ {"SEND2"} /\ ops = <<work>>
  \/ /\ pc = "verbs" /\ work \in VerbWorks
     /\ \A j \in DOMAIN ops :
          ops[j] \notin MessageOps /\ (ops[j] = "WRITE_WITH_IMM" => work = "WRITEIMM")
     /\ work = "SEND2" => ops = <<"WRITE">>

LEMMA HandleKeeps ==
  ASSUME ModelsInv, NEW c \in Client, NEW work, NEW ops \in Seq(Ops), NEW pc, NEW flags,
         Suits(work, ops, pc, flags), Handle(c, work, ops, pc, flags)
  PROVE  Parts'
<1>0. PICK t : t = Head(workList[c])
  OBVIOUS
<1>1. /\ worker[c].pc = "idle" /\ workList[c] # <<>> /\ WorkOf(t) = work
      /\ workList' = [workList EXCEPT ![c] = Tail(@)]
      /\ Post(c, t, ops)
      /\ worker' = [worker EXCEPT ![c] = [pc |-> pc, thread |-> t, flags |-> flags]]
      /\ UNCHANGED <<call, up, recvq, resp, tasklist, mem, nvm>>
  BY <1>0 DEF Handle, Handling, Spin, serverVars
<1>2. /\ t \in Thread /\ ClientOf[t] = c /\ Queued(t) /\ call[t].model \in Models
      /\ call[t].obj \in Object /\ OwnerOf[call[t].obj] = c
      /\ call[t].step \in 1..Len(Works[call[t].model])
  BY <1>0, <1>1, ServedWork
<1>3. /\ worker'[c] = [pc |-> pc, thread |-> t, flags |-> flags]
      /\ workList'[c] = Tail(workList[c]) /\ workList[c] \in Seq(Thread)
      /\ \A d \in Client : d # c => worker'[d] = worker[d] /\ workList'[d] = workList[d]
  BY <1>1 DEF ModelsInv, TypeOK
<1>4. /\ Len(net'[c]) = Len(net[c]) + Len(ops)
      /\ \A k \in DOMAIN net'[c] :
           \/ k \in DOMAIN net[c] /\ net'[c][k] = net[c][k]
           \/ \E j \in DOMAIN ops : k = Len(net[c]) + j /\ net'[c][k] = Request(t, ops[j])
      /\ \A j \in DOMAIN ops : /\ Len(net[c]) + j \in DOMAIN net'[c]
                               /\ net'[c][Len(net[c]) + j] = Request(t, ops[j])
      /\ \A d \in Client : d # c => net'[d] = net[d]
  BY <1>1, <1>2, Posting
<1>5. /\ \A k \in DOMAIN net[c] : net[c][k].op \notin MessageOps
      /\ \A k \in DOMAIN recvq[c] : recvq[c][k].op \notin MessageOps
      /\ \A k \in DOMAIN resp[c] : ~IsReply(c, k)
  BY <1>1, NoneUnderWay
<1>6. ListInv(c)'
  <2>1. ListInv(c)
    BY DEF ModelsInv, ProcessInv
  <2>2. \A k \in DOMAIN workList'[c] :
          k + 1 \in DOMAIN workList[c] /\ workList'[c][k] = workList[c][k + 1]
    <3>1. workList[c] \in Seq(Thread) /\ workList[c] # <<>>
      BY <1>1, <1>3
    <3>2. \A k \in DOMAIN Tail(workList[c]) :
            k + 1 \in DOMAIN workList[c] /\ Tail(workList[c])[k] = workList[c][k + 1]
      BY <3>1, TailIndices
    <3> QED
      BY <1>3, <3>2
  <2>3. t = workList[c][1] /\ 1 \in DOMAIN workList[c] /\ DOMAIN workList'[c] \subseteq Nat \ {0}
    BY <1>0, <1>1, <1>3, TailIndices, HeadOfSeq
  <2>4. \A k \in DOMAIN workList'[c] : ClientOf[workList'[c][k]] = c /\ workList'[c][k] # t
                                         /\ Queued(workList'[c][k])
    <3>1. \A k \in DOMAIN workList'[c] : k + 1 # 1
      BY <2>3
    <3> QED
      BY <2>1, <2>2, <2>3, <3>1 DEF ListInv
  <2>5. \A u : Queued(u) /\ u # t /\ ClientOf[u] = c =>
          call[u].model # "none" /\ ~call[u].done /\ ~call[u].recv /\ worker'[c].thread # u
    BY <1>3 DEF Queued
  <2>6. \A j, k \in DOMAIN workList'[c] : workList'[c][j] = workList'[c][k] => j = k
    <3>1. \A j, k \in DOMAIN workList'[c] : workList'[c][j] = workList'[c][k] => j + 1 = k + 1
      BY <2>1, <2>2 DEF ListInv
    <3> QED
      BY <2>3, <3>1
  <2> QED
    BY <1>1, <2>4, <2>5, <2>6 DEF ListInv, Queued
<1>7. WorkerInv(c)'
  <2>1. worker'[c].pc = pc /\ worker'[c].thread = t /\ worker'[c].flags = flags
    BY <1>3
  <2>2. pc # "idle"
    BY DEF Suits
  <2>3. WorkOf(t)' = work
    BY <1>1 DEF WorkOf
  <2>4. call'[t].model # "none" /\ ~call'[t].done /\ ~call'[t].recv
    BY <1>1, <1>2 DEF Queued
  <2>5. IF pc = "recv" THEN work \in MessageOps /\ flags = {} ELSE work \in VerbWorks
    BY DEF Suits
  <2> QED
    BY <1>2, <2>1, <2>2, <2>3, <2>4, <2>5 DEF WorkerInv, WorkOf
<1>8. NetInv(c)'
  <2>1. ASSUME NEW k \in DOMAIN net'[c]
        PROVE  /\ OwnedNext(c, net'[c][k])
               /\ net'[c][k].op \in MessageOps => k = Len(net'[c])
    <3>1. CASE k \in DOMAIN net[c] /\ net'[c][k] = net[c][k]
      BY <1>1, <1>5, <3>1 DEF ModelsInv, ProcessInv, NetInv, Owned, OwnedNext
    <3>2. ASSUME NEW j \in DOMAIN ops, k = Len(net[c]) + j, net'[c][k] = Request(t, ops[j])
          PROVE  /\ OwnedNext(c, net'[c][k])
                 /\ net'[c][k].op \in MessageOps => k = Len(net'[c])
      <4> DEFINE r == Request(t, ops[j])
      <4>1. r.op = ops[j] /\ r.task = t /\ r.obj = call[t].obj /\ r.val = call[t].val
            /\ (r.cmpflag # NULL => r.cmpflag = t)
        BY DEF Request
      <4>2. r.op = "WRITE_WITH_IMM" => tasklist'.client # NULL
        <5>1. SUFFICES ASSUME work = "WRITEIMM"
                       PROVE  tasklist.client # NULL
          <6>1. ops[j] = "WRITE_WITH_IMM" => work = "WRITEIMM"
            <7>1. CASE pc = "recv"
              BY <7>1 DEF Suits, MessageOps
            <7>2. CASE pc # "recv"
              BY <7>2 DEF Suits
            <7> QED
              BY <7>1, <7>2
          <6> QED
            BY <1>1, <4>1, <6>1
        <5>2. Works[call[t].model][call[t].step] = "WRITEIMM"
          BY <1>1, <5>1 DEF WorkOf
        <5>3. PICK i \in 1..Len(Works[call[t].model]) :
                i < call[t].step /\ Works[call[t].model][i] = "REQADDR1"
          BY <1>2, <5>2, ImmAfterRequest
        <5>4. i \in 1..call[t].step
          BY <1>2, <5>3
        <5> QED
          BY <1>2, <5>3, <5>4 DEF ModelsInv, CallInv, Queued
      <4>3. r.op \in MessageOps =>
              AwaitsNext(c, t, r.op) /\ k = Len(net'[c])
        <5>1. SUFFICES ASSUME ops[j] \in MessageOps
                       PROVE  AwaitsNext(c, t, ops[j]) /\ k = Len(net'[c])
          BY <4>1
        <5>2. pc = "recv" /\ ops = <<work>>
          BY <5>1 DEF Suits
        <5>3. j = 1 /\ Len(ops) = 1 /\ ops[j] = work
          BY <5>2
        <5>4. k = Len(net'[c])
          BY <1>4, <3>2, <5>3
        <5> QED
          BY <1>1, <1>2, <1>3, <5>2, <5>3, <5>4 DEF AwaitsNext, WorkOf, Queued
      <4>4. net'[c][k] = r
        BY <3>2
      <4> HIDE DEF r
      <4> QED
        BY <1>1, <1>2, <4>1, <4>2, <4>3, <4>4 DEF OwnedNext
    <3> QED
      BY <1>4, <3>1, <3>2
  <2> QED
    BY <2>1 DEF NetInv, Owned, OwnedNext, Awaits, AwaitsNext, WorkOf
<1>9. RecvInv(c)'
  <2>1. \A k \in DOMAIN recvq[c] : recvq[c][k].op \notin MessageOps /\ Owned(c, recvq[c][k])
    BY <1>5 DEF ModelsInv, ProcessInv, RecvInv
  <2> QED
    BY <1>1, <2>1 DEF RecvInv, Owned
<1>10. RespInv(c)'
  <2>1. ~call'[t].recv
    BY <1>1, <1>2 DEF Queued
  <2>2. RespInv(c) /\ resp'[c] = resp[c] /\ worker'[c].thread = t
    BY <1>1, <1>3 DEF ModelsInv, ProcessInv
  <2> QED
    BY <1>5, <2>1, <2>2 DEF RespInv, IsReply
<1>11. SendInv(c)'
  <2>1. worker'[c].thread = t
    BY <1>3
  <2>2. ~Answered(c)'
    BY <1>1, <1>2, <1>5, <2>1 DEF Answered, IsReply, Queued
  <2>3. ASSUME work = "SEND2"
        PROVE  Ends(c, call[t].obj, call[t].val)'
    <3>1. ops = <<"WRITE">>
      BY <2>3 DEF Suits
    <3>2. /\ Len(net[c]) + 1 \in DOMAIN net'[c] /\ net'[c][Len(net[c]) + 1] = Request(t, "WRITE")
          /\ Len(net'[c]) = Len(net[c]) + 1
      BY <1>4, <3>1
    <3>3. \A j \in DOMAIN net'[c] : ~(j > Len(net[c]) + 1)
      <4>1. /\ net[c] \in Seq(Posts)
            /\ \A j \in DOMAIN net'[c] : j \in DOMAIN net[c] \/ j = Len(net[c]) + 1
        BY <1>4, <3>1 DEF ModelsInv, TypeOK
      <4> QED
        BY <4>1
    <3> QED
      BY <1>1, <3>2, <3>3 DEF Ends, WritesTo, WriteOps, Request
  <2>4. WorkOf(t)' = work
    BY <1>1 DEF WorkOf
  <2> QED
    BY <1>1, <2>1, <2>2, <2>3, <2>4 DEF SendInv, Sends, WorkOf
<1>12. ASSUME NEW d \in Client, d # c
       PROVE  ProcessInv(d)'
  <2>1. SameCalls(d) /\ RespGrows(d) /\ EntryStays
    BY <1>1 DEF SameCalls, SameCall, RespGrows, EntryStays
  <2> QED
    BY <1>1, <1>3, <1>4, <1>12, <2>1, OtherProcess
<1>13. ProcessInv(c)'
  BY <1>6, <1>7, <1>8, <1>9, <1>10, <1>11 DEF ProcessInv
<1>14. EntryInv' /\ \A u \in Thread : CallInv(u)'
  BY <1>1 DEF ModelsInv, EntryInv, CallInv
<1> QED
  BY <1>12, <1>13, <1>14 DEF Parts

LEMMA Send2WorkKeeps ==
  ASSUME ModelsInv, NEW c \in Client, Send2Work(c)
  PROVE  Parts'
<1>0. PICK t : t = worker[c].thread
  OBVIOUS
<1>1. /\ worker[c].pc = "verbs" /\ worker[c].flags = {} /\ WorkOf(t) = "SEND2"
      /\ Post(c, t, <<"SEND2">>)
      /\ worker' = [worker EXCEPT ![c].pc = "recv"]
      /\ UNCHANGED <<call, workList, recvq, resp, tasklist, mem, nvm>>
  BY <1>0 DEF Send2Work, VerbsDone, threadVars, serverVars
<1>2. /\ t \in Thread /\ ClientOf[t] = c /\ call[t].model # "none" /\ ~call[t].done
      /\ ~call[t].recv /\ call[t].obj \in Object /\ OwnerOf[call[t].obj] = c
  BY <1>0, <1>1 DEF ModelsInv, ProcessInv, WorkerInv, CallInv
<1>3. /\ worker'[c].pc = "recv" /\ worker'[c].thread = t /\ worker'[c].flags = {}
      /\ \A d \in Client : d # c => worker'[d] = worker[d]
  BY <1>0, <1>1 DEF ModelsInv, TypeOK, WorkerStates
<1>4. <<"SEND2">> \in Seq(Ops) /\ Len(<<"SEND2">>) = 1 /\ DOMAIN <<"SEND2">> = {1}
  BY SetsOfPosts DEF Ops, MessageOps
<1>5. /\ Len(net'[c]) = Len(net[c]) + 1
      /\ \A k \in DOMAIN net'[c] :
           \/ k \in DOMAIN net[c] /\ net'[c][k] = net[c][k]
           \/ k = Len(net[c]) + 1 /\ net'[c][k] = Request(t, "SEND2")
      /\ \A d \in Client : d # c => net'[d] = net[d]
  <2> DEFINE ops == <<"SEND2">>
  <2>1. ops \in Seq(Ops) /\ Len(ops) = 1 /\ \A j \in DOMAIN ops : j = 1 /\ ops[j] = "SEND2"
    BY <1>4
  <2>2. Post(c, t, ops)
    BY <1>1
  <2> HIDE DEF ops
  <2>3. /\ Len(net'[c]) = Len(net[c]) + Len(ops)
        /\ \A k \in DOMAIN net'[c] :
             \/ k \in DOMAIN net[c] /\ net'[c][k] = net[c][k]
             \/ \E j \in DOMAIN ops : k = Len(net[c]) + j /\ net'[c][k] = Request(t, ops[j])
        /\ \A d \in Client : d # c => net'[d] = net[d]
    BY <1>2, <2>1, <2>2, Posting
  <2> QED
    BY <2>1, <2>3
<1>6. /\ \A k \in DOMAIN net[c] : net[c][k].op \notin MessageOps
      /\ \A k \in DOMAIN recvq[c] : recvq[c][k].op \notin MessageOps
      /\ \A k \in DOMAIN resp[c] : ~IsReply(c, k)
  BY <1>1, NoneUnderWay
<1>7. ListInv(c)'
  BY <1>0, <1>1, <1>3, ListFrame DEF SameCalls, SameCall
<1>8. WorkerInv(c)'
  BY <1>1, <1>2, <1>3 DEF WorkerInv, WorkOf, MessageOps
<1>9. NetInv(c)'
  <2>1. ASSUME NEW k \in DOMAIN net'[c]
        PROVE  /\ OwnedNext(c, net'[c][k])
               /\ net'[c][k].op \in MessageOps => k = Len(net'[c])
    <3>1. CASE k \in DOMAIN net[c] /\ net'[c][k] = net[c][k]
      BY <1>1, <1>6, <3>1 DEF ModelsInv, ProcessInv, NetInv, Owned, OwnedNext
    <3>2. CASE k = Len(net[c]) + 1 /\ net'[c][k] = Request(t, "SEND2")
      BY <1>1, <1>2, <1>3, <1>5, <3>2 DEF Request, OwnedNext, AwaitsNext, WorkOf
    <3> QED
      BY <1>5, <3>1, <3>2
  <2> QED
    BY <2>1 DEF NetInv, Owned, OwnedNext, Awaits, AwaitsNext, WorkOf
<1>10. RecvInv(c)'
  <2>1. \A k \in DOMAIN recvq[c] : recvq[c][k].op \notin MessageOps /\ Owned(c, recvq[c][k])
    BY <1>6 DEF ModelsInv, ProcessInv, RecvInv
  <2> QED
    BY <1>1, <2>1 DEF RecvInv, Owned
<1>11. RespInv(c)'
  <2>1. RespInv(c) /\ ~call'[t].recv
    BY <1>1, <1>2 DEF ModelsInv, ProcessInv
  <2> QED
    BY <1>1, <1>3, <1>6, <2>1 DEF RespInv, IsReply
<1>12. SendInv(c)'
  <2>1. ~Answered(c)'
    BY <1>1, <1>2, <1>3, <1>6 DEF Answered, IsReply
  <2>2. Ends(c, call[t].obj, call[t].val)
    BY <1>0, <1>1 DEF ModelsInv, ProcessInv, SendInv, Sends
  <2>3. ASSUME NEW o, NEW v, Ends(c, o, v)
        PROVE  Ends(c, o, v)'
    <3>1. \A k \in DOMAIN net'[c] :
            (net'[c][k].op \in WriteOps /\ net'[c][k].obj = o)
               => k \in DOMAIN net[c] /\ WritesTo(c, o, k)
      BY <1>5 DEF WritesTo, Request, WriteOps
    <3>2. CASE mem[o] = v /\ \A k \in DOMAIN net[c] : ~WritesTo(c, o, k)
      BY <1>1, <3>1, <3>2 DEF Ends, WritesTo
    <3>3. ASSUME NEW k \in DOMAIN net[c], WritesTo(c, o, k), net[c][k].val = v,
                 \A j \in DOMAIN net[c] : j > k => ~WritesTo(c, o, j)
          PROVE  Ends(c, o, v)'
      <4>1. k \in DOMAIN net'[c] /\ net'[c][k] = net[c][k]
        <5>1. net[c] \in Seq(Posts) /\ net'[c] \in Seq(Posts)
          <6>1. net' \in [Client -> Seq(Posts)]
            BY <1>1, <1>2, <1>4, PostType DEF ModelsInv
          <6> QED
            BY <6>1 DEF ModelsInv, TypeOK
        <5> QED
          BY <1>5, <5>1
      <4> QED
        BY <3>1, <3>3, <4>1 DEF Ends, WritesTo
    <3> QED
      BY <2>3, <3>2, <3>3 DEF Ends
  <2>4. Ends(c, call[t].obj, call[t].val)'
    BY <1>1, <2>2, <2>3
  <2> QED
    BY <1>1, <1>3, <2>1, <2>4 DEF SendInv, Sends, WorkOf
<1>13. ASSUME NEW d \in Client, d # c
       PROVE  ProcessInv(d)'
  <2>1. SameCalls(d) /\ RespGrows(d) /\ EntryStays
    BY <1>1 DEF SameCalls, SameCall, RespGrows, EntryStays
  <2> QED
    BY <1>1, <1>3, <1>5, <1>13, <2>1, OtherProcess
<1>14. EntryInv' /\ \A u \in Thread : CallInv(u)'
  BY <1>1 DEF ModelsInv, EntryInv, CallInv
<1> QED
  BY <1>7, <1>8, <1>9, <1>10, <1>11, <1>12, <1>13, <1>14 DEF Parts, ProcessInv

LEMMA FinishKeeps ==
  ASSUME ModelsInv, NEW c \in Client, FinishWork(c), worker[c].pc # "idle",
         worker[c].pc = "recv" => call[worker[c].thread].recv
  PROVE  Parts'
<1>0. PICK t : t = worker[c].thread
  OBVIOUS
<1>1. /\ call' = [call EXCEPT ![t].done = TRUE]
      /\ worker' = [worker EXCEPT ![c] = IdleWorker]
      /\ UNCHANGED <<workList, net, recvq, resp, tasklist, mem, nvm>>
  BY <1>0 DEF FinishWork, queueVars, serverVars
<1>2. /\ t \in Thread /\ ClientOf[t] = c /\ call[t].model # "none"
      /\ worker[c].pc # "recv" => WorkOf(t) \in VerbWorks
  BY <1>0 DEF ModelsInv, ProcessInv, WorkerInv
<1>3. /\ worker'[c] = IdleWorker /\ \A d \in Client : d # c => worker'[d] = worker[d]
      /\ \A u \in Thread : u # t => SameCall(u)
  BY <1>1 DEF ModelsInv, TypeOK, SameCall
<1>4. /\ call'[t].model = call[t].model /\ call'[t].step = call[t].step
      /\ call'[t].obj = call[t].obj /\ call'[t].recv = call[t].recv
  BY <1>1, <1>2 DEF ModelsInv, TypeOK, Calls
<1>5. /\ \A k \in DOMAIN net[c] : net[c][k].op \notin MessageOps
      /\ \A k \in DOMAIN recvq[c] : recvq[c][k].op \notin MessageOps
      /\ \A k \in DOMAIN resp[c] : ~IsReply(c, k)
  BY NoneUnderWay
<1>6. ListInv(c)'
  <2>1. ListInv(c) /\ workList[c] \in Seq(Thread)
    BY DEF ModelsInv, ProcessInv, TypeOK
  <2>2. ASSUME NEW u \in Thread, ClientOf[u] = c, Queued(u)
        PROVE  Queued(u)'
    <3>1. u # t /\ SameCall(u)
      BY <1>0, <1>3, <2>2 DEF Queued
    <3>2. worker'[c].thread # u
      BY <1>3, ModelsAssumption DEF IdleWorker
    <3> QED
      BY <2>2, <3>1, <3>2 DEF Queued, SameCall
  <2>3. \A k \in DOMAIN workList[c] : workList[c][k] \in Thread
    BY <2>1
  <2> QED
    BY <1>1, <2>1, <2>2, <2>3 DEF ListInv, Queued
<1>7. WorkerInv(c)'
  BY <1>3 DEF WorkerInv, IdleWorker
<1>8. NetInv(c)'
  BY <1>1, <1>5 DEF ModelsInv, ProcessInv, NetInv, Owned
<1>9. RecvInv(c)'
  BY <1>1, <1>5 DEF ModelsInv, ProcessInv, RecvInv, Owned
<1>10. RespInv(c)'
  <2>1. RespInv(c) /\ worker'[c].pc = "idle"
    BY <1>3 DEF ModelsInv, ProcessInv, IdleWorker
  <2> QED
    BY <1>1, <1>5, <2>1 DEF RespInv, IsReply
<1>11. SendInv(c)'
  BY <1>3 DEF SendInv, Sends, IdleWorker
<1>12. CallInv(t)'
  <2>1. CallInv(t)
    BY <1>2 DEF ModelsInv
  <2>2. ASSUME NEW k \in 1..call[t].step, Works[call[t].model][k] = "REQADDR1"
        PROVE  tasklist.client # NULL
    <3>1. call[t].step \in 1..Len(Works[call[t].model])
      BY <1>2, <2>1 DEF CallInv
    <3>2. CASE k < call[t].step \/ call[t].recv
      BY <1>2, <2>1, <2>2, <3>2 DEF CallInv
    <3>3. CASE ~call[t].recv /\ k = call[t].step
      <4>1. WorkOf(t) = "REQADDR1" /\ WorkOf(t) \in VerbWorks
        BY <1>0, <1>2, <2>2, <3>3 DEF WorkOf
      <4> QED
        BY <4>1 DEF VerbWorks
    <3> QED
      BY <3>1, <3>2, <3>3
  <2> QED
    BY <1>1, <1>2, <1>4, <2>1, <2>2 DEF CallInv
<1>13. \A u \in Thread : CallInv(u)'
  BY <1>1, <1>3, <1>12, CallFrame DEF ModelsInv, EntryStays
<1>14. ASSUME NEW d \in Client, d # c
       PROVE  ProcessInv(d)'
  <2>1. SameCalls(d) /\ RespGrows(d) /\ EntryStays
    BY <1>1, <1>2, <1>3, <1>14 DEF SameCalls, RespGrows, EntryStays
  <2> QED
    BY <1>1, <1>3, <1>14, <2>1, OtherProcess
<1>15. EntryInv'
  BY <1>1 DEF ModelsInv, EntryInv
<1> QED
  BY <1>6, <1>7, <1>8, <1>9, <1>10, <1>11, <1>13, <1>14, <1>15 DEF Parts, ProcessInv

LEMMA WorkThreadKeeps ==
  ASSUME ModelsInv, NEW c \in Client, WorkThread(c)
  PROVE  Parts'
<1> USE DEF Suits, MessageOps, VerbWorks
<1>1. CASE MessageWork(c)
  <2>1. PICK work \in {"REQADDR1", "SEND", "Tailwind_RPC"} : Handle(c, work, <<work>>, "recv", {})
    BY <1>1 DEF MessageWork
  <2>2. <<work>> \in Seq(Ops)
    BY SetsOfPosts DEF Ops
  <2>3. Suits(work, <<work>>, "recv", {})
    OBVIOUS
  <2> QED
    BY <2>1, <2>2, <2>3, HandleKeeps
<1>2. CASE WriteWork(c)
  <2>1. <<"WRITE", "FLUSH">> \in Seq(Ops)
    BY SetsOfPosts DEF Ops, WriteOps
  <2>2. Suits("WRITE", <<"WRITE", "FLUSH">>, "verbs", {"write", "read"})
    OBVIOUS
  <2> QED
    BY <1>2, <2>1, <2>2, HandleKeeps DEF WriteWork
<1>3. CASE BareWriteWork(c)
  <2>1. <<"WRITE">> \in Seq(Ops) /\ <<"WRITE_WITH_IMM">> \in Seq(Ops)
    BY SetsOfPosts DEF Ops, WriteOps
  <2>2. /\ Suits("SEND2", <<"WRITE">>, "verbs", {"write"})
        /\ Suits("WRITEIMM", <<"WRITE_WITH_IMM">>, "verbs", {"write"})
    OBVIOUS
  <2> QED
    BY <1>3, <2>1, <2>2, HandleKeeps DEF BareWriteWork
<1>4. CASE ReadWork(c)
  <2>1. <<"READ">> \in Seq(Ops) /\ Suits("READ", <<"READ">>, "verbs", {"read"})
    BY SetsOfPosts DEF Ops
  <2> QED
    BY <1>4, <2>1, HandleKeeps DEF ReadWork
<1>5. CASE CloverWork(c)
  <2>1. <<"CAS">> \in Seq(Ops) /\ Suits("CLOVER", <<"CAS">>, "verbs", {"read"})
    BY SetsOfPosts DEF Ops
  <2> QED
    BY <1>5, <2>1, HandleKeeps DEF CloverWork
<1>6. CASE TailwindWork(c)
  <2>1. /\ <<"LOG", "FLUSH">> \in Seq(Ops)
        /\ Suits("Tailwind", <<"LOG", "FLUSH">>, "verbs", {"write", "read"})
    BY SetsOfPosts DEF Ops
  <2> QED
    BY <1>6, <2>1, HandleKeeps DEF TailwindWork
<1>7. CASE Send2Work(c)
  BY <1>7, Send2WorkKeeps
<1>8. CASE Finish(c)
  BY <1>8, FinishKeeps DEF Finish, VerbsDone
<1> QED
  BY <1>1, <1>2, <1>3, <1>4, <1>5, <1>6, <1>7, <1>8 DEF WorkThread

-------------------------------------------------------------------------------
(* The adapter. *)

LEMMA AdapterEnds ==
  ASSUME ModelsInv, NEW c \in Client, NEW o, NEW v, net[c] # <<>>, net'[c] = Tail(net[c]),
         IF WritesTo(c, o, 1) THEN mem'[o] = net[c][1].val ELSE mem'[o] = mem[o],
         Ends(c, o, v)
  PROVE  Ends(c, o, v)'
<1>1. net[c] \in Seq(Posts)
  BY DEF ModelsInv, TypeOK
<1>2. /\ \A k \in DOMAIN net'[c] :
           k \in Nat \ {0} /\ k + 1 \in DOMAIN net[c] /\ net'[c][k] = net[c][k + 1]
      /\ 1 \in DOMAIN net[c]
  <2>1. \A k \in DOMAIN Tail(net[c]) :
          k \in Nat \ {0} /\ k + 1 \in DOMAIN net[c] /\ Tail(net[c])[k] = net[c][k + 1]
    BY <1>1, TailIndices
  <2> QED
    BY <1>1, <2>1
<1>3. \A k \in DOMAIN net[c] : k \in Nat \ {0} /\ (k # 1 => k - 1 \in DOMAIN net'[c])
  BY <1>1
<1>4. \A k \in DOMAIN net'[c] :
        (net'[c][k].op \in WriteOps /\ net'[c][k].obj = o) <=> WritesTo(c, o, k + 1)
  BY <1>2 DEF WritesTo
<1>5. CASE mem[o] = v /\ \A k \in DOMAIN net[c] : ~WritesTo(c, o, k)
  BY <1>2, <1>4, <1>5 DEF Ends, WritesTo
<1>6. ASSUME NEW k \in DOMAIN net[c], WritesTo(c, o, k), net[c][k].val = v,
             \A j \in DOMAIN net[c] : j > k => ~WritesTo(c, o, j)
      PROVE  Ends(c, o, v)'
  <2>1. CASE k = 1
    <3>1. mem'[o] = v
      BY <1>6, <2>1
    <3>2. \A j \in DOMAIN net'[c] : j + 1 > 1
      BY <1>2
    <3>3. \A j \in DOMAIN net'[c] : ~(net'[c][j].op \in WriteOps /\ net'[c][j].obj = o)
      BY <1>2, <1>4, <1>6, <2>1, <3>2
    <3> QED
      BY <3>1, <3>3 DEF Ends, WritesTo
  <2>2. CASE k # 1
    <3>1. k - 1 \in DOMAIN net'[c] /\ (k - 1) + 1 = k
      BY <1>3, <2>2
    <3>2. net'[c][k - 1] = net[c][k]
      BY <1>2, <3>1
    <3>3. \A j \in DOMAIN net'[c] : j > k - 1 => j + 1 > k
      BY <1>2, <1>3
    <3>4. \A j \in DOMAIN net'[c] : j > k - 1 => ~(net'[c][j].op \in WriteOps /\ net'[c][j].obj = o)
      BY <1>2, <1>4, <1>6, <3>3
    <3> QED
      BY <1>6, <3>1, <3>2, <3>4 DEF Ends, WritesTo
  <2> QED
    BY <2>1, <2>2
<1> QED
  BY <1>5, <1>6 DEF Ends

LEMMA AdapterKeepsProcess ==
  ASSUME ModelsInv, NEW c \in Client, NEW r, net[c] # <<>>, r = Head(net[c]),
         net' = [net EXCEPT ![c] = Tail(@)],
         \/ recvq' = recvq /\ r.op \notin MessageOps
         \/ recvq' = [recvq EXCEPT ![c] = Append(@, r)],
         mem' = IF r.op \in WriteOps THEN [mem EXCEPT ![r.obj] = r.val] ELSE mem,
         \A t \in Thread : SameCall(t),
         UNCHANGED <<workList, worker, resp, tasklist, nvm>>
  PROVE  Parts'
<1>1. /\ net \in [Client -> Seq(Posts)] /\ recvq \in [Client -> Seq(Posts)]
      /\ mem \in [Object -> Value]
  BY DEF ModelsInv, TypeOK
<1>2. /\ net'[c] = Tail(net[c]) /\ \A d \in Client : d # c => net'[d] = net[d]
      /\ r = net[c][1] /\ r \in Posts /\ 1 \in DOMAIN net[c] /\ r.obj \in Object
  <2>1. r = net[c][1] /\ r \in Posts /\ 1 \in DOMAIN net[c]
    BY <1>1, HeadOfSeq
  <2> QED
    BY <1>1, <2>1 DEF Posts
<1>3. Owned(c, r) /\ (r.op \in MessageOps => Len(net[c]) = 1)
  BY <1>2 DEF ModelsInv, ProcessInv, NetInv
<1>4. SameCalls(c) /\ ServedSame(c) /\ EntryStays /\ worker'[c] = worker[c]
  <2>1. SameCalls(c)
    BY DEF SameCalls
  <2> QED
    BY <2>1, SameServed DEF EntryStays
<1>5. ListInv(c)' /\ WorkerInv(c)'
  BY <1>4, ListFrame, WorkerFrame
<1>6. \A q \in Posts : Owned(c, q) => OwnedNext(c, q)
  BY <1>4, OwnedFrame, NextOwned
<1>7. NetInv(c)'
  <2>1. Len(net'[c]) = Len(net[c]) - 1
    BY <1>1, <1>2
  <2>2. ASSUME NEW k \in DOMAIN net'[c]
        PROVE  /\ OwnedNext(c, net'[c][k])
               /\ net'[c][k].op \in MessageOps => k = Len(net'[c])
    <3>1. k \in Nat \ {0} /\ k + 1 \in DOMAIN net[c] /\ net'[c][k] = net[c][k + 1]
      BY <1>1, <1>2, TailIndices
    <3>2. net[c][k + 1] \in Posts /\ Owned(c, net[c][k + 1])
          /\ (net[c][k + 1].op \in MessageOps => k + 1 = Len(net[c]))
      BY <1>1, <3>1 DEF ModelsInv, ProcessInv, NetInv
    <3>3. Len(net[c]) \in Nat
      BY <1>1
    <3> QED
      BY <1>6, <2>1, <3>1, <3>2, <3>3
  <2> QED
    BY <2>2 DEF NetInv, Owned, OwnedNext, Awaits, AwaitsNext, WorkOf
<1>8. \A k \in DOMAIN recvq[c] : recvq[c][k].op \notin MessageOps /\ recvq[c][k] \in Posts
                                   /\ Owned(c, recvq[c][k])
  BY <1>1, <1>2 DEF ModelsInv, ProcessInv, RecvInv
<1>9. RecvInv(c)'
  <2>1. CASE recvq' = recvq
    BY <1>6, <1>8, <2>1 DEF RecvInv, Owned, OwnedNext, Awaits, AwaitsNext, WorkOf
  <2>2. CASE recvq' = [recvq EXCEPT ![c] = Append(@, r)]
    <3>1. recvq'[c] = Append(recvq[c], r)
      BY <1>1, <2>2
    <3>2. /\ Len(recvq'[c]) = Len(recvq[c]) + 1
          /\ \A k \in DOMAIN recvq'[c] :
               \/ k \in DOMAIN recvq[c] /\ recvq'[c][k] = recvq[c][k]
               \/ k = Len(recvq[c]) + 1 /\ recvq'[c][k] = r
      BY <1>1, <1>2, <3>1
    <3>3. r.op \in MessageOps => net'[c] = <<>>
      BY <1>1, <1>2, <1>3
    <3>4. \A k \in DOMAIN recvq'[c] :
            /\ OwnedNext(c, recvq'[c][k])
            /\ recvq'[c][k].op \in MessageOps => k = Len(recvq'[c]) /\ net'[c] = <<>>
      BY <1>2, <1>3, <1>6, <1>8, <3>2, <3>3
    <3> QED
      BY <3>4 DEF RecvInv, Owned, OwnedNext, Awaits, AwaitsNext, WorkOf
  <2> QED
    BY <2>1, <2>2
<1>10. ~NoMessage(c)
  BY DEF NoMessage
<1>11. RespInv(c)'
  BY <1>4, <1>10, RespFrame DEF RespGrows
<1>12. SendInv(c)'
  <2> DEFINE t == worker[c].thread
  <2>1. SUFFICES ASSUME Sends(c)'
        PROVE  SendInv(c)'
    BY DEF SendInv, Sends, WorkOf
  <2>2. /\ worker[c].pc # "idle" /\ SameCall(t) /\ Sends(c)
        /\ worker[c].pc # "recv" => ~call[t].recv
        /\ call[t].obj \in Object
    BY <1>4, <2>1 DEF Sends, ServedSame, SameCall, WorkOf, ModelsInv, ProcessInv, WorkerInv, CallInv
  <2>3. ~Answered(c)
    BY <1>10, <2>2 DEF Answered, ModelsInv, ProcessInv, RespInv
  <2>4. ~Answered(c)'
    BY <1>4, <2>2, <2>3 DEF Answered, IsReply, SameCall
  <2>5. ASSUME NEW o \in Object, NEW v, Ends(c, o, v)
        PROVE  Ends(c, o, v)'
    <3>1. IF WritesTo(c, o, 1) THEN mem'[o] = net[c][1].val ELSE mem'[o] = mem[o]
      BY <1>1, <1>2, <2>5 DEF WritesTo
    <3> QED
      BY <1>2, <2>5, <3>1, AdapterEnds
  <2>6. WorkOf(t) = "SEND2" => Ends(c, call[t].obj, call[t].val)
    BY <2>2 DEF ModelsInv, ProcessInv, SendInv
  <2> QED
    BY <1>4, <2>2, <2>4, <2>5, <2>6 DEF SendInv, Sends, SameCall, WorkOf
<1>13. ASSUME NEW d \in Client, d # c
       PROVE  ProcessInv(d)'
  <2>1. SameCalls(d) /\ RespGrows(d)
    BY DEF SameCalls, RespGrows
  <2>2. recvq'[d] = recvq[d]
    BY <1>1, <1>13
  <2>3. \A o \in Object : OwnerOf[o] = d => mem'[o] = mem[o]
    BY <1>1, <1>2, <1>3, <1>13 DEF Owned
  <2> QED
    BY <1>2, <1>4, <1>13, <2>1, <2>2, <2>3, OtherProcess
<1>14. EntryInv' /\ \A u \in Thread : CallInv(u)'
  BY <1>4, CallFrame DEF ModelsInv, EntryInv
<1> QED
  BY <1>5, <1>7, <1>9, <1>11, <1>12, <1>13, <1>14 DEF Parts, ProcessInv

LEMMA AdapterKeeps ==
  ASSUME ModelsInv, NEW c \in Client, Adapter(c)
  PROVE  Parts'
<1>1. CASE PerformRead(c)
  <2>1. \A t \in Thread : SameCall(t)
    <3>1. \A k \in Calls : \A v : LET n == [k EXCEPT !.res = v]
                              IN /\ n.model = k.model /\ n.step = k.step /\ n.obj = k.obj
                                 /\ n.val = k.val /\ n.recv = k.recv /\ n.done = k.done
      BY DEF Calls
    <3>2. call \in [Thread -> Calls]
      BY DEF ModelsInv, TypeOK
    <3>3. call' = call \/ \E u, v : call' = [call EXCEPT ![u].res = v]
      BY <1>1 DEF PerformRead
    <3>4. \A t \in Thread : call'[t] = call[t] \/ \E v : call'[t] = [call[t] EXCEPT !.res = v]
      BY <3>2, <3>3
    <3>5. ASSUME NEW t \in Thread
          PROVE  SameCall(t)
      <4>1. PICK k \in Calls : k = call[t]
        BY <3>2
      <4>2. CASE call'[t] = call[t]
        BY <4>2 DEF SameCall
      <4>3. ASSUME NEW v, call'[t] = [k EXCEPT !.res = v]
            PROVE  SameCall(t)
        BY <3>1, <4>1, <4>3 DEF SameCall
      <4> QED
        BY <3>4, <4>1, <4>2, <4>3
    <3> QED
      BY <3>5
  <2> QED
    BY <1>1, <2>1, AdapterKeepsProcess DEF PerformRead, Posted, serverVars, MessageOps, WriteOps
<1>2. CASE PerformWrite(c)
  <2>1. \A t \in Thread : SameCall(t)
    BY <1>2 DEF PerformWrite, clientVars, SameCall
  <2> QED
    BY <1>2, <2>1, AdapterKeepsProcess
       DEF PerformWrite, Posted, Receive, clientVars, MessageOps, WriteOps
<1>3. CASE PerformLog(c)
  <2>1. \A t \in Thread : SameCall(t)
    BY <1>3 DEF PerformLog, clientVars, SameCall
  <2> QED
    BY <1>3, <2>1, AdapterKeepsProcess DEF PerformLog, Posted, clientVars, MessageOps, WriteOps
<1>4. CASE Deliver(c)
  <2>1. \A t \in Thread : SameCall(t)
    BY <1>4 DEF Deliver, clientVars, SameCall
  <2> QED
    BY <1>4, <2>1, AdapterKeepsProcess
       DEF Deliver, Posted, Receive, clientVars, serverVars, MessageOps, WriteOps
<1> QED
  BY <1>1, <1>2, <1>3, <1>4 DEF Adapter

-------------------------------------------------------------------------------
(* The epoll thread of a client. *)

(* A verb is complete: the work thread, which waits for no message, spins on   *)
(* one flag less; what is posted stays what it is but for acked.               *)
LEMMA CompleteKeeps ==
  ASSUME ModelsInv, NEW c \in Client, NEW flags, worker[c].flags # {},
         worker' = [worker EXCEPT ![c].flags = flags],
         \A d \in Client : d # c => net'[d] = net[d],
         DOMAIN net'[c] = DOMAIN net[c],
         \A k \in DOMAIN net[c] :
           /\ net'[c][k].op = net[c][k].op /\ net'[c][k].obj = net[c][k].obj
           /\ net'[c][k].val = net[c][k].val /\ net'[c][k].cmpflag = net[c][k].cmpflag,
         UNCHANGED <<call, workList, recvq, resp, tasklist, mem, nvm>>
  PROVE  Parts'
<1>0. PICK t : t = worker[c].thread
  OBVIOUS
<1>1. /\ worker[c].pc = "verbs" /\ t \in Thread /\ ClientOf[t] = c
      /\ call[t].model # "none" /\ ~call[t].done /\ WorkOf(t) \in VerbWorks /\ ~call[t].recv
  <2>1. worker[c].pc \in {"idle", "verbs", "recv"}
    BY DEF ModelsInv, TypeOK, WorkerStates
  <2>2. worker[c].pc # "idle" /\ worker[c].pc # "recv"
    BY DEF ModelsInv, ProcessInv, WorkerInv, IdleWorker
  <2> QED
    BY <1>0, <2>1, <2>2 DEF ModelsInv, ProcessInv, WorkerInv
<1>2. /\ worker'[c].pc = "verbs" /\ worker'[c].thread = t
      /\ \A d \in Client : d # c => worker'[d] = worker[d]
  BY <1>0, <1>1 DEF ModelsInv, TypeOK, WorkerStates
<1>3. /\ \A k \in DOMAIN net[c] : net[c][k].op \notin MessageOps
      /\ \A k \in DOMAIN recvq[c] : recvq[c][k].op \notin MessageOps
      /\ \A k \in DOMAIN resp[c] : ~IsReply(c, k)
  BY <1>1, NoneUnderWay
<1>4. ListInv(c)'
  BY <1>0, <1>2, ListFrame DEF SameCalls, SameCall
<1>5. WorkerInv(c)'
  BY <1>1, <1>2 DEF WorkerInv, WorkOf
<1>6. NetInv(c)'
  <2>1. \A k \in DOMAIN net[c] : Owned(c, net[c][k])
    BY DEF ModelsInv, ProcessInv, NetInv
  <2> QED
    BY <1>3, <2>1 DEF NetInv, Owned
<1>7. RecvInv(c)'
  BY <1>3 DEF ModelsInv, ProcessInv, RecvInv, Owned
<1>8. RespInv(c)'
  BY <1>2, <1>3 DEF ModelsInv, ProcessInv, RespInv, IsReply
<1>9. SendInv(c)'
  <2>1. ~Answered(c)'
    BY <1>1, <1>2, <1>3 DEF Answered, IsReply
  <2>2. ASSUME NEW o, NEW v, Ends(c, o, v)
        PROVE  Ends(c, o, v)'
    <3>1. \A k \in DOMAIN net[c] :
            (net'[c][k].op \in WriteOps /\ net'[c][k].obj = o) <=> WritesTo(c, o, k)
      BY DEF WritesTo
    <3> QED
      BY <2>2, <3>1 DEF Ends, WritesTo
  <2>3. SendInv(c) /\ WorkOf(t)' = WorkOf(t)
    BY DEF ModelsInv, ProcessInv, WorkOf
  <2> QED
    BY <1>0, <1>1, <1>2, <2>1, <2>2, <2>3 DEF SendInv, Sends, WorkOf
<1>10. ASSUME NEW d \in Client, d # c
       PROVE  ProcessInv(d)'
  <2>1. SameCalls(d) /\ RespGrows(d) /\ EntryStays
    BY DEF SameCalls, SameCall, RespGrows, EntryStays
  <2> QED
    BY <1>2, <1>10, <2>1, OtherProcess
<1>11. EntryInv' /\ \A u \in Thread : CallInv(u)'
  BY DEF ModelsInv, EntryInv, CallInv
<1> QED
  BY <1>4, <1>5, <1>6, <1>7, <1>8, <1>9, <1>10, <1>11 DEF Parts, ProcessInv

LEMMA OnResponseKeeps ==
  ASSUME ModelsInv, NEW c \in Client, OnResponse(c)
  PROVE  Parts'
<1>0. PICK r : r = Head(resp[c])
  OBVIOUS
<1>1. /\ resp[c] # <<>> /\ resp' = [resp EXCEPT ![c] = Tail(@)]
      /\ \/ r.type = "WriteImm" /\ UNCHANGED call
         \/ r.type # "WriteImm" /\ call' = [call EXCEPT ![r.task].recv = TRUE]
      /\ UNCHANGED <<workList, worker, net, recvq, tasklist, mem, nvm>>
  BY <1>0 DEF OnResponse, serverVars
<1>2. /\ resp[c] \in Seq(Answers) /\ resp'[c] = Tail(resp[c]) /\ r = resp[c][1]
      /\ 1 \in DOMAIN resp[c] /\ r \in Answers
      /\ \A d \in Client : d # c => resp'[d] = resp[d]
  <2>1. resp \in [Client -> Seq(Answers)]
    BY DEF ModelsInv, TypeOK
  <2>2. resp[c] \in Seq(Answers) /\ resp'[c] = Tail(resp[c])
        /\ \A d \in Client : d # c => resp'[d] = resp[d]
    BY <1>1, <2>1
  <2> QED
    BY <1>0, <1>1, <2>2, HeadOfSeq
<1>3. \A k \in DOMAIN resp'[c] :
        k \in Nat \ {0} /\ k + 1 \in DOMAIN resp[c] /\ resp'[c][k] = resp[c][k + 1]
  <2>1. \A k \in DOMAIN Tail(resp[c]) :
          k \in Nat \ {0} /\ k + 1 \in DOMAIN resp[c] /\ Tail(resp[c])[k] = resp[c][k + 1]
    BY <1>1, <1>2, TailIndices
  <2> QED
    BY <1>2, <2>1
<1>4. RespInv(c)
  BY DEF ModelsInv, ProcessInv
<1>5. EntryInv' /\ EntryStays
  BY <1>1 DEF ModelsInv, EntryInv, EntryStays
<1>6. CASE r.type = "WriteImm"
  <2>1. \A t \in Thread : SameCall(t)
    BY <1>1, <1>6 DEF SameCall
  <2>2. SameCalls(c) /\ ServedSame(c)
    BY <2>1, SameServed DEF SameCalls
  <2>3. ListInv(c)' /\ WorkerInv(c)' /\ NetInv(c)' /\ RecvInv(c)'
    BY <1>1, <1>5, <2>2, ListFrame, WorkerFrame, NetFrame, RecvFrame
  <2>4. NoMessage(c)' <=> NoMessage(c)
    BY <1>1 DEF NoMessage
  <2>5. call' = call /\ worker' = worker
    BY <1>1, <1>6
  <2>6. \A k \in DOMAIN resp'[c] :
          IF IsReply(c, k)'
            THEN /\ AwaitsNext(c, resp'[c][k].task, resp'[c][k].type) /\ NoMessage(c)'
                 /\ resp'[c][k].type = "REQADDR1" => tasklist'.client # NULL
            ELSE resp'[c][k].cmpflag # NULL => ClientOf[resp'[c][k].cmpflag] = c
    <3> SUFFICES ASSUME NEW k \in DOMAIN resp'[c]
                 PROVE  IF IsReply(c, k)'
                          THEN /\ AwaitsNext(c, resp'[c][k].task, resp'[c][k].type)
                               /\ NoMessage(c)'
                               /\ resp'[c][k].type = "REQADDR1" => tasklist'.client # NULL
                          ELSE resp'[c][k].cmpflag # NULL => ClientOf[resp'[c][k].cmpflag] = c
      OBVIOUS
    <3>1. k + 1 \in DOMAIN resp[c] /\ resp'[c][k] = resp[c][k + 1]
      BY <1>3
    <3>2. IsReply(c, k)' <=> IsReply(c, k + 1)
      BY <3>1 DEF IsReply
    <3>3. CASE IsReply(c, k + 1)
      <4>1. /\ Awaits(c, resp[c][k + 1].task, resp[c][k + 1].type) /\ NoMessage(c)
            /\ resp[c][k + 1].type = "REQADDR1" => tasklist.client # NULL
        BY <1>4, <3>1, <3>3 DEF RespInv
      <4>2. AwaitsNext(c, resp'[c][k].task, resp'[c][k].type)
        BY <2>5, <3>1, <4>1 DEF Awaits, AwaitsNext, WorkOf
      <4>3. tasklist' = tasklist
        BY <1>1
      <4> QED
        BY <2>4, <3>1, <3>2, <3>3, <4>1, <4>2, <4>3
    <3>4. CASE ~IsReply(c, k + 1)
      BY <1>4, <3>1, <3>2, <3>4 DEF RespInv
    <3> QED
      BY <3>3, <3>4
  <2>7. \A j, k \in DOMAIN resp'[c] : IsReply(c, j)' /\ IsReply(c, k)' => j = k
    <3>1. \A j, k \in DOMAIN resp'[c] : IsReply(c, j)' /\ IsReply(c, k)' => j + 1 = k + 1
      BY <1>3, <1>4 DEF RespInv, IsReply
    <3> QED
      BY <1>3, <3>1
  <2>8. worker'[c].pc = "recv" /\ call'[worker'[c].thread].recv =>
          NoMessage(c)' /\ \A k \in DOMAIN resp'[c] : ~IsReply(c, k)'
    BY <1>3, <1>4, <2>4, <2>5 DEF RespInv, IsReply
  <2>9. RespInv(c)'
    BY <2>6, <2>7, <2>8 DEF RespInv, IsReply, Awaits, AwaitsNext, WorkOf
  <2>10. SendInv(c)'
    <3>1. Answered(c)' => Answered(c)
      BY <1>3, <2>5 DEF Answered, IsReply
    <3>2. Sends(c)' <=> Sends(c)
      BY <2>5 DEF Sends, WorkOf
    <3>3. mem' = mem /\ nvm' = nvm /\ net' = net
      BY <1>1
    <3>4. \A o, v : Ends(c, o, v) => Ends(c, o, v)'
      BY <3>3 DEF Ends, WritesTo
    <3>5. SendInv(c)
      BY DEF ModelsInv, ProcessInv
    <3> QED
      BY <2>5, <3>1, <3>2, <3>3, <3>4, <3>5 DEF SendInv, WorkOf
  <2>11. ASSUME NEW d \in Client, d # c
         PROVE  ProcessInv(d)'
    BY <1>1, <1>2, <1>5, <2>1, <2>11, OtherProcess DEF SameCalls, RespGrows
  <2>12. \A u \in Thread : CallInv(u)'
    BY <1>5, <2>1, CallFrame DEF ModelsInv
  <2> QED
    BY <1>5, <2>3, <2>9, <2>10, <2>11, <2>12 DEF Parts, ProcessInv
<1>7. CASE r.type # "WriteImm"
  <2>0. PICK t : t = r.task
    OBVIOUS
  <2>1. IsReply(c, 1)
    BY <1>2, <1>7 DEF IsReply
  <2>2. /\ Awaits(c, t, r.type) /\ NoMessage(c)
        /\ r.type = "REQADDR1" => tasklist.client # NULL
        /\ t \in Thread /\ \A k \in DOMAIN resp[c] : IsReply(c, k) => k = 1
    <3>1. t \in Thread
      BY <1>2, <1>7, <2>0 DEF Answers
    <3> QED
      BY <1>2, <1>4, <2>0, <2>1, <3>1 DEF RespInv
  <2>3. /\ worker[c].pc = "recv" /\ worker[c].thread = t /\ WorkOf(t) = r.type /\ ~call[t].recv
        /\ ClientOf[t] = c /\ call[t].model # "none" /\ ~call[t].done
        /\ WorkOf(t) \in MessageOps /\ worker[c].flags = {}
    BY <2>2 DEF Awaits, ModelsInv, ProcessInv, WorkerInv
  <2>4. /\ call'[t].model = call[t].model /\ call'[t].step = call[t].step
        /\ call'[t].obj = call[t].obj /\ call'[t].val = call[t].val
        /\ call'[t].done = call[t].done /\ call'[t].recv
        /\ \A u \in Thread : u # t => SameCall(u)
    <3>1. \A k \in Calls : LET n == [k EXCEPT !.recv = TRUE]
                           IN /\ n.model = k.model /\ n.step = k.step /\ n.obj = k.obj
                              /\ n.val = k.val /\ n.done = k.done /\ n.recv
      BY DEF Calls
    <3>2. call \in [Thread -> Calls] /\ call' = [call EXCEPT ![t].recv = TRUE]
      BY <1>1, <1>7, <2>0 DEF ModelsInv, TypeOK
    <3> QED
      BY <2>2, <3>1, <3>2 DEF SameCall
  <2>5. /\ \A k \in DOMAIN resp'[c] : ~IsReply(c, k)'
        /\ net[c] = <<>> /\ \A k \in DOMAIN recvq[c] : recvq[c][k].op \notin MessageOps
    <3>1. \A k \in DOMAIN resp'[c] : k + 1 # 1
      BY <1>3
    <3> QED
      BY <1>3, <2>2, <3>1 DEF IsReply, NoMessage
  <2>6. ListInv(c)'
    <3>1. ListInv(c) /\ workList[c] \in Seq(Thread)
      BY DEF ModelsInv, ProcessInv, TypeOK
    <3>2. ASSUME NEW u \in Thread, ClientOf[u] = c, Queued(u)
          PROVE  Queued(u)'
      <4>1. u # t
        BY <2>3, <3>2 DEF Queued
      <4> QED
        BY <1>1, <2>4, <3>2, <4>1 DEF Queued, SameCall
    <3>3. \A k \in DOMAIN workList[c] : workList[c][k] \in Thread
      BY <3>1
    <3> QED
      BY <1>1, <3>1, <3>2, <3>3 DEF ListInv, Queued
  <2>7. WorkerInv(c)'
    BY <1>1, <2>2, <2>3, <2>4 DEF WorkerInv, WorkOf
  <2>8. NetInv(c)' /\ RecvInv(c)'
    <3>1. DOMAIN net[c] = {}
      BY <2>5
    <3>2. NetInv(c)'
      BY <1>1, <3>1 DEF NetInv
    <3>3. RecvInv(c)
      BY DEF ModelsInv, ProcessInv
    <3>4. RecvInv(c)'
      BY <1>1, <2>5, <3>3 DEF RecvInv, Owned
    <3> QED
      BY <3>2, <3>4
  <2>9. RespInv(c)'
    <3>1. NoMessage(c)'
      BY <1>1, <2>5 DEF NoMessage
    <3>2. \A k \in DOMAIN resp'[c] : resp'[c][k].cmpflag # NULL => ClientOf[resp'[c][k].cmpflag] = c
      BY <1>3, <1>4, <2>5 DEF RespInv, IsReply
    <3> QED
      BY <2>5, <3>1, <3>2 DEF RespInv, IsReply
  <2>10. SendInv(c)'
    <3>1. Answered(c)
      BY <1>2, <2>1 DEF Answered
    <3>2. WorkOf(t)' = WorkOf(t)
      BY <2>4 DEF WorkOf
    <3>3. SendInv(c)
      BY DEF ModelsInv, ProcessInv
    <3>4. Sends(c) => mem[call[t].obj] = call[t].val /\ nvm[FirstLine[call[t].obj]] = call[t].val
      BY <2>3, <3>1, <3>3 DEF SendInv
    <3>5. Sends(c)' => Sends(c)
      BY <1>1, <2>3, <3>2 DEF Sends, WorkOf
    <3>6. DOMAIN net[c] = {}
      BY <2>5
    <3> QED
      BY <1>1, <2>3, <2>4, <3>4, <3>5, <3>6 DEF SendInv, Ends
  <2>11. ASSUME NEW d \in Client, d # c
         PROVE  ProcessInv(d)'
    <3>1. SameCalls(d) /\ RespGrows(d)
      BY <1>2, <2>3, <2>4, <2>11 DEF SameCalls, RespGrows
    <3> QED
      BY <1>1, <1>5, <2>11, <3>1, OtherProcess
  <2>12. CallInv(t)'
    <3>1. CallInv(t) /\ call[t].step \in 1..Len(Works[call[t].model])
      BY <2>2, <2>3 DEF ModelsInv, CallInv
    <3>2. ASSUME NEW k \in 1..call[t].step, Works[call[t].model][k] = "REQADDR1"
          PROVE  tasklist.client # NULL
      <4>1. CASE k < call[t].step
        BY <2>3, <3>1, <3>2, <4>1 DEF CallInv
      <4>2. CASE k = call[t].step
        BY <2>2, <2>3, <3>2, <4>2 DEF WorkOf
      <4> QED
        BY <3>1, <4>1, <4>2
    <3> QED
      BY <1>1, <2>3, <2>4, <3>1, <3>2 DEF CallInv
  <2>13. \A u \in Thread : CallInv(u)'
    BY <1>5, <2>4, <2>12, CallFrame DEF ModelsInv
  <2> QED
    BY <1>5, <2>6, <2>7, <2>8, <2>9, <2>10, <2>11, <2>13 DEF Parts, ProcessInv
<1> QED
  BY <1>6, <1>7

LEMMA ClientEpollKeeps ==
  ASSUME ModelsInv, NEW c \in Client, ClientEpoll(c)
  PROVE  Parts'
<1>1. CASE CompleteWrite(c)
  <2>1. net \in [Client -> Seq(Posts)]
    BY DEF ModelsInv, TypeOK
  <2>2. /\ \A d \in Client : d # c => net'[d] = net[d]
        /\ net'[c] = [k \in DOMAIN net[c] |-> [net[c][k] EXCEPT !.acked = TRUE]]
    BY <1>1, <2>1 DEF CompleteWrite
  <2>3. \A r \in Posts : LET n == [r EXCEPT !.acked = TRUE]
                         IN n.op = r.op /\ n.obj = r.obj /\ n.val = r.val /\ n.cmpflag = r.cmpflag
    BY DEF Posts
  <2>4. \A k \in DOMAIN net[c] : net[c][k] \in Posts
    BY <2>1
  <2>5. DOMAIN net'[c] = DOMAIN net[c]
        /\ \A k \in DOMAIN net[c] :
             /\ net'[c][k].op = net[c][k].op /\ net'[c][k].obj = net[c][k].obj
             /\ net'[c][k].val = net[c][k].val /\ net'[c][k].cmpflag = net[c][k].cmpflag
    BY <2>2, <2>3, <2>4
  <2>6. worker[c].flags # {} /\ worker' = [worker EXCEPT ![c].flags = worker[c].flags \ {"write"}]
        /\ UNCHANGED <<call, workList, recvq, resp, tasklist, mem, nvm>>
    BY <1>1 DEF CompleteWrite, threadVars, serverVars
  <2> QED
    BY <2>2, <2>5, <2>6, CompleteKeeps
<1>2. CASE CompleteRead(c)
  BY <1>2, CompleteKeeps DEF CompleteRead, threadVars, queueVars, serverVars
<1>3. CASE OnResponse(c)
  BY <1>3, OnResponseKeeps
<1> QED
  BY <1>1, <1>2, <1>3 DEF ClientEpoll

-------------------------------------------------------------------------------
(* The epoll thread of the server. *)

LEMMA MessageHandled ==
  ASSUME ModelsInv, NEW c \in Client, NEW r, recvq[c] # <<>>, r = Head(recvq[c]),
         r.op \in MessageOps,
         recvq' = [recvq EXCEPT ![c] = Tail(@)], Respond(c, ResponseTo(c)),
         EntryInv', EntryStays, r.op = "REQADDR1" => tasklist'.client # NULL,
         UNCHANGED <<call, workList, worker, net>>,
         \A o \in Object : OwnerOf[o] # c => mem'[o] = mem[o] /\ nvm'[FirstLine[o]] = nvm[FirstLine[o]],
         r.op = "SEND" => mem'[r.obj] = r.val /\ nvm'[FirstLine[r.obj]] = r.val,
         r.op = "SEND2" => mem'[r.obj] = mem[r.obj] /\ nvm'[FirstLine[r.obj]] = mem[r.obj]
  PROVE  Parts'
<1>0. PICK t : t = r.task
  OBVIOUS
<1>1. /\ recvq \in [Client -> Seq(Posts)] /\ resp \in [Client -> Seq(Answers)]
      /\ recvq[c] \in Seq(Posts) /\ resp[c] \in Seq(Answers)
  BY DEF ModelsInv, TypeOK
<1>2. /\ r = recvq[c][1] /\ 1 \in DOMAIN recvq[c] /\ Owned(c, r) /\ t \in Thread /\ r.obj \in Object
  BY <1>0, ReceivedPost
<1>3. /\ Len(recvq[c]) = 1 /\ net[c] = <<>>
      /\ Awaits(c, t, r.op) /\ r.obj = call[t].obj /\ r.val = call[t].val
  BY <1>0, <1>2 DEF ModelsInv, ProcessInv, RecvInv, Owned
<1>4. /\ worker[c].pc = "recv" /\ worker[c].thread = t /\ WorkOf(t) = r.op /\ ~call[t].recv
  BY <1>3 DEF Awaits
<1>5. /\ recvq'[c] = <<>> /\ \A d \in Client : d # c => recvq'[d] = recvq[d] /\ resp'[d] = resp[d]
      /\ resp'[c] = Append(resp[c], [type |-> r.op, task |-> t])
  BY <1>0, <1>1, <1>3 DEF Respond, ResponseTo
<1>6. NoMessage(c)' /\ ~NoMessage(c)
  BY <1>2, <1>3, <1>5 DEF NoMessage
<1>7. \A k \in DOMAIN resp[c] : ~IsReply(c, k)
  BY <1>6 DEF ModelsInv, ProcessInv, RespInv
<1>8. SameCalls(c) /\ ServedSame(c) /\ \A u \in Thread : SameCall(u)
  BY DEF SameCalls, SameCall, ServedSame
<1>9. ListInv(c)' /\ WorkerInv(c)' /\ NetInv(c)'
  BY <1>8, ListFrame, WorkerFrame, NetFrame
<1>10. RecvInv(c)'
  BY <1>5 DEF RecvInv
<1>11. \A k \in DOMAIN resp'[c] :
         \/ k \in DOMAIN resp[c] /\ resp'[c][k] = resp[c][k]
         \/ k = Len(resp[c]) + 1 /\ resp'[c][k] = [type |-> r.op, task |-> t]
  BY <1>1, <1>5
<1>12. RespInv(c)'
  <2>1. ASSUME NEW k \in DOMAIN resp'[c]
        PROVE  IF IsReply(c, k)'
                 THEN /\ k = Len(resp[c]) + 1
                      /\ AwaitsNext(c, resp'[c][k].task, resp'[c][k].type) /\ NoMessage(c)'
                      /\ resp'[c][k].type = "REQADDR1" => tasklist'.client # NULL
                 ELSE resp'[c][k].cmpflag # NULL => ClientOf[resp'[c][k].cmpflag] = c
    <3>1. CASE k \in DOMAIN resp[c] /\ resp'[c][k] = resp[c][k]
      BY <1>7, <3>1 DEF ModelsInv, ProcessInv, RespInv, IsReply
    <3>2. CASE k = Len(resp[c]) + 1 /\ resp'[c][k] = [type |-> r.op, task |-> t]
      BY <1>4, <1>6, <3>2 DEF IsReply, AwaitsNext, WorkOf, MessageOps
    <3> QED
      BY <1>11, <3>1, <3>2
  <2>2. ~call'[worker'[c].thread].recv
    BY <1>4
  <2> QED
    BY <2>1, <2>2 DEF RespInv, IsReply, Awaits, AwaitsNext, WorkOf
<1>13. SendInv(c)'
  <2>1. SUFFICES ASSUME r.op \in {"SEND", "SEND2"}
        PROVE  SendInv(c)'
    BY <1>4 DEF SendInv, Sends, WorkOf
  <2>2. ASSUME r.op = "SEND2"
        PROVE  mem[r.obj] = r.val
    <3>1. Ends(c, r.obj, r.val)
      BY <1>3, <1>4, <2>2 DEF ModelsInv, ProcessInv, SendInv, Sends
    <3>2. DOMAIN net[c] = {}
      BY <1>3
    <3> QED
      BY <3>1, <3>2 DEF Ends
  <2>3. mem'[r.obj] = r.val /\ nvm'[FirstLine[r.obj]] = r.val
    BY <2>1, <2>2
  <2>4. \A o, v : o = r.obj /\ v = r.val => Ends(c, o, v)'
    <3>1. DOMAIN net'[c] = {}
      BY <1>3
    <3> QED
      BY <2>3, <3>1 DEF Ends
  <2> QED
    BY <1>3, <1>4, <2>3, <2>4 DEF SendInv, Sends, WorkOf
<1>14. ASSUME NEW d \in Client, d # c
       PROVE  ProcessInv(d)'
  <2>1. SameCalls(d) /\ RespGrows(d)
    BY <1>5, <1>8, <1>14 DEF SameCalls, RespGrows
  <2> QED
    BY <1>5, <1>14, <2>1, OtherProcess
<1>15. \A u \in Thread : CallInv(u)'
  BY <1>8, CallFrame DEF ModelsInv
<1> QED
  BY <1>9, <1>10, <1>12, <1>13, <1>14, <1>15 DEF Parts, ProcessInv

LEMMA OnWriteImmKeeps ==
  ASSUME ModelsInv, NEW c \in Client, OnWriteImm(c)
  PROVE  Parts'
<1>0. PICK r : r = Head(recvq[c])
  OBVIOUS
<1>1. /\ recvq[c] # <<>> /\ r.op = "WRITE_WITH_IMM" /\ recvq' = [recvq EXCEPT ![c] = Tail(@)]
      /\ nvm' = [nvm EXCEPT ![FirstLine[tasklist.obj]] = mem[tasklist.obj]]
      /\ resp' = [resp EXCEPT ![tasklist.client] =
                    Append(@, [type |-> "WriteImm", cmpflag |-> tasklist.cmpflag])]
      /\ UNCHANGED <<call, workList, worker, net, tasklist, mem>>
  BY <1>0 DEF OnWriteImm, Flush, Received, Consume, Respond, clientVars
<1>2. /\ recvq \in [Client -> Seq(Posts)] /\ resp \in [Client -> Seq(Answers)]
      /\ nvm \in [Line -> Value]
      /\ tasklist.client \in Client \cup {NULL} /\ tasklist.cmpflag \in Thread \cup {NULL}
  BY DEF ModelsInv, TypeOK
<1>3. Owned(c, r)
  BY <1>0, <1>1, ReceivedPost
<1>4. /\ tasklist.client \in Client /\ tasklist.obj \in Object
      /\ tasklist.cmpflag # NULL => ClientOf[tasklist.cmpflag] = tasklist.client
  BY <1>1, <1>2, <1>3 DEF Owned, ModelsInv, EntryInv
<1>5. ASSUME NEW d \in Client
      PROVE  RespGrows(d)
  <2> DEFINE a == [type |-> "WriteImm", cmpflag |-> tasklist.cmpflag]
  <2>1. a \in Answers /\ a.type = "WriteImm" /\ a.cmpflag = tasklist.cmpflag
    BY <1>2 DEF Answers
  <2>2. resp'[d] = resp[d] \/ (d = tasklist.client /\ resp'[d] = Append(resp[d], a))
    BY <1>1, <1>2
  <2> HIDE DEF a
  <2> QED
    BY <1>4, <2>1, <2>2 DEF RespGrows
<1>6. EntryInv' /\ EntryStays /\ \A u \in Thread : SameCall(u)
  BY <1>1 DEF ModelsInv, EntryInv, EntryStays, SameCall
<1>7. \A d \in Client : SameCalls(d) /\ ServedSame(d)
  BY <1>6, SameServed DEF SameCalls
<1>8. \A o \in Object : mem'[o] = mem[o] /\ nvm'[FirstLine[o]] \in {nvm[FirstLine[o]], mem[o]}
  BY <1>1, <1>2, <1>4, FirstLines
<1>9. ASSUME NEW d \in Client, d # c
      PROVE  ProcessInv(d)'
  <2>1. recvq'[d] = recvq[d]
    BY <1>1, <1>2, <1>9
  <2> QED
    BY <1>1, <1>5, <1>6, <1>7, <1>8, <2>1, OtherProcess
<1>10. ListInv(c)' /\ WorkerInv(c)' /\ NetInv(c)' /\ SendInv(c)'
  BY <1>1, <1>5, <1>6, <1>7, <1>8, ListFrame, WorkerFrame, NetFrame, SendFrame
<1>11. \A k \in DOMAIN recvq'[c] :
         /\ k \in Nat \ {0} /\ k + 1 \in DOMAIN recvq[c] /\ recvq'[c][k] = recvq[c][k + 1]
         /\ Len(recvq'[c]) = Len(recvq[c]) - 1 /\ Len(recvq[c]) \in Nat
  <2>1. recvq[c] \in Seq(Posts) /\ recvq'[c] = Tail(recvq[c])
    BY <1>1, <1>2
  <2> QED
    BY <1>1, <2>1, TailIndices
<1>12. RecvInv(c)'
  <2>1. \A q \in Posts : Owned(c, q) => OwnedNext(c, q)
    BY <1>1, <1>6, <1>7, OwnedFrame, NextOwned
  <2>2. \A k \in DOMAIN recvq[c] : recvq[c][k] \in Posts
    BY <1>2
  <2>3. \A k \in DOMAIN recvq'[c] :
          /\ OwnedNext(c, recvq'[c][k])
          /\ recvq'[c][k].op \in MessageOps => k = Len(recvq'[c]) /\ net'[c] = <<>>
    BY <1>1, <1>11, <2>1, <2>2 DEF ModelsInv, ProcessInv, RecvInv
  <2> QED
    BY <2>3 DEF RecvInv, Owned, OwnedNext, Awaits, AwaitsNext, WorkOf
<1>13. RespInv(c)'
  <2>1. NoMessage(c) => NoMessage(c)'
    BY <1>1, <1>11 DEF NoMessage
  <2> QED
    BY <1>1, <1>5, <1>6, <1>7, <2>1, RespFrame
<1>14. \A u \in Thread : CallInv(u)'
  BY <1>6, CallFrame DEF ModelsInv
<1> QED
  BY <1>6, <1>9, <1>10, <1>12, <1>13, <1>14 DEF Parts, ProcessInv

LEMMA ServerEpollKeeps ==
  ASSUME ModelsInv, NEW c \in Client, ServerEpoll(c)
  PROVE  Parts'
<1>0. PICK r : r = Head(recvq[c])
  OBVIOUS
<1>1. recvq[c] # <<>> /\ recvq' = [recvq EXCEPT ![c] = Tail(@)]
      /\ UNCHANGED <<call, workList, worker, net>>
  BY DEF ServerEpoll, OnReqAddr1, OnWriteImm, OnSend, OnSend2, OnTailwindRPC, Received, Consume,
         clientVars
<1>2. /\ Owned(c, r) /\ r.obj \in Object
      /\ mem \in [Object -> Value] /\ nvm \in [Line -> Value]
      /\ tasklist' = tasklist => EntryInv' /\ EntryStays
  BY <1>0, <1>1, ReceivedPost DEF ModelsInv, TypeOK, EntryInv, EntryStays
<1>3. CASE OnReqAddr1(c)
  <2>1. r.op = "REQADDR1" /\ Respond(c, ResponseTo(c)) /\ mem' = mem /\ nvm' = nvm
        /\ tasklist' = [obj |-> r.obj, client |-> c, cmpflag |-> r.cmpflag]
    BY <1>0, <1>3 DEF OnReqAddr1, Received
  <2>2. EntryInv' /\ EntryStays /\ tasklist'.client # NULL
    BY <1>2, <2>1, ModelsAssumption DEF EntryInv, EntryStays, Owned
  <2> QED
    BY <1>0, <1>1, <2>1, <2>2, MessageHandled DEF MessageOps
<1>4. CASE OnWriteImm(c)
  BY <1>4, OnWriteImmKeeps
<1>5. CASE OnSend(c)
  <2>1. r.op = "SEND" /\ Respond(c, ResponseTo(c)) /\ tasklist' = tasklist
        /\ mem' = [mem EXCEPT ![r.obj] = r.val] /\ nvm' = [nvm EXCEPT ![FirstLine[r.obj]] = r.val]
    BY <1>0, <1>5 DEF OnSend, Flush, Received
  <2>2. \A o \in Object : OwnerOf[o] # c => mem'[o] = mem[o] /\ nvm'[FirstLine[o]] = nvm[FirstLine[o]]
    BY <1>2, <2>1, FirstLines DEF Owned
  <2>3. mem'[r.obj] = r.val /\ nvm'[FirstLine[r.obj]] = r.val
    BY <1>2, <2>1, FirstLines
  <2>4. r.op \in MessageOps /\ EntryInv' /\ EntryStays /\ r.op # "REQADDR1"
    BY <1>2, <2>1 DEF MessageOps
  <2> QED
    BY <1>0, <1>1, <2>1, <2>2, <2>3, <2>4, MessageHandled
<1>6. CASE OnSend2(c)
  <2>1. r.op = "SEND2" /\ Respond(c, ResponseTo(c)) /\ tasklist' = tasklist
        /\ mem' = mem /\ nvm' = [nvm EXCEPT ![FirstLine[r.obj]] = mem[r.obj]]
    BY <1>0, <1>6 DEF OnSend2, Flush, Received
  <2>2. \A o \in Object : OwnerOf[o] # c => mem'[o] = mem[o] /\ nvm'[FirstLine[o]] = nvm[FirstLine[o]]
    BY <1>2, <2>1, FirstLines DEF Owned
  <2>3. mem'[r.obj] = mem[r.obj] /\ nvm'[FirstLine[r.obj]] = mem[r.obj]
    BY <1>2, <2>1, FirstLines
  <2>4. r.op \in MessageOps /\ EntryInv' /\ EntryStays /\ r.op # "REQADDR1"
    BY <1>2, <2>1 DEF MessageOps
  <2> QED
    BY <1>0, <1>1, <2>1, <2>2, <2>3, <2>4, MessageHandled
<1>7. CASE OnTailwindRPC(c)
  <2>1. r.op = "Tailwind_RPC" /\ Respond(c, ResponseTo(c)) /\ tasklist' = tasklist
        /\ mem' = mem /\ nvm' = nvm
    BY <1>0, <1>7 DEF OnTailwindRPC, Received
  <2> QED
    BY <1>0, <1>1, <1>2, <2>1, MessageHandled DEF MessageOps
<1> QED
  BY <1>3, <1>4, <1>5, <1>6, <1>7 DEF ServerEpoll

LEMMA EvictKeeps ==
  ASSUME ModelsInv, NEW l \in Line, Evict(l)
  PROVE  Parts'
<1>1. /\ UNCHANGED <<call, workList, worker, net, recvq, resp, tasklist, mem>>
      /\ nvm' = [nvm EXCEPT ![l] = mem[ObjectOf[l]]]
  BY DEF Evict, clientVars, queueVars
<1>2. \A p \in Object : nvm'[FirstLine[p]] \in {nvm[FirstLine[p]], mem[p]}
  BY <1>1, FirstLines DEF ModelsInv, TypeOK
<1>3. ASSUME NEW d \in Client
      PROVE  ProcessInv(d)'
  <2>1. SameCalls(d) /\ RespGrows(d) /\ EntryStays
    BY <1>1 DEF SameCalls, SameCall, RespGrows, EntryStays
  <2> QED
    BY <1>1, <1>2, <2>1, OtherProcess
<1>4. EntryInv' /\ \A u \in Thread : CallInv(u)'
  BY <1>1 DEF ModelsInv, EntryInv, CallInv
<1> QED
  BY <1>3, <1>4 DEF Parts

-------------------------------------------------------------------------------
LEMMA ModelsInit == Init => ModelsInv
<1> SUFFICES ASSUME Init
             PROVE  ModelsInv
  OBVIOUS
<1> USE ModelsAssumption DEF Init
<1>1. NoCall \in Calls
  BY DEF NoCall, Calls
<1>2. IdleWorker \in WorkerStates
  BY DEF IdleWorker, WorkerStates
<1>3. TypeOK
  BY <1>1, <1>2 DEF TypeOK
<1>4. EntryInv
  BY DEF EntryInv
<1>5. \A t \in Thread : CallInv(t)
  BY DEF CallInv, NoCall
<1>6. ASSUME NEW c \in Client
      PROVE  ProcessInv(c)
  <2>1. /\ workList[c] = <<>> /\ net[c] = <<>> /\ recvq[c] = <<>> /\ resp[c] = <<>>
        /\ worker[c] = IdleWorker /\ worker[c].pc = "idle"
    BY DEF IdleWorker
  <2> QED
    BY <2>1 DEF ProcessInv, ListInv, WorkerInv, NetInv, RecvInv, RespInv, SendInv, Sends
<1> QED
  BY <1>3, <1>4, <1>5, <1>6 DEF ModelsInv

LEMMA ModelsNext ==
  ASSUME ModelsInv, [Next]_vars
  PROVE  ModelsInv'
<1>1. CASE Next
  <2>1. TypeOK'
    BY <1>1, NextTypes
  <2>2. Parts'
    BY <1>1, AppThreadKeeps, WorkThreadKeeps, AdapterKeeps, ClientEpollKeeps, ServerEpollKeeps,
       EvictKeeps DEF Next
  <2> QED
    BY <2>1, <2>2 DEF Parts, ModelsInv
<1>2. CASE UNCHANGED vars
  <2>1. UNCHANGED <<uses, call, workList, worker, write_flag, up, net, recvq, resp, tasklist, mem,
                    nvm, log>>
    BY <1>2 DEF vars, steps, clientVars, queueVars, serverVars
  <2>2. TypeOK'
    BY <2>1 DEF ModelsInv, TypeOK
  <2>3. EntryInv' /\ \A u \in Thread : CallInv(u)'
    BY <2>1 DEF ModelsInv, EntryInv, CallInv
  <2>4. ASSUME NEW d \in Client
        PROVE  ProcessInv(d)'
    <3>1. SameCalls(d) /\ RespGrows(d) /\ EntryStays
      BY <2>1 DEF SameCalls, SameCall, RespGrows, EntryStays
    <3> QED
      BY <2>1, <3>1, OtherProcess
  <2> QED
    BY <2>2, <2>3, <2>4 DEF ModelsInv
<1> QED
  BY <1>1, <1>2

(* Only the work thread ends a work. *)
LEMMA DoneByFinish ==
  ASSUME ModelsInv, Next, NEW t \in Thread, call'[t].done, ~call[t].done
  PROVE  \E c \in Client : Finish(c)
<1>1. call \in [Thread -> Calls]
  BY DEF ModelsInv, TypeOK
<1>2. ASSUME NEW u \in Thread, AppThread(u)
      PROVE  FALSE
  <2>1. CASE Return(u)
    BY <1>1, <2>1 DEF Return, NoCall
  <2>2. ASSUME NEW next \in Calls, Submit(u, next), ~next.done
        PROVE  FALSE
    BY <1>1, <2>2 DEF Submit
  <2>3. CASE Continue(u)
    <3>1. \A r \in Calls, n \in Nat :
            LET next == [r EXCEPT !.step = n, !.recv = FALSE, !.done = FALSE]
            IN next \in Calls /\ ~next.done
      BY DEF Calls
    <3>2. call[u] \in Calls /\ call[u].step + 1 \in Nat
      BY <1>1 DEF Calls
    <3> QED
      BY <2>2, <2>3, <3>1, <3>2 DEF Continue
  <2>4. ASSUME NEW use, NEW o, Call(u, use[1], o, use[2])
        PROVE  FALSE
    BY <1>1, <2>4 DEF Call, Submit, NoCall
  <2> QED
    BY <1>2, <2>1, <2>3, <2>4 DEF AppThread
<1>3. ASSUME NEW c \in Client, WorkThread(c), ~Finish(c)
      PROVE  call' = call
  BY <1>3 DEF WorkThread, MessageWork, WriteWork, BareWriteWork, Send2Work, ReadWork, CloverWork,
              TailwindWork, Handle, threadVars
<1>4. ASSUME NEW c \in Client, Adapter(c)
      PROVE  call'[t].done = call[t].done
  <2>1. \A k \in Calls : \A v : [k EXCEPT !.res = v].done = k.done
    BY DEF Calls
  <2>2. CASE PerformRead(c)
    <3> DEFINE u == Head(net[c]).task
               v == mem[Head(net[c]).obj]
    <3>1. call' = call \/ call' = [call EXCEPT ![u].res = v]
      BY <2>2 DEF PerformRead
    <3>2. call[t] \in Calls
      BY <1>1
    <3>3. [call[t] EXCEPT !.res = v].done = call[t].done
      BY <2>1, <3>2
    <3> HIDE DEF u, v
    <3> QED
      BY <1>1, <3>1, <3>3
  <2> QED
    BY <1>4, <2>2 DEF Adapter, PerformWrite, PerformLog, Deliver, clientVars
<1>5. ASSUME NEW c \in Client, ClientEpoll(c)
      PROVE  call'[t].done = call[t].done
  <2>1. \A k \in Calls : [k EXCEPT !.recv = TRUE].done = k.done
    BY DEF Calls
  <2>2. CASE CompleteWrite(c) \/ CompleteRead(c)
    BY <2>2 DEF CompleteWrite, CompleteRead, threadVars
  <2>3. CASE OnResponse(c)
    <3>1. call' = call \/ call' = [call EXCEPT ![Head(resp[c]).task].recv = TRUE]
      BY <2>3 DEF OnResponse
    <3> QED
      BY <1>1, <2>1, <3>1
  <2> QED
    BY <1>5, <2>2, <2>3 DEF ClientEpoll
<1>6. ASSUME NEW c \in Client, ServerEpoll(c)
      PROVE  call' = call
  BY <1>6 DEF ServerEpoll, OnReqAddr1, OnWriteImm, OnSend, OnSend2, OnTailwindRPC, clientVars
<1>7. ASSUME NEW l \in Line, Evict(l)
      PROVE  call' = call
  BY <1>7 DEF Evict, clientVars
<1> QED
  BY <1>2, <1>3, <1>4, <1>5, <1>6, <1>7 DEF Next

(* The inductive invariant holds: a process has at most one message under way, *)
(* the one its work thread waits for, and every request it has posted belongs  *)
(* to it.                                                                      *)
THEOREM ModelsHold == Spec => []ModelsInv
<1>1. Init => ModelsInv
  BY ModelsInit
<1>2. ModelsInv /\ [Next]_vars => ModelsInv'
  BY ModelsNext
<1> QED
  BY <1>1, <1>2, PTL DEF Spec

(* Every variable keeps its type. *)
THEOREM ModelsTypes == Spec => []TypeOK
<1>1. ModelsInv => TypeOK
  BY DEF ModelsInv
<1> QED
  BY <1>1, ModelsHold, PTL

(* Whichever address request was the last to overwrite the entry of the task   *)
(* list, an immediate finds one, and no process is handed a pointer into the   *)
(* stack of another.                                                           *)
THEOREM FlagsAreOwn == Spec => []FlagIsOwn
<1>1. ModelsInv => FlagIsOwn
  <2> SUFFICES ASSUME ModelsInv
               PROVE  FlagIsOwn
    OBVIOUS
  <2>1. \A c \in Client : Received(c, "WRITE_WITH_IMM") => tasklist.client # NULL
    BY ReceivedPost DEF Received, Owned
  <2>2. \A c \in Client : \A k \in DOMAIN resp[c] :
          resp[c][k].type = "WriteImm" /\ resp[c][k].cmpflag # NULL
            => ClientOf[resp[c][k].cmpflag] = c
    BY DEF ModelsInv, ProcessInv, RespInv, IsReply
  <2> QED
    BY <2>1, <2>2 DEF ModelsInv, EntryInv, FlagIsOwn
<1> QED
  BY <1>1, ModelsHold, PTL

(* What a send or send2 wrote is in the server's memory, and the line at its    *)
(* address flushed, before the call returns, whatever the adapter does of its   *)
(* own accord; of an object that reaches further nothing more is promised.      *)
THEOREM SendsAreDurable == Spec => SendIsDurable
<1> DEFINE A == \A t \in Thread :
             SendEnds(t) => nvm'[FirstLine[call[t].obj]] = call[t].val
<1>1. ModelsInv /\ [Next]_vars => [A]_vars
  <2> SUFFICES ASSUME ModelsInv, Next, NEW t \in Thread, call'[t].done, ~call[t].done,
                      WorkOf(t) \in {"SEND", "SEND2"}
               PROVE  nvm'[FirstLine[call[t].obj]] = call[t].val
    BY DEF SendEnds
  <2>1. \E c \in Client : Finish(c)
    BY DoneByFinish
  <2>2. PICK c \in Client : Finish(c)
    BY <2>1
  <2>3. worker[c].pc # "idle" /\ FinishWork(c)
    BY <2>2 DEF Finish, VerbsDone
  <2>4. worker[c].thread = t
    BY <2>3 DEF FinishWork, ModelsInv, TypeOK
  <2>5. WorkOf(t) = "SEND" => worker[c].pc # "verbs"
    BY <2>3, <2>4 DEF ModelsInv, ProcessInv, WorkerInv, VerbWorks
  <2>6. call[t].recv
    BY <2>2, <2>4, <2>5 DEF Finish, VerbsDone
  <2>7. nvm[FirstLine[call[t].obj]] = call[t].val
    BY <2>3, <2>4, <2>6 DEF ModelsInv, ProcessInv, SendInv, Sends, Answered
  <2> QED
    BY <2>3, <2>7 DEF FinishWork, serverVars
<1> QED
  BY <1>1, ModelsHold, PTL DEF Spec, SendIsDurable

-------------------------------------------------------------------------------
(* How a Tailwind log fills. *)

(* Slots do not overlap and lie in the log. *)
LEMMA SlotBytes ==
  ASSUME NEW j \in 0..(Tailwind_log_size - 1), NEW k \in 0..(Tailwind_log_size - 1),
         NEW b \in 0..(Count - 1)
  PROVE  /\ j * Count \in Nat /\ k * Count + b \in LogBytes
         /\ k * Count + b \in (j * Count)..(j * Count + Count - 1) <=> k = j
<1>1. Count \in Nat \ {0} /\ Tailwind_log_size \in Nat \ {0} /\ j \in Nat /\ k \in Nat
  BY ModelsAssumption
<1>2. \A m, n \in Nat : m < n => m * Count + Count <= n * Count
  <2> SUFFICES ASSUME NEW m \in Nat, NEW n \in Nat, m < n
               PROVE  m * Count + Count <= n * Count
    OBVIOUS
  <2>1. n - m - 1 \in Nat
    OBVIOUS
  <2>2. (n - m - 1) * Count >= 0
    BY <1>1, <2>1
  <2>3. (n - m - 1) * Count = n * Count - m * Count - Count
    BY <1>1
  <2> QED
    BY <1>1, <2>2, <2>3
<1>3. \A n \in Nat : n * Count \in Nat
  BY <1>1
<1>4. PICK x \in Nat : x = j * Count
  BY <1>1, <1>3
<1>5. PICK y \in Nat : y = k * Count
  BY <1>1, <1>3
<1>6. PICK z \in Nat : z = Tailwind_log_size * Count
  BY <1>1, <1>3
<1>7. /\ j < k => x + Count <= y
      /\ k < j => y + Count <= x
      /\ j = k => x = y
  BY <1>1, <1>2, <1>4, <1>5
<1>8. y + Count <= z
  BY <1>1, <1>2, <1>5, <1>6
<1>9. y + b \in x..(x + Count - 1) <=> k = j
  BY <1>1, <1>7
<1>10. y + b \in 0..(z + Count - 1)
  BY <1>1, <1>8
<1> QED
  BY <1>4, <1>5, <1>6, <1>9, <1>10 DEF LogBytes

(* A record written to slot j makes it whole and leaves the others alone. *)
LEMMA SlotWritten ==
  ASSUME TypeOK, NEW c \in Client, NEW j \in 0..(Tailwind_log_size - 1),
         log'[c] = Logged(log[c], j * Count),
         NEW k \in 0..(Tailwind_log_size - 1), k = j \/ Whole(c, k)
  PROVE  Whole(c, k)'
<1> SUFFICES ASSUME NEW b \in 0..(Count - 1)
             PROVE  log'[c][k * Count + b] = b + 1
  BY DEF Whole
<1>1. /\ j * Count \in Nat /\ k * Count + b \in LogBytes
      /\ k * Count + b \in (j * Count)..(j * Count + Count - 1) <=> k = j
  BY SlotBytes
<1>2. log'[c][k * Count + b] =
        IF k = j THEN (k * Count + b) - j * Count + 1 ELSE log[c][k * Count + b]
  BY <1>1 DEF Logged
<1>3. CASE k = j
  <2>1. (k * Count + b) - j * Count = b
    BY <1>1, <1>3
  <2> QED
    BY <1>2, <1>3, <2>1
<1>4. CASE k # j
  BY <1>2, <1>4 DEF Whole
<1> QED
  BY <1>3, <1>4

(* The accesses belong to Tailwind, and its RPCs are the first and the last. *)
LEMMA AccessWorks ==
  ASSUME NEW m \in Models, NEW s \in 1..Len(Works[m])
  PROVE  /\ m = Tailwind <=> Works[m][s] \in {"Tailwind", "Tailwind_RPC"}
         /\ Works[m][s] = "Tailwind_RPC" => s \in {1, accessnum}
<1>1. CASE m = Tailwind
  <2>1. Works[m] = [k \in 1..accessnum |->
                      IF k \in {1, accessnum} THEN "Tailwind_RPC" ELSE "Tailwind"]
    BY <1>1 DEF Works, Tailwind
  <2>2. s \in 1..accessnum
    BY <2>1, ModelsAssumption
  <2> QED
    BY <1>1, <2>1, <2>2
<1>2. CASE m # Tailwind
  <2>1. m \in {"model_A_write", "model_A_writeImm", "model_B_send", "model_D_write",
                "model_D_send", "model_1_octopus", "model_1_octopus_R", "model_1_clover",
                "model_1_clover_R"}
    BY <1>2 DEF Models, Works, Tailwind
  <2>2. Works[m] \in {<<"REQADDR1", "WRITE">>, <<"REQADDR1", "WRITEIMM">>, <<"SEND">>,
                      <<"WRITE">>, <<"SEND2">>, <<"REQADDR1", "WRITE", "CLOVER">>,
                      <<"REQADDR1", "READ">>, <<"READ", "WRITE", "CLOVER">>, <<"READ">>}
    BY <2>1 DEF Works
  <2>3. Works[m][s] \notin {"Tailwind", "Tailwind_RPC"}
    BY <2>2
  <2> QED
    BY <1>2, <2>3
<1> QED
  BY <1>1, <1>2

LEMMA SmallRemainder ==
  ASSUME NEW n \in Nat, NEW m \in Nat \ {0}
  PROVE  n % m \in 0..(m - 1) /\ (n < m => n % m = n)
  OBVIOUS

(* Where the access goes that a thread of Tailwind is at. *)
LEMMA AccessPlace ==
  ASSUME ModelsInv, NEW t \in Thread, call[t].model = Tailwind
  PROVE  \E j \in 0..(Tailwind_log_size - 1) :
           /\ call[t].step < accessnum => At(t) = j * Count
           /\ \A k \in 0..(Tailwind_log_size - 1) : k = call[t].step - 1 => k = j
<1> DEFINE s == call[t].step
           j == (s - 1) % Tailwind_log_size
<1>1. Tailwind \in Models
  BY DEF Models, Works, Tailwind
<1>2. s \in 1..Len(Works[Tailwind]) /\ s \in Nat
  BY DEF ModelsInv, CallInv, Tailwind
<1>3. WorkOf(t) \in {"Tailwind", "Tailwind_RPC"}
      /\ (WorkOf(t) = "Tailwind_RPC" => s \in {1, accessnum})
  BY <1>1, <1>2, AccessWorks DEF WorkOf
<1>4. j \in 0..(Tailwind_log_size - 1)
      /\ \A k \in 0..(Tailwind_log_size - 1) : k = s - 1 => k = j
  <2>1. s - 1 \in Nat /\ Tailwind_log_size \in Nat \ {0}
    BY <1>2, ModelsAssumption
  <2> HIDE DEF s
  <2> QED
    BY <2>1, SmallRemainder
<1>5. ASSUME s < accessnum
      PROVE  At(t) = j * Count
  <2>1. CASE WorkOf(t) = "Tailwind"
    BY <2>1 DEF At
  <2>2. CASE WorkOf(t) # "Tailwind"
    <3>1. s = 1
      BY <1>2, <1>3, <1>5, <2>2, ModelsAssumption
    <3>2. 0 \in 0..(Tailwind_log_size - 1) /\ 0 = s - 1
      BY <3>1, ModelsAssumption
    <3>3. j = 0
      BY <1>4, <3>2
    <3>4. At(t) = 0 /\ 0 * Count = 0
      BY <2>2, <3>3, ModelsAssumption DEF At
    <3> QED
      BY <3>3, <3>4
  <2> QED
    BY <2>1, <2>2
<1> QED
  BY <1>4, <1>5

LEMMA OnlyWriter ==
  ASSUME ModelsInv, OneWriter, NEW t \in Thread, NEW u \in Thread, Listed(t), Listed(u),
         call[t].model = Tailwind, call[u].model = Tailwind, ClientOf[t] = ClientOf[u]
  PROVE  t = u
<1>1. Tailwind # "none"
  BY DEF Tailwind
<1>2. PICK v \in Value : <<Tailwind, v>> \in uses[t]
  BY <1>1 DEF Listed
<1>3. PICK w \in Value : <<Tailwind, w>> \in uses[u]
  BY <1>1 DEF Listed
<1>4. uses \in Programs
  BY DEF ModelsInv, TypeOK
<1> QED
  BY <1>2, <1>3, <1>4 DEF OneWriter

(* Whose an access is that is posted or received. *)
LEMMA AccessOwner ==
  ASSUME ModelsInv, NEW c \in Client, NEW r \in Posts, Owned(c, r), InPlace(c, r),
         r.op \in Accesses
  PROVE  /\ r.task \in Thread /\ ClientOf[r.task] = c
         /\ worker[c].pc # "idle" /\ worker[c].thread = r.task
         /\ call[r.task].model = Tailwind /\ r.at = At(r.task)
         /\ WorkOf(r.task) \in {"Tailwind", "Tailwind_RPC"}
<1>1. r.task \in Thread /\ r.at = At(r.task)
  BY DEF Posts, InPlace
<1>2. /\ worker[c].pc # "idle" /\ worker[c].thread = r.task
      /\ WorkOf(r.task) \in {"Tailwind", "Tailwind_RPC"}
  BY DEF Owned, InPlace, Awaits, Accesses, MessageOps
<1>3. ClientOf[r.task] = c /\ call[r.task].model # "none"
  BY <1>2 DEF ModelsInv, ProcessInv, WorkerInv
<1>4. call[r.task].model \in Models /\ call[r.task].step \in 1..Len(Works[call[r.task].model])
  BY <1>1, <1>3 DEF ModelsInv, TypeOK, Calls, CallInv
<1>5. call[r.task].model = Tailwind
  BY <1>2, <1>4, AccessWorks DEF WorkOf
<1> QED
  BY <1>1, <1>2, <1>3, <1>5

-------------------------------------------------------------------------------
(* What a step leaves of LogInv that does not concern the log. *)
SameAccess(t) ==
  /\ call'[t].model = call[t].model /\ call'[t].step = call[t].step
  /\ call'[t].done = call[t].done

SameServedAccess(d) == worker[d].pc # "idle" => SameAccess(worker[d].thread)

LEMMA FillsFrame ==
  ASSUME NEW t \in Thread, LogFills(t), call[t].step \in Nat,
         call'[t].model = call[t].model, call'[t].step >= call[t].step, call'[t].step \in Nat,
         Written(t)' <= Written(t), log'[ClientOf[t]] = log[ClientOf[t]]
  PROVE  LogFills(t)'
<1>1. Written(t) \in Int /\ Written(t)' \in Int
  BY DEF Written
<1>2. accessnum \in Nat
  BY ModelsAssumption
<1> QED
  BY <1>1, <1>2 DEF LogFills, Whole

InPlaceNext(c, r) ==
  LET t == r.task
      i == (call'[t].step - 1) % Tailwind_log_size
      work == Works[call'[t].model][call'[t].step]
  IN /\ r.op \in Accesses => r.at = IF work = "Tailwind" THEN i * Count ELSE i
     /\ r.op = "LOG" =>
          /\ worker'[c].pc = "verbs" /\ worker'[c].thread = t /\ "read" \in worker'[c].flags
          /\ work = "Tailwind"

LEMMA InPlaceFrame ==
  ASSUME ModelsInv, NEW d \in Client, NEW r \in Posts, Owned(d, r), InPlace(d, r),
         worker'[d] = worker[d], SameServedAccess(d)
  PROVE  InPlaceNext(d, r)
<1>1. CASE r.op \in Accesses
  <2>1. worker[d].pc # "idle" /\ worker[d].thread = r.task
    BY <1>1, AccessOwner
  <2>2. call'[r.task].step = call[r.task].step /\ call'[r.task].model = call[r.task].model
    BY <2>1 DEF SameServedAccess, SameAccess
  <2> QED
    BY <2>2 DEF InPlace, InPlaceNext, At, WorkOf
<1>2. CASE r.op \notin Accesses
  BY <1>2 DEF InPlaceNext, Accesses
<1> QED
  BY <1>1, <1>2

LEMMA PostsNext ==
  ASSUME NEW d,
         \A k \in DOMAIN net'[d] : InPlaceNext(d, net'[d][k]),
         \A k \in DOMAIN recvq'[d] : recvq'[d][k].op # "LOG" /\ InPlaceNext(d, recvq'[d][k])
  PROVE  PostsInPlace(d)'
<1>1. ASSUME NEW r
      PROVE  InPlace(d, r)' <=> InPlaceNext(d, r)
  BY DEF InPlace, InPlaceNext, At, WorkOf
<1>2. ASSUME NEW k \in DOMAIN net'[d]
      PROVE  InPlace(d, net[d][k])'
  <2>1. InPlaceNext(d, net'[d][k])
    OBVIOUS
  <2> QED
    BY <2>1 DEF InPlace, InPlaceNext, At, WorkOf
<1>3. ASSUME NEW k \in DOMAIN recvq'[d]
      PROVE  recvq'[d][k].op # "LOG" /\ InPlace(d, recvq[d][k])'
  <2>1. recvq'[d][k].op # "LOG" /\ InPlaceNext(d, recvq'[d][k])
    OBVIOUS
  <2> QED
    BY <2>1 DEF InPlace, InPlaceNext, At, WorkOf
<1> QED
  BY <1>2, <1>3 DEF PostsInPlace

LEMMA PostTypes ==
  ASSUME ModelsInv, NEW d \in Client
  PROVE  /\ net[d] \in Seq(Posts) /\ recvq[d] \in Seq(Posts)
         /\ \A k \in DOMAIN net[d] : net[d][k] \in Posts /\ Owned(d, net[d][k])
         /\ \A k \in DOMAIN recvq[d] : recvq[d][k] \in Posts /\ Owned(d, recvq[d][k])
<1>1. net[d] \in Seq(Posts) /\ recvq[d] \in Seq(Posts) /\ NetInv(d) /\ RecvInv(d)
  BY DEF ModelsInv, TypeOK, ProcessInv
<1> QED
  BY <1>1 DEF NetInv, RecvInv

(* Whatever is posted or received after the step was so before. *)
Fewer(d) ==
  /\ \A k \in DOMAIN net'[d] : \E j \in DOMAIN net[d] : net'[d][k] = net[d][j]
  /\ \A k \in DOMAIN recvq'[d] :
       \/ recvq'[d][k].op \notin Accesses
       \/ \E j \in DOMAIN recvq[d] : recvq'[d][k] = recvq[d][j]
       \/ \E j \in DOMAIN net[d] : recvq'[d][k] = net[d][j] /\ net[d][j].op = "Tailwind_RPC"

LEMMA PostsFrame ==
  ASSUME ModelsInv, NEW d \in Client, PostsInPlace(d), worker'[d] = worker[d],
         SameServedAccess(d), Fewer(d)
  PROVE  PostsInPlace(d)'
<1>1. \A k \in DOMAIN net[d] : InPlaceNext(d, net[d][k])
  BY PostTypes, InPlaceFrame DEF PostsInPlace
<1>2. \A k \in DOMAIN recvq[d] : InPlaceNext(d, recvq[d][k]) /\ recvq[d][k].op # "LOG"
  BY PostTypes, InPlaceFrame DEF PostsInPlace
<1>3. ASSUME NEW k \in DOMAIN recvq'[d]
      PROVE  recvq'[d][k].op # "LOG" /\ InPlaceNext(d, recvq'[d][k])
  <2>1. CASE recvq'[d][k].op \notin Accesses
    BY <2>1 DEF InPlaceNext, Accesses
  <2> QED
    BY <1>1, <1>2, <1>3, <2>1 DEF Fewer
<1>4. ASSUME NEW k \in DOMAIN net'[d]
      PROVE  InPlaceNext(d, net'[d][k])
  BY <1>1, <1>4 DEF Fewer
<1> QED
  BY <1>3, <1>4, PostsNext

(* The other processes keep their part, and so does everyone's program. *)
LEMMA LogKept ==
  ASSUME ModelsInv, LogInv, NEW c \in Client, UNCHANGED uses,
         \A d \in Client : d # c =>
           /\ worker'[d] = worker[d] /\ net'[d] = net[d] /\ recvq'[d] = recvq[d]
           /\ log'[d] = log[d],
         \A t \in Thread : ClientOf[t] # c => SameAccess(t),
         \A t \in Thread : call'[t].model = call[t].model,
         PostsInPlace(c)', \A t \in Thread : ClientOf[t] = c => LogFills(t)'
  PROVE  LogInv'
<1>1. ASSUME NEW d \in Client, d # c
      PROVE  PostsInPlace(d)'
  <2>2. SameServedAccess(d)
    BY <1>1 DEF SameServedAccess, ModelsInv, ProcessInv, WorkerInv
  <2>3. Fewer(d)
    BY <1>1 DEF Fewer
  <2> QED
    BY <1>1, <2>2, <2>3, PostsFrame DEF LogInv
<1>2. ASSUME NEW t \in Thread, ClientOf[t] # c
      PROVE  LogFills(t)'
  <2>1. ClientOf[t] \in Client /\ call[t].step \in Nat /\ SameAccess(t)
    BY <1>2, ModelsAssumption DEF ModelsInv, TypeOK, Calls
  <2>2. Placed(t)' <=> Placed(t)
    BY <1>2, <2>1 DEF Placed
  <2>3. Written(t)' = Written(t) /\ Written(t) \in Int
    BY <2>1, <2>2 DEF Written, SameAccess
  <2> QED
    BY <1>2, <2>1, <2>3, FillsFrame DEF LogInv, SameAccess
<1>3. ASSUME NEW t \in Thread
      PROVE  Listed(t)'
  BY <1>3 DEF LogInv, Listed
<1> QED
  BY <1>1, <1>2, <1>3 DEF LogInv

-------------------------------------------------------------------------------
(* The steps that leave the work threads alone. *)
KeepsWorkers(c) ==
  /\ \A t \in Thread : SameAccess(t)
  /\ UNCHANGED <<uses, worker>>
  /\ \A d \in Client : d # c =>
       net'[d] = net[d] /\ recvq'[d] = recvq[d] /\ log'[d] = log[d]
  /\ Fewer(c)

LEMMA PostsStay ==
  ASSUME ModelsInv, LogInv, NEW c \in Client, KeepsWorkers(c)
  PROVE  PostsInPlace(c)'
<1>1. SameServedAccess(c)
  BY DEF KeepsWorkers, SameServedAccess, ModelsInv, ProcessInv, WorkerInv
<1>2. worker'[c] = worker[c] /\ Fewer(c)
  BY DEF KeepsWorkers
<1> QED
  BY <1>1, <1>2, PostsFrame DEF LogInv

(* One that performs no access and gives no more reason to believe one performed. *)
LEMMA NothingPlaced ==
  ASSUME ModelsInv, LogInv, NEW c \in Client, KeepsWorkers(c), log'[c] = log[c],
         \A t \in Thread : ClientOf[t] = c /\ Placed(t)' => Placed(t)
  PROVE  LogInv'
<1>1. ASSUME NEW t \in Thread, ClientOf[t] = c
      PROVE  LogFills(t)'
  <2>1. call[t].step \in Nat /\ SameAccess(t)
    BY DEF ModelsInv, TypeOK, Calls, KeepsWorkers
  <2>2. Placed(t)' => Placed(t)
    BY <1>1
  <2>3. Written(t)' <= Written(t)
    BY <2>1, <2>2 DEF Written, SameAccess
  <2> QED
    BY <1>1, <2>1, <2>3, FillsFrame DEF LogInv, SameAccess
<1>2. PostsInPlace(c)'
  BY PostsStay
<1>3. \A t \in Thread : SameAccess(t)
  BY DEF KeepsWorkers
<1> QED
  BY <1>1, <1>2, <1>3, LogKept DEF KeepsWorkers, SameAccess

(* One that performs an access. *)
LEMMA AccessPlaced ==
  ASSUME ModelsInv, LogInv, OneWriter, NEW c \in Client, KeepsWorkers(c), NEW r \in Posts,
         Owned(c, r), InPlace(c, r), r.op \in Accesses, log'[c] = Logged(log[c], r.at)
  PROVE  LogInv'
<1>1. PICK t \in Thread : t = r.task
  BY DEF Posts
<1>2. /\ ClientOf[t] = c /\ worker[c].pc # "idle" /\ worker[c].thread = t
      /\ call[t].model = Tailwind /\ r.at = At(t)
  BY <1>1, AccessOwner
<1>3. ~call[t].done
  BY <1>2 DEF ModelsInv, ProcessInv, WorkerInv
<1>4. PICK j \in 0..(Tailwind_log_size - 1) :
        /\ call[t].step < accessnum => At(t) = j * Count
        /\ \A k \in 0..(Tailwind_log_size - 1) : k = call[t].step - 1 => k = j
  BY <1>2, AccessPlace
<1>5. call[t].step \in Nat /\ SameAccess(t)
  BY DEF ModelsInv, TypeOK, Calls, KeepsWorkers
<1>6. ASSUME call[t].step < accessnum
      PROVE  LogFills(t)'
  <2>1. log'[c] = Logged(log[c], j * Count)
    BY <1>2, <1>4, <1>6
  <2>2. ASSUME NEW k \in 0..(Tailwind_log_size - 1), k < call[t].step
        PROVE  k = j \/ Whole(c, k)
    <3>1. CASE k = call[t].step - 1
      BY <1>4, <3>1
    <3>2. CASE k # call[t].step - 1
      <4>1. k < call[t].step - 1
        BY <1>5, <2>2, <3>2
      <4>2. k < Written(t)
        BY <1>5, <2>2, <4>1 DEF Written
      <4> QED
        BY <1>2, <1>6, <4>2 DEF LogInv, LogFills
    <3> QED
      BY <3>1, <3>2
  <2>3. TypeOK
    BY DEF ModelsInv
  <2>4. ASSUME NEW k \in 0..(Tailwind_log_size - 1), k < call[t].step
        PROVE  Whole(c, k)'
    BY <2>1, <2>2, <2>3, <2>4, SlotWritten
  <2>5. Written(t)' <= call[t].step /\ Written(t)' \in Int
    BY <1>5 DEF Written, SameAccess
  <2>6. ASSUME NEW k \in 0..(Tailwind_log_size - 1), k < Written(t)'
        PROVE  Whole(c, k)'
    <3>1. k < call[t].step
      BY <1>5, <2>5, <2>6
    <3> QED
      BY <2>4, <3>1
  <2> QED
    BY <1>2, <2>6 DEF LogFills, Whole
<1>7. ASSUME NEW u \in Thread, ClientOf[u] = c
      PROVE  LogFills(u)'
  <2>1. SameAccess(u) /\ Listed(u) /\ Listed(t)
    BY DEF KeepsWorkers, LogInv
  <2>2. CASE call[u].model # Tailwind
    BY <2>1, <2>2 DEF LogFills, SameAccess
  <2>3. CASE call[u].model = Tailwind
    <3>1. u = t
      BY <1>2, <1>7, <2>1, <2>3, OnlyWriter
    <3>2. CASE call[t].step < accessnum
      BY <1>6, <3>1, <3>2
    <3>3. CASE ~(call[t].step < accessnum)
      BY <1>5, <3>1, <3>3 DEF LogFills, SameAccess
    <3> QED
      BY <3>2, <3>3
  <2> QED
    BY <2>2, <2>3
<1>8. PostsInPlace(c)' /\ \A u \in Thread : SameAccess(u)
  BY PostsStay DEF KeepsWorkers
<1> QED
  BY <1>7, <1>8, LogKept DEF KeepsWorkers, SameAccess



-------------------------------------------------------------------------------
LEMMA AppThreadLogs ==
  ASSUME ModelsInv, LogInv, NEW t \in Thread, AppThread(t), UNCHANGED uses
  PROVE  LogInv'
<1>1. PICK next \in Calls :
        /\ call[t].model = "none" \/ call[t].done
        /\ call' = [call EXCEPT ![t] = next]
        /\ UNCHANGED <<worker, net, recvq, log>>
        /\ \/ ~next.done /\ next.step = 1 /\ \E use \in uses[t] : next.model = use[1]
           \/ /\ ~next.done /\ call[t].done
              /\ next.model = call[t].model /\ next.step = call[t].step + 1
           \/ next.model = "none"
  <2>1. call[t] \in Calls /\ NoCall \in Calls
    BY ModelsAssumption DEF ModelsInv, TypeOK, Calls, NoCall
  <2>2. ASSUME NEW use \in uses[t], NEW o \in Object, Call(t, use[1], o, use[2])
        PROVE  \E next \in Calls :
                 /\ call[t].model = "none" /\ call' = [call EXCEPT ![t] = next]
                 /\ ~next.done /\ next.step = 1 /\ next.model = use[1]
    <3> DEFINE next == [NoCall EXCEPT !.model = use[1], !.step = 1, !.obj = o, !.val = use[2]]
    <3>1. use[1] \in Models /\ use[2] \in Value
      BY UseTypes DEF ModelsInv, TypeOK
    <3>2. next \in Calls /\ ~next.done /\ next.step = 1 /\ next.model = use[1]
      BY <2>1, <3>1 DEF Calls, NoCall
    <3> QED
      BY <2>2, <3>2 DEF Call, Submit
  <2>3. CASE Continue(t)
    <3> DEFINE next == [call[t] EXCEPT !.step = call[t].step + 1, !.recv = FALSE, !.done = FALSE]
    <3>1. \A k \in Calls, n \in Nat :
            LET later == [k EXCEPT !.step = n, !.recv = FALSE, !.done = FALSE]
            IN later \in Calls /\ ~later.done /\ later.model = k.model /\ later.step = n
      BY DEF Calls
    <3>2. call[t].step + 1 \in Nat
      BY <2>1 DEF Calls
    <3>3. /\ next \in Calls /\ ~next.done /\ next.model = call[t].model
          /\ next.step = call[t].step + 1
      BY <2>1, <3>1, <3>2
    <3> QED
      BY <2>3, <3>3 DEF Continue, Submit, queueVars, serverVars
  <2>4. CASE Return(t)
    BY <2>1, <2>4 DEF Return, NoCall, queueVars, serverVars
  <2>5. UNCHANGED <<worker, net, recvq, log>>
    BY DEF AppThread, Call, Continue, Return, Submit, queueVars, serverVars
  <2> QED
    BY <2>2, <2>3, <2>4, <2>5 DEF AppThread
<1>2. call'[t] = next /\ \A u \in Thread : u # t => SameAccess(u)
  BY <1>1 DEF ModelsInv, TypeOK, SameAccess
<1>3. \A d \in Client : worker[d].thread # t
  BY <1>1, NotQueued
<1>4. ASSUME NEW d \in Client
      PROVE  PostsInPlace(d)'
  <2>1. SameServedAccess(d)
    BY <1>2, <1>3 DEF SameServedAccess, ModelsInv, ProcessInv, WorkerInv
  <2>2. Fewer(d)
    BY <1>1 DEF Fewer
  <2> QED
    BY <1>1, <2>1, <2>2, PostsFrame DEF LogInv
<1>5. ASSUME NEW u \in Thread, u # t
      PROVE  LogFills(u)' /\ Listed(u)'
  <2>1. call[u].step \in Nat /\ SameAccess(u) /\ ClientOf[u] \in Client
    BY <1>2, <1>5, ModelsAssumption DEF ModelsInv, TypeOK, Calls
  <2>2. Placed(u)' <=> Placed(u)
    BY <1>1 DEF Placed
  <2>3. Written(u)' <= Written(u)
    BY <2>1, <2>2 DEF Written, SameAccess
  <2>4. LogFills(u)'
    BY <1>1, <2>1, <2>3, FillsFrame DEF LogInv, SameAccess
  <2> QED
    BY <2>1, <2>4 DEF LogInv, Listed, SameAccess
<1>6. LogFills(t)'
  <2>1. ~Placed(t)'
    BY <1>1, <1>3, ModelsAssumption DEF Placed
  <2>2. call[t].step \in Nat /\ next.step \in Nat
    BY DEF ModelsInv, TypeOK, Calls
  <2>3. CASE next.model = "none"
    BY <1>2, <2>3 DEF LogFills, Tailwind
  <2>4. CASE ~next.done /\ next.step = 1
    <3>1. Written(t)' = 0
      BY <1>2, <2>1, <2>4 DEF Written
    <3> QED
      BY <3>1 DEF LogFills
  <2>5. CASE ~next.done /\ call[t].done /\ next.model = call[t].model
             /\ next.step = call[t].step + 1
    <3>1. Written(t)' <= Written(t)
      BY <1>2, <2>1, <2>2, <2>5 DEF Written
    <3> QED
      BY <1>1, <1>2, <2>2, <2>5, <3>1, FillsFrame DEF LogInv
  <2> QED
    BY <1>1, <2>3, <2>4, <2>5
<1>7. Listed(t)'
  <2>1. CASE \E use \in uses[t] : next.model = use[1]
    <3>1. uses[t] \in SUBSET (Models \X Value)
      BY ModelsAssumption DEF ModelsInv, TypeOK
    <3> QED
      BY <1>2, <2>1, <3>1 DEF Listed
  <2>2. CASE call[t].done /\ next.model = call[t].model
    BY <1>2, <2>2 DEF LogInv, Listed
  <2>3. CASE next.model = "none"
    BY <1>2, <2>3 DEF Listed
  <2> QED
    BY <1>1, <2>1, <2>2, <2>3
<1> QED
  BY <1>4, <1>5, <1>6, <1>7 DEF LogInv

(* What a handler posts of accesses is its own. *)
Fits(work, ops, pc, flags) ==
  /\ \A j \in DOMAIN ops : ops[j] = "LOG" => work = "Tailwind" /\ pc = "verbs" /\ "read" \in flags
  /\ work \in {"Tailwind", "Tailwind_RPC"} => \E j \in DOMAIN ops : ops[j] \in Accesses

LEMMA HandleLogs ==
  ASSUME ModelsInv, LogInv, NEW c \in Client, NEW work, NEW ops \in Seq(Ops), NEW pc, NEW flags,
         Fits(work, ops, pc, flags), Handle(c, work, ops, pc, flags), UNCHANGED uses
  PROVE  LogInv'
<1>0. PICK t : t = Head(workList[c])
  OBVIOUS
<1>1. /\ worker[c].pc = "idle" /\ workList[c] # <<>> /\ WorkOf(t) = work
      /\ Post(c, t, ops)
      /\ worker' = [worker EXCEPT ![c] = [pc |-> pc, thread |-> t, flags |-> flags]]
      /\ UNCHANGED <<call, recvq, log>>
  BY <1>0 DEF Handle, Handling, Spin, serverVars
<1>2. t \in Thread /\ ClientOf[t] = c /\ call[t].model \in Models
      /\ call[t].step \in 1..Len(Works[call[t].model])
  BY <1>0, <1>1, ServedWork
<1>3. /\ worker'[c] = [pc |-> pc, thread |-> t, flags |-> flags]
      /\ \A d \in Client : d # c => worker'[d] = worker[d]
  BY <1>1 DEF ModelsInv, TypeOK
<1>4. /\ \A k \in DOMAIN net'[c] :
           \/ k \in DOMAIN net[c] /\ net'[c][k] = net[c][k]
           \/ \E j \in DOMAIN ops : net'[c][k] = Request(t, ops[j])
      /\ \A j \in DOMAIN ops : \E k \in DOMAIN net'[c] : net'[c][k] = Request(t, ops[j])
      /\ \A d \in Client : d # c => net'[d] = net[d]
  BY <1>1, <1>2, Posting
<1>5. /\ \A k \in DOMAIN net[c] : net[c][k].op \notin Accesses
      /\ \A k \in DOMAIN recvq[c] : recvq[c][k].op \notin Accesses
  <2>1. /\ \A k \in DOMAIN net[c] : net[c][k].op \notin MessageOps
        /\ \A k \in DOMAIN recvq[c] : recvq[c][k].op \notin MessageOps
    BY <1>1, NoneUnderWay
  <2>2. /\ \A k \in DOMAIN net[c] : net[c][k].op # "LOG"
        /\ \A k \in DOMAIN recvq[c] : recvq[c][k].op # "LOG"
    BY <1>1 DEF LogInv, PostsInPlace, InPlace
  <2> QED
    BY <2>1, <2>2 DEF Accesses, MessageOps
<1>6. ASSUME NEW j \in DOMAIN ops
      PROVE  InPlaceNext(c, Request(t, ops[j])) /\ Request(t, ops[j]).op = ops[j]
  <2>1. /\ Request(t, ops[j]).op = ops[j] /\ Request(t, ops[j]).task = t
        /\ Request(t, ops[j]).at = At(t)
    BY DEF Request
  <2> QED
    BY <1>1, <1>3, <2>1 DEF InPlaceNext, At, WorkOf, Fits
<1>7. PostsInPlace(c)'
  <2>1. ASSUME NEW k \in DOMAIN net'[c]
        PROVE  InPlaceNext(c, net'[c][k])
    <3>1. CASE net'[c][k].op \notin Accesses
      BY <3>1 DEF InPlaceNext, Accesses
    <3>2. CASE net'[c][k].op \in Accesses
      <4>1. PICK j \in DOMAIN ops : net'[c][k] = Request(t, ops[j])
        BY <1>4, <1>5, <3>2
      <4> QED
        BY <1>6, <4>1
    <3> QED
      BY <3>1, <3>2
  <2>2. \A k \in DOMAIN recvq'[c] : recvq'[c][k].op # "LOG" /\ InPlaceNext(c, recvq'[c][k])
    BY <1>1, <1>5 DEF InPlaceNext, Accesses
  <2> QED
    BY <2>1, <2>2, PostsNext
<1>8. ASSUME NEW u \in Thread, ClientOf[u] = c
      PROVE  LogFills(u)'
  <2>1. call[u].step \in Nat
    BY DEF ModelsInv, TypeOK, Calls
  <2>2. CASE call[u].model # Tailwind
    BY <1>1, <2>2 DEF LogFills
  <2>3. CASE call[u].model = Tailwind
    <3>1. ASSUME Placed(u)'
          PROVE  FALSE
      <4>1. u = t
        BY <1>3, <1>8, <3>1 DEF Placed
      <4>2. work \in {"Tailwind", "Tailwind_RPC"}
        BY <1>1, <1>2, <2>3, <4>1, AccessWorks DEF WorkOf
      <4>3. PICK j \in DOMAIN ops : ops[j] \in Accesses
        BY <4>2 DEF Fits
      <4>4. \E k \in DOMAIN net'[c] : net'[c][k].op \in Accesses
        BY <1>4, <1>6, <4>3
      <4> QED
        BY <1>8, <3>1, <4>4 DEF Placed
    <3>2. Written(u)' <= Written(u)
      BY <1>1, <2>1, <3>1 DEF Written
    <3> QED
      BY <1>1, <2>1, <3>2, FillsFrame DEF LogInv
  <2> QED
    BY <2>2, <2>3
<1> QED
  BY <1>1, <1>3, <1>4, <1>7, <1>8, LogKept DEF SameAccess

LEMMA Send2WorkLogs ==
  ASSUME ModelsInv, LogInv, NEW c \in Client, Send2Work(c), UNCHANGED uses
  PROVE  LogInv'
<1>0. PICK t : t = worker[c].thread
  OBVIOUS
<1>1. /\ worker[c].pc = "verbs" /\ WorkOf(t) = "SEND2"
      /\ Post(c, t, <<"SEND2">>)
      /\ worker' = [worker EXCEPT ![c].pc = "recv"]
      /\ UNCHANGED <<call, recvq, log>>
  BY <1>0 DEF Send2Work, VerbsDone, threadVars, serverVars
<1>2. /\ t \in Thread /\ ClientOf[t] = c /\ ~call[t].recv /\ call[t].model \in Models
      /\ call[t].step \in 1..Len(Works[call[t].model])
  BY <1>0, <1>1 DEF ModelsInv, TypeOK, ProcessInv, WorkerInv, CallInv, Calls
<1>3. /\ worker'[c].thread = t /\ worker'[c].pc = "recv"
      /\ \A d \in Client : d # c => worker'[d] = worker[d]
  BY <1>0, <1>1 DEF ModelsInv, TypeOK, WorkerStates
<1>4. /\ \A k \in DOMAIN net'[c] :
           \/ k \in DOMAIN net[c] /\ net'[c][k] = net[c][k]
           \/ net'[c][k].op = "SEND2"
      /\ \A d \in Client : d # c => net'[d] = net[d]
  <2> DEFINE ops == <<"SEND2">>
  <2>1. ops \in Seq(Ops)
    BY SetsOfPosts DEF Ops, MessageOps
  <2>2. \A j \in DOMAIN ops : Request(t, ops[j]).op = "SEND2"
    BY DEF Request
  <2>3. Post(c, t, ops)
    BY <1>1
  <2> HIDE DEF ops
  <2> QED
    BY <1>2, <2>1, <2>2, <2>3, Posting
<1>5. /\ \A k \in DOMAIN net[c] : net[c][k].op \notin Accesses
      /\ \A k \in DOMAIN recvq[c] : recvq[c][k].op \notin Accesses
  <2>1. /\ \A k \in DOMAIN net[c] : net[c][k].op \notin MessageOps
        /\ \A k \in DOMAIN recvq[c] : recvq[c][k].op \notin MessageOps
    BY <1>1, NoneUnderWay
  <2>2. /\ \A k \in DOMAIN net[c] : net[c][k].op # "LOG"
        /\ \A k \in DOMAIN recvq[c] : recvq[c][k].op # "LOG"
    BY <1>0, <1>1 DEF LogInv, PostsInPlace, InPlace
  <2> QED
    BY <2>1, <2>2 DEF Accesses, MessageOps
<1>6. PostsInPlace(c)'
  <2>1. \A k \in DOMAIN net'[c] : InPlaceNext(c, net'[c][k])
    BY <1>4, <1>5 DEF InPlaceNext, Accesses
  <2>2. \A k \in DOMAIN recvq'[c] : recvq'[c][k].op # "LOG" /\ InPlaceNext(c, recvq'[c][k])
    BY <1>1, <1>5 DEF InPlaceNext, Accesses
  <2> QED
    BY <2>1, <2>2, PostsNext
<1>7. ASSUME NEW u \in Thread, ClientOf[u] = c
      PROVE  LogFills(u)'
  <2>1. call[u].step \in Nat
    BY DEF ModelsInv, TypeOK, Calls
  <2>2. CASE call[u].model # Tailwind
    BY <1>1, <2>2 DEF LogFills
  <2>3. CASE call[u].model = Tailwind
    <3>1. u # t
      BY <1>1, <1>2, <2>3, AccessWorks DEF WorkOf
    <3>2. ~Placed(u)'
      BY <1>3, <1>7, <3>1 DEF Placed
    <3>3. Written(u)' <= Written(u)
      BY <1>1, <2>1, <3>2 DEF Written
    <3> QED
      BY <1>1, <2>1, <3>3, FillsFrame DEF LogInv
  <2> QED
    BY <2>2, <2>3
<1> QED
  BY <1>1, <1>3, <1>4, <1>6, <1>7, LogKept DEF SameAccess

LEMMA FinishLogs ==
  ASSUME ModelsInv, LogInv, NEW c \in Client, Finish(c), UNCHANGED uses
  PROVE  LogInv'
<1>0. PICK t : t = worker[c].thread
  OBVIOUS
<1>1. /\ worker[c].pc # "idle"
      /\ \/ worker[c].pc = "verbs" /\ worker[c].flags = {}
         \/ worker[c].pc = "recv" /\ call[t].recv
      /\ call' = [call EXCEPT ![t].done = TRUE]
      /\ worker' = [worker EXCEPT ![c] = IdleWorker]
      /\ UNCHANGED <<net, recvq, log>>
  BY <1>0 DEF Finish, VerbsDone, FinishWork, queueVars, serverVars
<1>2. t \in Thread /\ ClientOf[t] = c
  BY <1>0, <1>1 DEF ModelsInv, ProcessInv, WorkerInv
<1>3. /\ worker'[c] = IdleWorker /\ IdleWorker.pc = "idle"
      /\ \A d \in Client : d # c => worker'[d] = worker[d]
  BY <1>1 DEF ModelsInv, TypeOK, IdleWorker
<1>4. /\ \A u \in Thread : u # t => SameAccess(u)
      /\ call'[t].done /\ call'[t].model = call[t].model /\ call'[t].step = call[t].step
  <2>1. \A k \in Calls :
          LET done == [k EXCEPT !.done = TRUE]
          IN done.done /\ done.model = k.model /\ done.step = k.step
    BY DEF Calls
  <2>2. call \in [Thread -> Calls]
    BY DEF ModelsInv, TypeOK
  <2>3. call'[t] = [call[t] EXCEPT !.done = TRUE] /\ \A u \in Thread : u # t => call'[u] = call[u]
    BY <1>1, <1>2, <2>2
  <2> QED
    BY <1>2, <2>1, <2>2, <2>3 DEF SameAccess
<1>5. /\ \A k \in DOMAIN net[c] : net[c][k].op \notin Accesses
      /\ \A k \in DOMAIN recvq[c] : recvq[c][k].op \notin Accesses
  <2>1. /\ \A k \in DOMAIN net[c] : net[c][k].op \notin MessageOps
        /\ \A k \in DOMAIN recvq[c] : recvq[c][k].op \notin MessageOps
    BY <1>0, <1>1, NoneUnderWay
  <2>2. /\ \A k \in DOMAIN net[c] : net[c][k].op # "LOG"
        /\ \A k \in DOMAIN recvq[c] : recvq[c][k].op # "LOG"
    BY <1>1 DEF LogInv, PostsInPlace, InPlace
  <2> QED
    BY <2>1, <2>2 DEF Accesses, MessageOps
<1>6. PostsInPlace(c)'
  <2>1. \A k \in DOMAIN net'[c] : InPlaceNext(c, net'[c][k])
    BY <1>1, <1>5 DEF InPlaceNext, Accesses
  <2>2. \A k \in DOMAIN recvq'[c] : recvq'[c][k].op # "LOG" /\ InPlaceNext(c, recvq'[c][k])
    BY <1>1, <1>5 DEF InPlaceNext, Accesses
  <2> QED
    BY <2>1, <2>2, PostsNext
<1>7. ASSUME NEW u \in Thread, ClientOf[u] = c
      PROVE  LogFills(u)'
  <2>1. call[u].step \in Nat
    BY DEF ModelsInv, TypeOK, Calls
  <2>2. ~Placed(u)'
    BY <1>3, <1>7 DEF Placed
  <2>3. CASE u = t
    <3>1. Placed(t)
      BY <1>0, <1>1, <1>2, <1>5 DEF Placed
    <3>2. Written(u)' <= Written(u)
      BY <1>4, <2>1, <2>3, <3>1 DEF Written
    <3> QED
      BY <1>1, <1>4, <2>1, <2>3, <3>2, FillsFrame DEF LogInv
  <2>4. CASE u # t
    <3>1. Written(u)' <= Written(u)
      BY <1>4, <2>1, <2>2, <2>4 DEF Written, SameAccess
    <3> QED
      BY <1>1, <1>4, <2>1, <2>4, <3>1, FillsFrame DEF LogInv, SameAccess
  <2> QED
    BY <2>3, <2>4
<1>8. \A u \in Thread : call'[u].model = call[u].model
  BY <1>4 DEF SameAccess
<1> QED
  BY <1>1, <1>2, <1>3, <1>4, <1>6, <1>7, <1>8, LogKept

LEMMA WorkThreadLogs ==
  ASSUME ModelsInv, LogInv, NEW c \in Client, WorkThread(c), UNCHANGED uses
  PROVE  LogInv'
<1> USE DEF Fits, Accesses
<1>1. CASE MessageWork(c)
  <2>1. PICK work \in {"REQADDR1", "SEND", "Tailwind_RPC"} : Handle(c, work, <<work>>, "recv", {})
    BY <1>1 DEF MessageWork
  <2>2. <<work>> \in Seq(Ops) /\ Fits(work, <<work>>, "recv", {})
    BY SetsOfPosts DEF Ops, MessageOps
  <2> QED
    BY <2>1, <2>2, HandleLogs
<1>2. CASE WriteWork(c)
  <2>1. /\ <<"WRITE", "FLUSH">> \in Seq(Ops)
        /\ Fits("WRITE", <<"WRITE", "FLUSH">>, "verbs", {"write", "read"})
    BY SetsOfPosts DEF Ops, WriteOps
  <2> QED
    BY <1>2, <2>1, HandleLogs DEF WriteWork
<1>3. CASE BareWriteWork(c)
  <2>1. /\ <<"WRITE">> \in Seq(Ops) /\ Fits("SEND2", <<"WRITE">>, "verbs", {"write"})
        /\ <<"WRITE_WITH_IMM">> \in Seq(Ops)
        /\ Fits("WRITEIMM", <<"WRITE_WITH_IMM">>, "verbs", {"write"})
    BY SetsOfPosts DEF Ops, WriteOps
  <2> QED
    BY <1>3, <2>1, HandleLogs DEF BareWriteWork
<1>4. CASE ReadWork(c)
  <2>1. <<"READ">> \in Seq(Ops) /\ Fits("READ", <<"READ">>, "verbs", {"read"})
    BY SetsOfPosts DEF Ops
  <2> QED
    BY <1>4, <2>1, HandleLogs DEF ReadWork
<1>5. CASE CloverWork(c)
  <2>1. <<"CAS">> \in Seq(Ops) /\ Fits("CLOVER", <<"CAS">>, "verbs", {"read"})
    BY SetsOfPosts DEF Ops
  <2> QED
    BY <1>5, <2>1, HandleLogs DEF CloverWork
<1>6. CASE TailwindWork(c)
  <2>1. /\ <<"LOG", "FLUSH">> \in Seq(Ops)
        /\ Fits("Tailwind", <<"LOG", "FLUSH">>, "verbs", {"write", "read"})
    BY SetsOfPosts DEF Ops
  <2> QED
    BY <1>6, <2>1, HandleLogs DEF TailwindWork
<1>7. CASE Send2Work(c)
  BY <1>7, Send2WorkLogs
<1>8. CASE Finish(c)
  BY <1>8, FinishLogs
<1> QED
  BY <1>1, <1>2, <1>3, <1>4, <1>5, <1>6, <1>7, <1>8 DEF WorkThread

LEMMA TailFrom ==
  ASSUME NEW S, NEW s \in Seq(S), s # <<>>, NEW k \in DOMAIN s, k # 1
  PROVE  k - 1 \in DOMAIN Tail(s) /\ Tail(s)[k - 1] = s[k]
  OBVIOUS

LEMMA AdapterLogs ==
  ASSUME ModelsInv, LogInv, OneWriter, NEW c \in Client, Adapter(c), UNCHANGED uses
  PROVE  LogInv'
<1>0. PICK r : r = Head(net[c])
  OBVIOUS
<1>1. /\ net[c] # <<>> /\ net' = [net EXCEPT ![c] = Tail(@)] /\ worker' = worker
      /\ \/ recvq' = recvq
         \/ r.op # "LOG" /\ recvq' = [recvq EXCEPT ![c] = Append(@, r)]
      /\ \/ log' = log
         \/ r.op = "LOG" /\ log' = [log EXCEPT ![c] = Logged(@, r.at)]
      /\ \/ r.op \notin Accesses
         \/ r.op = "LOG" /\ recvq' = recvq /\ log' = [log EXCEPT ![c] = Logged(@, r.at)]
         \/ r.op = "Tailwind_RPC" /\ recvq' = [recvq EXCEPT ![c] = Append(@, r)]
      /\ \/ call' = call
         \/ call' = [call EXCEPT ![r.task].res = mem[r.obj]]
  BY <1>0 DEF Adapter, PerformWrite, PerformLog, PerformRead, Deliver, Posted, Receive,
              clientVars, serverVars, Accesses
<1>2. /\ net[c] \in Seq(Posts) /\ recvq[c] \in Seq(Posts)
      /\ r \in Posts /\ r = net[c][1] /\ 1 \in DOMAIN net[c] /\ Owned(c, r)
      /\ net'[c] = Tail(net[c])
      /\ \A d \in Client : d # c => net'[d] = net[d] /\ recvq'[d] = recvq[d] /\ log'[d] = log[d]
  <2>1. net \in [Client -> Seq(Posts)] /\ recvq \in [Client -> Seq(Posts)]
        /\ log \in [Client -> [LogBytes -> 0..Count]]
    BY DEF ModelsInv, TypeOK
  <2>2. r \in Posts /\ r = net[c][1] /\ 1 \in DOMAIN net[c]
    BY <1>0, <1>1, <2>1, HeadOfSeq
  <2> QED
    BY <1>1, <2>1, <2>2, PostTypes
<1>3. \A k \in DOMAIN net'[c] : \E j \in DOMAIN net[c] : net'[c][k] = net[c][j]
  BY <1>1, <1>2, TailIndices
<1>4. /\ recvq' = [recvq EXCEPT ![c] = Append(@, r)] =>
           /\ \A k \in DOMAIN recvq'[c] :
                (k \in DOMAIN recvq[c] /\ recvq'[c][k] = recvq[c][k]) \/ recvq'[c][k] = r
           /\ \A k \in DOMAIN recvq[c] : k \in DOMAIN recvq'[c] /\ recvq'[c][k] = recvq[c][k]
           /\ \E k \in DOMAIN recvq'[c] : recvq'[c][k] = r
  <2> SUFFICES ASSUME recvq' = [recvq EXCEPT ![c] = Append(@, r)]
               PROVE  /\ \A k \in DOMAIN recvq'[c] :
                           (k \in DOMAIN recvq[c] /\ recvq'[c][k] = recvq[c][k]) \/ recvq'[c][k] = r
                      /\ \A k \in DOMAIN recvq[c] :
                           k \in DOMAIN recvq'[c] /\ recvq'[c][k] = recvq[c][k]
                      /\ \E k \in DOMAIN recvq'[c] : recvq'[c][k] = r
    OBVIOUS
  <2>1. recvq'[c] = Append(recvq[c], r)
    BY DEF ModelsInv, TypeOK
  <2>2. Len(recvq[c]) + 1 \in DOMAIN recvq'[c] /\ recvq'[c][Len(recvq[c]) + 1] = r
    BY <1>2, <2>1
  <2> QED
    BY <1>2, <2>1, <2>2
<1>5. KeepsWorkers(c)
  <2>1. \A t \in Thread : SameAccess(t)
    <3>0. PICK v : v = mem[r.obj]
      OBVIOUS
    <3>1. \A k \in Calls : LET read == [k EXCEPT !.res = v]
            IN read.model = k.model /\ read.step = k.step /\ read.done = k.done
      BY DEF Calls
    <3>2. call \in [Thread -> Calls] /\ r.task \in Thread
      BY <1>2 DEF ModelsInv, TypeOK, Posts
    <3>3. \A t \in Thread : call'[t] = call[t] \/ call'[t] = [call[t] EXCEPT !.res = mem[r.obj]]
      BY <1>1, <3>2
    <3> SUFFICES ASSUME NEW t \in Thread
                 PROVE  SameAccess(t)
      OBVIOUS
    <3>4. call[t] \in Calls
      BY <3>2
    <3>6. call'[t] = call[t] \/ call'[t] = [call[t] EXCEPT !.res = v]
      BY <3>0, <3>3
    <3> QED
      BY <3>1, <3>4, <3>6 DEF SameAccess
  <2>2. Fewer(c)
    <3>1. ASSUME NEW k \in DOMAIN recvq'[c]
          PROVE  \/ recvq'[c][k].op \notin Accesses
                 \/ \E j \in DOMAIN recvq[c] : recvq'[c][k] = recvq[c][j]
                 \/ \E j \in DOMAIN net[c] :
                      recvq'[c][k] = net[c][j] /\ net[c][j].op = "Tailwind_RPC"
      <4>1. CASE recvq' = recvq
        BY <3>1, <4>1
      <4>2. CASE r.op # "LOG" /\ recvq' = [recvq EXCEPT ![c] = Append(@, r)]
        BY <1>2, <1>4, <3>1, <4>2 DEF Accesses
      <4> QED
        BY <1>1, <4>1, <4>2
    <3> QED
      BY <1>3, <3>1 DEF Fewer
  <2> QED
    BY <1>1, <1>2, <2>1, <2>2 DEF KeepsWorkers
<1>6. CASE r.op = "LOG"
  <2>1. log'[c] = Logged(log[c], r.at) /\ r.op \in Accesses
    BY <1>1, <1>6 DEF Accesses, ModelsInv, TypeOK
  <2>2. InPlace(c, r)
    BY <1>2 DEF LogInv, PostsInPlace
  <2> QED
    BY <1>2, <1>5, <2>1, <2>2, AccessPlaced
<1>7. CASE r.op # "LOG"
  <2>1. log' = log
    BY <1>1, <1>7
  <2>2. ASSUME NEW t \in Thread, ClientOf[t] = c, Placed(t)'
        PROVE  Placed(t)
    <3>1. r.op \notin Accesses
      BY <1>1, <1>4, <1>7, <2>2 DEF Placed, Accesses
    <3>2. \A k \in DOMAIN recvq[c] : recvq[c][k].op \notin Accesses
      BY <1>1, <1>4, <2>2 DEF Placed
    <3>3. ASSUME NEW k \in DOMAIN net[c]
          PROVE  net[c][k].op \notin Accesses
      <4>1. k = 1 \/ (k - 1 \in DOMAIN Tail(net[c]) /\ Tail(net[c])[k - 1] = net[c][k])
        BY <1>1, <1>2, TailFrom
      <4>2. \A i \in DOMAIN Tail(net[c]) : Tail(net[c])[i].op \notin Accesses
        BY <1>2, <2>2 DEF Placed
      <4> QED
        BY <1>2, <3>1, <4>1, <4>2
    <3> QED
      BY <1>1, <2>2, <3>2, <3>3 DEF Placed
  <2> QED
    BY <1>5, <2>1, <2>2, NothingPlaced
<1> QED
  BY <1>6, <1>7

LEMMA ClientEpollLogs ==
  ASSUME ModelsInv, LogInv, NEW c \in Client, ClientEpoll(c), UNCHANGED uses
  PROVE  LogInv'
<1>1. CASE OnResponse(c)
  <2>1. /\ UNCHANGED <<worker, net, recvq, log>>
        /\ call' = call \/ call' = [call EXCEPT ![Head(resp[c]).task].recv = TRUE]
    BY <1>1 DEF OnResponse, serverVars
  <2>2. \A t \in Thread : SameAccess(t)
    <3>1. \A k \in Calls : LET told == [k EXCEPT !.recv = TRUE]
            IN told.model = k.model /\ told.step = k.step /\ told.done = k.done
      BY DEF Calls
    <3>2. call \in [Thread -> Calls]
      BY DEF ModelsInv, TypeOK
    <3>3. \A t \in Thread : call'[t] = call[t] \/ call'[t] = [call[t] EXCEPT !.recv = TRUE]
      BY <2>1, <3>2
    <3> SUFFICES ASSUME NEW t \in Thread
                 PROVE  SameAccess(t)
      OBVIOUS
    <3>4. call[t] \in Calls /\ (call'[t] = call[t] \/ call'[t] = [call[t] EXCEPT !.recv = TRUE])
      BY <3>2, <3>3
    <3> QED
      BY <3>1, <3>4 DEF SameAccess
  <2>3. Fewer(c)
    BY <2>1 DEF Fewer
  <2>4. KeepsWorkers(c)
    BY <2>1, <2>2, <2>3 DEF KeepsWorkers
  <2>5. \A t \in Thread : ClientOf[t] = c /\ Placed(t)' => Placed(t)
    BY <2>1 DEF Placed
  <2> QED
    BY <2>1, <2>4, <2>5, NothingPlaced
<1>2. ASSUME CompleteWrite(c) \/ CompleteRead(c)
      PROVE  LogInv'
  <2>1. /\ UNCHANGED <<call, recvq, log>>
        /\ \/ /\ worker' = [worker EXCEPT ![c].flags = @ \ {"write"}]
              /\ net' = [net EXCEPT ![c] = [k \in DOMAIN @ |-> [@[k] EXCEPT !.acked = TRUE]]]
           \/ /\ worker' = [worker EXCEPT ![c].flags = {}]
              /\ net[c] = <<>> /\ net' = net
    BY <1>2 DEF CompleteWrite, CompleteRead, threadVars, queueVars, serverVars
  <2>2. /\ worker'[c].pc = worker[c].pc /\ worker'[c].thread = worker[c].thread
        /\ net[c] # <<>> /\ "read" \in worker[c].flags => "read" \in worker'[c].flags
        /\ \A d \in Client : d # c => worker'[d] = worker[d]
    <3>1. worker \in [Client -> WorkerStates] /\ worker[c] \in WorkerStates
      BY DEF ModelsInv, TypeOK
    <3>2. PICK f : /\ worker'[c] = [worker[c] EXCEPT !.flags = f]
                   /\ f = worker[c].flags \ {"write"} \/ net[c] = <<>>
      BY <2>1, <3>1
    <3>3. /\ worker'[c].pc = worker[c].pc /\ worker'[c].thread = worker[c].thread
          /\ worker'[c].flags = f
      BY <3>1, <3>2 DEF WorkerStates
    <3>4. \A d \in Client : d # c => worker'[d] = worker[d]
      BY <2>1, <3>1
    <3>5. "read" # "write"
      OBVIOUS
    <3> QED
      BY <3>1, <3>2, <3>3, <3>4, <3>5
  <2>3. /\ DOMAIN net'[c] = DOMAIN net[c]
        /\ \A k \in DOMAIN net[c] : /\ net'[c][k].op = net[c][k].op
                                    /\ net'[c][k].task = net[c][k].task
                                    /\ net'[c][k].at = net[c][k].at
        /\ \A d \in Client : d # c => net'[d] = net[d]
    <3>1. net \in [Client -> Seq(Posts)]
      BY DEF ModelsInv, TypeOK
    <3>2. \A r \in Posts : LET acked == [r EXCEPT !.acked = TRUE]
            IN acked.op = r.op /\ acked.task = r.task /\ acked.at = r.at
      BY DEF Posts
    <3>3. \A k \in DOMAIN net[c] : net[c][k] \in Posts
      BY <3>1
    <3>4. \/ net'[c] = net[c]
          \/ net'[c] = [k \in DOMAIN net[c] |-> [net[c][k] EXCEPT !.acked = TRUE]]
      BY <2>1, <3>1
    <3>5. \A d \in Client : d # c => net'[d] = net[d]
      BY <2>1, <3>1
    <3> QED
      BY <3>2, <3>3, <3>4, <3>5
  <2>4. PostsInPlace(c)
    BY DEF LogInv
  <2>5. ASSUME NEW k \in DOMAIN net'[c]
        PROVE  InPlaceNext(c, net'[c][k])
    <3>1. InPlace(c, net[c][k]) /\ net[c] # <<>>
      BY <2>3, <2>4, <2>5 DEF PostsInPlace
    <3> QED
      BY <2>1, <2>2, <2>3, <2>5, <3>1 DEF InPlace, InPlaceNext, At, WorkOf
  <2>6. ASSUME NEW k \in DOMAIN recvq'[c]
        PROVE  recvq'[c][k].op # "LOG" /\ InPlaceNext(c, recvq'[c][k])
    <3>1. recvq[c][k].op # "LOG" /\ InPlace(c, recvq[c][k])
      BY <2>1, <2>4, <2>6 DEF PostsInPlace
    <3> QED
      BY <2>1, <3>1 DEF InPlace, InPlaceNext, At, WorkOf
  <2>7. PostsInPlace(c)'
    BY <2>5, <2>6, PostsNext
  <2>8. ASSUME NEW t \in Thread, ClientOf[t] = c
        PROVE  LogFills(t)'
    <3>1. Placed(t)' => Placed(t)
      BY <2>1, <2>2, <2>3, <2>8 DEF Placed
    <3>2. call[t].step \in Nat
      BY DEF ModelsInv, TypeOK, Calls
    <3>3. Written(t)' <= Written(t)
      BY <2>1, <3>1, <3>2 DEF Written
    <3> QED
      BY <2>1, <3>2, <3>3, FillsFrame DEF LogInv
  <2> QED
    BY <2>1, <2>2, <2>3, <2>7, <2>8, LogKept DEF SameAccess
<1> QED
  BY <1>1, <1>2 DEF ClientEpoll

LEMMA ServerEpollLogs ==
  ASSUME ModelsInv, LogInv, OneWriter, NEW c \in Client, ServerEpoll(c), UNCHANGED uses
  PROVE  LogInv'
<1>0. PICK r : r = Head(recvq[c])
  OBVIOUS
<1>1. /\ recvq[c] # <<>> /\ recvq' = [recvq EXCEPT ![c] = Tail(@)]
      /\ UNCHANGED <<call, worker, net>>
      /\ \/ r.op \notin Accesses /\ log' = log
         \/ r.op = "Tailwind_RPC" /\ log' = [log EXCEPT ![c] = Logged(@, r.at)]
  BY <1>0 DEF ServerEpoll, OnReqAddr1, OnWriteImm, OnSend, OnSend2, OnTailwindRPC, Received,
              Consume, clientVars, Accesses
<1>2. /\ recvq[c] \in Seq(Posts) /\ r \in Posts /\ r = recvq[c][1] /\ 1 \in DOMAIN recvq[c]
      /\ Owned(c, r) /\ recvq'[c] = Tail(recvq[c])
      /\ \A d \in Client : d # c => recvq'[d] = recvq[d] /\ log'[d] = log[d]
  <2>1. recvq \in [Client -> Seq(Posts)] /\ log \in [Client -> [LogBytes -> 0..Count]]
    BY DEF ModelsInv, TypeOK
  <2> QED
    BY <1>0, <1>1, <2>1, ReceivedPost
<1>3. \A k \in DOMAIN recvq'[c] : \E j \in DOMAIN recvq[c] : recvq'[c][k] = recvq[c][j]
  BY <1>1, <1>2, TailIndices
<1>4. KeepsWorkers(c)
  <2>1. Fewer(c)
    BY <1>1, <1>3 DEF Fewer
  <2> QED
    BY <1>1, <1>2, <2>1 DEF KeepsWorkers, SameAccess
<1>5. CASE r.op \notin Accesses
  <2>1. log' = log
    BY <1>1, <1>5 DEF Accesses
  <2>2. ASSUME NEW t \in Thread, ClientOf[t] = c, Placed(t)'
        PROVE  Placed(t)
    <3>1. ASSUME NEW k \in DOMAIN recvq[c]
          PROVE  recvq[c][k].op \notin Accesses
      <4>1. k = 1 \/ (k - 1 \in DOMAIN Tail(recvq[c]) /\ Tail(recvq[c])[k - 1] = recvq[c][k])
        BY <1>1, <1>2, TailFrom
      <4> QED
        BY <1>2, <1>5, <2>2, <4>1 DEF Placed
    <3> QED
      BY <1>1, <2>2, <3>1 DEF Placed
  <2> QED
    BY <1>4, <2>1, <2>2, NothingPlaced
<1>6. CASE r.op \in Accesses
  <2>1. log'[c] = Logged(log[c], r.at)
    BY <1>1, <1>6 DEF ModelsInv, TypeOK
  <2>2. InPlace(c, r)
    BY <1>2 DEF LogInv, PostsInPlace
  <2> QED
    BY <1>2, <1>4, <1>6, <2>1, <2>2, AccessPlaced
<1> QED
  BY <1>5, <1>6

LEMMA LogInit == Init => LogInv
<1> SUFFICES ASSUME Init
             PROVE  LogInv
  OBVIOUS
<1>1. ASSUME NEW c \in Client
      PROVE  PostsInPlace(c)
  BY DEF Init, PostsInPlace
<1>2. ASSUME NEW t \in Thread
      PROVE  LogFills(t) /\ Listed(t)
  BY DEF Init, NoCall, LogFills, Listed, Tailwind
<1> QED
  BY <1>1, <1>2 DEF LogInv

LEMMA LogFrame ==
  ASSUME ModelsInv, LogInv, UNCHANGED <<uses, call, worker, net, recvq, log>>
  PROVE  LogInv'
<1>1. ASSUME NEW d \in Client
      PROVE  PostsInPlace(d)'
  BY PostsFrame DEF LogInv, Fewer, SameServedAccess, SameAccess
<1>2. ASSUME NEW t \in Thread
      PROVE  LogFills(t)' /\ Listed(t)'
  <2>1. call[t].step \in Nat
    BY DEF ModelsInv, TypeOK, Calls
  <2>2. Placed(t)' <=> Placed(t)
    BY DEF Placed
  <2>3. Written(t)' <= Written(t)
    BY <2>1, <2>2 DEF Written
  <2>4. LogFills(t)'
    BY <2>1, <2>3, FillsFrame DEF LogInv
  <2> QED
    BY <2>4 DEF LogInv, Listed
<1> QED
  BY <1>1, <1>2 DEF LogInv

LEMMA LogNext ==
  ASSUME ModelsInv, LogInv, OneWriter, [Next]_vars
  PROVE  LogInv'
<1>1. CASE Next
  <2>1. ASSUME NEW l \in Line, Evict(l), UNCHANGED uses
        PROVE  LogInv'
    BY <2>1, LogFrame DEF Evict, clientVars, queueVars
  <2> QED
    BY <1>1, <2>1, AppThreadLogs, WorkThreadLogs, AdapterLogs, ClientEpollLogs, ServerEpollLogs
       DEF Next
<1>2. CASE UNCHANGED vars
  BY <1>2, LogFrame DEF vars, steps, clientVars, queueVars, serverVars
<1> QED
  BY <1>1, <1>2

(* While it fills its log no slot of it is torn: what a thread of Tailwind has *)
(* written can be read back, up to the access it is at, as long as no other    *)
(* thread of its process runs Tailwind on the same log.                        *)
THEOREM LogsAreReadable ==
  ASSUME OneWriter
  PROVE  Spec => []LogReadable
<1>1. ASSUME ModelsInv, LogInv
      PROVE  LogReadable
  <2> SUFFICES ASSUME NEW t \in Thread, call[t].model = Tailwind, call[t].step < accessnum,
                      NEW k \in 0..(Tailwind_log_size - 1),
                      k < IF call[t].done THEN call[t].step ELSE call[t].step - 1
               PROVE  Slot(ClientOf[t], k) = [p \in 1..Count |-> p]
    BY DEF LogReadable, Tailwind
  <2>1. call[t].step \in Nat
    BY <1>1 DEF ModelsInv, TypeOK, Calls
  <2>2. k < Written(t)
    BY <2>1 DEF Written
  <2>3. Whole(ClientOf[t], k)
    BY <1>1, <2>2 DEF LogInv, LogFills
  <2>4. ASSUME NEW p \in 1..Count
        PROVE  log[ClientOf[t]][k * Count + p - 1] = p
    <3>1. p - 1 \in 0..(Count - 1) /\ (p - 1) + 1 = p
      BY ModelsAssumption
    <3>2. k * Count \in Int
      BY ModelsAssumption
    <3>3. k * Count + (p - 1) = k * Count + p - 1
      BY <3>2
    <3> QED
      BY <2>3, <3>1, <3>3 DEF Whole
  <2> QED
    BY <2>4 DEF Slot
<1>2. Init => LogInv
  BY LogInit
<1>3. ModelsInv /\ LogInv /\ [Next]_vars => LogInv'
  BY LogNext
<1> QED
  BY <1>1, <1>2, <1>3, ModelsHold, PTL DEF Spec

-------------------------------------------------------------------------------
(* The rest shows where each call takes effect: the models implement          *)
(* RemoteObjects.                                                             *)

(* A set of numbers with a bound has a greatest one: its least bound. *)
LEMMA Greatest ==
  ASSUME NEW n \in Nat, NEW S \in SUBSET (1..n), S # {}
  PROVE  \E k \in S : \A l \in S : l <= k
<1> DEFINE R == OpToRel(<, Nat)
           Bounds == {b \in Nat : \A l \in S : l <= b}
<1>1. IsWellFoundedOn(R, Nat)
  BY NatLessThanWellFounded, Zenon
<1>2. \A m, p \in Nat : m < p => <<m, p>> \in R
  BY DEF OpToRel
<1>3. n \in Bounds
  OBVIOUS
<1> HIDE DEF R
<1>4. PICK m \in Bounds : \A p \in Bounds : ~ (<<p, m>> \in R)
  BY <1>1, <1>3, WFMin
<1>5. m \in Nat /\ \A l \in S : l <= m
  BY <1>4
<1>6. m \in S
  <2>1. SUFFICES ASSUME m \notin S
                 PROVE  FALSE
    OBVIOUS
  <2>2. \A l \in S : l \in 1..n /\ l < m
    BY <1>5, <2>1
  <2>3. m - 1 \in Nat /\ m - 1 < m /\ \A l \in S : l <= m - 1
    <3>1. PICK l \in S : TRUE
      OBVIOUS
    <3>2. l \in 1..n /\ l < m
      BY <2>2
    <3>3. m - 1 \in Nat /\ m - 1 < m
      BY <1>5, <3>2
    <3> QED
      BY <1>5, <2>2, <3>3
  <2>4. m - 1 \in Bounds
    BY <2>3
  <2> QED
    BY <1>2, <1>4, <1>5, <2>3, <2>4
<1> QED
  BY <1>5, <1>6

(* What an object holds for its process: v, when q is posted and m is in memory. *)
LateTo(r, o) == r.op \in WriteOps /\ r.acked /\ r.obj = o

Holds(q, m, o, v) ==
  \/ m = v /\ \A k \in DOMAIN q : ~LateTo(q[k], o)
  \/ \E k \in DOMAIN q : /\ LateTo(q[k], o) /\ q[k].val = v
                         /\ \A j \in DOMAIN q : j > k => ~LateTo(q[j], o)

StoreOn(q, m, o) ==
  LET late == {k \in DOMAIN q : LateTo(q[k], o)}
  IN IF late = {} THEN m ELSE q[CHOOSE k \in late : \A l \in late : l <= k].val

LEMMA StoreHolds ==
  ASSUME NEW q \in Seq(Posts), NEW m, NEW o
  PROVE  Holds(q, m, o, StoreOn(q, m, o))
<1> DEFINE late == {k \in DOMAIN q : LateTo(q[k], o)}
<1>1. CASE late = {}
  BY <1>1 DEF Holds, StoreOn
<1>2. CASE late # {}
  <2>1. Len(q) \in Nat /\ late \subseteq 1..Len(q)
    OBVIOUS
  <2>2. \E k \in late : \A l \in late : l <= k
    BY <1>2, <2>1, Greatest
  <2>3. PICK k : k = CHOOSE j \in late : \A l \in late : l <= j
    OBVIOUS
  <2>4. k \in late /\ \A l \in late : l <= k
    BY <2>2, <2>3
  <2>5. StoreOn(q, m, o) = q[k].val
    BY <1>2, <2>3 DEF StoreOn
  <2>6. \A j \in DOMAIN q : j > k => ~LateTo(q[j], o)
    BY <2>1, <2>4
  <2> QED
    BY <2>4, <2>5, <2>6 DEF Holds
<1> QED
  BY <1>1, <1>2

LEMMA HoldsOne ==
  ASSUME NEW q \in Seq(Posts), NEW m, NEW o, NEW v, Holds(q, m, o, v)
  PROVE  StoreOn(q, m, o) = v
<1>1. PICK w : w = StoreOn(q, m, o) /\ Holds(q, m, o, w)
  BY StoreHolds
<1>2. Len(q) \in Nat /\ DOMAIN q = 1..Len(q)
  OBVIOUS
<1>3. w = v
  <2>1. CASE m = v /\ \A k \in DOMAIN q : ~LateTo(q[k], o)
    BY <1>1, <2>1 DEF Holds
  <2>2. ASSUME NEW k \in DOMAIN q, LateTo(q[k], o), q[k].val = v,
               \A j \in DOMAIN q : j > k => ~LateTo(q[j], o)
        PROVE  w = v
    <3>1. PICK l \in DOMAIN q : /\ LateTo(q[l], o) /\ q[l].val = w
                                /\ \A j \in DOMAIN q : j > l => ~LateTo(q[j], o)
      BY <1>1, <2>2 DEF Holds
    <3>2. k = l
      BY <1>2, <2>2, <3>1
    <3> QED
      BY <2>2, <3>1, <3>2
  <2> QED
    BY <2>1, <2>2 DEF Holds
<1> QED
  BY <1>1, <1>3

LEMMA StoreIsOn ==
  ASSUME NEW o
  PROVE  /\ StoreOf(o) = StoreOn(net[OwnerOf[o]], mem[o], o)
         /\ StoreOf(o)' = StoreOn(net'[OwnerOf[o]], mem'[o], o)
  BY DEF StoreOf, StoreOn, Returned, LateTo, WriteOps

(* Performing the head: what it brings to memory was held already if it was late. *)
LEMMA HoldsTail ==
  ASSUME NEW q \in Seq(Posts), q # <<>>, NEW o, NEW m, NEW m1, NEW v, Holds(q, m, o, v),
         m1 = IF LateTo(q[1], o) THEN q[1].val ELSE m
  PROVE  Holds(Tail(q), m1, o, v)
<1>1. /\ Len(q) \in Nat \ {0} /\ DOMAIN q = 1..Len(q) /\ DOMAIN Tail(q) = 1..(Len(q) - 1)
      /\ \A k \in DOMAIN Tail(q) : k + 1 \in DOMAIN q /\ Tail(q)[k] = q[k + 1] /\ k + 1 > 1
      /\ \A k \in DOMAIN q : k # 1 => k - 1 \in DOMAIN Tail(q) /\ Tail(q)[k - 1] = q[k] /\ k > 1
  OBVIOUS
<1>2. PICK s : s = Tail(q)
  OBVIOUS
<1>3. CASE m = v /\ \A k \in DOMAIN q : ~LateTo(q[k], o)
  <2>1. \A k \in DOMAIN s : ~LateTo(s[k], o)
    BY <1>1, <1>2, <1>3
  <2>2. m1 = v
    BY <1>1, <1>3
  <2> QED
    BY <1>2, <2>1, <2>2 DEF Holds
<1>4. ASSUME NEW k \in DOMAIN q, LateTo(q[k], o), q[k].val = v,
             \A j \in DOMAIN q : j > k => ~LateTo(q[j], o)
      PROVE  Holds(s, m1, o, v)
  <2>1. CASE k = 1
    <3>1. m1 = v
      BY <1>4, <2>1
    <3>2. \A j \in DOMAIN s : ~LateTo(s[j], o)
      BY <1>1, <1>2, <1>4, <2>1
    <3> QED
      BY <3>1, <3>2 DEF Holds
  <2>2. CASE k # 1
    <3>1. k - 1 \in DOMAIN s /\ LateTo(s[k - 1], o) /\ s[k - 1].val = v
      BY <1>1, <1>2, <1>4, <2>2
    <3>2. \A j \in DOMAIN s : j > k - 1 => ~LateTo(s[j], o)
      BY <1>1, <1>2, <1>4
    <3> QED
      BY <3>1, <3>2 DEF Holds
  <2> QED
    BY <2>1, <2>2
<1> QED
  BY <1>2, <1>3, <1>4 DEF Holds

(* Posting: what is new is not acknowledged. *)
LEMMA HoldsMore ==
  ASSUME NEW q \in Seq(Posts), NEW p \in Seq(Posts), NEW o, NEW m, NEW v, Holds(q, m, o, v),
         Len(q) <= Len(p), \A k \in DOMAIN q : p[k] = q[k],
         \A k \in DOMAIN p : k \in DOMAIN q \/ ~p[k].acked
  PROVE  Holds(p, m, o, v)
<1>1. /\ DOMAIN q \subseteq DOMAIN p
      /\ \A k \in DOMAIN p : LateTo(p[k], o) => k \in DOMAIN q /\ LateTo(q[k], o)
  BY DEF LateTo
<1> QED
  BY <1>1 DEF Holds

-------------------------------------------------------------------------------
(* The steps of RemoteObjects, in terms of what the model's variables stand for. *)
Store == [o \in Object |-> StoreOf(o)]
Req == [t \in Thread |-> RequestOf(t)]
Ans == [t \in Thread |-> AnswerOf(t)]

Same(t) == RequestOf(t)' = RequestOf(t) /\ AnswerOf(t)' = AnswerOf(t)
SameStore == \A o \in Object : StoreOf(o)' = StoreOf(o)

Stutter == SameStore /\ \A t \in Thread : Same(t)

Invokes(t) ==
  /\ RequestOf(t) = NULL /\ RequestOf(t)' \in Abstract!Requests
  /\ AnswerOf(t)' = AnswerOf(t)
  /\ SameStore /\ \A u \in Thread \ {t} : Same(u)

Responds(t) ==
  /\ AnswerOf(t) # Abstract!NoAnswer
  /\ RequestOf(t)' = NULL /\ AnswerOf(t)' = Abstract!NoAnswer
  /\ SameStore /\ \A u \in Thread \ {t} : Same(u)

Takes(t, op, res) ==
  /\ RequestOf(t) # NULL /\ RequestOf(t).op = op /\ AnswerOf(t) = Abstract!NoAnswer
  /\ RequestOf(t)' = RequestOf(t) /\ AnswerOf(t)' = Abstract!Answer(res)
  /\ \A u \in Thread \ {t} : Same(u)

Puts(t) ==
  /\ Takes(t, "write", NULL)
  /\ \A o \in Object :
       StoreOf(o)' = IF o = RequestOf(t).obj THEN RequestOf(t).val ELSE StoreOf(o)

Reads(t) ==
  /\ RequestOf(t).obj \in Object
  /\ Takes(t, "read", StoreOf(RequestOf(t).obj))
  /\ SameStore

Passes(t) == Takes(t, "other", NULL) /\ SameStore

LEMMA StutterMaps == Stutter => UNCHANGED Abstract!objectVars
<1> SUFFICES ASSUME Stutter
             PROVE  UNCHANGED Abstract!objectVars
  OBVIOUS
<1>1. Store' = Store /\ Req' = Req /\ Ans' = Ans
  BY DEF Stutter, Same, SameStore, Store, Req, Ans
<1> QED
  BY <1>1 DEF Store, Req, Ans, Abstract!objectVars

LEMMA InvokeMaps ==
  ASSUME NEW t \in Thread, Invokes(t)
  PROVE  Abstract!Next
<1>1. PICK q \in Abstract!Requests : RequestOf(t)' = q
  BY DEF Invokes
<1>2. Req' = [Req EXCEPT ![t] = q] /\ Store' = Store /\ Ans' = Ans /\ Req[t] = NULL
  BY <1>1 DEF Invokes, Same, SameStore, Store, Req, Ans
<1>3. Abstract!Invoke(t, q)
  BY <1>2 DEF Abstract!Invoke, Store, Req, Ans
<1> QED
  BY <1>3 DEF Abstract!Next

LEMMA RespondMaps ==
  ASSUME NEW t \in Thread, Responds(t)
  PROVE  Abstract!Next
<1>1. /\ Req' = [Req EXCEPT ![t] = NULL] /\ Store' = Store
      /\ Ans' = [Ans EXCEPT ![t] = Abstract!NoAnswer] /\ Ans[t] # Abstract!NoAnswer
  BY DEF Responds, Same, SameStore, Store, Req, Ans
<1>2. Abstract!Respond(t)
  BY <1>1 DEF Abstract!Respond, Store, Req, Ans
<1> QED
  BY <1>2 DEF Abstract!Next

LEMMA TakeMaps ==
  ASSUME NEW t \in Thread, Puts(t) \/ Reads(t) \/ Passes(t)
  PROVE  Abstract!Next
<1>1. ASSUME NEW op, NEW res, Takes(t, op, res)
      PROVE  /\ Abstract!Pending(t, op)
             /\ Ans' = [Ans EXCEPT ![t] = Abstract!Answer(res)] /\ Req' = Req
  <2>1. /\ Ans' = [Ans EXCEPT ![t] = Abstract!Answer(res)] /\ Req' = Req
        /\ Req[t] # NULL /\ Req[t].op = op /\ Ans[t] = Abstract!NoAnswer
    BY <1>1 DEF Takes, Same, Req, Ans
  <2> QED
    BY <2>1 DEF Abstract!Pending, Req, Ans
<1>2. CASE Puts(t)
  <2>1. Store' = [Store EXCEPT ![RequestOf(t).obj] = RequestOf(t).val]
    BY <1>2 DEF Puts, Store
  <2>2. /\ Abstract!Pending(t, "write")
        /\ Ans' = [Ans EXCEPT ![t] = Abstract!Answer(NULL)] /\ Req' = Req
    BY <1>1, <1>2 DEF Puts
  <2>3. Abstract!Write(t)
    BY <2>1, <2>2 DEF Abstract!Write, Store, Req, Ans
  <2> QED
    BY <2>3 DEF Abstract!Next
<1>3. CASE Reads(t)
  <2>1. Store' = Store
    BY <1>3 DEF Reads, SameStore, Store
  <2>2. /\ Abstract!Pending(t, "read") /\ RequestOf(t).obj \in Object
        /\ Ans' = [Ans EXCEPT ![t] = Abstract!Answer(StoreOf(RequestOf(t).obj))] /\ Req' = Req
    BY <1>1, <1>3 DEF Reads
  <2>3. Abstract!Read(t)
    BY <2>1, <2>2 DEF Abstract!Read, Store, Req, Ans
  <2> QED
    BY <2>3 DEF Abstract!Next
<1>4. CASE Passes(t)
  <2>1. Store' = Store
    BY <1>4 DEF Passes, SameStore, Store
  <2>2. /\ Abstract!Pending(t, "other")
        /\ Ans' = [Ans EXCEPT ![t] = Abstract!Answer(NULL)] /\ Req' = Req
    BY <1>1, <1>4 DEF Passes
  <2>3. Abstract!Other(t)
    BY <2>1, <2>2 DEF Abstract!Other, Store, Req, Ans
  <2> QED
    BY <2>3 DEF Abstract!Next
<1> QED
  BY <1>2, <1>3, <1>4

-------------------------------------------------------------------------------
(* When a call takes effect. *)
PutWorks == {"WRITE", "WRITEIMM", "SEND", "SEND2"}
EffectWorks(m) == IF m = "model_1_octopus_R" THEN {"READ"} ELSE PutWorks

(* A model has one work that takes effect, unless it is one of the others. *)
LEMMA EffectStepIs ==
  ASSUME NEW m \in Models, m \notin Others
  PROVE  /\ EffectStep(m) \in 1..Len(Works[m])
         /\ \A k \in 1..Len(Works[m]) : k = EffectStep(m) <=> Works[m][k] \in EffectWorks(m)
<1>1. m \in {"model_A_write", "model_A_writeImm", "model_B_send", "model_D_write",
              "model_D_send", "model_1_octopus", "model_1_octopus_R", "model_1_clover"}
  BY DEF Models, Works, Others
<1>2. /\ Works["model_A_write"] = <<"REQADDR1", "WRITE">>
      /\ Works["model_A_writeImm"] = <<"REQADDR1", "WRITEIMM">>
      /\ Works["model_B_send"] = <<"SEND">>
      /\ Works["model_D_write"] = <<"WRITE">>
      /\ Works["model_D_send"] = <<"SEND2">>
      /\ Works["model_1_octopus"] = <<"REQADDR1", "WRITE", "CLOVER">>
      /\ Works["model_1_octopus_R"] = <<"REQADDR1", "READ">>
      /\ Works["model_1_clover"] = <<"READ", "WRITE", "CLOVER">>
  BY DEF Works
<1>3. \E e \in 1..Len(Works[m]) : \A k \in 1..Len(Works[m]) :
        k = e <=> Works[m][k] \in EffectWorks(m)
  <2>1. CASE m \in {"model_B_send", "model_D_write", "model_D_send"}
    <3>1. /\ Len(Works[m]) = 1 /\ Works[m][1] \in PutWorks /\ EffectWorks(m) = PutWorks
      BY <1>2, <2>1 DEF PutWorks, EffectWorks
    <3> QED
      BY <3>1
  <2>2. CASE m \in {"model_A_write", "model_A_writeImm"}
    <3>1. /\ Len(Works[m]) = 2 /\ Works[m][1] \notin PutWorks /\ Works[m][2] \in PutWorks
          /\ EffectWorks(m) = PutWorks
      BY <1>2, <2>2 DEF PutWorks, EffectWorks
    <3> QED
      BY <3>1
  <2>3. CASE m = "model_1_octopus_R"
    <3>1. /\ Len(Works[m]) = 2 /\ Works[m][1] # "READ" /\ Works[m][2] = "READ"
          /\ EffectWorks(m) = {"READ"}
      BY <1>2, <2>3 DEF EffectWorks
    <3> QED
      BY <3>1
  <2>4. CASE m \in {"model_1_octopus", "model_1_clover"}
    <3>1. /\ Len(Works[m]) = 3 /\ Works[m][1] \notin PutWorks /\ Works[m][2] \in PutWorks
          /\ Works[m][3] \notin PutWorks /\ EffectWorks(m) = PutWorks
      BY <1>2, <2>4 DEF PutWorks, EffectWorks
    <3> QED
      BY <3>1
  <2> QED
    BY <1>1, <2>1, <2>2, <2>3, <2>4
<1>4. PICK e \in 1..Len(Works[m]) : \A k \in 1..Len(Works[m]) :
        k = e <=> Works[m][k] \in EffectWorks(m)
  BY <1>3
<1>5. EffectStep(m) = CHOOSE k \in DOMAIN Works[m] : Works[m][k] \in EffectWorks(m)
  BY DEF EffectStep, EffectWorks, PutWorks
<1>6. DOMAIN Works[m] = 1..Len(Works[m])
  BY WorksType
<1> QED
  BY <1>4, <1>5, <1>6

(* Who writes is none of the others; who reads may be. *)
LEMMA PutModels ==
  ASSUME NEW m \in Models, NEW k \in 1..Len(Works[m]), Works[m][k] \in PutWorks
  PROVE  m \notin Others /\ m # "model_1_octopus_R"
<1>1. CASE m = "model_6_Tailwind"
  <2>1. Len(Works[m]) = accessnum
    BY <1>1, TailwindWorks, ModelsAssumption
  <2>2. Works[m][k] \in {"Tailwind_RPC", "Tailwind"}
    BY <1>1, <2>1 DEF Works
  <2> QED
    BY <2>2 DEF PutWorks
<1>2. CASE m \in {"model_1_clover_R", "model_1_octopus_R"}
  <2>1. /\ Works["model_1_octopus_R"] = <<"REQADDR1", "READ">>
        /\ Works["model_1_clover_R"] = <<"READ">>
    BY DEF Works
  <2>2. Works[m][k] \in {"REQADDR1", "READ"}
    BY <1>2, <2>1
  <2> QED
    BY <2>2 DEF PutWorks
<1> QED
  BY <1>1, <1>2 DEF Others

OpOf(m) ==
  IF m = "model_1_octopus_R" THEN "read" ELSE IF m \in Others THEN "other" ELSE "write"

LEMMA RequestIs ==
  ASSUME NEW t \in Thread, call[t] \in Calls, call[t].model # "none", call[t].obj \in Object
  PROVE  /\ RequestOf(t) # NULL /\ RequestOf(t) \in Abstract!Requests
         /\ RequestOf(t).op = OpOf(call[t].model)
         /\ RequestOf(t).obj = call[t].obj /\ RequestOf(t).val = call[t].val
<1>1. RequestOf(t) = [op |-> OpOf(call[t].model), obj |-> call[t].obj, val |-> call[t].val]
  BY DEF RequestOf, OpOf
<1>2. OpOf(call[t].model) \in {"read", "write", "other"} /\ call[t].val \in Value
  BY DEF OpOf, Calls
<1>3. RequestOf(t) \in Abstract!Requests
  BY <1>1, <1>2 DEF Abstract!Requests
<1>4. RequestOf(t) # NULL
  BY <1>3, NullIsNoRequest DEF Abstract!Requests
<1> QED
  BY <1>1, <1>3, <1>4

PostOwes(r, t) ==
  r.task = t /\ ~r.acked /\ r.op \in {"WRITE", "WRITE_WITH_IMM", "SEND", "READ"}

NetOwes(posts, t) == \E k \in DOMAIN posts : PostOwes(posts[k], t)

RecvOwes(posts, t) == \E k \in DOMAIN posts : posts[k].task = t /\ posts[k].op = "SEND"

OnTheWay(posted, received, t) == NetOwes(posted, t) \/ RecvOwes(received, t)

LEMMA OwedIs ==
  ASSUME NEW t \in Thread
  PROVE  LET c == ClientOf[t] IN
         /\ Owed(t) <=> /\ ~call[t].done
                        /\ worker[c].thread # t \/ OnTheWay(net[c], recvq[c], t)
         /\ Owed(t)' <=> /\ ~call'[t].done
                         /\ worker'[c].thread # t \/ OnTheWay(net'[c], recvq'[c], t)
  BY DEF Owed, OnTheWay, NetOwes, RecvOwes, PostOwes

SameEffect(t) ==
  /\ call'[t].model = call[t].model /\ call'[t].step = call[t].step
  /\ call'[t].obj = call[t].obj /\ call'[t].val = call[t].val

(* A call at a work that is not the one that takes effect does not move. *)
LEMMA TookIs ==
  ASSUME ModelsInv, NEW t \in Thread, call[t].model # "none"
  PROVE  LET m == call[t].model IN
         /\ m \in Models /\ call[t] \in Calls /\ call[t].obj \in Object
         /\ call[t].step \in 1..Len(Works[m])
         /\ m \in Others => (TookEffect(t) <=> call[t].done /\ LastStep(t))
         /\ m \notin Others =>
              /\ WorkOf(t) \in EffectWorks(m) => (TookEffect(t) <=> ~Owed(t))
              /\ WorkOf(t) \notin EffectWorks(m) =>
                   (TookEffect(t) <=> call[t].step > EffectStep(m))
<1>1. call[t] \in Calls /\ CallInv(t)
  BY DEF ModelsInv, TypeOK
<1>2. call[t].model \in Models /\ call[t].obj \in Object
      /\ call[t].step \in 1..Len(Works[call[t].model])
  BY <1>1 DEF Calls, CallInv
<1>3. Len(Works[call[t].model]) \in Nat
  BY <1>2, WorksType
<1>4. CASE call[t].model \notin Others
  <2>1. /\ EffectStep(call[t].model) \in 1..Len(Works[call[t].model])
        /\ call[t].step = EffectStep(call[t].model) <=> WorkOf(t) \in EffectWorks(call[t].model)
    BY <1>2, <1>4, EffectStepIs DEF WorkOf
  <2>2. TookEffect(t) <=> \/ call[t].step > EffectStep(call[t].model)
                          \/ call[t].step = EffectStep(call[t].model) /\ ~Owed(t)
    BY <1>4 DEF TookEffect
  <2> QED
    BY <1>1, <1>2, <1>3, <1>4, <2>1, <2>2
<1>5. CASE call[t].model \in Others
  BY <1>1, <1>2, <1>5 DEF TookEffect
<1> QED
  BY <1>4, <1>5

(* Where the call stands decides what RemoteObjects sees of it. *)
LEMMA SameIf ==
  ASSUME NEW t \in Thread, SameEffect(t), TookEffect(t)' <=> TookEffect(t),
         TookEffect(t) => call'[t].res = call[t].res
  PROVE  Same(t)
<1>1. RequestOf(t)' = RequestOf(t)
  BY DEF RequestOf, SameEffect
<1>2. AnswerOf(t)' = AnswerOf(t)
  BY DEF AnswerOf
<1> QED
  BY <1>1, <1>2 DEF Same

LEMMA TookFrame ==
  ASSUME NEW t \in Thread, SameEffect(t), call'[t].done = call[t].done,
         \/ call[t].model \in Others \cup {"none"}
         \/ call[t].step # EffectStep(call[t].model)
         \/ Owed(t)' <=> Owed(t)
  PROVE  TookEffect(t)' <=> TookEffect(t)
<1>1. LastStep(t)' <=> LastStep(t)
  BY DEF LastStep, SameEffect
<1>2. EffectStep(call[t].model)' = EffectStep(call[t].model)
  BY DEF EffectStep, SameEffect
<1> QED
  BY <1>1, <1>2 DEF TookEffect, SameEffect

-------------------------------------------------------------------------------
(* What a step leaves of it. *)
SameProgress(t) ==
  /\ SameEffect(t) /\ call'[t].done = call[t].done /\ call'[t].res = call[t].res

LEMMA ThreadFrame ==
  ASSUME NEW t \in Thread, NEW c, c = ClientOf[t], SameProgress(t),
         worker'[c].thread = worker[c].thread,
         OnTheWay(net'[c], recvq'[c], t) <=> OnTheWay(net[c], recvq[c], t)
  PROVE  Same(t)
<1>1. Owed(t)' <=> Owed(t)
  BY OwedIs DEF SameProgress
<1>2. TookEffect(t)' <=> TookEffect(t)
  BY <1>1, TookFrame DEF SameProgress
<1> QED
  BY <1>2, SameIf DEF SameProgress

(* A call that is not being served moves only when it is done. *)
LEMMA UnservedFrame ==
  ASSUME NEW t \in Thread, NEW c, c = ClientOf[t], SameProgress(t),
         worker[c].thread # t, worker'[c].thread # t
  PROVE  Same(t)
<1>1. Owed(t)' <=> Owed(t)
  BY OwedIs DEF SameProgress
<1>2. TookEffect(t)' <=> TookEffect(t)
  BY <1>1, TookFrame DEF SameProgress
<1> QED
  BY <1>2, SameIf DEF SameProgress

LEMMA StoreFrame ==
  ASSUME NEW o, net'[OwnerOf[o]] = net[OwnerOf[o]], mem'[o] = mem[o]
  PROVE  StoreOf(o)' = StoreOf(o)
  BY StoreIsOn

LEMMA StoreTail ==
  ASSUME NEW c, net[c] \in Seq(Posts), net[c] # <<>>, net'[c] = Tail(net[c]),
         NEW o, OwnerOf[o] = c,
         mem'[o] = IF LateTo(net[c][1], o) THEN net[c][1].val ELSE mem[o]
  PROVE  StoreOf(o)' = StoreOf(o)
<1>1. PICK v : v = StoreOf(o)
  OBVIOUS
<1>2. Holds(net[c], mem[o], o, v)
  BY <1>1, StoreIsOn, StoreHolds
<1>3. Holds(Tail(net[c]), mem'[o], o, v)
  BY <1>2, HoldsTail
<1>4. Tail(net[c]) \in Seq(Posts)
  BY HeadOfSeq
<1>5. StoreOn(Tail(net[c]), mem'[o], o) = v
  BY <1>3, <1>4, HoldsOne
<1> QED
  BY <1>1, <1>5, StoreIsOn

ServedKeeps(c) == worker[c].pc = "verbs" => SameEffect(worker[c].thread)

(* What is left of a queue pair after its first s requests is still in order. *)
LEMMA InOrderFewer ==
  ASSUME NEW c, InOrder(c), worker'[c] = worker[c], ServedKeeps(c), NEW s \in Nat,
         net[c] \in Seq(Posts), net'[c] \in Seq(Posts), Len(net'[c]) + s = Len(net[c]),
         \A k \in DOMAIN net'[c] : k + s \in DOMAIN net[c] /\ net'[c][k] = net[c][k + s]
  PROVE  InOrder(c)'
<1>1. DOMAIN net'[c] \subseteq Nat
  OBVIOUS
<1>2. SUFFICES ASSUME NEW k \in DOMAIN net'[c], NEW r, r = net'[c][k]
               PROVE  /\ r.op \in WriteOps /\ ~r.acked =>
                           /\ Serves(c, net[c][k], {"WRITE", "WRITEIMM", "SEND2"})'
                           /\ "write" \in worker'[c].flags
                           /\ \A j \in DOMAIN net'[c] : j > k => net'[c][j].op \notin WriteOps
                      /\ r.op = "READ" =>
                           /\ Serves(c, net[c][k], {"READ"})' /\ worker'[c].flags = {"read"}
                           /\ ~r.acked /\ k = Len(net'[c])
                      /\ r.op = "SEND" => ~r.acked
  BY DEF InOrder
<1>3. k + s \in DOMAIN net[c] /\ r = net[c][k + s]
  BY <1>2
<1>4. /\ r.op \in WriteOps /\ ~r.acked =>
           /\ Serves(c, r, {"WRITE", "WRITEIMM", "SEND2"}) /\ "write" \in worker[c].flags
           /\ \A j \in DOMAIN net[c] : j > k + s => net[c][j].op \notin WriteOps
      /\ r.op = "READ" =>
           /\ Serves(c, r, {"READ"}) /\ worker[c].flags = {"read"}
           /\ ~r.acked /\ k + s = Len(net[c])
      /\ r.op = "SEND" => ~r.acked
  BY <1>3 DEF InOrder
<1>5. ASSUME NEW works, Serves(c, r, works)
      PROVE  Serves(c, net[c][k], works)'
  BY <1>2, <1>5 DEF Serves, ServedKeeps, SameEffect, WorkOf
<1>6. r.op \in WriteOps /\ ~r.acked =>
        \A j \in DOMAIN net'[c] : j > k => net'[c][j].op \notin WriteOps
  BY <1>1, <1>4
<1>7. k + s = Len(net[c]) => k = Len(net'[c])
  BY <1>1
<1> QED
  BY <1>4, <1>5, <1>6, <1>7

(* A step of process c leaves the others alone. *)
Elsewhere(c) ==
  /\ \A d \in Client : d # c =>
       worker'[d] = worker[d] /\ net'[d] = net[d] /\ recvq'[d] = recvq[d]
  /\ \A t \in Thread : ClientOf[t] # c => SameProgress(t)
  /\ \A o \in Object : OwnerOf[o] # c => mem'[o] = mem[o]

LEMMA ElsewhereSame ==
  ASSUME ModelsInv, EffectInv, NEW c, Elsewhere(c)
  PROVE  /\ \A d \in Client : d # c => InOrder(d)'
         /\ \A t \in Thread : ClientOf[t] # c => Same(t)
         /\ \A o \in Object : OwnerOf[o] # c => StoreOf(o)' = StoreOf(o)
<1>1. ASSUME NEW d \in Client, d # c
      PROVE  InOrder(d)'
  <2>1. worker'[d] = worker[d] /\ net'[d] = net[d] /\ net[d] \in Seq(Posts)
    BY <1>1 DEF Elsewhere, ModelsInv, TypeOK
  <2>2. ServedKeeps(d)
    BY <1>1 DEF ServedKeeps, Elsewhere, SameProgress, ModelsInv, ProcessInv, WorkerInv
  <2>3. InOrder(d)
    BY DEF EffectInv
  <2>4. /\ Len(net[d]) + 0 = Len(net[d])
        /\ \A k \in DOMAIN net[d] : k + 0 \in DOMAIN net[d] /\ net[d][k] = net[d][k + 0]
    BY <2>1
  <2>5. 0 \in Nat
    OBVIOUS
  <2> QED
    BY <2>1, <2>2, <2>3, <2>4, <2>5, InOrderFewer
<1>2. ASSUME NEW t \in Thread, ClientOf[t] # c
      PROVE  Same(t)
  <2>1. ClientOf[t] \in Client /\ SameProgress(t)
    BY <1>2, ModelsAssumption DEF Elsewhere
  <2> QED
    BY <1>2, <2>1, ThreadFrame DEF Elsewhere
<1>3. ASSUME NEW o \in Object, OwnerOf[o] # c
      PROVE  StoreOf(o)' = StoreOf(o)
  <2>1. OwnerOf[o] \in Client
    BY ModelsAssumption
  <2> QED
    BY <1>3, <2>1, StoreFrame DEF Elsewhere
<1> QED
  BY <1>1, <1>2, <1>3

-------------------------------------------------------------------------------
(* The application threads: they ask, go on and take their answers. *)
LEMMA AppThreadEffects ==
  ASSUME ModelsInv, EffectInv, NEW t \in Thread, AppThread(t)
  PROVE  EffectInv' /\ (Stutter \/ Invokes(t) \/ Responds(t))
<1>0. PICK c \in Client : c = ClientOf[t]
  BY ModelsAssumption
<1>1. /\ UNCHANGED <<worker, net, recvq, mem>>
      /\ \A u \in Thread : u # t => call'[u] = call[u]
  BY DEF AppThread, Call, Continue, Return, Submit, queueVars, serverVars, ModelsInv, TypeOK
<1>2. call[t] \in Calls /\ call \in [Thread -> Calls] /\ CallInv(t) /\ WorkerInv(c)
  BY DEF ModelsInv, TypeOK, ProcessInv
<1>3. \/ call[t].model = "none"
      \/ call[t].done
  BY DEF AppThread, Call, Continue, Return
<1>4. worker[c].thread # t
  BY <1>0, <1>2, <1>3, ModelsAssumption DEF WorkerInv, IdleWorker
<1>5. SameStore
  BY <1>1, StoreFrame DEF SameStore
<1>6. \A u \in Thread \ {t} : SameProgress(u)
  BY <1>1 DEF SameProgress, SameEffect
<1>7. \A u \in Thread \ {t} : Same(u)
  <2> SUFFICES ASSUME NEW u \in Thread, u # t
               PROVE  Same(u)
    OBVIOUS
  <2> QED
    BY <1>1, <1>6, ThreadFrame
<1>8. \A d \in Client : InOrder(d)'
  <2> SUFFICES ASSUME NEW d \in Client
               PROVE  InOrder(d)'
    OBVIOUS
  <2>1. net[d] \in Seq(Posts) /\ InOrder(d) /\ WorkerInv(d)
    BY DEF ModelsInv, TypeOK, EffectInv, ProcessInv
  <2>2. worker[d].pc = "verbs" => worker[d].thread \in Thread \ {t}
    BY <1>3, <2>1 DEF WorkerInv
  <2>3. ServedKeeps(d)
    BY <1>6, <2>2 DEF ServedKeeps, SameProgress
  <2>4. /\ Len(net[d]) + 0 = Len(net[d])
        /\ \A k \in DOMAIN net[d] : k + 0 \in DOMAIN net[d] /\ net[d][k] = net[d][k + 0]
    BY <2>1
  <2>5. 0 \in Nat
    OBVIOUS
  <2> QED
    BY <1>1, <2>1, <2>3, <2>4, <2>5, InOrderFewer
<1>9. ASSUME call'[t].res # NULL => call'[t].model = "model_1_octopus_R"
      PROVE  EffectInv'
  BY <1>1, <1>8, <1>9 DEF EffectInv
<1>10. Owed(t) <=> ~call[t].done
  BY <1>0, <1>4, OwedIs
<1>11. Owed(t)' <=> ~call'[t].done
  BY <1>0, <1>1, <1>4, OwedIs
<1>12. ASSUME NEW use \in uses[t], NEW o \in Object, OwnerOf[o] = ClientOf[t],
              Call(t, use[1], o, use[2])
       PROVE  EffectInv' /\ Invokes(t)
  <2>1. use[1] \in Models /\ use[2] \in Value
    BY UseTypes DEF ModelsInv, TypeOK
  <2>2. use[1] # "none"
    BY <2>1 DEF Models, Works
  <2>3. call'[t] = [NoCall EXCEPT !.model = use[1], !.step = 1, !.obj = o, !.val = use[2]]
    BY <1>2, <1>12 DEF Call, Submit
  <2>4. /\ call'[t].model = use[1] /\ call'[t].step = 1 /\ call'[t].obj = o
        /\ call'[t].val = use[2] /\ ~call'[t].done /\ call'[t].res = NULL
    BY <2>3 DEF NoCall
  <2>5. ~TookEffect(t)'
    <3>1. CASE use[1] \in Others
      BY <2>4, <3>1 DEF TookEffect
    <3>2. CASE use[1] \notin Others
      <4>1. EffectStep(use[1]) \in 1..Len(Works[use[1]]) /\ Len(Works[use[1]]) \in Nat
        BY <2>1, <3>2, EffectStepIs, WorksType
      <4>2. EffectStep(call[t].model)' = EffectStep(use[1])
        BY <2>4 DEF EffectStep
      <4> QED
        BY <1>11, <2>4, <3>2, <4>1, <4>2 DEF TookEffect
    <3> QED
      BY <3>1, <3>2
  <2>6. call[t].model = "none"
    BY <1>12 DEF Call
  <2>7. RequestOf(t) = NULL /\ AnswerOf(t)' = AnswerOf(t)
    BY <2>5, <2>6 DEF RequestOf, AnswerOf, TookEffect
  <2>8. RequestOf(t)' = [op |-> OpOf(use[1]), obj |-> o, val |-> use[2]]
    BY <2>2, <2>4 DEF RequestOf, OpOf
  <2>9. RequestOf(t)' \in Abstract!Requests
    BY <2>1, <2>8 DEF Abstract!Requests, OpOf
  <2> QED
    BY <1>5, <1>7, <1>9, <2>4, <2>7, <2>9 DEF Invokes
<1>13. ASSUME Continue(t)
       PROVE  EffectInv' /\ Stutter
  <2>1. call[t].done /\ ~LastStep(t) /\ call[t].model # "none"
    BY <1>2, <1>13 DEF Continue, CallInv
  <2>2. call'[t] = [call[t] EXCEPT !.step = call[t].step + 1, !.recv = FALSE, !.done = FALSE]
    BY <1>2, <1>13 DEF Continue, Submit
  <2>3. /\ call'[t].model = call[t].model /\ call'[t].step = call[t].step + 1
        /\ call'[t].obj = call[t].obj /\ call'[t].val = call[t].val
        /\ ~call'[t].done /\ call'[t].res = call[t].res
    BY <1>2, <2>2 DEF Calls
  <2>4. TookEffect(t)' <=> TookEffect(t)
    <3>1. CASE call[t].model \in Others
      BY <2>1, <2>3, <3>1 DEF TookEffect
    <3>2. CASE call[t].model \notin Others
      <4>1. call[t].model \in Models /\ call[t].step \in 1..Len(Works[call[t].model])
        BY <2>1, TookIs
      <4>2. /\ EffectStep(call[t].model) \in 1..Len(Works[call[t].model])
            /\ Len(Works[call[t].model]) \in Nat
        BY <3>2, <4>1, EffectStepIs, WorksType
      <4>3. EffectStep(call[t].model)' = EffectStep(call[t].model)
        BY <2>3 DEF EffectStep
      <4> QED
        BY <1>10, <1>11, <2>1, <2>3, <3>2, <4>1, <4>2, <4>3 DEF TookEffect
    <3> QED
      BY <3>1, <3>2
  <2>5. RequestOf(t)' = RequestOf(t) /\ AnswerOf(t)' = AnswerOf(t)
    BY <2>3, <2>4 DEF RequestOf, AnswerOf
  <2>6. call'[t].res # NULL => call'[t].model = "model_1_octopus_R"
    BY <2>3 DEF EffectInv
  <2> QED
    BY <1>5, <1>7, <1>9, <2>5, <2>6 DEF Stutter, Same
<1>14. ASSUME Return(t)
       PROVE  EffectInv' /\ Responds(t)
  <2>1. call[t].done /\ LastStep(t) /\ call[t].model # "none"
    BY <1>2, <1>14 DEF Return, CallInv
  <2>2. call'[t] = NoCall
    BY <1>2, <1>14 DEF Return
  <2>3. TookEffect(t)
    <3>1. CASE call[t].model \in Others
      BY <2>1, <3>1 DEF TookEffect
    <3>2. CASE call[t].model \notin Others
      <4>1. call[t].model \in Models
        BY <2>1, TookIs
      <4>2. /\ EffectStep(call[t].model) \in 1..Len(Works[call[t].model])
            /\ Len(Works[call[t].model]) \in Nat
        BY <3>2, <4>1, EffectStepIs, WorksType
      <4> QED
        BY <1>10, <2>1, <3>2, <4>2 DEF TookEffect, LastStep
    <3> QED
      BY <3>1, <3>2
  <2>4. call'[t].model = "none" /\ call'[t].res = NULL
    BY <2>2 DEF NoCall
  <2>5. RequestOf(t)' = NULL /\ AnswerOf(t)' = [is |-> "pending", res |-> NULL]
    BY <2>4 DEF RequestOf, AnswerOf, TookEffect
  <2>6. AnswerOf(t) # Abstract!NoAnswer
    <3>1. AnswerOf(t).is = "answered" /\ Abstract!NoAnswer.is = "pending"
      BY <2>3 DEF AnswerOf, Abstract!NoAnswer
    <3> QED
      BY <3>1
  <2> QED
    BY <1>5, <1>7, <1>9, <2>4, <2>5, <2>6 DEF Responds, Abstract!NoAnswer
<1> QED
  BY <1>12, <1>13, <1>14 DEF AppThread

-------------------------------------------------------------------------------
(* The work thread. *)
Pends(r) == r.op = "READ" \/ (r.op \in WriteOps /\ ~r.acked)

Calm(c) == \A k \in DOMAIN net[c] : ~Pends(net[c][k])

(* Nothing pends on a queue pair whose work thread waits for no verb. *)
LEMMA NothingPends ==
  ASSUME NEW c \in Client, EffectInv,
         worker[c].pc # "verbs" \/ worker[c].flags = {}
  PROVE  Calm(c)
<1>1. InOrder(c)
  BY DEF EffectInv
<1>2. "write" \notin {} /\ {} # {"read"}
  OBVIOUS
<1> QED
  BY <1>1, <1>2 DEF Calm, Pends, InOrder, Serves

LEMMA CalmInOrder ==
  ASSUME NEW c,
         \A k \in DOMAIN net'[c] : /\ ~Pends(net'[c][k])
                                   /\ net'[c][k].op = "SEND" => ~net'[c][k].acked
  PROVE  InOrder(c)'
  BY DEF InOrder, Pends

(* What a handler posts: writes go with the flag they wait for, and a READ alone. *)
PostsSuit(work, ops, pc, flags) ==
  \A j \in DOMAIN ops :
    /\ ops[j] \in WriteOps =>
         /\ pc = "verbs" /\ work \in {"WRITE", "WRITEIMM", "SEND2"} /\ "write" \in flags
         /\ \A i \in DOMAIN ops : i > j => ops[i] \notin WriteOps
    /\ ops[j] = "READ" =>
         /\ pc = "verbs" /\ work = "READ" /\ flags = {"read"} /\ Len(ops) = 1

HandlerSuits(work, ops, pc, flags) ==
  /\ PostsSuit(work, ops, pc, flags)
  /\ work \in PutWorks \cup {"READ"} =>
       \E j \in DOMAIN ops : ops[j] \in {"WRITE", "WRITE_WITH_IMM", "SEND", "READ"}

LEMMA PostEffects ==
  ASSUME ModelsInv, EffectInv, NEW c \in Client, NEW t \in Thread, NEW ops \in Seq(Ops),
         Post(c, t, ops), UNCHANGED <<call, recvq, mem>>, net' \in [Client -> Seq(Posts)],
         \A d \in Client : d # c => worker'[d] = worker[d],
         Calm(c), worker'[c].thread = t,
         PostsSuit(WorkOf(t), ops, worker'[c].pc, worker'[c].flags)
  PROVE  /\ InOrder(c)' /\ SameStore /\ Elsewhere(c)
         /\ \A u \in Thread : SameProgress(u)
         /\ \A k \in DOMAIN net'[c] :
              \/ k \in DOMAIN net[c] /\ net'[c][k] = net[c][k]
              \/ \E j \in DOMAIN ops : net'[c][k] = Request(t, ops[j])
         /\ \A k \in DOMAIN net[c] : k \in DOMAIN net'[c] /\ net'[c][k] = net[c][k]
         /\ \A j \in DOMAIN ops : \E k \in DOMAIN net'[c] : net'[c][k] = Request(t, ops[j])
<1>1. /\ Len(net'[c]) = Len(net[c]) + Len(ops)
      /\ \A k \in DOMAIN net'[c] :
           \/ k \in DOMAIN net[c] /\ net'[c][k] = net[c][k]
           \/ \E j \in DOMAIN ops : k = Len(net[c]) + j /\ net'[c][k] = Request(t, ops[j])
      /\ \A j \in DOMAIN ops : /\ Len(net[c]) + j \in DOMAIN net'[c]
                               /\ net'[c][Len(net[c]) + j] = Request(t, ops[j])
      /\ \A d \in Client : d # c => net'[d] = net[d]
  BY Posting
<1>2. /\ net[c] \in Seq(Posts) /\ Len(net[c]) \in Nat /\ DOMAIN net[c] = 1..Len(net[c])
      /\ Len(ops) \in Nat /\ DOMAIN ops = 1..Len(ops)
      /\ net'[c] \in Seq(Posts) /\ DOMAIN net'[c] = 1..Len(net'[c])
  BY DEF ModelsInv, TypeOK
<1>3. \A k \in DOMAIN net[c] : k \in DOMAIN net'[c] /\ net'[c][k] = net[c][k]
  <2>1. \A k \in DOMAIN net[c] : k \in DOMAIN net'[c]
    BY <1>1, <1>2
  <2>2. \A k \in DOMAIN net[c] : \A j \in DOMAIN ops : k # Len(net[c]) + j
    BY <1>2
  <2> QED
    BY <1>1, <2>1, <2>2
<1>4. \A u \in Thread : SameProgress(u)
  BY DEF SameProgress, SameEffect
<1>5. Elsewhere(c)
  BY <1>1, <1>4 DEF Elsewhere
<1>6. ASSUME NEW op
      PROVE  /\ Request(t, op).op = op /\ Request(t, op).task = t /\ ~Request(t, op).acked
             /\ Request(t, op).obj = call[t].obj /\ Request(t, op).val = call[t].val
  BY DEF Request
<1>7. SameStore
  <2> SUFFICES ASSUME NEW o \in Object
               PROVE  StoreOf(o)' = StoreOf(o)
    BY DEF SameStore
  <2>1. CASE OwnerOf[o] = c
    <3>1. PICK v : v = StoreOf(o)
      OBVIOUS
    <3>2. Holds(net[c], mem[o], o, v)
      BY <1>2, <2>1, <3>1, StoreIsOn, StoreHolds
    <3>3. \A k \in DOMAIN net'[c] : k \in DOMAIN net[c] \/ ~net'[c][k].acked
      BY <1>1, <1>6
    <3>4. Len(net[c]) <= Len(net'[c])
      BY <1>1, <1>2
    <3>5. Holds(net'[c], mem[o], o, v)
      BY <1>2, <1>3, <3>2, <3>3, <3>4, HoldsMore
    <3>6. StoreOn(net'[c], mem[o], o) = v
      BY <1>2, <3>5, HoldsOne
    <3> QED
      BY <2>1, <3>1, <3>6, StoreIsOn
  <2>2. CASE OwnerOf[o] # c
    <3>1. OwnerOf[o] \in Client
      BY ModelsAssumption
    <3> QED
      BY <1>1, <2>2, <3>1, StoreFrame
  <2> QED
    BY <2>1, <2>2
<1>8. \A k \in DOMAIN net[c] : /\ ~Pends(net[c][k])
                               /\ net[c][k].op = "SEND" => ~net[c][k].acked
  BY DEF Calm, EffectInv, InOrder
<1>9. WorkOf(t)' = WorkOf(t)
  BY DEF WorkOf
<1>10. InOrder(c)'
  <2> SUFFICES ASSUME NEW k \in DOMAIN net'[c], NEW r, r = net'[c][k]
               PROVE  /\ r.op \in WriteOps /\ ~r.acked =>
                           /\ Serves(c, net[c][k], {"WRITE", "WRITEIMM", "SEND2"})'
                           /\ "write" \in worker'[c].flags
                           /\ \A i \in DOMAIN net'[c] : i > k => net'[c][i].op \notin WriteOps
                      /\ r.op = "READ" =>
                           /\ Serves(c, net[c][k], {"READ"})' /\ worker'[c].flags = {"read"}
                           /\ ~r.acked /\ k = Len(net'[c])
                      /\ r.op = "SEND" => ~r.acked
    BY DEF InOrder
  <2>1. CASE k \in DOMAIN net[c] /\ r = net[c][k]
    BY <1>8, <2>1 DEF Pends
  <2>2. ASSUME NEW j \in DOMAIN ops, k = Len(net[c]) + j, r = Request(t, ops[j])
        PROVE  /\ r.op \in WriteOps /\ ~r.acked =>
                    /\ Serves(c, net[c][k], {"WRITE", "WRITEIMM", "SEND2"})'
                    /\ "write" \in worker'[c].flags
                    /\ \A i \in DOMAIN net'[c] : i > k => net'[c][i].op \notin WriteOps
               /\ r.op = "READ" =>
                    /\ Serves(c, net[c][k], {"READ"})' /\ worker'[c].flags = {"read"}
                    /\ ~r.acked /\ k = Len(net'[c])
               /\ r.op = "SEND" => ~r.acked
    <3>1. /\ r.op = ops[j] /\ r.task = t /\ ~r.acked
          /\ r.obj = call[t].obj /\ r.val = call[t].val
      BY <1>6, <2>2
    <3>2. ASSUME worker'[c].pc = "verbs", NEW works, WorkOf(t) \in works
          PROVE  Serves(c, net[c][k], works)'
      <4>1. /\ worker'[c].pc = "verbs" /\ worker'[c].thread = t
            /\ net'[c][k].task = t /\ net'[c][k].obj = call'[t].obj
            /\ net'[c][k].val = call'[t].val
        BY <3>1, <3>2
      <4> QED
        BY <1>9, <3>2, <4>1 DEF Serves, WorkOf
    <3>3. CASE ops[j] \in WriteOps
      <4>1. /\ worker'[c].pc = "verbs" /\ "write" \in worker'[c].flags
            /\ WorkOf(t) \in {"WRITE", "WRITEIMM", "SEND2"}
            /\ \A i \in DOMAIN ops : i > j => ops[i] \notin WriteOps
        BY <3>3 DEF PostsSuit
      <4>2. ASSUME NEW i \in DOMAIN net'[c], i > k
            PROVE  net'[c][i].op \notin WriteOps
        <5>1. PICK l \in DOMAIN ops : i = Len(net[c]) + l /\ net'[c][i] = Request(t, ops[l])
          BY <1>1, <1>2, <2>2, <4>2
        <5>2. l > j
          BY <1>2, <2>2, <4>2, <5>1
        <5> QED
          BY <1>6, <4>1, <5>1, <5>2
      <4>3. ops[j] # "READ" /\ ops[j] # "SEND"
        BY <3>3 DEF WriteOps
      <4> QED
        BY <3>1, <3>2, <4>1, <4>2, <4>3
    <3>4. CASE ops[j] = "READ"
      <4>1. /\ worker'[c].pc = "verbs" /\ worker'[c].flags = {"read"}
            /\ WorkOf(t) \in {"READ"} /\ Len(ops) = 1
        BY <3>4 DEF PostsSuit
      <4>2. k = Len(net'[c])
        BY <1>1, <1>2, <2>2, <4>1
      <4>3. ops[j] \notin WriteOps
        BY <3>4 DEF WriteOps
      <4> QED
        BY <3>1, <3>2, <3>4, <4>1, <4>2, <4>3
    <3> QED
      BY <3>1, <3>3, <3>4
  <2> QED
    BY <1>1, <2>1, <2>2
<1>11. /\ \A k \in DOMAIN net'[c] :
            \/ k \in DOMAIN net[c] /\ net'[c][k] = net[c][k]
            \/ \E j \in DOMAIN ops : net'[c][k] = Request(t, ops[j])
       /\ \A j \in DOMAIN ops : \E k \in DOMAIN net'[c] : net'[c][k] = Request(t, ops[j])
  BY <1>1
<1> QED
  BY <1>3, <1>4, <1>5, <1>7, <1>10, <1>11

(* The thread that is served sees nothing of a step that does not move the work  *)
(* that takes effect.                                                            *)
TakesEffect(t) ==
  WorkOf(t) \in PutWorks \/ (WorkOf(t) = "READ" /\ call[t].model = "model_1_octopus_R")

LEMMA ServedFrame ==
  ASSUME ModelsInv, NEW t \in Thread, call[t].model # "none", SameProgress(t),
         TakesEffect(t) => (Owed(t)' <=> Owed(t))
  PROVE  Same(t)
<1>1. call[t].model \in Models /\ call[t].step \in 1..Len(Works[call[t].model])
  BY TookIs
<1>2. TookEffect(t)' <=> TookEffect(t)
  <2>1. CASE call[t].model \in Others
    BY <2>1, TookFrame DEF SameProgress
  <2>2. CASE call[t].model \notin Others /\ WorkOf(t) \in EffectWorks(call[t].model)
    <3>1. TakesEffect(t)
      BY <2>2 DEF TakesEffect, EffectWorks
    <3> QED
      BY <3>1, TookFrame DEF SameProgress
  <2>3. CASE call[t].model \notin Others /\ WorkOf(t) \notin EffectWorks(call[t].model)
    <3>1. call[t].step # EffectStep(call[t].model)
      BY <1>1, <2>3, EffectStepIs DEF WorkOf
    <3> QED
      BY <3>1, TookFrame DEF SameProgress
  <2> QED
    BY <2>1, <2>2, <2>3
<1> QED
  BY <1>2, SameIf DEF SameProgress

LEMMA Send2WorkEffects ==
  ASSUME ModelsInv, EffectInv, net' \in [Client -> Seq(Posts)], NEW c \in Client, Send2Work(c)
  PROVE  InOrder(c)' /\ Elsewhere(c) /\ Stutter /\ call' = call
<1>0. PICK t : t = worker[c].thread
  OBVIOUS
<1>1. /\ worker[c].pc = "verbs" /\ worker[c].flags = {} /\ WorkOf(t) = "SEND2"
      /\ Post(c, t, <<"SEND2">>) /\ worker' = [worker EXCEPT ![c].pc = "recv"]
      /\ UNCHANGED <<call, recvq, mem>>
  BY <1>0 DEF Send2Work, VerbsDone, threadVars, serverVars
<1>2. t \in Thread /\ ClientOf[t] = c
  BY <1>0, <1>1 DEF ModelsInv, ProcessInv, WorkerInv
<1>3. /\ worker'[c] = [pc |-> "recv", thread |-> t, flags |-> {}]
      /\ \A d \in Client : d # c => worker'[d] = worker[d]
      /\ \A d \in Client : worker'[d].thread = worker[d].thread
  <2>1. worker \in [Client -> WorkerStates] /\ worker[c] \in WorkerStates
    BY DEF ModelsInv, TypeOK
  <2>2. worker'[c] = [worker[c] EXCEPT !.pc = "recv"]
        /\ \A d \in Client : d # c => worker'[d] = worker[d]
    BY <1>1, <2>1
  <2>3. worker[c] = [pc |-> "verbs", thread |-> t, flags |-> {}]
    BY <1>0, <1>1, <2>1 DEF WorkerStates
  <2>4. worker'[c] = [pc |-> "recv", thread |-> t, flags |-> {}]
    <3>1. \A w \in WorkerStates :
            LET n == [w EXCEPT !.pc = "recv"]
            IN n \in WorkerStates /\ n.pc = "recv" /\ n.thread = w.thread /\ n.flags = w.flags
      BY DEF WorkerStates
    <3>2. /\ worker'[c] \in WorkerStates /\ worker'[c].pc = "recv"
          /\ worker'[c].thread = t /\ worker'[c].flags = {}
      BY <1>0, <1>1, <2>1, <2>2, <3>1
    <3> QED
      BY <3>2 DEF WorkerStates
  <2> QED
    BY <2>2, <2>3, <2>4
<1>4. Calm(c)
  BY <1>1, NothingPends
<1>5. /\ <<"SEND2">> \in Seq(Ops) /\ DOMAIN <<"SEND2">> = {1} /\ <<"SEND2">>[1] = "SEND2"
      /\ "SEND2" \notin WriteOps
  BY SetsOfPosts DEF Ops, MessageOps, WriteOps
<1>6. PICK ops \in Seq(Ops) : ops = <<"SEND2">>
  BY <1>5
<1>7. /\ InOrder(c)' /\ SameStore /\ Elsewhere(c)
      /\ \A u \in Thread : SameProgress(u)
      /\ \A k \in DOMAIN net'[c] :
           \/ k \in DOMAIN net[c] /\ net'[c][k] = net[c][k]
           \/ \E j \in DOMAIN ops : net'[c][k] = Request(t, ops[j])
      /\ \A k \in DOMAIN net[c] : k \in DOMAIN net'[c] /\ net'[c][k] = net[c][k]
  <2>1. worker'[c].thread = t /\ PostsSuit(WorkOf(t), ops, worker'[c].pc, worker'[c].flags)
    BY <1>3, <1>5, <1>6 DEF PostsSuit
  <2>2. Post(c, t, ops)
    BY <1>1, <1>6
  <2> QED
    BY <1>1, <1>2, <1>3, <1>4, <2>1, <2>2, PostEffects
<1>8. ASSUME NEW u \in Thread, ClientOf[u] = c
      PROVE  Same(u)
  <2>1. \A k \in DOMAIN net'[c] : k \in DOMAIN net[c] \/ ~PostOwes(net'[c][k], u)
    BY <1>5, <1>6, <1>7 DEF PostOwes, Request
  <2>2. OnTheWay(net'[c], recvq'[c], u) <=> OnTheWay(net[c], recvq[c], u)
    BY <1>1, <1>7, <2>1 DEF OnTheWay, NetOwes, RecvOwes
  <2> QED
    BY <1>3, <1>7, <1>8, <2>2, ThreadFrame
<1>9. \A u \in Thread : Same(u)
  BY <1>7, <1>8, ElsewhereSame
<1> QED
  BY <1>1, <1>7, <1>9 DEF Stutter

LEMMA HandleEffects ==
  ASSUME ModelsInv, EffectInv, net' \in [Client -> Seq(Posts)], NEW c \in Client,
         NEW work, NEW ops \in Seq(Ops), NEW pc, NEW flags,
         HandlerSuits(work, ops, pc, flags), Handle(c, work, ops, pc, flags)
  PROVE  InOrder(c)' /\ Elsewhere(c) /\ Stutter /\ call' = call
<1>0. PICK t : t = Head(workList[c])
  OBVIOUS
<1>1. /\ worker[c].pc = "idle" /\ workList[c] # <<>> /\ WorkOf(t) = work
      /\ Post(c, t, ops)
      /\ worker' = [worker EXCEPT ![c] = [pc |-> pc, thread |-> t, flags |-> flags]]
      /\ UNCHANGED <<call, recvq, mem>>
  BY <1>0 DEF Handle, Handling, Spin, serverVars
<1>2. t \in Thread /\ ClientOf[t] = c /\ Queued(t)
  BY <1>0, <1>1, ServedWork
<1>3. /\ worker'[c] = [pc |-> pc, thread |-> t, flags |-> flags]
      /\ \A d \in Client : d # c => worker'[d] = worker[d]
  BY <1>1 DEF ModelsInv, TypeOK
<1>4. Calm(c) /\ worker[c].thread = NULL
  BY <1>1, NothingPends DEF ModelsInv, ProcessInv, WorkerInv, IdleWorker
<1>4a. worker'[c].thread = t /\ PostsSuit(WorkOf(t), ops, worker'[c].pc, worker'[c].flags)
  BY <1>1, <1>3 DEF HandlerSuits
<1>5. /\ InOrder(c)' /\ SameStore /\ Elsewhere(c)
      /\ \A u \in Thread : SameProgress(u)
      /\ \A j \in DOMAIN ops : \E k \in DOMAIN net'[c] : net'[c][k] = Request(t, ops[j])
  BY <1>1, <1>2, <1>3, <1>4, <1>4a, PostEffects
<1>6. ASSUME NEW u \in Thread, ClientOf[u] = c, u # t
      PROVE  Same(u)
  <2>1. worker[c].thread # u /\ worker'[c].thread # u
    BY <1>3, <1>4, <1>6, ModelsAssumption
  <2> QED
    BY <1>5, <1>6, <2>1, UnservedFrame
<1>7. Same(t)
  <2>1. call[t].model # "none" /\ ~call[t].done /\ worker[c].thread # t
    BY <1>2, <1>4, ModelsAssumption DEF Queued
  <2>2. ASSUME TakesEffect(t)
        PROVE  Owed(t)' <=> Owed(t)
    <3>1. PICK j \in DOMAIN ops : ops[j] \in {"WRITE", "WRITE_WITH_IMM", "SEND", "READ"}
      BY <1>1, <2>2 DEF TakesEffect, HandlerSuits
    <3>2. PICK k \in DOMAIN net'[c] : net'[c][k] = Request(t, ops[j])
      BY <1>5
    <3>3. PostOwes(net'[c][k], t)
      BY <3>1, <3>2 DEF PostOwes, Request
    <3>4. OnTheWay(net'[c], recvq'[c], t)
      BY <3>3 DEF OnTheWay, NetOwes, RecvOwes
    <3> QED
      BY <1>2, <1>5, <2>1, <3>4, OwedIs DEF SameProgress
  <2> QED
    BY <1>2, <1>5, <2>1, <2>2, ServedFrame
<1>8. \A u \in Thread : Same(u)
  BY <1>2, <1>5, <1>6, <1>7, ElsewhereSame
<1> QED
  BY <1>1, <1>5, <1>8 DEF Stutter

LEMMA FinishEffects ==
  ASSUME ModelsInv, EffectInv, NEW c \in Client, Finish(c)
  PROVE  /\ InOrder(c)' /\ Elsewhere(c)
         /\ \A t \in Thread : call'[t].res = call[t].res /\ call'[t].model = call[t].model
         /\ Stutter \/ \E t \in Thread : Passes(t)
<1>0. PICK t : t = worker[c].thread
  OBVIOUS
<1>1. /\ worker[c].pc # "idle"
      /\ \/ worker[c].pc = "verbs" /\ worker[c].flags = {}
         \/ worker[c].pc = "recv" /\ call[t].recv
      /\ call' = [call EXCEPT ![t].done = TRUE]
      /\ worker' = [worker EXCEPT ![c] = IdleWorker]
      /\ UNCHANGED <<net, recvq, mem>>
  BY <1>0 DEF Finish, VerbsDone, FinishWork, queueVars, serverVars
<1>2. t \in Thread /\ ClientOf[t] = c /\ call[t].model # "none" /\ ~call[t].done
  BY <1>0, <1>1 DEF ModelsInv, ProcessInv, WorkerInv
<1>3. /\ worker'[c] = IdleWorker
      /\ \A d \in Client : d # c => worker'[d] = worker[d]
  BY <1>1 DEF ModelsInv, TypeOK
<1>4. /\ \A u \in Thread : u # t => SameProgress(u)
      /\ SameEffect(t) /\ call'[t].done /\ call'[t].res = call[t].res
  <2>1. \A k \in Calls :
          LET done == [k EXCEPT !.done = TRUE]
          IN /\ done.done /\ done.model = k.model /\ done.step = k.step
             /\ done.obj = k.obj /\ done.val = k.val /\ done.res = k.res
    BY DEF Calls
  <2>2. call \in [Thread -> Calls]
    BY DEF ModelsInv, TypeOK
  <2>3. call'[t] = [call[t] EXCEPT !.done = TRUE] /\ \A u \in Thread : u # t => call'[u] = call[u]
    BY <1>1, <1>2, <2>2
  <2> QED
    BY <1>2, <2>1, <2>2, <2>3 DEF SameProgress, SameEffect
<1>5. Calm(c)
  BY <1>1, NothingPends
<1>6. InOrder(c)'
  <2>1. \A k \in DOMAIN net[c] : /\ ~Pends(net[c][k])
                                 /\ net[c][k].op = "SEND" => ~net[c][k].acked
    BY <1>5 DEF Calm, EffectInv, InOrder
  <2> QED
    BY <1>1, <2>1, CalmInOrder
<1>7. Elsewhere(c)
  BY <1>1, <1>2, <1>3, <1>4 DEF Elsewhere
<1>8. SameStore
  BY <1>1, StoreFrame DEF SameStore
<1>9. ASSUME NEW u \in Thread, u # t
      PROVE  Same(u)
  <2>1. CASE ClientOf[u] = c
    <3>1. worker[c].thread # u /\ worker'[c].thread # u
      BY <1>0, <1>3, <1>9, ModelsAssumption DEF IdleWorker
    <3> QED
      BY <1>4, <1>9, <2>1, <3>1, UnservedFrame
  <2>2. CASE ClientOf[u] # c
    BY <1>7, <2>2, ElsewhereSame
  <2> QED
    BY <2>1, <2>2
<1>10. ~OnTheWay(net[c], recvq[c], t)
  <2>1. /\ \A k \in DOMAIN net[c] : net[c][k].op \notin MessageOps
        /\ \A k \in DOMAIN recvq[c] : recvq[c][k].op \notin MessageOps
    BY <1>0, <1>1, NoneUnderWay
  <2>2. \A k \in DOMAIN net[c] : ~PostOwes(net[c][k], t)
    BY <1>5, <2>1 DEF Calm, Pends, PostOwes, MessageOps, WriteOps
  <2> QED
    BY <2>1, <2>2 DEF OnTheWay, NetOwes, RecvOwes, MessageOps
<1>11. ~Owed(t) /\ ~Owed(t)'
  BY <1>0, <1>2, <1>4, <1>10, OwedIs
<1>12. CASE call[t].model \notin Others \/ ~LastStep(t)
  <2>1. TookEffect(t)' <=> TookEffect(t)
    <3>1. LastStep(t)' <=> LastStep(t)
      BY <1>4 DEF LastStep, SameEffect
    <3>2. EffectStep(call[t].model)' = EffectStep(call[t].model)
      BY <1>4 DEF EffectStep, SameEffect
    <3> QED
      BY <1>4, <1>11, <1>12, <3>1, <3>2 DEF TookEffect, SameEffect
  <2>2. Same(t)
    BY <1>2, <1>4, <2>1, SameIf
  <2> QED
    BY <1>4, <1>6, <1>7, <1>8, <1>9, <2>2 DEF Stutter, SameProgress, SameEffect
<1>13. CASE call[t].model \in Others /\ LastStep(t)
  <2>1. ~TookEffect(t)
    BY <1>2, <1>13 DEF TookEffect
  <2>2. TookEffect(t)'
    BY <1>2, <1>4, <1>13 DEF TookEffect, SameEffect, LastStep
  <2>3. call[t].model # "model_1_octopus_R"
    BY <1>13 DEF Others
  <2>4. call'[t].res = NULL
    BY <1>2, <1>4, <2>3 DEF EffectInv
  <2>5. AnswerOf(t) = Abstract!NoAnswer /\ AnswerOf(t)' = Abstract!Answer(NULL)
    BY <2>1, <2>2, <2>4 DEF AnswerOf, Abstract!NoAnswer, Abstract!Answer
  <2>6. RequestOf(t)' = RequestOf(t)
    BY <1>4 DEF RequestOf, SameEffect
  <2>7. RequestOf(t) # NULL /\ RequestOf(t).op = "other"
    <3>1. call[t] \in Calls /\ call[t].obj \in Object
      BY <1>2, TookIs
    <3> QED
      BY <1>2, <1>13, <2>3, <3>1, RequestIs DEF OpOf
  <2>8. Passes(t)
    BY <1>8, <1>9, <2>5, <2>6, <2>7 DEF Passes, Takes
  <2> QED
    BY <1>2, <1>4, <1>6, <1>7, <2>8 DEF SameProgress, SameEffect
<1> QED
  BY <1>12, <1>13

LEMMA EffectKept ==
  ASSUME ModelsInv, EffectInv, NEW c \in Client, Elsewhere(c), InOrder(c)',
         \A t \in Thread : /\ call'[t].model = call[t].model
                           /\ \/ call'[t].res = call[t].res
                              \/ call[t].model = "model_1_octopus_R"
  PROVE  EffectInv'
<1>1. \A d \in Client : InOrder(d)'
  BY ElsewhereSame
<1>2. \A t \in Thread : call'[t].res # NULL => call'[t].model = "model_1_octopus_R"
  BY DEF EffectInv
<1> QED
  BY <1>1, <1>2 DEF EffectInv

LEMMA WorkThreadEffects ==
  ASSUME ModelsInv, EffectInv, net' \in [Client -> Seq(Posts)], NEW c \in Client, WorkThread(c)
  PROVE  EffectInv' /\ (Stutter \/ \E t \in Thread : Passes(t))
<1>0. ASSUME InOrder(c)', Elsewhere(c), Stutter, call' = call
      PROVE  EffectInv' /\ Stutter
  BY <1>0, EffectKept
<1>1. CASE MessageWork(c)
  <2>1. PICK work \in {"REQADDR1", "SEND", "Tailwind_RPC"} : Handle(c, work, <<work>>, "recv", {})
    BY <1>1 DEF MessageWork
  <2>2. <<work>> \in Seq(Ops) /\ HandlerSuits(work, <<work>>, "recv", {})
    BY SetsOfPosts DEF Ops, WriteOps, MessageOps, HandlerSuits, PostsSuit, PutWorks
  <2> QED
    BY <1>0, <2>1, <2>2, HandleEffects
<1>2. CASE WriteWork(c)
  <2>1. /\ <<"WRITE", "FLUSH">> \in Seq(Ops)
        /\ HandlerSuits("WRITE", <<"WRITE", "FLUSH">>, "verbs", {"write", "read"})
    BY SetsOfPosts DEF Ops, WriteOps, HandlerSuits, PostsSuit, PutWorks
  <2> QED
    BY <1>0, <1>2, <2>1, HandleEffects DEF WriteWork
<1>3. CASE BareWriteWork(c)
  <2>1. /\ <<"WRITE">> \in Seq(Ops) /\ HandlerSuits("SEND2", <<"WRITE">>, "verbs", {"write"})
        /\ <<"WRITE_WITH_IMM">> \in Seq(Ops)
        /\ HandlerSuits("WRITEIMM", <<"WRITE_WITH_IMM">>, "verbs", {"write"})
    BY SetsOfPosts DEF Ops, WriteOps, HandlerSuits, PostsSuit, PutWorks
  <2> QED
    BY <1>0, <1>3, <2>1, HandleEffects DEF BareWriteWork
<1>4. CASE ReadWork(c)
  <2>1. <<"READ">> \in Seq(Ops) /\ HandlerSuits("READ", <<"READ">>, "verbs", {"read"})
    BY SetsOfPosts DEF Ops, WriteOps, HandlerSuits, PostsSuit, PutWorks
  <2> QED
    BY <1>0, <1>4, <2>1, HandleEffects DEF ReadWork
<1>5. CASE CloverWork(c)
  <2>1. <<"CAS">> \in Seq(Ops) /\ HandlerSuits("CLOVER", <<"CAS">>, "verbs", {"read"})
    BY SetsOfPosts DEF Ops, WriteOps, HandlerSuits, PostsSuit, PutWorks
  <2> QED
    BY <1>0, <1>5, <2>1, HandleEffects DEF CloverWork
<1>6. CASE TailwindWork(c)
  <2>1. /\ <<"LOG", "FLUSH">> \in Seq(Ops)
        /\ HandlerSuits("Tailwind", <<"LOG", "FLUSH">>, "verbs", {"write", "read"})
    BY SetsOfPosts DEF Ops, WriteOps, HandlerSuits, PostsSuit, PutWorks
  <2> QED
    BY <1>0, <1>6, <2>1, HandleEffects DEF TailwindWork
<1>7. CASE Send2Work(c)
  BY <1>0, <1>7, Send2WorkEffects
<1>8. CASE Finish(c)
  BY <1>8, FinishEffects, EffectKept
<1> QED
  BY <1>1, <1>2, <1>3, <1>4, <1>5, <1>6, <1>7, <1>8 DEF WorkThread

(* A write takes effect when it is no longer owed. *)
LEMMA PutsIt ==
  ASSUME ModelsInv, EffectInv, NEW t \in Thread, call[t].model # "none", WorkOf(t) \in PutWorks,
         SameProgress(t), Owed(t), ~Owed(t)', \A u \in Thread \ {t} : Same(u),
         \A o \in Object :
           StoreOf(o)' = IF o = call[t].obj THEN call[t].val ELSE StoreOf(o)
  PROVE  Puts(t)
<1>1. /\ call[t].model \in Models /\ call[t].step \in 1..Len(Works[call[t].model])
      /\ call[t] \in Calls /\ call[t].obj \in Object
  BY TookIs
<1>2. call[t].model \notin Others /\ call[t].model # "model_1_octopus_R"
  BY <1>1, PutModels DEF WorkOf
<1>3. call[t].step = EffectStep(call[t].model)
  BY <1>1, <1>2, EffectStepIs DEF WorkOf, EffectWorks
<1>4. ~TookEffect(t) /\ TookEffect(t)'
  <2>1. EffectStep(call[t].model)' = EffectStep(call[t].model)
    BY DEF EffectStep, SameProgress, SameEffect
  <2>2. ~TookEffect(t)
    BY <1>1, <1>2, <1>3 DEF TookEffect
  <2> QED
    BY <1>2, <1>3, <2>1, <2>2 DEF TookEffect, SameProgress, SameEffect
<1>5. call'[t].res = NULL
  BY <1>2 DEF EffectInv, SameProgress
<1>6. AnswerOf(t) = Abstract!NoAnswer /\ AnswerOf(t)' = Abstract!Answer(NULL)
  BY <1>4, <1>5 DEF AnswerOf, Abstract!NoAnswer, Abstract!Answer
<1>7. RequestOf(t)' = RequestOf(t)
  BY DEF RequestOf, SameProgress, SameEffect
<1>8. /\ RequestOf(t) # NULL /\ RequestOf(t).op = "write"
      /\ RequestOf(t).obj = call[t].obj /\ RequestOf(t).val = call[t].val
  BY <1>1, <1>2, RequestIs DEF OpOf
<1> QED
  BY <1>6, <1>7, <1>8 DEF Puts, Takes

-------------------------------------------------------------------------------
(* A step of process c leaves the calls alone that it does not serve, and the    *)
(* one it serves too unless what is owed to it changes.                          *)
LEMMA ProcessSame ==
  ASSUME ModelsInv, EffectInv, NEW c \in Client, Elsewhere(c),
         worker'[c].thread = worker[c].thread,
         \A u \in Thread : u # worker[c].thread => SameProgress(u)
  PROVE  \A u \in Thread : u # worker[c].thread => Same(u)
<1> SUFFICES ASSUME NEW u \in Thread, u # worker[c].thread
             PROVE  Same(u)
  OBVIOUS
<1>1. CASE ClientOf[u] = c
  BY <1>1, UnservedFrame
<1>2. CASE ClientOf[u] # c
  BY <1>2, ElsewhereSame
<1> QED
  BY <1>1, <1>2

LEMMA StutterIf ==
  ASSUME ModelsInv, EffectInv, NEW c \in Client, Elsewhere(c),
         worker'[c].thread = worker[c].thread,
         \A u \in Thread : SameProgress(u),
         \A o \in Object : OwnerOf[o] = c => StoreOf(o)' = StoreOf(o),
         \A t \in Thread : t = worker[c].thread /\ TakesEffect(t) =>
           (OnTheWay(net'[c], recvq'[c], t) <=> OnTheWay(net[c], recvq[c], t))
  PROVE  Stutter
<1>1. ASSUME NEW t \in Thread, t = worker[c].thread
      PROVE  Same(t)
  <2>1. WorkerInv(c) /\ t # NULL
    BY ModelsAssumption DEF ModelsInv, ProcessInv
  <2>2. ClientOf[t] = c /\ call[t].model # "none"
    BY <1>1, <2>1 DEF WorkerInv, IdleWorker
  <2>3. TakesEffect(t) => (Owed(t)' <=> Owed(t))
    BY <1>1, <2>2, OwedIs DEF SameProgress
  <2> QED
    BY <2>2, <2>3, ServedFrame
<1>2. \A u \in Thread : Same(u)
  BY <1>1, ProcessSame
<1>3. SameStore
  BY ElsewhereSame DEF SameStore
<1> QED
  BY <1>2, <1>3 DEF Stutter

(* The head of what is posted goes, and may come to the server. *)
LEMMA OwesTail ==
  ASSUME NEW q \in Seq(Posts), q # <<>>, NEW t
  PROVE  /\ NetOwes(q, t) <=> PostOwes(q[1], t) \/ NetOwes(Tail(q), t)
         /\ RecvOwes(q, t) <=> (q[1].task = t /\ q[1].op = "SEND") \/ RecvOwes(Tail(q), t)
<1>1. PICK p : p = Tail(q)
  OBVIOUS
<1>2. /\ \A k \in DOMAIN p : k + 1 \in DOMAIN q /\ p[k] = q[k + 1]
      /\ \A k \in DOMAIN q : k # 1 => k - 1 \in DOMAIN p /\ p[k - 1] = q[k]
      /\ 1 \in DOMAIN q
  BY <1>1
<1>3. NetOwes(q, t) <=> PostOwes(q[1], t) \/ NetOwes(p, t)
  <2>1. NetOwes(p, t) => NetOwes(q, t)
    BY <1>2 DEF NetOwes
  <2>2. PostOwes(q[1], t) => NetOwes(q, t)
    BY <1>2 DEF NetOwes
  <2>3. ASSUME NEW k \in DOMAIN q, PostOwes(q[k], t)
        PROVE  PostOwes(q[1], t) \/ NetOwes(p, t)
    <3>1. k = 1 \/ (k - 1 \in DOMAIN p /\ p[k - 1] = q[k])
      BY <1>2
    <3> QED
      BY <2>3, <3>1 DEF NetOwes
  <2> QED
    BY <2>1, <2>2, <2>3 DEF NetOwes
<1>4. RecvOwes(q, t) <=> (q[1].task = t /\ q[1].op = "SEND") \/ RecvOwes(p, t)
  <2>1. RecvOwes(p, t) => RecvOwes(q, t)
    BY <1>2 DEF RecvOwes
  <2>2. q[1].task = t /\ q[1].op = "SEND" => RecvOwes(q, t)
    BY <1>2 DEF RecvOwes
  <2>3. ASSUME NEW k \in DOMAIN q, q[k].task = t /\ q[k].op = "SEND"
        PROVE  (q[1].task = t /\ q[1].op = "SEND") \/ RecvOwes(p, t)
    <3>1. k = 1 \/ (k - 1 \in DOMAIN p /\ p[k - 1] = q[k])
      BY <1>2
    <3> QED
      BY <2>3, <3>1 DEF RecvOwes
  <2> QED
    BY <2>1, <2>2, <2>3 DEF RecvOwes
<1> QED
  BY <1>1, <1>3, <1>4

LEMMA OwesAppend ==
  ASSUME NEW q \in Seq(Posts), NEW r \in Posts, NEW t
  PROVE  RecvOwes(Append(q, r), t) <=> (r.task = t /\ r.op = "SEND") \/ RecvOwes(q, t)
<1>1. PICK p : p = Append(q, r)
  OBVIOUS
<1>2. /\ \A k \in DOMAIN q : k \in DOMAIN p /\ p[k] = q[k]
      /\ \A k \in DOMAIN p : k \in DOMAIN q \/ p[k] = r
      /\ Len(q) + 1 \in DOMAIN p /\ p[Len(q) + 1] = r
  BY <1>1
<1> QED
  BY <1>1, <1>2 DEF RecvOwes

LEMMA AdapterFrame ==
  ASSUME ModelsInv, EffectInv, NEW c \in Client, Adapter(c)
  PROVE  LET r == net[c][1] IN
         /\ net[c] \in Seq(Posts) /\ net[c] # <<>> /\ 1 \in DOMAIN net[c] /\ r \in Posts
         /\ Head(net[c]) = r /\ Owned(c, r)
         /\ net'[c] = Tail(net[c]) /\ worker' = worker
         /\ InOrder(c)' /\ Elsewhere(c)
         /\ \A u \in Thread :
              /\ SameEffect(u) /\ call'[u].done = call[u].done
              /\ IF r.op = "READ" /\ u = r.task /\ call[u].model = "model_1_octopus_R"
                   THEN call'[u].res = mem[r.obj]
                   ELSE SameProgress(u)
         /\ \A t : RecvOwes(recvq'[c], t) <=>
                     RecvOwes(recvq[c], t) \/ (r.op = "SEND" /\ r.task = t)
         /\ \A o \in Object :
              mem'[o] = IF r.op \in WriteOps /\ r.obj = o THEN r.val ELSE mem[o]
<1>0. PICK r : r = net[c][1]
  OBVIOUS
<1>1. net[c] # <<>> /\ net' = [net EXCEPT ![c] = Tail(@)] /\ worker' = worker
  BY DEF Adapter, PerformWrite, PerformLog, PerformRead, Deliver, Posted, clientVars
<1>2. /\ net[c] \in Seq(Posts) /\ 1 \in DOMAIN net[c] /\ r \in Posts /\ Head(net[c]) = r
      /\ Tail(net[c]) \in Seq(Posts) /\ recvq[c] \in Seq(Posts)
      /\ net'[c] = Tail(net[c]) /\ \A d \in Client : d # c => net'[d] = net[d]
  <2>1. net \in [Client -> Seq(Posts)] /\ recvq \in [Client -> Seq(Posts)]
    BY DEF ModelsInv, TypeOK
  <2>2. net[c] \in Seq(Posts) /\ recvq[c] \in Seq(Posts)
    BY <2>1
  <2> QED
    BY <1>0, <1>1, <2>1, <2>2, HeadOfSeq
<1>3. /\ \/ recvq' = recvq /\ r.op # "SEND"
         \/ recvq' = [recvq EXCEPT ![c] = Append(@, r)]
      /\ \/ mem' = mem /\ r.op \notin WriteOps
         \/ mem' = [mem EXCEPT ![r.obj] = r.val] /\ r.op \in WriteOps
      /\ call' = IF r.op = "READ" /\ call[r.task].model = "model_1_octopus_R"
                   THEN [call EXCEPT ![r.task].res = mem[r.obj]] ELSE call
  BY <1>2 DEF Adapter, PerformWrite, PerformLog, PerformRead, Deliver, Posted, Receive,
              clientVars, serverVars, WriteOps
<1>4. Owned(c, r)
  BY <1>0, <1>2 DEF ModelsInv, ProcessInv, NetInv
<1>5. \A u \in Thread :
        /\ SameEffect(u) /\ call'[u].done = call[u].done
        /\ IF r.op = "READ" /\ u = r.task /\ call[u].model = "model_1_octopus_R"
             THEN call'[u].res = mem[r.obj]
             ELSE SameProgress(u)
  <2>1. CASE ~(r.op = "READ" /\ call[r.task].model = "model_1_octopus_R")
    <3>1. call' = call
      BY <1>3, <2>1
    <3> QED
      BY <2>1, <3>1 DEF SameProgress, SameEffect
  <2>2. CASE r.op = "READ" /\ call[r.task].model = "model_1_octopus_R"
    <3>1. r.task \in Thread /\ call \in [Thread -> Calls]
      BY <1>2 DEF ModelsInv, TypeOK, Posts
    <3>2. PICK v : v = mem[r.obj]
      OBVIOUS
    <3>3. \A k \in Calls : LET n == [k EXCEPT !.res = v]
            IN /\ n.model = k.model /\ n.step = k.step /\ n.obj = k.obj /\ n.val = k.val
               /\ n.done = k.done /\ n.res = v
      BY DEF Calls
    <3>4. /\ call'[r.task] = [call[r.task] EXCEPT !.res = v]
          /\ \A u \in Thread : u # r.task => call'[u] = call[u]
      BY <1>3, <2>2, <3>1, <3>2
    <3>5. SameEffect(r.task) /\ call'[r.task].done = call[r.task].done /\ call'[r.task].res = v
      BY <3>1, <3>3, <3>4 DEF SameEffect
    <3> QED
      BY <2>2, <3>2, <3>4, <3>5 DEF SameProgress, SameEffect
  <2> QED
    BY <2>1, <2>2
<1>6. InOrder(c)'
  <2>1. ServedKeeps(c)
    BY <1>5 DEF ServedKeeps, ModelsInv, ProcessInv, WorkerInv
  <2>2. /\ Len(Tail(net[c])) + 1 = Len(net[c]) /\ 1 \in Nat
        /\ \A k \in DOMAIN Tail(net[c]) : k + 1 \in DOMAIN net[c] /\ Tail(net[c])[k] = net[c][k + 1]
    BY <1>1, <1>2
  <2>3. InOrder(c)
    BY DEF EffectInv
  <2> QED
    BY <1>1, <1>2, <2>1, <2>2, <2>3, InOrderFewer
<1>7. Elsewhere(c)
  <2>1. \A d \in Client : d # c => recvq'[d] = recvq[d]
    BY <1>3 DEF ModelsInv, TypeOK
  <2>2. ASSUME NEW u \in Thread, ClientOf[u] # c
        PROVE  SameProgress(u)
    <3>1. r.op = "READ" => ClientOf[r.task] = c
      BY <1>0, <1>2 DEF EffectInv, InOrder, Serves, ModelsInv, ProcessInv, WorkerInv
    <3> QED
      BY <1>5, <2>2, <3>1
  <2>3. \A o \in Object : OwnerOf[o] # c => mem'[o] = mem[o]
    BY <1>3, <1>4 DEF Owned, ModelsInv, TypeOK
  <2> QED
    BY <1>1, <1>2, <2>1, <2>2, <2>3 DEF Elsewhere
<1>8. ASSUME NEW t
      PROVE  RecvOwes(recvq'[c], t) <=> RecvOwes(recvq[c], t) \/ (r.op = "SEND" /\ r.task = t)
  <2>1. CASE recvq' = recvq /\ r.op # "SEND"
    BY <2>1
  <2>2. CASE recvq' = [recvq EXCEPT ![c] = Append(@, r)]
    <3>1. recvq'[c] = Append(recvq[c], r)
      BY <2>2 DEF ModelsInv, TypeOK
    <3> QED
      BY <1>2, <3>1, OwesAppend
  <2> QED
    BY <1>3, <2>1, <2>2
<1>9. \A o \in Object : mem'[o] = IF r.op \in WriteOps /\ r.obj = o THEN r.val ELSE mem[o]
  BY <1>3 DEF ModelsInv, TypeOK
<1> QED
  BY <1>0, <1>1, <1>2, <1>4, <1>5, <1>6, <1>7, <1>8, <1>9

(* While verbs are waited for, no SEND is under way. *)
LEMMA NoSend ==
  ASSUME ModelsInv, NEW c \in Client, worker[c].pc = "verbs"
  PROVE  /\ \A k \in DOMAIN net[c] : net[c][k].op \notin MessageOps
         /\ \A t : ~RecvOwes(recvq[c], t)
  BY NoneUnderWay DEF RecvOwes, MessageOps

LEMMA AdapterEffects ==
  ASSUME ModelsInv, EffectInv, NEW c \in Client, Adapter(c)
  PROVE  EffectInv' /\ (Stutter \/ \E t \in Thread : Puts(t) \/ Reads(t))
<1>0. PICK r : r = net[c][1]
  OBVIOUS
<1>1. /\ net[c] \in Seq(Posts) /\ net[c] # <<>> /\ 1 \in DOMAIN net[c] /\ r \in Posts
      /\ Owned(c, r) /\ net'[c] = Tail(net[c]) /\ worker' = worker
      /\ InOrder(c)' /\ Elsewhere(c)
      /\ \A u \in Thread :
           /\ SameEffect(u) /\ call'[u].done = call[u].done
           /\ IF r.op = "READ" /\ u = r.task /\ call[u].model = "model_1_octopus_R"
                THEN call'[u].res = mem[r.obj]
                ELSE SameProgress(u)
      /\ \A t : RecvOwes(recvq'[c], t) <=>
                  RecvOwes(recvq[c], t) \/ (r.op = "SEND" /\ r.task = t)
      /\ \A o \in Object : mem'[o] = IF r.op \in WriteOps /\ r.obj = o THEN r.val ELSE mem[o]
  BY <1>0, AdapterFrame
<1>2. EffectInv'
  BY <1>1, EffectKept DEF SameProgress, SameEffect
<1>3. /\ r.op \in WriteOps /\ ~r.acked =>
           /\ Serves(c, r, {"WRITE", "WRITEIMM", "SEND2"}) /\ "write" \in worker[c].flags
           /\ \A j \in DOMAIN net[c] : j > 1 => net[c][j].op \notin WriteOps
      /\ r.op = "READ" =>
           Serves(c, r, {"READ"}) /\ worker[c].flags = {"read"} /\ ~r.acked /\ Len(net[c]) = 1
      /\ r.op = "SEND" => ~r.acked
  BY <1>0, <1>1 DEF EffectInv, InOrder
<1>4. ASSUME NEW t
      PROVE  NetOwes(net[c], t) <=> PostOwes(r, t) \/ NetOwes(net'[c], t)
  BY <1>0, <1>1, OwesTail
<1>5. ASSUME r.op \notin WriteOps \/ r.acked
      PROVE  \A o \in Object : OwnerOf[o] = c => StoreOf(o)' = StoreOf(o)
  <2> SUFFICES ASSUME NEW o \in Object, OwnerOf[o] = c
               PROVE  StoreOf(o)' = StoreOf(o)
    OBVIOUS
  <2>1. mem'[o] = IF LateTo(net[c][1], o) THEN net[c][1].val ELSE mem[o]
    BY <1>0, <1>1, <1>5 DEF LateTo
  <2> QED
    BY <1>1, <2>1, StoreTail
<1>6. CASE /\ r.op \notin WriteOps \/ r.acked
           /\ r.op = "READ" => call[r.task].model # "model_1_octopus_R"
  <2>1. \A u \in Thread : SameProgress(u)
    BY <1>1, <1>6
  <2>2. ASSUME NEW t \in Thread, t = worker[c].thread, TakesEffect(t)
        PROVE  OnTheWay(net'[c], recvq'[c], t) <=> OnTheWay(net[c], recvq[c], t)
    <3>1. CASE r.op = "SEND"
      <4>1. PostOwes(r, t) <=> r.task = t
        BY <1>3, <3>1 DEF PostOwes
      <4> QED
        BY <1>1, <1>4, <3>1, <4>1 DEF OnTheWay
    <3>2. CASE r.op = "READ"
      <4>1. WorkOf(r.task) = "READ" /\ r.task = t
        BY <1>3, <2>2, <3>2 DEF Serves
      <4> QED
        BY <1>6, <2>2, <3>2, <4>1 DEF TakesEffect, PutWorks
    <3>3. CASE r.op \notin {"SEND", "READ"}
      <4>1. ~PostOwes(r, t)
        BY <1>6, <3>3 DEF PostOwes, WriteOps
      <4> QED
        BY <1>1, <1>4, <3>3, <4>1 DEF OnTheWay
    <3> QED
      BY <3>1, <3>2, <3>3
  <2>3. Stutter
    BY <1>1, <1>5, <1>6, <2>1, <2>2, StutterIf
  <2> QED
    BY <1>2, <2>3
<1>7. CASE r.op \in WriteOps /\ ~r.acked
  <2>1. PICK t \in Thread : t = r.task
    BY <1>1 DEF Posts
  <2>2. /\ worker[c].pc = "verbs" /\ worker[c].thread = t /\ WorkOf(t) \in PutWorks
        /\ r.obj = call[t].obj /\ r.val = call[t].val /\ "write" \in worker[c].flags
        /\ \A j \in DOMAIN net[c] : j > 1 => net[c][j].op \notin WriteOps
    BY <1>3, <1>7, <2>1 DEF Serves, PutWorks
  <2>3. ClientOf[t] = c /\ call[t].model # "none" /\ ~call[t].done
    BY <2>2 DEF ModelsInv, ProcessInv, WorkerInv
  <2>4. r.op # "READ" /\ r.op # "SEND"
    BY <1>7 DEF WriteOps
  <2>5. \A u \in Thread : SameProgress(u)
    BY <1>1, <2>4
  <2>6. Owed(t)
    <3>1. PostOwes(r, t)
      BY <1>7, <2>1 DEF PostOwes, WriteOps
    <3> QED
      BY <1>4, <2>3, <3>1, OwedIs DEF OnTheWay
  <2>7. ~Owed(t)'
    <3>1. ASSUME NEW k \in DOMAIN net'[c]
          PROVE  ~PostOwes(net'[c][k], t)
      <4>1. /\ k + 1 \in DOMAIN net[c] /\ net'[c][k] = net[c][k + 1] /\ k + 1 > 1
        BY <1>1
      <4>2. net[c][k + 1].op \notin WriteOps /\ net[c][k + 1].op # "SEND"
        BY <2>2, <4>1, NoSend DEF MessageOps
      <4>3. net[c][k + 1].op # "READ"
        <5>1. {"read"} # worker[c].flags
          BY <2>2
        <5> QED
          BY <4>1, <5>1 DEF EffectInv, InOrder
      <4> QED
        BY <4>1, <4>2, <4>3 DEF PostOwes, WriteOps
    <3>2. ~NetOwes(net'[c], t)
      BY <3>1 DEF NetOwes
    <3>3. ~RecvOwes(recvq'[c], t)
      BY <1>1, <2>2, <2>4, NoSend
    <3> QED
      BY <1>1, <2>2, <2>3, <3>2, <3>3, OwedIs DEF OnTheWay
  <2>8. ASSUME NEW o \in Object
        PROVE  StoreOf(o)' = IF o = call[t].obj THEN call[t].val ELSE StoreOf(o)
    <3>1. CASE OwnerOf[o] = c
      <4>1. \A k \in DOMAIN net[c] : ~LateTo(net[c][k], o)
        <5>1. \A k \in DOMAIN net[c] : k = 1 \/ k > 1
          BY <1>1
        <5> QED
          BY <1>0, <1>7, <2>2, <5>1 DEF LateTo
      <4>2. \A k \in DOMAIN net'[c] : ~LateTo(net'[c][k], o)
        BY <1>1, <4>1
      <4>3. StoreOf(o) = mem[o]
        BY <3>1, <4>1, StoreIsOn DEF StoreOn
      <4>4. StoreOf(o)' = mem'[o]
        BY <3>1, <4>2, StoreIsOn DEF StoreOn
      <4> QED
        BY <1>1, <1>7, <2>2, <4>3, <4>4
    <3>2. CASE OwnerOf[o] # c
      <4>1. o # call[t].obj
        BY <1>1, <2>2, <3>2 DEF Owned
      <4> QED
        BY <1>1, <3>2, <4>1, ElsewhereSame
    <3> QED
      BY <3>1, <3>2
  <2>9. \A u \in Thread \ {t} : Same(u)
    BY <1>1, <2>2, <2>5, ProcessSame
  <2>10. Puts(t)
    BY <2>2, <2>3, <2>5, <2>6, <2>7, <2>8, <2>9, PutsIt
  <2> QED
    BY <1>2, <2>10
<1>8. CASE r.op = "READ" /\ call[r.task].model = "model_1_octopus_R"
  <2>1. PICK t \in Thread : t = r.task
    BY <1>1 DEF Posts
  <2>2. /\ worker[c].pc = "verbs" /\ worker[c].thread = t /\ WorkOf(t) = "READ"
        /\ r.obj = call[t].obj /\ ~r.acked /\ Len(net[c]) = 1
    BY <1>3, <1>8, <2>1 DEF Serves
  <2>3. ClientOf[t] = c /\ call[t].model = "model_1_octopus_R" /\ ~call[t].done
    BY <1>8, <2>1, <2>2 DEF ModelsInv, ProcessInv, WorkerInv
  <2>4. r.op \notin WriteOps
    BY <1>8 DEF WriteOps
  <2>5. Owed(t)
    <3>1. PostOwes(r, t)
      BY <1>8, <2>1, <2>2 DEF PostOwes
    <3> QED
      BY <1>4, <2>3, <3>1, OwedIs DEF OnTheWay
  <2>6. ~Owed(t)'
    <3>1. PICK q : q = net[c]
      OBVIOUS
    <3>2. q \in Seq(Posts) /\ Len(q) = 1 /\ net'[c] = Tail(q)
      BY <1>1, <2>2, <3>1
    <3>3. \A k \in DOMAIN Tail(q) : FALSE
      BY <3>2
    <3>4. ~NetOwes(net'[c], t)
      BY <3>2, <3>3 DEF NetOwes
    <3>5. ~RecvOwes(recvq'[c], t)
      BY <1>1, <1>8, <2>2, NoSend
    <3> QED
      BY <1>1, <2>2, <2>3, <3>4, <3>5, OwedIs DEF OnTheWay
  <2>7. call[t].model \in Models /\ call[t].step \in 1..Len(Works[call[t].model])
        /\ call[t] \in Calls /\ call[t].obj \in Object /\ call[t].model \notin Others
        /\ call[t].model # "none"
    <3>1. call[t].model # "none"
      BY <2>3
    <3> QED
      BY <2>3, <3>1, TookIs DEF Others
  <2>8. ~TookEffect(t) /\ TookEffect(t)'
    <3>1. call[t].step = EffectStep(call[t].model)
      BY <2>2, <2>3, <2>7, EffectStepIs DEF WorkOf, EffectWorks
    <3>2. EffectStep(call[t].model)' = EffectStep(call[t].model)
      BY <1>1 DEF EffectStep, SameEffect
    <3>3. ~TookEffect(t)
      BY <2>5, <2>7, <3>1 DEF TookEffect
    <3> QED
      BY <1>1, <2>6, <2>7, <3>1, <3>2, <3>3 DEF TookEffect, SameEffect
  <2>9. \A k \in DOMAIN net[c] : ~LateTo(net[c][k], call[t].obj)
    <3>1. \A k \in DOMAIN net[c] : k = 1
      BY <1>1, <2>2
    <3> QED
      BY <1>0, <2>4, <3>1 DEF LateTo
  <2>10. StoreOf(call[t].obj) = mem[call[t].obj]
    <3>1. PICK o : o = call[t].obj /\ OwnerOf[o] = c
      BY <1>1, <2>2 DEF Owned
    <3> QED
      BY <2>9, <3>1, StoreIsOn DEF StoreOn
  <2>11. call'[t].res = mem[call[t].obj]
    BY <1>1, <1>8, <2>1, <2>2
  <2>12. SameStore
    BY <1>1, <1>5, <2>4, ElsewhereSame DEF SameStore
  <2>13. ASSUME NEW u \in Thread, u # t
         PROVE  Same(u)
    <3>1. CASE ClientOf[u] = c
      <4>1. SameProgress(u) /\ worker[c].thread # u /\ worker'[c].thread # u
        BY <1>1, <2>1, <2>2, <2>13
      <4> QED
        BY <3>1, <4>1, UnservedFrame
    <3>2. CASE ClientOf[u] # c
      BY <1>1, <3>2, ElsewhereSame
    <3> QED
      BY <3>1, <3>2
  <2>14. /\ RequestOf(t) # NULL /\ RequestOf(t).op = "read"
         /\ RequestOf(t).obj = call[t].obj
    BY <2>3, <2>7, RequestIs DEF OpOf
  <2>15. RequestOf(t)' = RequestOf(t)
    BY <1>1 DEF RequestOf, SameEffect
  <2>16. /\ AnswerOf(t) = Abstract!NoAnswer
         /\ AnswerOf(t)' = Abstract!Answer(mem[call[t].obj])
    BY <2>8, <2>11 DEF AnswerOf, Abstract!NoAnswer, Abstract!Answer
  <2>17. Takes(t, "read", StoreOf(RequestOf(t).obj))
    BY <2>10, <2>13, <2>14, <2>15, <2>16 DEF Takes
  <2>18. Reads(t)
    BY <2>7, <2>12, <2>14, <2>17 DEF Reads
  <2> QED
    BY <1>2, <2>18
<1> QED
  BY <1>6, <1>7, <1>8

-------------------------------------------------------------------------------
(* The epoll thread of the client: an acknowledgement is when a write takes      *)
(* effect that has not been performed.                                           *)
LEMMA StoreSame ==
  ASSUME NEW q \in Seq(Posts), NEW p \in Seq(Posts), NEW m, NEW o, DOMAIN p = DOMAIN q,
         \A k \in DOMAIN q : (LateTo(p[k], o) <=> LateTo(q[k], o)) /\ p[k].val = q[k].val
  PROVE  StoreOn(p, m, o) = StoreOn(q, m, o)
<1>1. PICK v : v = StoreOn(q, m, o)
  OBVIOUS
<1>2. Holds(q, m, o, v)
  BY <1>1, StoreHolds
<1>3. Holds(p, m, o, v)
  BY <1>2 DEF Holds
<1> QED
  BY <1>1, <1>3, HoldsOne

LEMMA AcknowledgeFrame ==
  ASSUME ModelsInv, EffectInv, net' \in [Client -> Seq(Posts)], NEW c \in Client,
         CompleteWrite(c)
  PROVE  /\ worker[c].pc = "verbs" /\ "write" \in worker[c].flags
         /\ worker'[c].thread = worker[c].thread
         /\ net[c] \in Seq(Posts) /\ net'[c] \in Seq(Posts) /\ DOMAIN net'[c] = DOMAIN net[c]
         /\ \A k \in DOMAIN net[c] :
              /\ net[c][k].op \notin MessageOps /\ net[c][k].op # "READ"
              /\ net'[c][k].op = net[c][k].op /\ net'[c][k].obj = net[c][k].obj
              /\ net'[c][k].val = net[c][k].val /\ net'[c][k].acked
         /\ \A t : ~OnTheWay(net'[c], recvq'[c], t)
         /\ \A u \in Thread : SameProgress(u)
         /\ Elsewhere(c) /\ InOrder(c)' /\ mem' = mem /\ recvq' = recvq
<1>1. /\ "write" \in worker[c].flags
      /\ worker' = [worker EXCEPT ![c].flags = @ \ {"write"}]
      /\ net' = [net EXCEPT ![c] = [k \in DOMAIN @ |-> [@[k] EXCEPT !.acked = TRUE]]]
      /\ UNCHANGED <<call, recvq, mem>>
  BY DEF CompleteWrite, threadVars, serverVars
<1>2. WorkerInv(c) /\ InOrder(c) /\ net[c] \in Seq(Posts) /\ net'[c] \in Seq(Posts)
  BY DEF ModelsInv, TypeOK, ProcessInv, EffectInv
<1>3. worker[c].pc = "verbs"
  <2>1. "write" \notin {}
    OBVIOUS
  <2>2. worker[c].pc \in {"idle", "verbs", "recv"}
    BY DEF ModelsInv, TypeOK, WorkerStates
  <2> QED
    BY <1>1, <1>2, <2>1, <2>2 DEF WorkerInv, IdleWorker
<1>4. /\ worker'[c].thread = worker[c].thread
      /\ \A d \in Client : d # c => worker'[d] = worker[d] /\ net'[d] = net[d]
  <2>1. \A w \in WorkerStates : \A f : [w EXCEPT !.flags = f].thread = w.thread
    BY DEF WorkerStates
  <2>2. worker \in [Client -> WorkerStates] /\ net \in [Client -> Seq(Posts)]
    BY DEF ModelsInv, TypeOK
  <2>3. worker'[c] = [worker[c] EXCEPT !.flags = @ \ {"write"}]
    BY <1>1, <2>2
  <2> QED
    BY <1>1, <2>1, <2>2, <2>3
<1>5. net'[c] = [k \in DOMAIN net[c] |-> [net[c][k] EXCEPT !.acked = TRUE]]
  BY <1>1 DEF ModelsInv, TypeOK
<1>6. \A k \in DOMAIN net[c] :
        /\ net'[c][k].op = net[c][k].op /\ net'[c][k].obj = net[c][k].obj
        /\ net'[c][k].val = net[c][k].val /\ net'[c][k].acked
  <2>1. \A r \in Posts : LET n == [r EXCEPT !.acked = TRUE]
                         IN n.op = r.op /\ n.obj = r.obj /\ n.val = r.val /\ n.acked
    BY DEF Posts
  <2>2. SUFFICES ASSUME NEW k \in DOMAIN net[c]
                 PROVE  /\ net'[c][k].op = net[c][k].op /\ net'[c][k].obj = net[c][k].obj
                        /\ net'[c][k].val = net[c][k].val /\ net'[c][k].acked
    OBVIOUS
  <2>3. PICK r \in Posts : r = net[c][k]
    BY <1>2
  <2>4. net'[c][k] = [r EXCEPT !.acked = TRUE]
    BY <1>5, <2>3
  <2> QED
    BY <2>1, <2>3, <2>4
<1>7. \A k \in DOMAIN net[c] : net[c][k].op \notin MessageOps /\ net[c][k].op # "READ"
  <2>1. worker[c].flags # {"read"}
    BY <1>1
  <2> QED
    BY <1>2, <1>3, <2>1, NoSend DEF InOrder
<1>8. DOMAIN net'[c] = DOMAIN net[c]
  BY <1>5
<1>9. \A t : ~OnTheWay(net'[c], recvq'[c], t)
  <2>1. \A t : ~RecvOwes(recvq'[c], t)
    BY <1>1, <1>3, NoSend
  <2>2. \A t : ~NetOwes(net'[c], t)
    BY <1>6, <1>8 DEF NetOwes, PostOwes
  <2> QED
    BY <2>1, <2>2 DEF OnTheWay
<1>10. InOrder(c)'
  <2>1. \A k \in DOMAIN net'[c] : ~Pends(net'[c][k]) /\ net'[c][k].op # "SEND"
    BY <1>6, <1>7, <1>8 DEF Pends, MessageOps
  <2> QED
    BY <2>1, CalmInOrder
<1>11. \A u \in Thread : SameProgress(u)
  BY <1>1 DEF SameProgress, SameEffect
<1>12. Elsewhere(c)
  BY <1>1, <1>4, <1>11 DEF Elsewhere
<1> QED
  BY <1>1, <1>2, <1>3, <1>4, <1>6, <1>7, <1>8, <1>9, <1>10, <1>11, <1>12

LEMMA CompleteWriteEffects ==
  ASSUME ModelsInv, EffectInv, net' \in [Client -> Seq(Posts)], NEW c \in Client,
         CompleteWrite(c)
  PROVE  EffectInv' /\ (Stutter \/ \E t \in Thread : Puts(t))
<1>0. PICK q, p : q = net[c] /\ p = net'[c]
  OBVIOUS
<1>1. /\ worker[c].pc = "verbs" /\ "write" \in worker[c].flags
      /\ worker'[c].thread = worker[c].thread
      /\ q \in Seq(Posts) /\ p \in Seq(Posts) /\ DOMAIN p = DOMAIN q
      /\ \A k \in DOMAIN q : /\ q[k].op \notin MessageOps /\ q[k].op # "READ"
                             /\ p[k].op = q[k].op /\ p[k].obj = q[k].obj
                             /\ p[k].val = q[k].val /\ p[k].acked
      /\ \A t : ~OnTheWay(p, recvq'[c], t)
      /\ \A u \in Thread : SameProgress(u)
      /\ Elsewhere(c) /\ InOrder(c)' /\ mem' = mem /\ recvq' = recvq
  BY <1>0, AcknowledgeFrame
<1>2. EffectInv'
  BY <1>1, EffectKept DEF SameProgress, SameEffect
<1>3. ASSUME NEW o \in Object, OwnerOf[o] = c,
             \A k \in DOMAIN q : q[k].op \in WriteOps /\ ~q[k].acked => q[k].obj # o
      PROVE  StoreOf(o)' = StoreOf(o)
  <2>1. \A k \in DOMAIN q : LateTo(p[k], o) <=> LateTo(q[k], o)
    BY <1>1, <1>3 DEF LateTo
  <2>2. StoreOn(p, mem[o], o) = StoreOn(q, mem[o], o)
    BY <1>1, <2>1, StoreSame
  <2> QED
    BY <1>0, <1>1, <1>3, <2>2, StoreIsOn
<1>4. CASE \A k \in DOMAIN q : q[k].op \in WriteOps => q[k].acked
  <2>1. \A t : ~NetOwes(q, t)
    BY <1>1, <1>4 DEF NetOwes, PostOwes, MessageOps, WriteOps
  <2>2. \A t : ~RecvOwes(recvq[c], t)
    BY <1>1, NoSend
  <2>3. \A t : OnTheWay(net'[c], recvq'[c], t) <=> OnTheWay(net[c], recvq[c], t)
    BY <1>0, <1>1, <2>1, <2>2 DEF OnTheWay
  <2>4. \A o \in Object : OwnerOf[o] = c => StoreOf(o)' = StoreOf(o)
    BY <1>3, <1>4
  <2> QED
    BY <1>1, <1>2, <2>3, <2>4, StutterIf
<1>5. CASE \E k \in DOMAIN q : q[k].op \in WriteOps /\ ~q[k].acked
  <2>0. PICK k \in DOMAIN q : q[k].op \in WriteOps /\ ~q[k].acked
    BY <1>5
  <2>1. PICK r \in Posts : r = q[k]
    BY <1>1
  <2>2. PICK t \in Thread : t = r.task
    BY DEF Posts
  <2>3. /\ Serves(c, r, {"WRITE", "WRITEIMM", "SEND2"})
        /\ \A j \in DOMAIN q : j > k => q[j].op \notin WriteOps
        /\ Owned(c, r)
    BY <1>0, <2>0, <2>1 DEF EffectInv, InOrder, ModelsInv, ProcessInv, NetInv
  <2>4. /\ worker[c].thread = t /\ WorkOf(t) \in PutWorks
        /\ r.obj = call[t].obj /\ r.val = call[t].val /\ OwnerOf[r.obj] = c
    BY <2>2, <2>3 DEF Serves, PutWorks, Owned
  <2>5. ClientOf[t] = c /\ call[t].model # "none" /\ ~call[t].done
    BY <1>1, <2>4 DEF ModelsInv, ProcessInv, WorkerInv
  <2>6. Owed(t)
    <3>1. PostOwes(q[k], t)
      BY <2>0, <2>1, <2>2 DEF PostOwes, WriteOps
    <3> QED
      BY <1>0, <2>5, <3>1, OwedIs DEF OnTheWay, NetOwes
  <2>7. ~Owed(t)'
    BY <1>0, <1>1, <2>4, <2>5, OwedIs
  <2>8. ASSUME NEW o \in Object
        PROVE  StoreOf(o)' = IF o = call[t].obj THEN call[t].val ELSE StoreOf(o)
    <3>1. CASE o = call[t].obj
      <4>1. LateTo(p[k], o) /\ p[k].val = call[t].val
        BY <1>1, <2>0, <2>1, <2>4, <3>1 DEF LateTo
      <4>2. \A j \in DOMAIN p : j > k => ~LateTo(p[j], o)
        BY <1>1, <2>3 DEF LateTo
      <4>3. Holds(p, mem[o], o, call[t].val)
        BY <1>1, <2>0, <4>1, <4>2 DEF Holds
      <4>4. StoreOn(p, mem[o], o) = call[t].val
        BY <1>1, <4>3, HoldsOne
      <4> QED
        BY <1>0, <1>1, <2>4, <3>1, <4>4, StoreIsOn
    <3>2. CASE o # call[t].obj /\ OwnerOf[o] = c
      <4>1. ASSUME NEW j \in DOMAIN q, q[j].op \in WriteOps, ~q[j].acked
            PROVE  q[j].obj # o
        <5>1. PICK x : x = q[j]
          OBVIOUS
        <5>2. Serves(c, x, {"WRITE", "WRITEIMM", "SEND2"})
          BY <1>0, <4>1, <5>1 DEF EffectInv, InOrder
        <5> QED
          BY <2>4, <3>2, <5>1, <5>2 DEF Serves
      <4> QED
        BY <1>3, <3>2, <4>1
    <3>3. CASE OwnerOf[o] # c
      <4>1. o # call[t].obj
        BY <2>4, <3>3
      <4> QED
        BY <1>1, <3>3, <4>1, ElsewhereSame
    <3> QED
      BY <3>1, <3>2, <3>3
  <2>9. \A u \in Thread \ {t} : Same(u)
    BY <1>1, <2>4, ProcessSame
  <2>10. Puts(t)
    BY <1>1, <2>4, <2>5, <2>6, <2>7, <2>8, <2>9, PutsIt
  <2> QED
    BY <1>2, <2>10
<1> QED
  BY <1>4, <1>5

LEMMA ClientEpollEffects ==
  ASSUME ModelsInv, EffectInv, net' \in [Client -> Seq(Posts)], NEW c \in Client,
         ClientEpoll(c)
  PROVE  EffectInv' /\ (Stutter \/ \E t \in Thread : Puts(t))
<1>1. ASSUME UNCHANGED <<net, recvq, mem>>, InOrder(c)', worker'[c].thread = worker[c].thread,
             \A u \in Thread : SameProgress(u),
             \A d \in Client : d # c => worker'[d] = worker[d]
      PROVE  EffectInv' /\ Stutter
  <2>1. Elsewhere(c)
    BY <1>1 DEF Elsewhere
  <2>2. EffectInv'
    BY <1>1, <2>1, EffectKept DEF SameProgress, SameEffect
  <2>3. \A o \in Object : StoreOf(o)' = StoreOf(o)
    BY <1>1, StoreFrame
  <2> QED
    BY <1>1, <2>1, <2>2, <2>3, StutterIf
<1>2. CASE CompleteRead(c)
  <2>1. /\ net[c] = <<>> /\ worker' = [worker EXCEPT ![c].flags = {}]
        /\ UNCHANGED <<call, net, recvq, mem>>
    BY <1>2 DEF CompleteRead, threadVars, queueVars, serverVars
  <2>2. InOrder(c)'
    <3>1. \A k \in DOMAIN net'[c] : FALSE
      BY <2>1
    <3> QED
      BY <3>1, CalmInOrder
  <2>3. /\ worker'[c].thread = worker[c].thread
        /\ \A d \in Client : d # c => worker'[d] = worker[d]
    <3>1. \A w \in WorkerStates : [w EXCEPT !.flags = {}].thread = w.thread
      BY DEF WorkerStates
    <3>2. worker \in [Client -> WorkerStates]
      BY DEF ModelsInv, TypeOK
    <3>3. worker'[c] = [worker[c] EXCEPT !.flags = {}]
      BY <2>1, <3>2
    <3> QED
      BY <2>1, <3>1, <3>2, <3>3
  <2>4. \A u \in Thread : SameProgress(u)
    BY <2>1 DEF SameProgress, SameEffect
  <2> QED
    BY <1>1, <2>1, <2>2, <2>3, <2>4
<1>3. CASE OnResponse(c)
  <2>1. /\ UNCHANGED <<worker, net, recvq, mem>>
        /\ \/ UNCHANGED call
           \/ call' = [call EXCEPT ![Head(resp[c]).task].recv = TRUE]
    BY <1>3 DEF OnResponse, serverVars
  <2>2. \A u \in Thread : SameProgress(u)
    <3>1. CASE UNCHANGED call
      BY <3>1 DEF SameProgress, SameEffect
    <3>2. ASSUME NEW t, call' = [call EXCEPT ![t].recv = TRUE]
          PROVE  \A u \in Thread : SameProgress(u)
      <4>1. \A k \in Calls : LET n == [k EXCEPT !.recv = TRUE]
              IN /\ n.model = k.model /\ n.step = k.step /\ n.obj = k.obj /\ n.val = k.val
                 /\ n.done = k.done /\ n.res = k.res
        BY DEF Calls
      <4>2. call \in [Thread -> Calls]
        BY DEF ModelsInv, TypeOK
      <4>3. \A u \in Thread : call'[u] = call[u] \/ call'[u] = [call[u] EXCEPT !.recv = TRUE]
        BY <3>2, <4>2
      <4> QED
        BY <4>1, <4>2, <4>3 DEF SameProgress, SameEffect
    <3> QED
      BY <2>1, <3>1, <3>2
  <2>3. InOrder(c)'
    <3>1. net[c] \in Seq(Posts) /\ InOrder(c) /\ WorkerInv(c)
      BY DEF ModelsInv, TypeOK, EffectInv, ProcessInv
    <3>2. ServedKeeps(c)
      BY <2>2, <3>1 DEF ServedKeeps, SameProgress, WorkerInv
    <3>3. /\ Len(net[c]) + 0 = Len(net[c]) /\ 0 \in Nat
          /\ \A k \in DOMAIN net[c] : k + 0 \in DOMAIN net[c] /\ net[c][k] = net[c][k + 0]
      BY <3>1
    <3> QED
      BY <2>1, <3>1, <3>2, <3>3, InOrderFewer
  <2> QED
    BY <1>1, <2>1, <2>2, <2>3
<1> QED
  BY <1>2, <1>3, CompleteWriteEffects DEF ClientEpoll

-------------------------------------------------------------------------------
(* The epoll thread of the server: a send takes effect when it is handled. *)
LEMMA ServerFrame ==
  ASSUME ModelsInv, EffectInv, NEW c \in Client, ServerEpoll(c)
  PROVE  LET r == recvq[c][1] IN
         /\ recvq[c] \in Seq(Posts) /\ recvq[c] # <<>> /\ 1 \in DOMAIN recvq[c] /\ r \in Posts
         /\ Owned(c, r) /\ (r.op \in MessageOps => Len(recvq[c]) = 1 /\ net[c] = <<>>)
         /\ recvq'[c] = Tail(recvq[c]) /\ UNCHANGED <<call, worker, net>>
         /\ \A o \in Object : mem'[o] = IF r.op = "SEND" /\ r.obj = o THEN r.val ELSE mem[o]
         /\ Elsewhere(c) /\ EffectInv'
<1>0. PICK r : r = recvq[c][1]
  OBVIOUS
<1>1. recvq[c] # <<>> /\ recvq' = [recvq EXCEPT ![c] = Tail(@)] /\ UNCHANGED <<call, worker, net>>
  BY DEF ServerEpoll, OnReqAddr1, OnWriteImm, OnSend, OnSend2, OnTailwindRPC, Received, Consume,
         clientVars
<1>2. /\ recvq[c] \in Seq(Posts) /\ 1 \in DOMAIN recvq[c] /\ r \in Posts /\ Head(recvq[c]) = r
      /\ recvq'[c] = Tail(recvq[c]) /\ \A d \in Client : d # c => recvq'[d] = recvq[d]
  <2>1. recvq \in [Client -> Seq(Posts)]
    BY DEF ModelsInv, TypeOK
  <2>2. recvq[c] \in Seq(Posts)
    BY <2>1
  <2> QED
    BY <1>0, <1>1, <2>1, <2>2, HeadOfSeq
<1>3. \/ mem' = mem /\ r.op # "SEND"
      \/ mem' = [mem EXCEPT ![r.obj] = r.val] /\ r.op = "SEND"
  BY <1>2 DEF ServerEpoll, OnReqAddr1, OnWriteImm, OnSend, OnSend2, OnTailwindRPC, Received
<1>4. Owned(c, r) /\ (r.op \in MessageOps => Len(recvq[c]) = 1 /\ net[c] = <<>>)
  BY <1>0, <1>2 DEF ModelsInv, ProcessInv, RecvInv
<1>5. \A o \in Object : mem'[o] = IF r.op = "SEND" /\ r.obj = o THEN r.val ELSE mem[o]
  BY <1>3 DEF ModelsInv, TypeOK
<1>6. \A u \in Thread : SameProgress(u)
  BY <1>1 DEF SameProgress, SameEffect
<1>7. Elsewhere(c)
  BY <1>1, <1>2, <1>4, <1>5, <1>6 DEF Elsewhere, Owned
<1>8. InOrder(c)'
  <2>1. net[c] \in Seq(Posts) /\ InOrder(c) /\ WorkerInv(c)
    BY DEF ModelsInv, TypeOK, EffectInv, ProcessInv
  <2>2. ServedKeeps(c)
    BY <1>6, <2>1 DEF ServedKeeps, SameProgress, WorkerInv
  <2>3. /\ Len(net[c]) + 0 = Len(net[c]) /\ 0 \in Nat
        /\ \A k \in DOMAIN net[c] : k + 0 \in DOMAIN net[c] /\ net[c][k] = net[c][k + 0]
    BY <2>1
  <2> QED
    BY <1>1, <2>1, <2>2, <2>3, InOrderFewer
<1>9. EffectInv'
  BY <1>6, <1>7, <1>8, EffectKept DEF SameProgress, SameEffect
<1> QED
  BY <1>0, <1>1, <1>2, <1>4, <1>5, <1>7, <1>9

LEMMA ServerEpollEffects ==
  ASSUME ModelsInv, EffectInv, NEW c \in Client, ServerEpoll(c)
  PROVE  EffectInv' /\ (Stutter \/ \E t \in Thread : Puts(t))
<1>0. PICK q, r : q = recvq[c] /\ r = q[1]
  OBVIOUS
<1>1. /\ q \in Seq(Posts) /\ q # <<>> /\ 1 \in DOMAIN q /\ r \in Posts
      /\ Owned(c, r) /\ (r.op \in MessageOps => Len(q) = 1 /\ net[c] = <<>>)
      /\ recvq'[c] = Tail(q) /\ UNCHANGED <<call, worker, net>>
      /\ \A o \in Object : mem'[o] = IF r.op = "SEND" /\ r.obj = o THEN r.val ELSE mem[o]
      /\ Elsewhere(c) /\ EffectInv'
  BY <1>0, ServerFrame
<1>2. \A u \in Thread : SameProgress(u)
  BY <1>1 DEF SameProgress, SameEffect
<1>3. \A t : RecvOwes(q, t) <=> (r.task = t /\ r.op = "SEND") \/ RecvOwes(recvq'[c], t)
  BY <1>0, <1>1, OwesTail
<1>4. CASE r.op # "SEND"
  <2>1. \A o \in Object : OwnerOf[o] = c => StoreOf(o)' = StoreOf(o)
    BY <1>1, <1>4, StoreFrame
  <2>2. \A t : OnTheWay(net'[c], recvq'[c], t) <=> OnTheWay(net[c], recvq[c], t)
    BY <1>0, <1>1, <1>3, <1>4 DEF OnTheWay
  <2> QED
    BY <1>1, <1>2, <2>1, <2>2, StutterIf
<1>5. CASE r.op = "SEND"
  <2>1. PICK t \in Thread : t = r.task
    BY <1>1 DEF Posts
  <2>2. /\ worker[c].pc = "recv" /\ worker[c].thread = t /\ WorkOf(t) = "SEND"
        /\ r.obj = call[t].obj /\ r.val = call[t].val /\ OwnerOf[r.obj] = c
        /\ net[c] = <<>> /\ Len(q) = 1
    BY <1>1, <1>5, <2>1 DEF Owned, Awaits, MessageOps
  <2>3. ClientOf[t] = c /\ call[t].model # "none" /\ ~call[t].done
    BY <2>2 DEF ModelsInv, ProcessInv, WorkerInv
  <2>4. Owed(t)
    <3>1. RecvOwes(q, t)
      BY <1>3, <1>5, <2>1
    <3> QED
      BY <1>0, <2>3, <3>1, OwedIs DEF OnTheWay
  <2>5. ~Owed(t)'
    <3>1. \A k \in DOMAIN Tail(q) : FALSE
      BY <1>1, <2>2
    <3>2. ~RecvOwes(recvq'[c], t)
      BY <1>1, <3>1 DEF RecvOwes
    <3>3. \A k \in DOMAIN net'[c] : FALSE
      BY <1>1, <2>2
    <3>4. ~NetOwes(net'[c], t)
      BY <3>3 DEF NetOwes
    <3> QED
      BY <1>1, <2>2, <2>3, <3>2, <3>4, OwedIs DEF OnTheWay
  <2>6. ASSUME NEW o \in Object
        PROVE  StoreOf(o)' = IF o = call[t].obj THEN call[t].val ELSE StoreOf(o)
    <3>1. CASE OwnerOf[o] = c
      <4>1. \A k \in DOMAIN net[c] : ~LateTo(net[c][k], o)
        BY <2>2
      <4>2. StoreOf(o) = mem[o] /\ StoreOf(o)' = mem'[o]
        BY <1>1, <3>1, <4>1, StoreIsOn DEF StoreOn
      <4> QED
        BY <1>1, <1>5, <2>2, <4>2
    <3>2. CASE OwnerOf[o] # c
      <4>1. o # call[t].obj
        BY <2>2, <3>2
      <4> QED
        BY <1>1, <3>2, <4>1, ElsewhereSame
    <3> QED
      BY <3>1, <3>2
  <2>7. \A u \in Thread \ {t} : Same(u)
    BY <1>1, <1>2, <2>2, ProcessSame
  <2>8. WorkOf(t) \in PutWorks
    BY <2>2 DEF PutWorks
  <2>9. Puts(t)
    BY <1>2, <2>3, <2>4, <2>5, <2>6, <2>7, <2>8, PutsIt
  <2> QED
    BY <1>1, <2>9
<1> QED
  BY <1>4, <1>5

LEMMA QuietEffects ==
  ASSUME ModelsInv, EffectInv, UNCHANGED <<call, worker, net, recvq, mem>>
  PROVE  EffectInv' /\ Stutter
<1>1. \A u \in Thread : SameProgress(u)
  BY DEF SameProgress, SameEffect
<1>2. \A c \in Client : Elsewhere(c)
  BY <1>1 DEF Elsewhere
<1>3. \A o \in Object : StoreOf(o)' = StoreOf(o)
  BY StoreFrame
<1>4. \A u \in Thread : Same(u)
  <2> SUFFICES ASSUME NEW u \in Thread
               PROVE  Same(u)
    OBVIOUS
  <2> QED
    BY <1>1, ThreadFrame
<1>5. \A c \in Client : InOrder(c)'
  <2> SUFFICES ASSUME NEW c \in Client
               PROVE  InOrder(c)'
    OBVIOUS
  <2>1. net[c] \in Seq(Posts) /\ InOrder(c) /\ WorkerInv(c)
    BY DEF ModelsInv, TypeOK, EffectInv, ProcessInv
  <2>2. ServedKeeps(c)
    BY <1>1, <2>1 DEF ServedKeeps, SameProgress, WorkerInv
  <2>3. /\ Len(net[c]) + 0 = Len(net[c]) /\ 0 \in Nat
        /\ \A k \in DOMAIN net[c] : k + 0 \in DOMAIN net[c] /\ net[c][k] = net[c][k + 0]
    BY <2>1
  <2> QED
    BY <2>1, <2>2, <2>3, InOrderFewer
<1> QED
  BY <1>3, <1>4, <1>5 DEF EffectInv, Stutter, SameStore

LEMMA NextEffects ==
  ASSUME ModelsInv, ModelsInv', EffectInv, [Next]_vars
  PROVE  EffectInv' /\ [Abstract!Next]_Abstract!objectVars
<1>0. net' \in [Client -> Seq(Posts)]
  BY DEF ModelsInv, TypeOK
<1>1. EffectInv' /\ (\/ Stutter
                     \/ \E t \in Thread : \/ Invokes(t) \/ Responds(t)
                                          \/ Puts(t) \/ Reads(t) \/ Passes(t))
  <2>1. ASSUME NEW t \in Thread, AppThread(t)
        PROVE  EffectInv' /\ (Stutter \/ Invokes(t) \/ Responds(t))
    BY <2>1, AppThreadEffects
  <2>2. ASSUME NEW c \in Client, WorkThread(c)
        PROVE  EffectInv' /\ (Stutter \/ \E t \in Thread : Passes(t))
    BY <1>0, <2>2, WorkThreadEffects
  <2>3. ASSUME NEW c \in Client, Adapter(c)
        PROVE  EffectInv' /\ (Stutter \/ \E t \in Thread : Puts(t) \/ Reads(t))
    BY <2>3, AdapterEffects
  <2>4. ASSUME NEW c \in Client, ClientEpoll(c)
        PROVE  EffectInv' /\ (Stutter \/ \E t \in Thread : Puts(t))
    BY <1>0, <2>4, ClientEpollEffects
  <2>5. ASSUME NEW c \in Client, ServerEpoll(c)
        PROVE  EffectInv' /\ (Stutter \/ \E t \in Thread : Puts(t))
    BY <2>5, ServerEpollEffects
  <2>6. ASSUME NEW l \in Line, Evict(l)
        PROVE  EffectInv' /\ Stutter
    BY <2>6, QuietEffects DEF Evict, clientVars, queueVars
  <2>7. ASSUME UNCHANGED vars
        PROVE  EffectInv' /\ Stutter
    BY <2>7, QuietEffects DEF vars, steps, clientVars, queueVars, serverVars
  <2> QED
    BY <2>1, <2>2, <2>3, <2>4, <2>5, <2>6, <2>7 DEF Next
<1> QED
  BY <1>1, StutterMaps, InvokeMaps, RespondMaps, TakeMaps

LEMMA InitEffects == Init => EffectInv /\ Abstract!Init
<1> SUFFICES ASSUME Init
             PROVE  EffectInv /\ Abstract!Init
  OBVIOUS
<1>1. /\ \A t \in Thread : call[t] = NoCall
      /\ \A c \in Client : net[c] = <<>>
      /\ \A o \in Object : mem[o] = Zero
  BY DEF Init
<1>2. NoCall.model = "none" /\ NoCall.res = NULL
  BY DEF NoCall
<1>3. EffectInv
  BY <1>1, <1>2 DEF EffectInv, InOrder
<1>4. ASSUME NEW o \in Object
      PROVE  StoreOf(o) = Zero
  <2>1. OwnerOf[o] \in Client
    BY ModelsAssumption
  <2>2. \A k \in DOMAIN net[OwnerOf[o]] : FALSE
    BY <1>1, <2>1
  <2>3. StoreOn(net[OwnerOf[o]], mem[o], o) = mem[o]
    BY <2>2 DEF StoreOn
  <2> QED
    BY <1>1, <2>3, StoreIsOn
<1>5. \A t \in Thread : RequestOf(t) = NULL /\ AnswerOf(t) = Abstract!NoAnswer
  BY <1>1, <1>2 DEF RequestOf, AnswerOf, TookEffect, Abstract!NoAnswer
<1> QED
  BY <1>3, <1>4, <1>5 DEF Abstract!Init

(* The calls of the models read or write one object each, at one point between  *)
(* the call and its return (dhmp_client.c and dhmp_work.c): a write when it is   *)
(* acknowledged or in memory, whichever comes first, a send when the server      *)
(* handles it, a read when the adapter performs it.                              *)
THEOREM ModelsImplementRemoteObjects == Spec => ImplementsRemoteObjects
<1>1. Init => EffectInv /\ Abstract!Init
  BY InitEffects
<1>2. ModelsInv /\ ModelsInv' /\ EffectInv /\ [Next]_vars
        => EffectInv' /\ [Abstract!Next]_Abstract!objectVars
  BY NextEffects
<1> QED
  BY <1>1, <1>2, ModelsHold, PTL DEF Spec, ImplementsRemoteObjects, Abstract!Spec
=============================================================================
