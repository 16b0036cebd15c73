-------------------------- MODULE DhmpPoolCallProofs --------------------------
(***************************************************************************)
(* Type correctness of DhmpPool, and its calls: the work list, the work    *)
(* thread, the messages and the entries agree in every reachable state,    *)
(* and so the pointers do. This holds for any number of clients, threads,  *)
(* entries and areas; nothing is assumed of the lengths asked for.         *)
(***************************************************************************)
EXTENDS DhmpPoolInv, SequenceTheorems, TLAPS

(* The initial state has the shape of TypeOK and nothing is in flight. *)
LEMMA InitType == Init => TypeOK /\ VerbPhase
  BY PoolAssumption DEF Init, TypeOK, VerbPhase, Calls, Workers, Entries,
                        NoCall, IdleWorker, Verb

(* Finishing a work keeps the shape of the calls and of the work threads. *)
LEMMA FinishWorkType ==
  ASSUME TypeOK, NEW c \in Client, worker[c].pc # "idle",
         NEW res \in Addr \cup Value \cup {NULL}, FinishWork(c, res)
  PROVE  call' \in [Thread -> Calls] /\ worker' \in [Client -> Workers]
<1>1. worker[c].work \in Thread
  BY DEF TypeOK, Workers
<1>2. IdleWorker \in Workers
  BY DEF IdleWorker, Workers
<1>3. ASSUME NEW k \in Calls
      PROVE  [k EXCEPT !.done = TRUE, !.res = res] \in Calls
  BY <1>3 DEF Calls
<1> QED
  BY <1>1, <1>2, <1>3 DEF FinishWork, TypeOK

(* So does waiting for an answer. *)
LEMMA AwaitType ==
  ASSUME TypeOK, NEW c \in Client, worker[c].pc = "start", NEW i \in Info,
         NEW pc \in {"malloc", "free", "read", "write"}, Await(c, pc, i)
  PROVE  worker' \in [Client -> Workers]
<1>1. ASSUME NEW w \in Workers, w.pc = "start"
      PROVE  [w EXCEPT !.pc = pc, !.info = i] \in Workers
  BY <1>1 DEF Workers
<1>2. worker[c] \in Workers
  BY DEF TypeOK
<1> QED
  BY <1>1, <1>2 DEF Await, TypeOK

(* What the handlers store into an entry keeps its shape. *)
LEMMA EntryFields ==
  ASSUME NEW e \in Entries
  PROVE  /\ \A b \in BOOLEAN : [e EXCEPT !.live = b] \in Entries
         /\ \A b \in BOOLEAN : [e EXCEPT !.write_flag = b] \in Entries
         /\ \A a \in Addr \cup {NULL} : [e EXCEPT !.addr = a] \in Entries
         /\ [e EXCEPT !.live = TRUE, !.len = 0] \in Entries
         /\ \A a \in Addr \cup {NULL}, n \in Nat :
               [e EXCEPT !.addr = a, !.len = n] \in Entries
  BY DEF Entries

LEMMA EntryUpdate ==
  ASSUME TypeOK, NEW c \in Client, NEW i \in Info
  PROVE  LET AddrInfos == [Client -> [Info -> Entries]] IN
         /\ \A b \in BOOLEAN : [addrInfo EXCEPT ![c][i].live = b] \in AddrInfos
         /\ \A b \in BOOLEAN : [addrInfo EXCEPT ![c][i].write_flag = b] \in AddrInfos
         /\ \A a \in Addr \cup {NULL} : [addrInfo EXCEPT ![c][i].addr = a] \in AddrInfos
         /\ [addrInfo EXCEPT ![c][i] = [@ EXCEPT !.live = TRUE, !.len = 0]] \in AddrInfos
         /\ \A a \in Addr \cup {NULL}, n \in Nat :
               [addrInfo EXCEPT ![c][i] = [@ EXCEPT !.addr = a, !.len = n]] \in AddrInfos
<1>1. addrInfo[c][i] \in Entries
  BY DEF TypeOK
<1>2. ASSUME NEW e \in Entries
      PROVE  [addrInfo EXCEPT ![c][i] = e] \in [Client -> [Info -> Entries]]
  BY DEF TypeOK
<1> QED
  BY <1>1, <1>2, EntryFields

(* Queueing a well-formed work keeps the shape of the calls and of the list. *)
LEMMA SubmitType ==
  ASSUME TypeOK, NEW t \in Thread, NEW w \in Calls, Submit(t, w)
  PROVE  /\ call' \in [Thread -> Calls]
         /\ workList' \in [Client -> Seq(Thread)]
<1>1. ClientOf[t] \in Client
  BY PoolAssumption
<1>2. Append(workList[ClientOf[t]], t) \in Seq(Thread)
  BY <1>1 DEF TypeOK
<1> QED
  BY <1>1, <1>2 DEF Submit, TypeOK

(* The calls of an application thread. *)
LEMMA AppThreadType ==
  ASSUME TypeOK, NEW t \in Thread, AppThread(t)
  PROVE  TypeOK'
<1> USE PoolAssumption
<1> DEFINE c == ClientOf[t]
<1>1. c \in Client
  OBVIOUS
<1>2. ASSUME NEW len \in Size, CallMalloc(t, len)
      PROVE  TypeOK'
  <2>1. PICK i \in Info :
          /\ Submit(t, [NoCall EXCEPT !.op = "malloc", !.info = i, !.len = len])
          /\ addrInfo' = [addrInfo EXCEPT ![c][i] = [@ EXCEPT !.live = TRUE, !.len = 0]]
          /\ UNCHANGED <<worker, ht, verbVars, msgs, serverVars>>
    BY <1>2 DEF CallMalloc
  <2>2. [NoCall EXCEPT !.op = "malloc", !.info = i, !.len = len] \in Calls
    BY DEF NoCall, Calls
  <2>3. addrInfo' \in [Client -> [Info -> Entries]]
    BY <1>1, <2>1, EntryUpdate
  <2> QED
    BY <2>1, <2>2, <2>3, SubmitType DEF TypeOK, verbVars, serverVars
<1>3. ASSUME NEW a \in Addr, CallFree(t, a)
      PROVE  TypeOK'
  <2>1. [NoCall EXCEPT !.op = "free", !.addr = a] \in Calls
    BY DEF NoCall, Calls
  <2> QED
    BY <1>3, <2>1, SubmitType DEF CallFree, TypeOK, verbVars, serverVars
<1>4. ASSUME NEW a \in Addr, CallRead(t, a)
      PROVE  TypeOK'
  <2>1. [NoCall EXCEPT !.op = "read", !.addr = a] \in Calls
    BY DEF NoCall, Calls
  <2> QED
    BY <1>4, <2>1, SubmitType DEF CallRead, TypeOK, verbVars, serverVars
<1>5. ASSUME NEW a \in Addr, NEW v \in Value, CallWrite(t, a, v)
      PROVE  TypeOK'
  <2>1. [NoCall EXCEPT !.op = "write", !.addr = a, !.val = v] \in Calls
    BY <1>5 DEF NoCall, Calls
  <2> QED
    BY <1>5, <2>1, SubmitType DEF CallWrite, TypeOK, verbVars, serverVars
<1>6. ASSUME Return(t)
      PROVE  TypeOK'
  <2>1. NoCall \in Calls
    BY DEF NoCall, Calls
  <2> QED
    BY <1>6, <2>1 DEF Return, TypeOK, verbVars, serverVars
<1> QED
  BY <1>2, <1>3, <1>4, <1>5, <1>6 DEF AppThread
(* The steps of a work thread. *)
LEMMA WorkThreadType ==
  ASSUME TypeOK, NEW c \in Client, WorkThread(c)
  PROVE  TypeOK'
<1> USE PoolAssumption
<1> USE DEF verbVars, serverVars
<1>1. worker[c] \in Workers /\ ht[c] \subseteq Info /\ workList[c] \in Seq(Thread)
  BY DEF TypeOK
<1>2. CASE TakeWork(c)
  <2>1. Head(workList[c]) \in Thread /\ Tail(workList[c]) \in Seq(Thread)
    BY <1>1, <1>2 DEF TakeWork
  <2>2. [pc |-> "start", work |-> Head(workList[c]), info |-> NULL] \in Workers
    BY <2>1 DEF Workers
  <2> QED
    BY <1>2, <2>1, <2>2 DEF TakeWork, TypeOK
<1>3. CASE AddrNotFound(c)
  <2>1. worker[c].pc # "idle" /\ FinishWork(c, NULL)
    BY <1>3 DEF AddrNotFound, Handling
  <2> QED
    BY <1>3, <2>1, FinishWorkType DEF AddrNotFound, TypeOK
<1>4. CASE MallocSend(c)
  <2> DEFINE t == worker[c].work
             m == [type |-> "MALLOC_REQUEST", client |-> c, info |-> call[t].info,
                   task |-> t, size |-> call[t].len]
  <2>1. t \in Thread /\ call[t] \in Calls /\ call[t].op = "malloc"
    BY <1>1, <1>4 DEF MallocSend, Handling, Workers, TypeOK
  <2>2. call[t].info \in Info /\ call[t].len \in Size
    BY <2>1 DEF Calls
  <2>3. m \in Messages
    BY <2>1, <2>2 DEF Messages
  <2>4. worker' \in [Client -> Workers]
    BY <1>4, <2>2, AwaitType DEF MallocSend, Handling
  <2> QED
    BY <1>4, <2>3, <2>4 DEF MallocSend, TypeOK
<1>5. CASE MallocFinish(c)
  <2> DEFINE i == worker[c].info
  <2>1. i \in Info /\ worker[c].pc # "idle"
    BY <1>1, <1>5 DEF MallocFinish, Workers
  <2>2. addrInfo[c][i].addr \in Addr \cup {NULL}
    BY <2>1 DEF TypeOK, Entries
  <2>3. call' \in [Thread -> Calls] /\ worker' \in [Client -> Workers]
    BY <1>5, <2>1, <2>2, FinishWorkType DEF MallocFinish
  <2>4. addrInfo' \in [Client -> [Info -> Entries]] /\ ht' \in [Client -> SUBSET Info]
    <3>1. CASE addrInfo[c][i].addr = NULL
      <4>1. addrInfo' = [addrInfo EXCEPT ![c][i].live = FALSE] /\ ht' = ht
        BY <1>5, <3>1 DEF MallocFinish
      <4> QED
        BY <2>1, <4>1, EntryUpdate DEF TypeOK
    <3>2. CASE addrInfo[c][i].addr # NULL
      <4>1. /\ addrInfo' = [addrInfo EXCEPT ![c][i].write_flag = FALSE]
            /\ ht' = [ht EXCEPT ![c] = @ \cup {i}]
        BY <1>5, <3>2 DEF MallocFinish
      <4>2. addrInfo' \in [Client -> [Info -> Entries]]
        BY <2>1, <4>1, EntryUpdate
      <4>3. ht' \in [Client -> SUBSET Info]
        BY <2>1, <4>1 DEF TypeOK
      <4> QED
        BY <4>2, <4>3
    <3> QED
      BY <3>1, <3>2
  <2> QED
    BY <1>5, <2>3, <2>4 DEF MallocFinish, TypeOK
<1>6. CASE FreeSend(c)
  <2>1. PICK i \in Lookup(c, call[worker[c].work].addr) :
          /\ ht' = [ht EXCEPT ![c] = @ \ {i}]
          /\ msgs' = msgs \cup {FreeRequestOf(c, i, Mr(c, i))}
          /\ Await(c, "free", i)
    BY <1>6 DEF FreeSend
  <2>2. i \in Info /\ addrInfo[c][i] \in Entries
    BY <1>1, <2>1 DEF Lookup, TypeOK
  <2>3. addrInfo[c][i].addr \in Addr
    <3>1. worker[c].work \in Thread /\ call[worker[c].work].op = "free"
      BY <1>1, <1>6 DEF FreeSend, Handling, Workers
    <3>2. call[worker[c].work] \in Calls
      BY <3>1 DEF TypeOK
    <3> QED
      BY <2>1, <3>1, <3>2 DEF Lookup, Calls
  <2>4. FreeRequestOf(c, i, Mr(c, i)) \in Messages
    BY <2>2, <2>3 DEF FreeRequestOf, Mr, Messages, Entries
  <2>5. worker' \in [Client -> Workers]
    BY <1>6, <2>1, <2>2, AwaitType DEF FreeSend, Handling
  <2> QED
    BY <1>6, <2>1, <2>4, <2>5 DEF FreeSend, TypeOK
<1>7. CASE FreeFinish(c)
  <2>1. worker[c].info \in Info /\ worker[c].pc # "idle"
    BY <1>1, <1>7 DEF FreeFinish, Workers
  <2>2. call' \in [Thread -> Calls] /\ worker' \in [Client -> Workers]
    BY <1>7, <2>1, FinishWorkType DEF FreeFinish
  <2>3. addrInfo' \in [Client -> [Info -> Entries]]
    BY <1>7, <2>1, EntryUpdate DEF FreeFinish
  <2> QED
    BY <1>7, <2>2, <2>3 DEF FreeFinish, TypeOK
<1>8. CASE ReadPost(c)
  <2>1. PICK i \in Lookup(c, call[worker[c].work].addr) : Await(c, "read", i)
    BY <1>8 DEF ReadPost
  <2>2. worker' \in [Client -> Workers]
    BY <1>1, <1>8, <2>1, AwaitType DEF ReadPost, Handling, Lookup
  <2> QED
    BY <1>8, <2>2 DEF ReadPost, TypeOK, Verb
<1>9. CASE ReadFinish(c)
  <2>1. worker[c].pc # "idle" /\ worker[c].work \in Thread
    BY <1>1, <1>9 DEF ReadFinish, Workers
  <2>2. call[worker[c].work].res \in Addr \cup Value \cup {NULL}
    BY <2>1 DEF TypeOK, Calls
  <2>3. call' \in [Thread -> Calls] /\ worker' \in [Client -> Workers]
    BY <1>9, <2>1, <2>2, FinishWorkType DEF ReadFinish
  <2> QED
    BY <1>9, <2>3 DEF ReadFinish, TypeOK, Verb
<1>10. CASE WritePost(c)
  <2>1. PICK i \in Lookup(c, call[worker[c].work].addr) :
          /\ addrInfo' = [addrInfo EXCEPT ![c][i].write_flag = TRUE]
          /\ Await(c, "write", i)
    BY <1>10 DEF WritePost
  <2>2. i \in Info
    BY <1>1, <2>1 DEF Lookup
  <2>3. worker' \in [Client -> Workers]
    BY <1>10, <2>1, <2>2, AwaitType DEF WritePost, Handling
  <2>4. addrInfo' \in [Client -> [Info -> Entries]]
    BY <2>1, <2>2, EntryUpdate
  <2> QED
    BY <1>10, <2>3, <2>4 DEF WritePost, TypeOK, Verb
<1>11. CASE WriteFinish(c)
  <2>1. worker[c].pc # "idle"
    BY <1>11 DEF WriteFinish
  <2>2. call' \in [Thread -> Calls] /\ worker' \in [Client -> Workers]
    BY <1>11, <2>1, FinishWorkType DEF WriteFinish
  <2> QED
    BY <1>11, <2>2 DEF WriteFinish, TypeOK, Verb
<1> QED
  BY <1>2, <1>3, <1>4, <1>5, <1>6, <1>7, <1>8, <1>9, <1>10, <1>11 DEF WorkThread
(* The steps of an adapter and of a client's epoll thread. A WRITE takes its   *)
(* data from the work the work thread is still on.                             *)
LEMMA AdapterType ==
  ASSUME TypeOK, VerbPhase, NEW c \in Client, Adapter(c)
  PROVE  TypeOK'
<1> USE DEF clientVars, verbVars, serverVars
<1>1. worker[c] \in Workers
  BY DEF TypeOK
<1>2. CASE PerformWrite(c)
  <2>1. worker[c].work \in Thread
    BY <1>1, <1>2 DEF PerformWrite, VerbPhase, Workers
  <2>2. call[worker[c].work].val \in Value
    BY <2>1 DEF TypeOK, Calls
  <2>3. mem' \in [Addr -> Value]
    BY <1>2, <2>2 DEF PerformWrite, TypeOK
  <2>4. wr' \in [Client -> Verb]
    BY <1>2 DEF PerformWrite, TypeOK, Verb
  <2> QED
    BY <1>2, <2>3, <2>4 DEF PerformWrite, TypeOK
<1>3. CASE PerformRead(c)
  <2> DEFINE t == worker[c].work
  <2>1. t \in Thread
    BY <1>1, <1>3 DEF PerformRead, VerbPhase, Workers
  <2>2. call' \in [Thread -> Calls]
    <3>1. CASE call' = call
      BY <3>1 DEF TypeOK
    <3>2. CASE Target(c) \in areaList /\ call' = [call EXCEPT ![t].res = mem[Target(c)]]
      <4>1. mem[Target(c)] \in Value
        BY <3>2 DEF TypeOK
      <4>2. ASSUME NEW k \in Calls
            PROVE  [k EXCEPT !.res = mem[Target(c)]] \in Calls
        BY <4>1 DEF Calls
      <4> QED
        BY <2>1, <3>2, <4>2 DEF TypeOK
    <3> QED
      BY <1>3, <3>1, <3>2 DEF PerformRead, Reachable
  <2>3. rd' \in [Client -> Verb]
    BY <1>3 DEF PerformRead, TypeOK, Verb
  <2> QED
    BY <1>3, <2>2, <2>3 DEF PerformRead, TypeOK
<1> QED
  BY <1>2, <1>3 DEF Adapter

LEMMA ClientEpollType ==
  ASSUME TypeOK, VerbPhase, NEW c \in Client, ClientEpoll(c)
  PROVE  TypeOK'
<1> USE DEF clientVars, verbVars, serverVars
<1>1. worker[c] \in Workers
  BY DEF TypeOK
<1>2. CASE CompleteWrite(c)
  <2>1. worker[c].info \in Info
    BY <1>1, <1>2 DEF CompleteWrite, VerbPhase, Workers
  <2>2. addrInfo' \in [Client -> [Info -> Entries]]
    BY <1>2, <2>1, EntryUpdate DEF CompleteWrite
  <2> QED
    BY <1>2, <2>2 DEF CompleteWrite, TypeOK, Verb
<1>3. CASE CompleteRead(c)
  BY <1>3 DEF CompleteRead, TypeOK, Verb
<1>4. ASSUME NEW m \in msgs, OnMallocResponse(m)
      PROVE  TypeOK'
  <2>1. /\ m.client \in Client /\ m.info \in Info /\ m.task \in Thread
        /\ m.mr.addr \in Addr \cup {NULL} /\ m.mr.len \in Nat
    BY <1>4 DEF OnMallocResponse, TypeOK, Messages, Mrs
  <2>2. addrInfo' \in [Client -> [Info -> Entries]]
    BY <1>4, <2>1, EntryUpdate DEF OnMallocResponse
  <2>3. ASSUME NEW k \in Calls
        PROVE  [k EXCEPT !.recv = TRUE] \in Calls
    BY DEF Calls
  <2>4. call' \in [Thread -> Calls]
    BY <1>4, <2>1, <2>3 DEF OnMallocResponse, TypeOK
  <2> QED
    BY <1>4, <2>2, <2>4 DEF OnMallocResponse, TypeOK
<1>5. ASSUME NEW m \in msgs, OnMallocError(m)
      PROVE  TypeOK'
  <2>1. m.client \in Client /\ m.info \in Info /\ m.size \in Nat
    BY <1>5, PoolAssumption DEF OnMallocError, TypeOK, Messages
  <2>2. addrInfo' \in [Client -> [Info -> Entries]]
    BY <1>5, <2>1, EntryUpdate DEF OnMallocError
  <2> QED
    BY <1>5, <2>2 DEF OnMallocError, TypeOK
<1>6. ASSUME NEW m \in msgs, OnFreeResponse(m)
      PROVE  TypeOK'
  <2>1. m.client \in Client /\ m.info \in Info
    BY <1>6 DEF OnFreeResponse, TypeOK, Messages
  <2>2. addrInfo' \in [Client -> [Info -> Entries]]
    BY <1>6, <2>1, EntryUpdate DEF OnFreeResponse
  <2> QED
    BY <1>6, <2>2 DEF OnFreeResponse, TypeOK
<1> QED
  BY <1>2, <1>3, <1>4, <1>5, <1>6 DEF ClientEpoll

(* The handlers of the server. *)
LEMMA ServerEpollType ==
  ASSUME TypeOK, NEW c \in Client, ServerEpoll(c)
  PROVE  TypeOK'
<1> USE PoolAssumption
<1> USE DEF clientVars, verbVars, serverVars
<1>1. ASSUME NEW m \in msgs, OnMallocRequest(m)
      PROVE  TypeOK'
  <2>1. /\ m.client \in Client /\ m.info \in Info /\ m.task \in Thread
        /\ m.size \in Size /\ m.size \in Nat
    BY <1>1 DEF OnMallocRequest, TypeOK, Messages
  <2>2. ASSUME NEW a \in Addr \cup {NULL}, NEW len \in Nat
        PROVE  Reply(m, [addr |-> a, len |-> len]) \in Messages
    BY <2>1 DEF Reply, Messages, Mrs
  <2>3. [type |-> "MALLOC_ERROR", client |-> m.client, info |-> m.info, size |-> m.size]
          \in Messages
    BY <2>1 DEF Messages
  <2>4. CASE Grant(m)
    <3>1. PICK a \in Addr \ areaList :
            /\ areaList' = areaList \cup {a}
            /\ areaLen' = [areaLen EXCEPT ![a] = m.size]
            /\ mem' = [mem EXCEPT ![a] = Zero]
            /\ msgs' = (msgs \ {m}) \cup {Reply(m, [addr |-> a, len |-> m.size])}
      BY <2>4 DEF Grant
    <3>2. Reply(m, [addr |-> a, len |-> m.size]) \in Messages
      BY <2>1, <2>2
    <3>3. used' \in [Client -> Int]
      BY <2>1, <2>4 DEF Grant, TypeOK
    <3> QED
      BY <1>1, <2>1, <3>1, <3>2, <3>3 DEF OnMallocRequest, TypeOK
  <2>5. CASE Refuse(m)
    BY <1>1, <2>3, <2>5 DEF OnMallocRequest, Refuse, TypeOK
  <2>6. CASE ReplyGarbage(m)
    <3>1. PICK a \in Addr \cup {NULL}, len \in Size :
            /\ msgs' = (msgs \ {m}) \cup {Reply(m, [addr |-> a, len |-> len])}
            /\ used' = [used EXCEPT ![m.client] = @ + len]
      BY <2>6 DEF ReplyGarbage
    <3>2. Reply(m, [addr |-> a, len |-> len]) \in Messages
      BY <2>2
    <3>3. used' \in [Client -> Int]
      BY <2>1, <3>1 DEF TypeOK
    <3> QED
      BY <1>1, <2>6, <3>1, <3>2, <3>3 DEF OnMallocRequest, ReplyGarbage, TypeOK
  <2> QED
    BY <1>1, <2>4, <2>5, <2>6 DEF OnMallocRequest
<1>2. ASSUME NEW m \in msgs, OnFreeRequest(m)
      PROVE  TypeOK'
  <2>1. m.client \in Client /\ m.info \in Info /\ m.mr.len \in Nat
    BY <1>2 DEF OnFreeRequest, TypeOK, Messages
  <2>2. FreeResponseTo(m) \in Messages
    BY <2>1 DEF FreeResponseTo, Messages
  <2>3. used' \in [Client -> Int]
    BY <1>2, <2>1 DEF OnFreeRequest, TypeOK
  <2>4. msgs' \subseteq Messages
    BY <1>2, <2>2 DEF OnFreeRequest, TypeOK
  <2>5. areaList' \subseteq Addr /\ serverUp' \in BOOLEAN
    BY <1>2 DEF OnFreeRequest, TypeOK
  <2> QED
    BY <1>2, <2>3, <2>4, <2>5 DEF OnFreeRequest, TypeOK
<1> QED
  BY <1>1, <1>2 DEF ServerEpoll
(* The verbs of a client stay with its work thread. *)
LEMMA NextVerbPhase ==
  ASSUME TypeOK, VerbPhase, [Next]_vars
  PROVE  VerbPhase'
<1> USE DEF clientVars, verbVars, serverVars
<1>0. CASE UNCHANGED vars
  BY <1>0 DEF vars, VerbPhase
<1>1. ASSUME NEW t \in Thread, AppThread(t)
      PROVE  VerbPhase'
  BY <1>1 DEF AppThread, CallMalloc, CallFree, CallRead, CallWrite, Return, VerbPhase
<1>2. ASSUME NEW c \in Client, WorkThread(c)
      PROVE  VerbPhase'
  <2>1. CASE TakeWork(c) \/ AddrNotFound(c)
    BY <2>1 DEF TakeWork, AddrNotFound, Handling, FinishWork, IdleWorker, VerbPhase, TypeOK
  <2>2. CASE MallocSend(c) \/ FreeSend(c)
    BY <2>2 DEF MallocSend, FreeSend, Handling, Await, VerbPhase, TypeOK
  <2>3. CASE MallocFinish(c) \/ FreeFinish(c)
    BY <2>3 DEF MallocFinish, FreeFinish, FinishWork, IdleWorker, VerbPhase, TypeOK
  <2>4. CASE ReadPost(c) \/ WritePost(c)
    <3>1. ASSUME NEW pc \in {"read", "write"}, NEW i, Await(c, pc, i)
          PROVE  \A d \in Client : worker'[d].pc = IF d = c THEN pc ELSE worker[d].pc
      BY <3>1 DEF Await, TypeOK, Workers
    <3>2. CASE ReadPost(c)
      BY <3>1, <3>2 DEF ReadPost, Handling, VerbPhase, TypeOK
    <3>3. CASE WritePost(c)
      BY <3>1, <3>3 DEF WritePost, Handling, VerbPhase, TypeOK
    <3> QED
      BY <2>4, <3>2, <3>3
  <2>5. CASE ReadFinish(c) \/ WriteFinish(c)
    BY <2>5 DEF ReadFinish, WriteFinish, FinishWork, IdleWorker, VerbPhase, TypeOK
  <2> QED
    BY <1>2, <2>1, <2>2, <2>3, <2>4, <2>5 DEF WorkThread
<1>3. ASSUME NEW c \in Client, Adapter(c)
      PROVE  VerbPhase'
  BY <1>3 DEF Adapter, PerformWrite, PerformRead, VerbPhase, TypeOK
<1>4. ASSUME NEW c \in Client, ClientEpoll(c)
      PROVE  VerbPhase'
  BY <1>4 DEF ClientEpoll, CompleteWrite, CompleteRead, OnMallocResponse, OnMallocError,
              OnFreeResponse, VerbPhase, TypeOK
<1>5. ASSUME NEW c \in Client, ServerEpoll(c)
      PROVE  VerbPhase'
  BY <1>5 DEF ServerEpoll, OnMallocRequest, OnFreeRequest, VerbPhase
<1> QED
  BY <1>0, <1>1, <1>2, <1>3, <1>4, <1>5 DEF Next

LEMMA NextType ==
  ASSUME TypeOK, VerbPhase, [Next]_vars
  PROVE  TypeOK'
<1>1. CASE UNCHANGED vars
  BY <1>1 DEF vars, clientVars, verbVars, serverVars, TypeOK
<1> QED
  BY <1>1, AppThreadType, WorkThreadType, AdapterType, ClientEpollType, ServerEpollType
     DEF Next

(* Every variable keeps its shape, whatever the applications ask for and       *)
(* however the threads, the adapters and the server interleave.                *)
THEOREM TypeCorrect == Spec => []TypeOK
<1>1. TypeOK /\ VerbPhase /\ [Next]_vars => (TypeOK /\ VerbPhase)'
  BY NextType, NextVerbPhase
<1> QED
  BY InitType, <1>1, PTL DEF Spec

-------------------------------------------------------------------------------
(* The calls.                                                              *)

(* A queued work is not yet known to anyone but its thread. *)
LEMMA SubmitWorkPhase ==
  ASSUME TypeOK, WorkPhase, NEW t \in Thread, NEW w \in Calls, w.op # "none", ~w.done, ~w.recv,
         Submit(t, w), UNCHANGED worker
  PROVE  WorkPhase'
<1> DEFINE c == ClientOf[t]
<1>1. c \in Client
  BY PoolAssumption
<1>2. /\ \A d \in Client : \A k \in 1..Len(workList[d]) :
           workList[d][k] \in Thread /\ workList[d][k] # t
      /\ \A d \in Client : worker[d].pc # "idle" =>
           worker[d].work \in Thread /\ worker[d].work # t
  <2>1. call[t].op = "none"
    BY DEF Submit
  <2>2. \A d \in Client : \A k \in 1..Len(workList[d]) : workList[d][k] \in Thread
    BY DEF TypeOK
  <2>3. \A d \in Client : \A k \in 1..Len(workList[d]) : workList[d][k] # t
    BY <2>1 DEF WorkPhase, Pending
  <2>4. \A d \in Client : worker[d].pc # "idle" => worker[d].work # t
    BY <2>1 DEF WorkPhase, Pending
  <2>5. \A d \in Client : worker[d].pc # "idle" => worker[d].work \in Thread
    BY DEF TypeOK, Workers
  <2> QED
    BY <2>2, <2>3, <2>4, <2>5
<1>3. \A u \in Thread : call'[u] = IF u = t THEN w ELSE call[u]
  BY DEF Submit, TypeOK
<1>4. \A d \in Client : workList'[d] = IF d = c THEN Append(workList[d], t) ELSE workList[d]
  BY DEF Submit, TypeOK
<1>5. /\ Len(workList'[c]) = Len(workList[c]) + 1
      /\ Len(workList[c]) \in Nat
      /\ \A k \in 1..Len(workList[c]) : workList'[c][k] = workList[c][k]
      /\ workList'[c][Len(workList[c]) + 1] = t
  <2>1. workList[c] \in Seq(Thread)
    BY <1>1 DEF TypeOK
  <2>2. workList'[c] = Append(workList[c], t)
    BY <1>1, <1>4
  <2>3. Len(workList[c]) \in Nat
    BY <2>1
  <2>4. Append(workList[c], t)[Len(workList[c]) + 1] = t
    BY <2>1, AppendProperties
  <2>5. \A k \in 1..Len(workList[c]) : Append(workList[c], t)[k] = workList[c][k]
    BY <2>1, AppendProperties
  <2>6. Len(Append(workList[c], t)) = Len(workList[c]) + 1
    BY <2>1, AppendProperties
  <2> QED
    BY <2>2, <2>3, <2>4, <2>5, <2>6
<1>6. ASSUME NEW d \in Client
      PROVE  \A k \in 1..Len(workList'[d]) :
               /\ ClientOf[workList'[d][k]] = d
               /\ call'[workList'[d][k]].op # "none" /\ ~call'[workList'[d][k]].done
               /\ ~call'[workList'[d][k]].recv
               /\ worker'[d].pc # "idle" => worker'[d].work # workList'[d][k]
               /\ \A l \in 1..Len(workList'[d]) :
                    workList'[d][k] = workList'[d][l] => k = l
  <2>1. CASE d # c
    BY <1>2, <1>3, <1>4, <2>1 DEF WorkPhase, Pending
  <2>2. CASE d = c
    <3>1. ASSUME NEW k \in 1..Len(workList'[c])
          PROVE  k \in 1..Len(workList[c]) \/ k = Len(workList[c]) + 1
      BY <1>5, <3>1
    <3> DEFINE n == Len(workList[c])
    <3>2. /\ \A k \in 1..n : workList'[c][k] = workList[c][k] /\ workList[c][k] # t
          /\ workList'[c][n + 1] = t
      BY <1>1, <1>2, <1>5
    <3>3. ASSUME NEW k \in 1..n + 1, NEW l \in 1..n + 1, workList'[c][k] = workList'[c][l]
          PROVE  k = l
      <4>1. (k \in 1..n \/ k = n + 1) /\ (l \in 1..n \/ l = n + 1)
        BY <1>5
      <4>2. \A p, q \in 1..n : workList[c][p] = workList[c][q] => p = q
        BY <1>1 DEF WorkPhase
      <4> HIDE DEF n
      <4>3. CASE k \in 1..n /\ l \in 1..n
        BY <3>2, <3>3, <4>2, <4>3
      <4>4. CASE k = n + 1 /\ l \in 1..n
        BY <3>2, <3>3, <4>4
      <4>5. CASE k \in 1..n /\ l = n + 1
        BY <3>2, <3>3, <4>5
      <4> QED BY <4>1, <4>3, <4>4, <4>5
    <3>4. ASSUME NEW k \in 1..n
          PROVE  /\ ClientOf[workList'[c][k]] = c
                 /\ call'[workList'[c][k]].op # "none" /\ ~call'[workList'[c][k]].done
                 /\ ~call'[workList'[c][k]].recv
                 /\ worker'[c].pc # "idle" => worker'[c].work # workList'[c][k]
      BY <1>1, <1>2, <1>3, <3>2 DEF WorkPhase, Pending
    <3>5. /\ ClientOf[t] = c
          /\ call'[t].op # "none" /\ ~call'[t].done /\ ~call'[t].recv
          /\ worker'[c].pc # "idle" => worker'[c].work # t
      BY <1>1, <1>2, <1>3
    <3>6. Len(workList'[c]) = n + 1 /\ n \in Nat
      BY <1>5
    <3>7. ASSUME NEW k \in 1..n + 1
          PROVE  /\ ClientOf[workList'[c][k]] = c
                 /\ call'[workList'[c][k]].op # "none" /\ ~call'[workList'[c][k]].done
                 /\ ~call'[workList'[c][k]].recv
                 /\ worker'[c].pc # "idle" => worker'[c].work # workList'[c][k]
      BY <3>2, <3>4, <3>5, <3>6, k \in 1..n \/ k = n + 1
    <3> HIDE DEF n
    <3> QED
      BY <2>2, <3>3, <3>6, <3>7
  <2> QED
    BY <2>1, <2>2
<1>7. ASSUME NEW d \in Client, worker'[d].pc # "idle"
      PROVE  /\ ClientOf[worker'[d].work] = d
             /\ call'[worker'[d].work].op # "none" /\ ~call'[worker'[d].work].done
             /\ call'[worker'[d].work].recv => worker'[d].pc = "malloc"
             /\ worker'[d].pc # "start" => call'[worker'[d].work].op = worker'[d].pc
  BY <1>2, <1>3, <1>7 DEF WorkPhase, Pending
<1> QED
  BY <1>6, <1>7 DEF WorkPhase, Pending
(* The oldest work leaves the list and is what the work thread is on.      *)
LEMMA TakeWorkPhase ==
  ASSUME TypeOK, WorkPhase, NEW c \in Client, TakeWork(c)
  PROVE  WorkPhase'
<1> DEFINE q == workList[c]
<1>1. /\ q \in Seq(Thread) /\ q # <<>> /\ Len(q) \in Nat
      /\ workList' = [workList EXCEPT ![c] = Tail(q)]
      /\ worker' = [worker EXCEPT ![c] = [pc |-> "start", work |-> Head(q), info |-> NULL]]
      /\ UNCHANGED call
  BY DEF TakeWork, TypeOK
<1>2. /\ Len(q) >= 1 /\ Head(q) = q[1] /\ Head(q) \in Thread
      /\ Len(Tail(q)) = Len(q) - 1
      /\ \A k \in 1..Len(Tail(q)) : Tail(q)[k] = q[k + 1]
  <2>1. Len(Tail(q)) = Len(q) - 1 /\ \A k \in 1..Len(Tail(q)) : Tail(q)[k] = q[k + 1]
    BY <1>1, HeadTailProperties
  <2>2. Len(q) >= 1 /\ Head(q) = q[1] /\ Head(q) \in Thread
    BY <1>1
  <2> QED
    BY <2>1, <2>2
<1>3. ASSUME NEW d \in Client, d # c
      PROVE  workList'[d] = workList[d] /\ worker'[d] = worker[d]
  BY <1>1, <1>3 DEF TypeOK
<1>4. /\ Len(workList'[c]) = Len(q) - 1
      /\ \A k \in 1..Len(q) - 1 : workList'[c][k] = q[k + 1]
      /\ worker'[c] = [pc |-> "start", work |-> q[1], info |-> NULL]
  BY <1>1, <1>2 DEF TypeOK
<1>5. ASSUME NEW d \in Client
      PROVE  \A k \in 1..Len(workList'[d]) :
               /\ ClientOf[workList'[d][k]] = d
               /\ call'[workList'[d][k]].op # "none" /\ ~call'[workList'[d][k]].done
               /\ ~call'[workList'[d][k]].recv
               /\ worker'[d].pc # "idle" => worker'[d].work # workList'[d][k]
               /\ \A l \in 1..Len(workList'[d]) :
                    workList'[d][k] = workList'[d][l] => k = l
  <2>1. CASE d # c
    BY <1>1, <1>3, <2>1 DEF WorkPhase, Pending
  <2>2. CASE d = c
    <3> DEFINE n == Len(q)
    <3>1. n \in Nat /\ n >= 1
      BY <1>1, <1>2
    <3>2. \A k, l \in 1..n : q[k] = q[l] => k = l
      BY DEF WorkPhase
    <3>3. \A k \in 1..n :
            ClientOf[q[k]] = c /\ call[q[k]].op # "none" /\ ~call[q[k]].done /\ ~call[q[k]].recv
      BY DEF WorkPhase, Pending
    <3>4. \A k \in 1..n - 1 : workList'[c][k] = q[k + 1]
      BY <1>4
    <3> HIDE DEF n, q
    <3>5. 1 \in 1..n /\ \A k \in 1..n - 1 : k + 1 \in 1..n /\ k + 1 # 1
      BY <3>1
    <3>6. \A k \in 1..n - 1 :
            /\ ClientOf[workList'[c][k]] = c
            /\ call[workList'[c][k]].op # "none" /\ ~call[workList'[c][k]].done
            /\ ~call[workList'[c][k]].recv
            /\ q[1] # workList'[c][k]
      BY <3>2, <3>3, <3>4, <3>5
    <3>7. ASSUME NEW k \in 1..n - 1, NEW l \in 1..n - 1, workList'[c][k] = workList'[c][l]
          PROVE  k = l
      <4>1. k + 1 = l + 1
        BY <3>2, <3>4, <3>5, <3>7
      <4> QED
        BY <4>1, <3>1
    <3>8. Len(workList'[c]) = n - 1 /\ worker'[c].work = q[1] /\ UNCHANGED call
      BY <1>1, <1>4 DEF n, q
    <3> QED
      BY <2>2, <3>6, <3>7, <3>8
  <2> QED
    BY <2>1, <2>2
<1>6. ASSUME NEW d \in Client, worker'[d].pc # "idle"
      PROVE  /\ ClientOf[worker'[d].work] = d
             /\ call'[worker'[d].work].op # "none" /\ ~call'[worker'[d].work].done
             /\ call'[worker'[d].work].recv => worker'[d].pc = "malloc"
             /\ worker'[d].pc # "start" => call'[worker'[d].work].op = worker'[d].pc
  <2>1. CASE d # c
    BY <1>1, <1>3, <1>6, <2>1 DEF WorkPhase, Pending
  <2>2. CASE d = c
    BY <1>1, <1>2, <1>4, <2>2 DEF WorkPhase, Pending
  <2> QED
    BY <2>1, <2>2
<1> QED
  BY <1>5, <1>6 DEF WorkPhase, Pending

(* The other steps leave the list alone, and change the calls of nobody    *)
(* who is in it: the work that is finished is the work thread's own, the   *)
(* call that returns is done.                                              *)
LEMMA WorkPhaseUpdate ==
  ASSUME TypeOK, WorkPhase, UNCHANGED workList,
         NEW T \in SUBSET Thread,
         \A t \in Thread \ T : /\ call'[t].op = call[t].op
                               /\ call'[t].done = call[t].done
                               /\ call'[t].recv = call[t].recv,
         \A c \in Client : \A k \in 1..Len(workList[c]) : workList[c][k] \notin T,
         \A c \in Client :
           \/ worker'[c].pc = "idle"
           \/ worker'[c].pc = worker[c].pc /\ worker'[c].work = worker[c].work
                /\ worker[c].work \notin T
           \/ /\ worker[c].pc # "idle" /\ worker'[c].pc # "idle"
              /\ worker'[c].work = worker[c].work
              /\ call'[worker[c].work].op # "none" /\ ~call'[worker[c].work].done
              /\ call'[worker[c].work].op = worker'[c].pc
              /\ call'[worker[c].work].recv => worker'[c].pc = "malloc"
  PROVE  WorkPhase'
<1>1. \A c \in Client : \A k \in 1..Len(workList[c]) : workList[c][k] \in Thread \ T
  BY DEF TypeOK
<1>2. \A c \in Client : worker[c].pc # "idle" => worker[c].work \in Thread
  BY DEF TypeOK, Workers
<1>3. \A c \in Client : worker'[c].pc # "idle" =>
         worker'[c].work = worker[c].work /\ worker[c].pc # "idle"
  OBVIOUS
<1>4. ASSUME NEW d \in Client
      PROVE  \A k \in 1..Len(workList'[d]) :
               /\ ClientOf[workList'[d][k]] = d
               /\ call'[workList'[d][k]].op # "none" /\ ~call'[workList'[d][k]].done
               /\ ~call'[workList'[d][k]].recv
               /\ worker'[d].pc # "idle" => worker'[d].work # workList'[d][k]
               /\ \A l \in 1..Len(workList'[d]) :
                    workList'[d][k] = workList'[d][l] => k = l
  BY <1>1, <1>3 DEF WorkPhase, Pending
<1>5. ASSUME NEW d \in Client, worker'[d].pc # "idle"
      PROVE  /\ ClientOf[worker'[d].work] = d
             /\ call'[worker'[d].work].op # "none" /\ ~call'[worker'[d].work].done
             /\ call'[worker'[d].work].recv => worker'[d].pc = "malloc"
             /\ worker'[d].pc # "start" => call'[worker'[d].work].op = worker'[d].pc
  <2>1. worker[d].work \in Thread /\ worker'[d].work = worker[d].work /\ worker[d].pc # "idle"
    BY <1>2, <1>3, <1>5
  <2>2. CASE worker[d].work \in T
    BY <1>5, <2>1, <2>2 DEF WorkPhase
  <2>3. CASE worker[d].work \notin T
    BY <1>5, <2>1, <2>3 DEF WorkPhase, Pending
  <2> QED
    BY <2>2, <2>3
<1> QED
  BY <1>4, <1>5 DEF WorkPhase, Pending

LEMMA FinishWorkPhase ==
  ASSUME TypeOK, WorkPhase, NEW c \in Client, worker[c].pc # "idle", NEW res,
         FinishWork(c, res), UNCHANGED workList
  PROVE  WorkPhase'
<1> DEFINE T == {worker[c].work}
<1>1. worker[c].work \in Thread
  BY DEF TypeOK, Workers
<1>2. \A t \in Thread \ T : call'[t] = call[t]
  BY DEF FinishWork, TypeOK
<1>3. /\ worker'[c].pc = "idle"
      /\ \A d \in Client \ {c} : worker'[d] = worker[d]
  BY DEF FinishWork, IdleWorker, TypeOK
<1>4. \A d \in Client : \A k \in 1..Len(workList[d]) : workList[d][k] \notin T
  BY DEF WorkPhase
<1>5. \A d \in Client \ {c} : worker[d].pc # "idle" => worker[d].work \notin T
  BY DEF WorkPhase
<1>6. \A d \in Client :
        \/ worker'[d].pc = "idle"
        \/ worker'[d].pc = worker[d].pc /\ worker'[d].work = worker[d].work
             /\ worker[d].work \notin T
  BY <1>3, <1>5
<1>7. T \in SUBSET Thread /\ UNCHANGED workList
  BY <1>1
<1> HIDE DEF T
<1> QED
  BY <1>2, <1>4, <1>6, <1>7, WorkPhaseUpdate

LEMMA AwaitPhase ==
  ASSUME TypeOK, WorkPhase, NEW c \in Client, NEW pc \in {"malloc", "free", "read", "write"},
         NEW i, Handling(c, "start", pc), Await(c, pc, i), UNCHANGED <<call, workList>>
  PROVE  WorkPhase'
<1>1. /\ worker'[c].pc = pc /\ worker'[c].work = worker[c].work
      /\ \A d \in Client \ {c} : worker'[d] = worker[d]
  BY DEF Await, TypeOK, Workers
<1>2. /\ worker[c].pc = "start" /\ call[worker[c].work].op = pc
      /\ ~call[worker[c].work].done /\ ~call[worker[c].work].recv
      /\ call[worker[c].work].op # "none"
  BY DEF Handling, WorkPhase, Pending
<1>3. /\ {} \in SUBSET Thread
      /\ \A t \in Thread \ {} : /\ call'[t].op = call[t].op
                                 /\ call'[t].done = call[t].done
                                 /\ call'[t].recv = call[t].recv
      /\ \A d \in Client : \A k \in 1..Len(workList[d]) : workList[d][k] \notin {}
  OBVIOUS
<1>4. call' = call /\ workList' = workList
  OBVIOUS
<1>5. \A d \in Client :
        \/ worker'[d].pc = "idle"
        \/ worker'[d].pc = worker[d].pc /\ worker'[d].work = worker[d].work
             /\ worker[d].work \notin {}
        \/ /\ worker[d].pc # "idle" /\ worker'[d].pc # "idle"
           /\ worker'[d].work = worker[d].work
           /\ call'[worker[d].work].op # "none" /\ ~call'[worker[d].work].done
           /\ call'[worker[d].work].op = worker'[d].pc
           /\ call'[worker[d].work].recv => worker'[d].pc = "malloc"
  BY <1>1, <1>2
<1> QED
  BY <1>3, <1>4, <1>5, WorkPhaseUpdate

LEMMA NextWorkPhase ==
  ASSUME TypeOK, VerbPhase, WorkPhase, MessagePhase, [Next]_vars
  PROVE  WorkPhase'
<1> USE DEF clientVars, verbVars, serverVars
<1>0. ASSUME UNCHANGED <<call, workList, worker>>
      PROVE  WorkPhase'
  BY <1>0 DEF WorkPhase, Pending
<1>1. ASSUME NEW t \in Thread, AppThread(t)
      PROVE  WorkPhase'
  <2>1. ASSUME NEW len \in Size, CallMalloc(t, len)
        PROVE  WorkPhase'
    <3>1. PICK i \in Info :
            Submit(t, [NoCall EXCEPT !.op = "malloc", !.info = i, !.len = len])
      BY <2>1 DEF CallMalloc
    <3> DEFINE w == [NoCall EXCEPT !.op = "malloc", !.info = i, !.len = len]
    <3>2. w \in Calls /\ w.op # "none" /\ ~w.done /\ ~w.recv
      BY PoolAssumption DEF NoCall, Calls
    <3> QED
      BY <2>1, <3>1, <3>2, SubmitWorkPhase DEF CallMalloc
  <2>2. ASSUME NEW a \in Addr, NEW v \in Value,
               CallFree(t, a) \/ CallRead(t, a) \/ CallWrite(t, a, v)
        PROVE  WorkPhase'
    <3>1. PICK w \in {[NoCall EXCEPT !.op = "free", !.addr = a],
                      [NoCall EXCEPT !.op = "read", !.addr = a],
                      [NoCall EXCEPT !.op = "write", !.addr = a, !.val = v]} :
            Submit(t, w) /\ UNCHANGED worker
      BY <2>2 DEF CallFree, CallRead, CallWrite
    <3>2. w \in Calls /\ w.op # "none" /\ ~w.done /\ ~w.recv
      BY PoolAssumption DEF NoCall, Calls
    <3> QED
      BY <3>1, <3>2, SubmitWorkPhase
  <2>3. ASSUME Return(t)
        PROVE  WorkPhase'
    <3>1. /\ \A d \in Client : \A k \in 1..Len(workList[d]) : workList[d][k] \notin {t}
          /\ \A d \in Client : worker[d].pc # "idle" => worker[d].work \notin {t}
      BY <2>3 DEF Return, WorkPhase, Pending
    <3>2. \A u \in Thread \ {t} : call'[u] = call[u]
      BY <2>3 DEF Return, TypeOK
    <3>3. UNCHANGED workList /\ \A d \in Client : worker'[d] = worker[d]
      BY <2>3 DEF Return
    <3> QED
      BY <3>1, <3>2, <3>3, WorkPhaseUpdate
  <2> QED
    BY <1>1, <2>1, <2>2, <2>3, PoolAssumption DEF AppThread
<1>2. ASSUME NEW c \in Client, WorkThread(c)
      PROVE  WorkPhase'
  <2>1. CASE TakeWork(c)
    BY <2>1, TakeWorkPhase
  <2>2. CASE AddrNotFound(c) \/ MallocFinish(c) \/ FreeFinish(c) \/ ReadFinish(c) \/ WriteFinish(c)
    <3>1. worker[c].pc # "idle" /\ UNCHANGED workList
      BY <2>2 DEF AddrNotFound, Handling, MallocFinish, FreeFinish, ReadFinish, WriteFinish
    <3>2. PICK res : FinishWork(c, res)
      BY <2>2 DEF AddrNotFound, MallocFinish, FreeFinish, ReadFinish, WriteFinish
    <3> QED
      BY <3>1, <3>2, FinishWorkPhase
  <2>3. CASE MallocSend(c) \/ FreeSend(c) \/ ReadPost(c) \/ WritePost(c)
    <3>1. PICK pc \in {"malloc", "free", "read", "write"} :
            Handling(c, "start", pc) /\ \E i : Await(c, pc, i)
      BY <2>3 DEF MallocSend, FreeSend, ReadPost, WritePost
    <3>2. UNCHANGED <<call, workList>>
      BY <2>3 DEF MallocSend, FreeSend, ReadPost, WritePost
    <3> QED
      BY <3>1, <3>2, AwaitPhase
  <2> QED
    BY <1>2, <2>1, <2>2, <2>3 DEF WorkThread
<1>3. ASSUME NEW c \in Client, Adapter(c)
      PROVE  WorkPhase'
  <2>1. UNCHANGED <<workList, worker>>
    BY <1>3 DEF Adapter, PerformWrite, PerformRead
  <2>2. \A t \in Thread : /\ call'[t].op = call[t].op
                          /\ call'[t].done = call[t].done
                          /\ call'[t].recv = call[t].recv
    <3>1. CASE UNCHANGED call
      BY <3>1
    <3>2. ASSUME NEW u, NEW v, call' = [call EXCEPT ![u].res = v]
          PROVE  \A t \in Thread : /\ call'[t].op = call[t].op
                                   /\ call'[t].done = call[t].done
                                   /\ call'[t].recv = call[t].recv
      <4>1. \A t \in Thread : call[t] \in Calls
        BY DEF TypeOK
      <4>2. \A t \in Thread : call'[t] = IF t = u THEN [call[t] EXCEPT !.res = v] ELSE call[t]
        BY <3>2 DEF TypeOK
      <4> QED
        BY <4>1, <4>2 DEF Calls
    <3> QED
      BY <1>3, <3>1, <3>2 DEF Adapter, PerformWrite, PerformRead
  <2>3. /\ {} \in SUBSET Thread
        /\ \A t \in Thread \ {} : /\ call'[t].op = call[t].op
                                   /\ call'[t].done = call[t].done
                                   /\ call'[t].recv = call[t].recv
        /\ \A d \in Client : \A k \in 1..Len(workList[d]) : workList[d][k] \notin {}
    BY <2>2
  <2>4. \A d \in Client : worker'[d].pc = worker[d].pc /\ worker'[d].work = worker[d].work
                           /\ worker[d].work \notin {}
    BY <2>1
  <2> QED
    BY <2>1, <2>3, <2>4, WorkPhaseUpdate
<1>4. ASSUME NEW c \in Client, ClientEpoll(c)
      PROVE  WorkPhase'
  <2>1. CASE UNCHANGED <<call, workList, worker>>
    BY <1>0, <2>1
  <2>2. ASSUME NEW m \in msgs, OnMallocResponse(m)
        PROVE  WorkPhase'
    <3> DEFINE d == m.client
    <3>1. d \in Client /\ m.task \in Thread
      BY <2>2 DEF OnMallocResponse, TypeOK, Messages
    <3>2. worker[d].pc = "malloc" /\ worker[d].work = m.task
      BY <2>2 DEF OnMallocResponse, MessagePhase, MessageOK
    <3>3. UNCHANGED <<workList, worker>>
      BY <2>2 DEF OnMallocResponse
    <3>4. /\ \A t \in Thread \ {m.task} : call'[t] = call[t]
          /\ call'[m.task].op = call[m.task].op
          /\ call'[m.task].done = call[m.task].done
      BY <2>2, <3>1 DEF OnMallocResponse, TypeOK, Calls
    <3>5. /\ \A e \in Client : \A k \in 1..Len(workList[e]) : workList[e][k] \notin {m.task}
          /\ \A e \in Client \ {d} : worker[e].pc # "idle" => worker[e].work \notin {m.task}
          /\ call[m.task].op = "malloc" /\ ~call[m.task].done
      BY <3>1, <3>2 DEF WorkPhase, Pending
    <3>6. ASSUME NEW e \in Client
          PROVE  \/ worker'[e].pc = "idle"
                 \/ worker'[e].pc = worker[e].pc /\ worker'[e].work = worker[e].work
                      /\ worker[e].work \notin {m.task}
                 \/ /\ worker[e].pc # "idle" /\ worker'[e].pc # "idle"
                    /\ worker'[e].work = worker[e].work
                    /\ call'[worker[e].work].op # "none" /\ ~call'[worker[e].work].done
                    /\ call'[worker[e].work].op = worker'[e].pc
                    /\ call'[worker[e].work].recv => worker'[e].pc = "malloc"
      BY <3>2, <3>3, <3>4, <3>5
    <3> QED
      BY <3>1, <3>3, <3>4, <3>5, <3>6, WorkPhaseUpdate
  <2> QED
    BY <1>4, <2>1, <2>2 DEF ClientEpoll, CompleteWrite, CompleteRead, OnMallocError, OnFreeResponse
<1>5. ASSUME NEW c \in Client, ServerEpoll(c)
      PROVE  WorkPhase'
  BY <1>0, <1>5 DEF ServerEpoll, OnMallocRequest, OnFreeRequest
<1> QED
  BY <1>0, <1>1, <1>2, <1>3, <1>4, <1>5 DEF Next, vars
(* A step for client c concerns nobody else's messages.                    *)
LEMMA MessageTypes ==
  ASSUME TypeOK, NEW m \in msgs
  PROVE  /\ m.client \in Client /\ m.info \in Info
         /\ m.type \in {"MALLOC_REQUEST", "MALLOC_RESPONSE", "MALLOC_ERROR",
                        "FREE_REQUEST", "FREE_RESPONSE"}
         /\ m.type \in {"MALLOC_REQUEST", "MALLOC_RESPONSE"} => m.task \in Thread
  BY DEF TypeOK, Messages

LEMMA MessageUpdate ==
  ASSUME TypeOK, MessagePhase, NEW c \in Client,
         \A m \in msgs' : m.client # c => m \in msgs,
         \A d \in Client \ {c} :
           /\ worker'[d] = worker[d] /\ addrInfo'[d] = addrInfo[d]
           /\ worker[d].pc = "malloc" => call'[worker[d].work].recv = call[worker[d].work].recv,
         \A m \in msgs' : m.client = c => MessageOK(m)',
         \A m, n \in msgs' : m.client = c /\ n.client = c => m = n
  PROVE  MessagePhase'
<1>1. ASSUME NEW m \in msgs', m.client # c
      PROVE  MessageOK(m)'
  <2>1. m \in msgs /\ MessageOK(m) /\ m.client \in Client \ {c}
    BY <1>1, MessageTypes DEF MessagePhase
  <2> QED
    BY <2>1 DEF MessageOK, Mr
<1>2. \A m, n \in msgs' : m.client = n.client => m = n
  BY DEF MessagePhase
<1> QED
  BY <1>1, <1>2 DEF MessagePhase

(* Where the work thread stands says whether a message can be in flight.   *)
LEMMA NoMessage ==
  ASSUME TypeOK, MessagePhase, NEW c \in Client,
         \/ worker[c].pc \notin {"malloc", "free"}
         \/ worker[c].pc = "malloc" /\ call[worker[c].work].recv
         \/ worker[c].pc = "free" /\ addrInfo[c][worker[c].info].addr = NULL
  PROVE  \A m \in msgs : m.client # c
<1> SUFFICES ASSUME NEW m \in msgs, m.client = c
             PROVE  FALSE
  OBVIOUS
<1> QED
  BY MessageTypes DEF MessagePhase, MessageOK
LEMMA NewMessage ==
  ASSUME TypeOK, MessagePhase, NEW c \in Client,
         \A m \in msgs : m.client # c,
         \A d \in Client \ {c} :
           /\ worker'[d] = worker[d] /\ addrInfo'[d] = addrInfo[d]
           /\ worker[d].pc = "malloc" => call'[worker[d].work].recv = call[worker[d].work].recv,
         NEW r, r.client = c, msgs' = msgs \cup {r}, MessageOK(r)'
  PROVE  MessagePhase'
<1>1. /\ \A m \in msgs' : m.client = c => m = r
      /\ \A m \in msgs' : m.client # c => m \in msgs
  OBVIOUS
<1> QED
  BY <1>1, MessageUpdate

(* Two work threads are never on the same work.                            *)
LEMMA WorksDiffer ==
  ASSUME TypeOK, WorkPhase, NEW c \in Client, NEW d \in Client, c # d,
         worker[c].pc # "idle", worker[d].pc # "idle"
  PROVE  worker[d].work \in Thread /\ worker[d].work # worker[c].work
<1>1. worker[d].work \in Thread
  BY DEF TypeOK, Workers
<1>2. ClientOf[worker[c].work] = c /\ ClientOf[worker[d].work] = d
  BY DEF WorkPhase
<1> QED
  BY <1>1, <1>2

(* The entry a message names is allocated.                                 *)
LEMMA MessageEntryLive ==
  ASSUME TypeOK, WorkPhase, MessagePhase, EntryPhase, NEW m \in msgs
  PROVE  /\ addrInfo[m.client][m.info].live
         /\ m.info \notin ht[m.client]
<1> DEFINE c == m.client
<1>1. c \in Client /\ worker[c].info = m.info /\ worker[c].pc \in {"malloc", "free"}
  BY MessageTypes DEF MessagePhase, MessageOK
<1>2. CASE worker[c].pc = "malloc"
  <2> DEFINE t == worker[c].work
  <2>1. t \in Thread /\ ClientOf[t] = c /\ PendingMalloc(t) /\ call[t].info = m.info
    BY <1>1, <1>2 DEF TypeOK, Workers, WorkPhase, Pending, PendingMalloc, EntryPhase, WorkerEntry
  <2> QED
    BY <2>1 DEF EntryPhase, MallocsApart
<1>3. CASE worker[c].pc = "free"
  BY <1>1, <1>3 DEF EntryPhase, WorkerEntry
<1> QED
  BY <1>1, <1>2, <1>3

LEMMA NextMessagePhase ==
  ASSUME TypeOK, VerbPhase, WorkPhase, MessagePhase, EntryPhase, [Next]_vars
  PROVE  MessagePhase'
<1> USE DEF clientVars, verbVars, serverVars
<1>0. ASSUME UNCHANGED <<worker, addrInfo, msgs>>,
             \A c \in Client : worker[c].pc = "malloc" =>
               call'[worker[c].work].recv = call[worker[c].work].recv
      PROVE  MessagePhase'
  BY <1>0, MessageTypes DEF MessagePhase, MessageOK, Mr
<1>1. ASSUME NEW t \in Thread, AppThread(t)
      PROVE  MessagePhase'
  <2>1. UNCHANGED <<worker, msgs>>
    BY <1>1 DEF AppThread, CallMalloc, CallFree, CallRead, CallWrite, Return
  <2>2. \A u \in Thread \ {t} : call'[u] = call[u]
    BY <1>1 DEF AppThread, CallMalloc, CallFree, CallRead, CallWrite, Submit, Return, TypeOK
  <2>3. call[t].op = "none" \/ call[t].done
    BY <1>1 DEF AppThread, CallMalloc, CallFree, CallRead, CallWrite, Submit, Return
  <2>4. \A c \in Client : worker[c].pc # "idle" => worker[c].work \in Thread \ {t}
    BY <2>3 DEF WorkPhase, Pending, TypeOK, Workers
  <2>5. \A m \in msgs : addrInfo'[m.client][m.info] = addrInfo[m.client][m.info]
    <3>1. CASE UNCHANGED addrInfo
      BY <3>1
    <3>2. ASSUME NEW len \in Size, CallMalloc(t, len)
          PROVE  \A m \in msgs : addrInfo'[m.client][m.info] = addrInfo[m.client][m.info]
      <4>1. PICK i \in Info :
              /\ ~addrInfo[ClientOf[t]][i].live
              /\ addrInfo' = [addrInfo EXCEPT ![ClientOf[t]][i] =
                                [@ EXCEPT !.live = TRUE, !.len = 0]]
        BY <3>2 DEF CallMalloc
      <4> QED
        BY <4>1, MessageEntryLive, MessageTypes DEF TypeOK
    <3> QED
      BY <1>1, <3>1, <3>2 DEF AppThread, CallFree, CallRead, CallWrite, Return
  <2> QED
    BY <2>1, <2>2, <2>4, <2>5, MessageTypes DEF MessagePhase, MessageOK, Mr
<1>2. ASSUME NEW c \in Client, WorkThread(c)
      PROVE  MessagePhase'
  <2>1. \A d \in Client \ {c} : worker'[d] = worker[d] /\ addrInfo'[d] = addrInfo[d]
    BY <1>2 DEF WorkThread, TakeWork, AddrNotFound, FinishWork, MallocSend, MallocFinish, FreeSend,
                FreeFinish, ReadPost, ReadFinish, WritePost, WriteFinish, Await, TypeOK
  <2>2. \A d \in Client \ {c} : worker[d].pc = "malloc" =>
          call'[worker[d].work].recv = call[worker[d].work].recv
    <3>1. CASE UNCHANGED call
      BY <3>1
    <3>2. ASSUME NEW res, FinishWork(c, res), worker[c].pc # "idle"
          PROVE  \A d \in Client \ {c} : worker[d].pc = "malloc" => call'[worker[d].work] = call[worker[d].work]
      <4>1. \A t \in Thread \ {worker[c].work} : call'[t] = call[t]
        BY <3>2 DEF FinishWork, TypeOK
      <4> QED
        BY <3>2, <4>1, WorksDiffer
    <3> QED
      BY <1>2, <3>1, <3>2 DEF WorkThread, TakeWork, AddrNotFound, Handling, MallocSend,
         MallocFinish, FreeSend, FreeFinish, ReadPost, ReadFinish, WritePost, WriteFinish
  <2>3. CASE TakeWork(c) \/ AddrNotFound(c) \/ MallocFinish(c) \/ FreeFinish(c)
               \/ ReadPost(c) \/ ReadFinish(c) \/ WritePost(c) \/ WriteFinish(c)
    <3>1. \A m \in msgs : m.client # c
      BY <2>3, NoMessage DEF TakeWork, AddrNotFound, Handling, MallocFinish, FreeFinish,
         ReadPost, ReadFinish, WritePost, WriteFinish
    <3>2. msgs' = msgs
      BY <2>3 DEF TakeWork, AddrNotFound, MallocFinish, FreeFinish,
         ReadPost, ReadFinish, WritePost, WriteFinish
    <3> QED
      BY <2>1, <2>2, <3>1, <3>2, MessageUpdate
  <2>4. CASE MallocSend(c)
    <3>1. PICK t, n : /\ t = worker[c].work
                      /\ n = [type |-> "MALLOC_REQUEST", client |-> c, info |-> call[t].info,
                              task |-> t, size |-> call[t].len]
      OBVIOUS
    <3>2. \A m \in msgs : m.client # c
      BY <2>4, NoMessage DEF MallocSend, Handling
    <3>3. msgs' = msgs \cup {n} /\ n.client = c
      BY <2>4, <3>1 DEF MallocSend
    <3>4. MessageOK(n)'
      <4>1. worker'[c].pc = "malloc" /\ worker'[c].info = call[t].info /\ worker'[c].work = t
        BY <2>4, <3>1 DEF MallocSend, Await, TypeOK, Workers
      <4>2. ~call'[t].recv
        BY <2>4, <3>1 DEF MallocSend, Handling, WorkPhase
      <4> QED
        BY <3>1, <4>1, <4>2 DEF MessageOK
    <3> QED
      BY <2>1, <2>2, <3>2, <3>3, <3>4, NewMessage
  <2>5. CASE FreeSend(c)
    <3>1. PICK i \in Lookup(c, call[worker[c].work].addr) :
            msgs' = msgs \cup {FreeRequestOf(c, i, Mr(c, i))} /\ Await(c, "free", i)
      BY <2>5 DEF FreeSend
    <3>0. PICK n : n = FreeRequestOf(c, i, Mr(c, i))
      OBVIOUS
    <3>2. \A m \in msgs : m.client # c
      BY <2>5, NoMessage DEF FreeSend, Handling
    <3>3. addrInfo[c][i].addr # NULL
      <4>1. worker[c].work \in Thread /\ call[worker[c].work].op = "free"
        BY <2>5 DEF FreeSend, Handling, TypeOK, Workers
      <4> QED
        <5>1. call[worker[c].work].addr \in Addr
          BY <4>1 DEF TypeOK, Calls
        <5> QED
          BY <3>1, <5>1, PoolAssumption DEF Lookup
    <3>4. MessageOK(n)'
      <4>1. worker'[c].pc = "free" /\ worker'[c].info = i
        BY <3>1 DEF Await, TypeOK, Workers
      <4>2. addrInfo' = addrInfo
        BY <2>5 DEF FreeSend
      <4> QED
        BY <3>0, <3>3, <4>1, <4>2 DEF MessageOK, FreeRequestOf, Mr
    <3>5. n.client = c
      BY <3>0 DEF FreeRequestOf
    <3> QED
      BY <2>1, <2>2, <3>0, <3>1, <3>2, <3>4, <3>5, NewMessage
  <2> QED
    BY <1>2, <2>3, <2>4, <2>5 DEF WorkThread
<1>3. ASSUME NEW c \in Client, Adapter(c)
      PROVE  MessagePhase'
  <2>1. UNCHANGED <<worker, addrInfo, msgs>>
    BY <1>3 DEF Adapter, PerformWrite, PerformRead
  <2>2. CASE UNCHANGED call
    BY <1>0, <2>1, <2>2
  <2>3. ASSUME NEW u, NEW v, call' = [call EXCEPT ![u].res = v]
        PROVE  MessagePhase'
    <3>1. \A d \in Client : worker[d].pc = "malloc" =>
            call'[worker[d].work].recv = call[worker[d].work].recv
      <4>1. ASSUME NEW d \in Client, worker[d].pc = "malloc"
            PROVE  call[worker[d].work] \in Calls
        BY <4>1 DEF TypeOK, Workers
      <4>2. ASSUME NEW d \in Client, worker[d].pc = "malloc"
            PROVE  call'[worker[d].work] = IF worker[d].work = u
                      THEN [call[worker[d].work] EXCEPT !.res = v] ELSE call[worker[d].work]
        BY <2>3, <4>2 DEF TypeOK, Workers
      <4> QED
        BY <4>1, <4>2 DEF Calls
    <3> QED
      BY <1>0, <2>1, <3>1
  <2> QED
    BY <1>3, <2>2, <2>3 DEF Adapter, PerformWrite, PerformRead
<1>4. ASSUME NEW c \in Client, ClientEpoll(c)
      PROVE  MessagePhase'
  <2>1. CASE CompleteWrite(c)
    <3>1. UNCHANGED <<call, worker, msgs>>
      BY <2>1 DEF CompleteWrite
    <3>2. \A m \in msgs : Mr(m.client, m.info)' = Mr(m.client, m.info)
      <4>1. \A d \in Client, i \in Info :
              /\ addrInfo'[d][i].addr = addrInfo[d][i].addr
              /\ addrInfo'[d][i].len = addrInfo[d][i].len
        BY <2>1 DEF CompleteWrite, TypeOK, Entries
      <4> QED
        BY <4>1, MessageTypes DEF Mr
    <3> QED
      BY <3>1, <3>2, MessageTypes DEF MessagePhase, MessageOK, Mr
  <2>2. CASE CompleteRead(c)
    BY <1>0, <2>2 DEF CompleteRead
  <2>3. ASSUME NEW m \in msgs, m.client = c,
               OnMallocResponse(m) \/ OnMallocError(m) \/ OnFreeResponse(m)
        PROVE  MessagePhase'
    <3>1. /\ msgs' = msgs \ {m} /\ UNCHANGED worker
          /\ \A d \in Client \ {c} : addrInfo'[d] = addrInfo[d]
      BY <2>3 DEF OnMallocResponse, OnMallocError, OnFreeResponse, TypeOK
    <3>2. \A d \in Client \ {c} : worker[d].pc = "malloc" =>
            call'[worker[d].work].recv = call[worker[d].work].recv
      <4>1. CASE UNCHANGED call
        BY <4>1
      <4>2. CASE OnMallocResponse(m)
        <5>1. worker[c].pc = "malloc" /\ worker[c].work = m.task /\ m.task \in Thread
          BY <2>3, <4>2, MessageTypes DEF OnMallocResponse, MessagePhase, MessageOK
        <5>2. \A t \in Thread \ {m.task} : call'[t] = call[t]
          BY <4>2 DEF OnMallocResponse, TypeOK
        <5>3. c \in Client /\ worker[c].pc # "idle"
          BY <5>1
        <5> QED
          BY <5>1, <5>2, <5>3, WorksDiffer
      <4> QED
        BY <2>3, <4>1, <4>2 DEF OnMallocError, OnFreeResponse
    <3>3. \A n \in msgs' : n.client # c
      BY <2>3, <3>1 DEF MessagePhase
    <3> QED
      BY <2>3, <3>1, <3>2, <3>3, MessageUpdate
  <2> QED
    BY <1>4, <2>1, <2>2, <2>3 DEF ClientEpoll
<1>5. ASSUME NEW c \in Client, ServerEpoll(c)
      PROVE  MessagePhase'
  <2>1. PICK m \in msgs : m.client = c /\ (OnMallocRequest(m) \/ OnFreeRequest(m))
    BY <1>5 DEF ServerEpoll
  <2>2. UNCHANGED <<call, worker, addrInfo>>
    BY <2>1 DEF OnMallocRequest, OnFreeRequest
  <2>3. \A n \in msgs : n.client = c => n = m
    BY <2>1 DEF MessagePhase
  <2>4. ASSUME NEW r, msgs' = (msgs \ {m}) \cup {r}, r.client = c, MessageOK(r)
        PROVE  MessagePhase'
    <3>1. \A n \in msgs' : n.client = c => n = r
      BY <2>3, <2>4
    <3>2. MessageOK(r)'
      BY <2>2, <2>4 DEF MessageOK, Mr
    <3>3. \A n \in msgs' : n.client # c => n \in msgs
      BY <2>4
    <3> QED
      BY <2>2, <3>1, <3>2, <3>3, MessageUpdate
  <2>5. CASE OnMallocRequest(m)
    <3>1. MessageOK(m) /\ m.type = "MALLOC_REQUEST"
      BY <2>5 DEF OnMallocRequest, MessagePhase
    <3>2. ASSUME NEW mr
          PROVE  MessageOK(Reply(m, mr)) /\ Reply(m, mr).client = c
      BY <2>1, <3>1 DEF MessageOK, Reply
    <3>3. CASE Grant(m)
      BY <2>4, <3>2, <3>3 DEF Grant
    <3>4. CASE Refuse(m)
      <4> DEFINE r == [type |-> "MALLOC_ERROR", client |-> m.client, info |-> m.info, size |-> m.size]
      <4>1. MessageOK(r) /\ r.client = c
        BY <2>1, <3>1 DEF MessageOK
      <4> QED
        BY <2>4, <3>4, <4>1 DEF Refuse
    <3>5. CASE ReplyGarbage(m)
      BY <2>4, <3>2, <3>5 DEF ReplyGarbage
    <3> QED
      BY <2>5, <3>3, <3>4, <3>5 DEF OnMallocRequest
  <2>6. CASE OnFreeRequest(m)
    <3>1. MessageOK(m) /\ m.type = "FREE_REQUEST"
      BY <2>6 DEF OnFreeRequest, MessagePhase
    <3>2. MessageOK(FreeResponseTo(m)) /\ FreeResponseTo(m).client = c
      BY <2>1, <3>1 DEF MessageOK, FreeResponseTo
    <3>3. CASE msgs' = msgs \ {m}
      BY <2>2, <3>3, MessageTypes DEF MessagePhase, MessageOK, Mr
    <3> QED
      BY <2>4, <2>6, <3>2, <3>3 DEF OnFreeRequest
  <2> QED
    BY <2>1, <2>5, <2>6
<1>6. CASE UNCHANGED vars
  BY <1>0, <1>6 DEF vars
<1> QED
  BY <1>1, <1>2, <1>3, <1>4, <1>5, <1>6 DEF Next
(* What the calls, the entries and the work threads are, as types.         *)
LEMMA EntryTypes ==
  ASSUME TypeOK
  PROVE  /\ \A t \in Thread : call[t] \in Calls /\ ClientOf[t] \in Client
         /\ \A t \in Thread : PendingMalloc(t) => call[t].info \in Info
         /\ \A c \in Client : \A i \in ht[c] : i \in Info
         /\ \A c \in Client : worker[c].pc \notin {"idle", "start"} => worker[c].info \in Info
         /\ \A c \in Client : worker[c].pc # "idle" => worker[c].work \in Thread
  BY PoolAssumption DEF TypeOK, Workers, Calls, PendingMalloc

(* A step that touches neither the calls' kinds nor what is allocated.     *)
LEMMA EntryStays ==
  ASSUME TypeOK, EntryPhase, UNCHANGED <<ht, worker>>,
         \A t \in Thread : /\ call'[t].op = call[t].op
                           /\ call'[t].done = call[t].done
                           /\ call'[t].info = call[t].info,
         \A c \in Client, i \in Info : addrInfo'[c][i].live = addrInfo[c][i].live
  PROVE  EntryPhase'
<1>1. LinkedLive'
  BY EntryTypes DEF EntryPhase, LinkedLive
<1>2. MallocsApart'
  BY EntryTypes DEF EntryPhase, MallocsApart, PendingMalloc
<1>3. WorkerEntry'
  BY EntryTypes DEF EntryPhase, WorkerEntry, PendingMalloc
<1> QED
  BY <1>1, <1>2, <1>3 DEF EntryPhase

(* A call that comes or goes and allocates nothing.                        *)
LEMMA EntryCall ==
  ASSUME TypeOK, WorkPhase, EntryPhase, UNCHANGED <<ht, worker, addrInfo>>, NEW t \in Thread,
         call[t].op = "none" \/ call[t].done,
         call'[t].op # "malloc",
         \A u \in Thread \ {t} : call'[u] = call[u]
  PROVE  EntryPhase'
<1>1. \A c \in Client : worker[c].pc # "idle" => worker[c].work # t
  BY DEF WorkPhase, Pending
<1>2. LinkedLive'
  BY EntryTypes DEF EntryPhase, LinkedLive
<1>3. MallocsApart'
  BY EntryTypes DEF EntryPhase, MallocsApart, PendingMalloc
<1>4. WorkerEntry'
  BY <1>1, EntryTypes DEF EntryPhase, WorkerEntry, PendingMalloc
<1> QED
  BY <1>2, <1>3, <1>4 DEF EntryPhase

LEMMA EntryMalloc ==
  ASSUME TypeOK, WorkPhase, EntryPhase, NEW t \in Thread, NEW len \in Size, CallMalloc(t, len)
  PROVE  EntryPhase'
<1> DEFINE c == ClientOf[t]
<1>1. PICK i \in Info :
        /\ ~addrInfo[c][i].live
        /\ Submit(t, [NoCall EXCEPT !.op = "malloc", !.info = i, !.len = len])
        /\ addrInfo' = [addrInfo EXCEPT ![c][i] = [@ EXCEPT !.live = TRUE, !.len = 0]]
        /\ UNCHANGED <<worker, ht>>
  BY DEF CallMalloc
<1>2. c \in Client /\ call[t].op = "none"
  BY <1>1, PoolAssumption DEF Submit
<1>3. /\ \A u \in Thread \ {t} : call'[u] = call[u]
      /\ call'[t].op = "malloc" /\ ~call'[t].done /\ call'[t].info = i
  BY <1>1 DEF Submit, TypeOK, NoCall
<1>4. \A d \in Client, j \in Info :
        addrInfo'[d][j].live <=> (addrInfo[d][j].live \/ (d = c /\ j = i))
  <2>1. addrInfo'[c][i].live
    BY <1>1, <1>2 DEF TypeOK, Entries
  <2>2. \A d \in Client, j \in Info : d # c \/ j # i => addrInfo'[d][j] = addrInfo[d][j]
    BY <1>1, <1>2 DEF TypeOK
  <2> QED
    BY <2>1, <2>2
<1>5. \A d \in Client : worker[d].pc # "idle" => worker[d].work # t
  BY <1>2 DEF WorkPhase, Pending
<1>6. LinkedLive'
  <2>1. ht' = ht
    BY <1>1
  <2> QED
    BY <1>4, <2>1, EntryTypes DEF EntryPhase, LinkedLive
<1>7. i \notin ht[c]
  BY <1>1, <1>2 DEF EntryPhase, LinkedLive
<1>8. \A u \in Thread \ {t} : PendingMalloc(u) /\ ClientOf[u] = c => call[u].info # i
  BY <1>1 DEF EntryPhase, MallocsApart
<1>9. MallocsApart'
  <2>1. ht' = ht
    BY <1>1
  <2>2. \A u \in Thread \ {t} : PendingMalloc(u)' <=> PendingMalloc(u)
    BY <1>3 DEF PendingMalloc
  <2> SUFFICES ASSUME NEW u \in Thread, PendingMalloc(u)'
               PROVE  /\ addrInfo'[ClientOf[u]][call'[u].info].live
                      /\ call'[u].info \notin ht[ClientOf[u]]
                      /\ \A v \in Thread : PendingMalloc(v)' /\ ClientOf[v] = ClientOf[u]
                                             /\ call'[v].info = call'[u].info => v = u
    BY <2>1 DEF MallocsApart
  <2>3. CASE u = t
    BY <1>1, <1>2, <1>3, <1>4, <1>7, <1>8, <2>2, <2>3
  <2>4. CASE u # t
    <3>1. PendingMalloc(u) /\ call[u].info \in Info /\ ClientOf[u] \in Client
      BY <2>2, <2>4, EntryTypes
    <3> QED
      BY <1>3, <1>4, <1>8, <2>2, <2>4, <3>1 DEF EntryPhase, MallocsApart
  <2> QED
    BY <2>3, <2>4
<1>10. \A d \in Client : worker[d].pc = "free" /\ d = c => worker[d].info # i
  BY <1>1 DEF EntryPhase, WorkerEntry
<1>11. WorkerEntry'
  <2>1. worker' = worker /\ ht' = ht
    BY <1>1
  <2> SUFFICES ASSUME NEW d \in Client
               PROVE  /\ worker[d].pc = "malloc" => worker[d].info = call'[worker[d].work].info
                      /\ worker[d].pc = "free" =>
                           /\ addrInfo'[d][worker[d].info].live
                           /\ worker[d].info \notin ht[d]
                           /\ \A u \in Thread : PendingMalloc(u)' /\ ClientOf[u] = d =>
                                call'[u].info # worker[d].info
                      /\ worker[d].pc \in {"read", "write"} => worker[d].info \in ht[d]
    BY <2>1 DEF WorkerEntry
  <2>2. CASE worker[d].pc = "malloc"
    BY <1>3, <1>5, <2>2, EntryTypes DEF EntryPhase, WorkerEntry
  <2>3. CASE worker[d].pc = "free"
    <3>1. worker[d].info \in Info /\ addrInfo'[d][worker[d].info].live
      BY <1>4, <2>3, EntryTypes DEF EntryPhase, WorkerEntry
    <3>2. ASSUME NEW u \in Thread, PendingMalloc(u)', ClientOf[u] = d
          PROVE  call'[u].info # worker[d].info
      BY <1>3, <1>10, <2>3, <3>2 DEF EntryPhase, WorkerEntry, PendingMalloc
    <3> QED
      BY <2>3, <3>1, <3>2 DEF EntryPhase, WorkerEntry
  <2> QED
    BY <2>2, <2>3 DEF EntryPhase, WorkerEntry
<1> QED
  BY <1>6, <1>9, <1>11 DEF EntryPhase

(* The work thread of one client moves on and allocates nothing.           *)
LEMMA EntryAwait ==
  ASSUME TypeOK, EntryPhase, NEW c \in Client,
         call' = call,
         \A d \in Client, i \in Info : addrInfo'[d][i].live = addrInfo[d][i].live,
         \A d \in Client \ {c} : worker'[d] = worker[d] /\ ht'[d] = ht[d],
         ht'[c] \subseteq ht[c],
         worker'[c].pc = "malloc" => worker'[c].info = call[worker'[c].work].info,
         worker'[c].pc = "free" => /\ worker'[c].info \in ht[c]
                                   /\ worker'[c].info \notin ht'[c],
         worker'[c].pc \in {"read", "write"} => worker'[c].info \in ht'[c]
  PROVE  EntryPhase'
<1>1. LinkedLive'
  <2> SUFFICES ASSUME NEW d \in Client, NEW i \in ht'[d]
               PROVE  addrInfo'[d][i].live
    BY DEF LinkedLive
  <2>1. i \in ht[d]
    BY DEF EntryPhase
  <2> QED
    BY <2>1, EntryTypes DEF EntryPhase, LinkedLive
<1>2. MallocsApart'
  <2> SUFFICES ASSUME NEW u \in Thread, PendingMalloc(u)
               PROVE  /\ addrInfo'[ClientOf[u]][call[u].info].live
                      /\ call[u].info \notin ht'[ClientOf[u]]
                      /\ \A v \in Thread : PendingMalloc(v) /\ ClientOf[v] = ClientOf[u]
                                             /\ call[v].info = call[u].info => v = u
    BY DEF MallocsApart, PendingMalloc
  <2>1. call[u].info \in Info /\ ClientOf[u] \in Client
    BY EntryTypes
  <2> QED
    BY <2>1 DEF EntryPhase, MallocsApart
<1>3. WorkerEntry'
  <2> SUFFICES ASSUME NEW d \in Client
               PROVE  /\ worker'[d].pc = "malloc" => worker'[d].info = call[worker'[d].work].info
                      /\ worker'[d].pc = "free" =>
                           /\ addrInfo'[d][worker'[d].info].live
                           /\ worker'[d].info \notin ht'[d]
                           /\ \A t \in Thread : PendingMalloc(t) /\ ClientOf[t] = d =>
                                call[t].info # worker'[d].info
                      /\ worker'[d].pc \in {"read", "write"} => worker'[d].info \in ht'[d]
    BY DEF WorkerEntry, PendingMalloc
  <2>1. CASE d = c
    <3>1. CASE worker'[c].pc = "free"
      <4>1. worker'[c].info \in Info /\ addrInfo[c][worker'[c].info].live
        BY <3>1, EntryTypes DEF EntryPhase, LinkedLive
      <4>2. \A t \in Thread : PendingMalloc(t) /\ ClientOf[t] = c =>
              call[t].info # worker'[c].info
        BY <3>1 DEF EntryPhase, MallocsApart
      <4> QED
        BY <2>1, <3>1, <4>1, <4>2
    <3> QED
      BY <2>1, <3>1
  <2>2. CASE d # c
    BY <2>2, EntryTypes DEF EntryPhase, WorkerEntry
  <2> QED
    BY <2>1, <2>2
<1> QED
  BY <1>1, <1>2, <1>3 DEF EntryPhase

(* The work thread of one client is done with its work.                    *)
LEMMA EntryFinish ==
  ASSUME TypeOK, WorkPhase, EntryPhase, NEW c \in Client, NEW res, worker[c].pc # "idle",
         FinishWork(c, res),
         \A d \in Client \ {c} : ht'[d] = ht[d],
         \A d \in Client \ {c}, i \in Info : addrInfo'[d][i].live = addrInfo[d][i].live,
         \A i \in Info : addrInfo'[c][i].live # addrInfo[c][i].live =>
           /\ i \notin ht'[c]
           /\ \A t \in Thread \ {worker[c].work} :
                PendingMalloc(t) /\ ClientOf[t] = c => call[t].info # i,
         \A i \in ht'[c] \ ht[c] : /\ i \in Info /\ addrInfo[c][i].live
                                   /\ \A t \in Thread \ {worker[c].work} :
                                        PendingMalloc(t) /\ ClientOf[t] = c => call[t].info # i
  PROVE  EntryPhase'
<1>1. /\ worker[c].work \in Thread /\ ClientOf[worker[c].work] = c
      /\ call'[worker[c].work].done
      /\ \A t \in Thread \ {worker[c].work} : call'[t] = call[t]
      /\ worker'[c].pc = "idle"
      /\ \A d \in Client \ {c} : worker'[d] = worker[d]
  BY EntryTypes DEF WorkPhase, FinishWork, TypeOK, IdleWorker, Calls
<1>2. \A t \in Thread : PendingMalloc(t)' =>
        t # worker[c].work /\ PendingMalloc(t) /\ call'[t] = call[t]
  BY <1>1 DEF PendingMalloc
<1>3. LinkedLive'
  <2> SUFFICES ASSUME NEW d \in Client, NEW i \in ht'[d]
               PROVE  addrInfo'[d][i].live
    BY DEF LinkedLive
  <2>1. CASE d = c /\ i \in ht[c]
    BY <2>1, EntryTypes DEF EntryPhase, LinkedLive
  <2>2. CASE d = c /\ i \notin ht[c]
    BY <2>2
  <2>3. CASE d # c
    BY <2>3, EntryTypes DEF EntryPhase, LinkedLive
  <2> QED
    BY <2>1, <2>2, <2>3
<1>4. MallocsApart'
  <2> SUFFICES ASSUME NEW u \in Thread, PendingMalloc(u)'
               PROVE  /\ addrInfo'[ClientOf[u]][call'[u].info].live
                      /\ call'[u].info \notin ht'[ClientOf[u]]
                      /\ \A v \in Thread : PendingMalloc(v)' /\ ClientOf[v] = ClientOf[u]
                                             /\ call'[v].info = call'[u].info => v = u
    BY DEF MallocsApart
  <2>1. /\ u # worker[c].work /\ PendingMalloc(u) /\ call'[u] = call[u]
        /\ call[u].info \in Info /\ ClientOf[u] \in Client
    BY <1>2, EntryTypes
  <2>2. addrInfo[ClientOf[u]][call[u].info].live /\ call[u].info \notin ht[ClientOf[u]]
    BY <2>1 DEF EntryPhase, MallocsApart
  <2>3. addrInfo'[ClientOf[u]][call[u].info].live /\ call[u].info \notin ht'[ClientOf[u]]
    BY <2>1, <2>2
  <2> QED
    BY <1>2, <2>1, <2>3 DEF EntryPhase, MallocsApart
<1>5. WorkerEntry'
  <2> SUFFICES ASSUME NEW d \in Client
               PROVE  /\ worker'[d].pc = "malloc" => worker'[d].info = call'[worker'[d].work].info
                      /\ worker'[d].pc = "free" =>
                           /\ addrInfo'[d][worker'[d].info].live
                           /\ worker'[d].info \notin ht'[d]
                           /\ \A t \in Thread : PendingMalloc(t)' /\ ClientOf[t] = d =>
                                call'[t].info # worker'[d].info
                      /\ worker'[d].pc \in {"read", "write"} => worker'[d].info \in ht'[d]
    BY DEF WorkerEntry
  <2>1. CASE d = c
    BY <1>1, <2>1
  <2>2. CASE d # c
    <3>1. worker'[d] = worker[d] /\ ht'[d] = ht[d]
      BY <1>1, <2>2
    <3>2. CASE worker[d].pc = "malloc"
      <4>1. worker[d].work \in Thread /\ worker[d].work # worker[c].work
        BY <1>1, <2>2, <3>2, EntryTypes DEF WorkPhase
      <4> QED
        BY <1>1, <3>1, <3>2, <4>1 DEF EntryPhase, WorkerEntry
    <3>3. CASE worker[d].pc = "free"
      BY <1>2, <2>2, <3>1, <3>3, EntryTypes DEF EntryPhase, WorkerEntry
    <3> QED
      BY <3>1, <3>2, <3>3 DEF EntryPhase, WorkerEntry
  <2> QED
    BY <2>1, <2>2
<1> QED
  BY <1>3, <1>4, <1>5 DEF EntryPhase

LEMMA WorkThreadEntry ==
  ASSUME TypeOK, WorkPhase, EntryPhase, NEW c \in Client, WorkThread(c)
  PROVE  EntryPhase'
<1>0. worker \in [Client -> Workers] /\ ht \in [Client -> SUBSET Info]
  BY DEF TypeOK
<1>1. CASE TakeWork(c)
  <2>1. worker'[c].pc = "start" /\ \A d \in Client \ {c} : worker'[d] = worker[d]
    BY <1>0, <1>1 DEF TakeWork
  <2> QED
    BY <1>1, <2>1, EntryAwait DEF TakeWork
<1>2. CASE AddrNotFound(c)
  <2>1. worker[c].pc # "idle"
    BY <1>2 DEF AddrNotFound, Handling
  <2> QED
    BY <1>2, <2>1, EntryFinish DEF AddrNotFound
<1>3. CASE MallocSend(c)
  <2>1. /\ worker'[c].pc = "malloc" /\ worker'[c].work = worker[c].work
        /\ worker'[c].info = call[worker[c].work].info
        /\ \A d \in Client \ {c} : worker'[d] = worker[d]
    BY <1>0, <1>3 DEF MallocSend, Await, Handling, Workers
  <2> QED
    BY <1>3, <2>1, EntryAwait DEF MallocSend
<1>4. CASE MallocFinish(c)
  <2> DEFINE i == worker[c].info
             w == worker[c].work
  <2>1. /\ worker[c].pc = "malloc" /\ i \in Info /\ i = call[w].info
        /\ w \in Thread /\ ClientOf[w] = c /\ PendingMalloc(w)
    BY <1>4, EntryTypes DEF MallocFinish, EntryPhase, WorkerEntry, WorkPhase, Pending, PendingMalloc
  <2>2. addrInfo[c][i].live /\ i \notin ht[c]
    BY <2>1 DEF EntryPhase, MallocsApart
  <2>3. \A t \in Thread \ {w} : PendingMalloc(t) /\ ClientOf[t] = c => call[t].info # i
    BY <2>1 DEF EntryPhase, MallocsApart
  <2>4. /\ \A d \in Client \ {c} : ht'[d] = ht[d] /\ addrInfo'[d] = addrInfo[d]
        /\ \A j \in Info \ {i} : addrInfo'[c][j] = addrInfo[c][j]
    <3>1. \A d \in Client \ {c} : ht'[d] = ht[d]
      BY <1>0, <1>4 DEF MallocFinish
    <3>2. \A d \in Client \ {c} : addrInfo'[d] = addrInfo[d]
      BY <1>4 DEF MallocFinish, TypeOK
    <3>3. \A j \in Info \ {i} : addrInfo'[c][j] = addrInfo[c][j]
      BY <1>4 DEF MallocFinish, TypeOK
    <3> QED BY <3>1, <3>2, <3>3
  <2>5. FinishWork(c, addrInfo[c][i].addr)
    BY <1>4 DEF MallocFinish
  <2>6. CASE addrInfo[c][i].addr = NULL
    <3>1. ht' = ht
      BY <1>4, <2>6 DEF MallocFinish
    <3>2. worker[c].pc # "idle" /\ ht'[c] \ ht[c] = {}
      BY <2>1, <3>1
    <3>3. \A j \in Info : addrInfo'[c][j].live # addrInfo[c][j].live => j = i
      BY <2>4
    <3>4. i \notin ht'[c]
      BY <2>2, <3>1
    <3> QED
      BY <2>3, <2>4, <2>5, <3>1, <3>2, <3>3, <3>4, EntryFinish
  <2>7. CASE addrInfo[c][i].addr # NULL
    <3>0. /\ addrInfo' = [addrInfo EXCEPT ![c][i].write_flag = FALSE]
          /\ ht' = [ht EXCEPT ![c] = @ \cup {i}]
      BY <1>4, <2>7 DEF MallocFinish
    <3>1. ht'[c] = ht[c] \cup {i} /\ addrInfo'[c][i].live = addrInfo[c][i].live
      BY <1>0, <2>1, <3>0 DEF TypeOK, Entries
    <3>2. \A j \in Info : addrInfo'[c][j].live = addrInfo[c][j].live
      BY <2>4, <3>1
    <3>3. \A j \in ht'[c] \ ht[c] : j = i
      BY <3>1
    <3>4. worker[c].pc # "idle" /\ i \in Info
      BY <2>1
    <3> QED
      BY <2>2, <2>3, <2>4, <2>5, <3>2, <3>3, <3>4, EntryFinish
  <2> QED
    BY <2>6, <2>7
<1>5. CASE FreeSend(c)
  <2>1. PICK i \in Lookup(c, call[worker[c].work].addr) :
          ht' = [ht EXCEPT ![c] = @ \ {i}] /\ Await(c, "free", i)
    BY <1>5 DEF FreeSend
  <2>2. i \in ht[c]
    BY DEF Lookup
  <2>3. /\ worker'[c].pc = "free" /\ worker'[c].info = i
        /\ \A d \in Client \ {c} : worker'[d] = worker[d]
    BY <1>0, <1>5, <2>1 DEF FreeSend, Handling, Await, Workers
  <2>4. ht'[c] = ht[c] \ {i} /\ \A d \in Client \ {c} : ht'[d] = ht[d]
    BY <1>0, <2>1
  <2> QED
    BY <1>5, <2>2, <2>3, <2>4, EntryAwait DEF FreeSend
<1>6. CASE FreeFinish(c)
  <2> DEFINE i == worker[c].info
  <2>1. worker[c].pc = "free" /\ i \in Info /\ FinishWork(c, NULL) /\ ht' = ht
    BY <1>6, EntryTypes DEF FreeFinish
  <2>2. /\ i \notin ht[c]
        /\ \A t \in Thread : PendingMalloc(t) /\ ClientOf[t] = c => call[t].info # i
    BY <2>1 DEF EntryPhase, WorkerEntry
  <2>3. /\ \A d \in Client \ {c} : addrInfo'[d] = addrInfo[d]
        /\ \A j \in Info \ {i} : addrInfo'[c][j] = addrInfo[c][j]
    BY <1>6, <2>1 DEF FreeFinish, TypeOK
  <2> QED
    BY <2>1, <2>2, <2>3, EntryFinish
<1>7. CASE ReadPost(c)
  <2>1. PICK i \in Lookup(c, call[worker[c].work].addr) : Await(c, "read", i)
    BY <1>7 DEF ReadPost
  <2>2. i \in ht[c]
    BY DEF Lookup
  <2>3. /\ worker'[c].pc = "read" /\ worker'[c].info = i
        /\ \A d \in Client \ {c} : worker'[d] = worker[d]
    BY <1>0, <1>7, <2>1 DEF ReadPost, Handling, Await, Workers
  <2> QED
    BY <1>7, <2>2, <2>3, EntryAwait DEF ReadPost
<1>8. CASE ReadFinish(c)
  BY <1>8, EntryFinish DEF ReadFinish
<1>9. CASE WritePost(c)
  <2>1. PICK i \in Lookup(c, call[worker[c].work].addr) :
          /\ addrInfo' = [addrInfo EXCEPT ![c][i].write_flag = TRUE]
          /\ Await(c, "write", i)
    BY <1>9 DEF WritePost
  <2>2. i \in ht[c] /\ i \in Info
    BY EntryTypes DEF Lookup
  <2>3. /\ worker'[c].pc = "write" /\ worker'[c].info = i
        /\ \A d \in Client \ {c} : worker'[d] = worker[d]
    BY <1>0, <1>9, <2>1 DEF WritePost, Handling, Await, Workers
  <2>4. \A d \in Client, j \in Info : addrInfo'[d][j].live = addrInfo[d][j].live
    <3>1. addrInfo'[c][i].live = addrInfo[c][i].live
      BY <2>1, <2>2 DEF TypeOK, Entries
    <3>2. \A d \in Client, j \in Info : d # c \/ j # i => addrInfo'[d][j] = addrInfo[d][j]
      BY <2>1, <2>2 DEF TypeOK
    <3> QED
      BY <3>1, <3>2
  <2> QED
    BY <1>9, <2>2, <2>3, <2>4, EntryAwait DEF WritePost
<1>10. CASE WriteFinish(c)
  BY <1>10, EntryFinish DEF WriteFinish
<1> QED
  BY <1>1, <1>2, <1>3, <1>4, <1>5, <1>6, <1>7, <1>8, <1>9, <1>10 DEF WorkThread

LEMMA NextEntryPhase ==
  ASSUME TypeOK, VerbPhase, WorkPhase, MessagePhase, EntryPhase, [Next]_vars
  PROVE  EntryPhase'
<1> USE DEF clientVars, verbVars, serverVars
<1>1. ASSUME NEW t \in Thread, AppThread(t)
      PROVE  EntryPhase'
  <2>1. ASSUME NEW len \in Size, CallMalloc(t, len)
        PROVE  EntryPhase'
    BY <2>1, EntryMalloc
  <2>2. ASSUME NEW w \in Calls, w.op # "malloc", Submit(t, w), UNCHANGED <<ht, worker, addrInfo>>
        PROVE  EntryPhase'
    <3>1. call[t].op = "none" /\ call'[t] = w /\ \A u \in Thread \ {t} : call'[u] = call[u]
      BY <2>2 DEF Submit, TypeOK
    <3> QED
      BY <2>2, <3>1, EntryCall
  <2>3. ASSUME NEW a \in Addr, CallFree(t, a) \/ CallRead(t, a)
        PROVE  EntryPhase'
    <3>1. \A op \in {"free", "read"} : [NoCall EXCEPT !.op = op, !.addr = a] \in Calls
      BY PoolAssumption DEF NoCall, Calls
    <3>2. PICK op \in {"free", "read"} : Submit(t, [NoCall EXCEPT !.op = op, !.addr = a])
      BY <2>3 DEF CallFree, CallRead
    <3>3. LET w == [NoCall EXCEPT !.op = op, !.addr = a] IN w.op # "malloc"
      BY DEF NoCall
    <3> QED
      BY <2>2, <2>3, <3>1, <3>2, <3>3 DEF CallFree, CallRead
  <2>4. ASSUME NEW a \in Addr, NEW v \in Value, CallWrite(t, a, v)
        PROVE  EntryPhase'
    <3> DEFINE w == [NoCall EXCEPT !.op = "write", !.addr = a, !.val = v]
    <3>1. w \in Calls /\ w.op # "malloc"
      BY PoolAssumption DEF NoCall, Calls
    <3> QED
      BY <2>2, <2>4, <3>1 DEF CallWrite
  <2>5. CASE Return(t)
    <3>1. call[t].done /\ call'[t] = NoCall /\ \A u \in Thread \ {t} : call'[u] = call[u]
      BY <2>5 DEF Return, TypeOK
    <3> QED
      BY <2>5, <3>1, EntryCall DEF Return, NoCall
  <2> QED
    BY <1>1, <2>1, <2>3, <2>4, <2>5 DEF AppThread
<1>2. ASSUME NEW c \in Client, WorkThread(c)
      PROVE  EntryPhase'
  BY <1>2, WorkThreadEntry
<1>3. ASSUME NEW c \in Client, Adapter(c)
      PROVE  EntryPhase'
  <2>1. UNCHANGED <<ht, worker, addrInfo>>
    BY <1>3 DEF Adapter, PerformWrite, PerformRead
  <2>2. \A t \in Thread : /\ call'[t].op = call[t].op
                          /\ call'[t].done = call[t].done
                          /\ call'[t].info = call[t].info
    <3>1. CASE call' = call
      BY <3>1
    <3>2. CASE call' = [call EXCEPT ![worker[c].work].res = mem[Target(c)]]
      BY <3>2 DEF TypeOK, Calls
    <3> QED
      BY <1>3, <3>1, <3>2 DEF Adapter, PerformWrite, PerformRead
  <2> QED
    BY <2>1, <2>2, EntryStays
<1>4. ASSUME NEW c \in Client, ClientEpoll(c)
      PROVE  EntryPhase'
  <2>1. UNCHANGED <<ht, worker>>
    BY <1>4 DEF ClientEpoll, CompleteWrite, CompleteRead, OnMallocResponse, OnMallocError,
                OnFreeResponse
  <2>2. \A t \in Thread : /\ call'[t].op = call[t].op
                          /\ call'[t].done = call[t].done
                          /\ call'[t].info = call[t].info
    <3>1. CASE call' = call
      BY <3>1
    <3>2. ASSUME NEW u, call' = [call EXCEPT ![u].recv = TRUE]
          PROVE  \A t \in Thread : /\ call'[t].op = call[t].op
                                   /\ call'[t].done = call[t].done
                                   /\ call'[t].info = call[t].info
      BY <3>2 DEF TypeOK, Calls
    <3> QED
      BY <1>4, <3>1, <3>2 DEF ClientEpoll, CompleteWrite, CompleteRead, OnMallocResponse,
                              OnMallocError, OnFreeResponse
  <2>3. \A d \in Client, i \in Info : addrInfo'[d][i].live = addrInfo[d][i].live
    <3>1. CASE addrInfo' = addrInfo
      BY <3>1
    <3>2. ASSUME NEW d, NEW i, NEW a, NEW n, NEW b,
                 \/ addrInfo' = [addrInfo EXCEPT ![d][i] = [@ EXCEPT !.addr = a, !.len = n]]
                 \/ addrInfo' = [addrInfo EXCEPT ![d][i].addr = a]
                 \/ addrInfo' = [addrInfo EXCEPT ![d][i].write_flag = b]
          PROVE  \A e \in Client, j \in Info : addrInfo'[e][j].live = addrInfo[e][j].live
      <4>1. \A e \in Client, j \in Info : e # d \/ j # i => addrInfo'[e][j] = addrInfo[e][j]
        BY <3>2 DEF TypeOK
      <4>2. ASSUME d \in Client, i \in Info
            PROVE  addrInfo'[d][i].live = addrInfo[d][i].live
        <5>1. CASE addrInfo' = [addrInfo EXCEPT ![d][i] = [@ EXCEPT !.addr = a, !.len = n]]
          BY <4>2, <5>1 DEF TypeOK, Entries
        <5>2. CASE addrInfo' = [addrInfo EXCEPT ![d][i].addr = a]
          BY <4>2, <5>2 DEF TypeOK, Entries
        <5>3. CASE addrInfo' = [addrInfo EXCEPT ![d][i].write_flag = b]
          BY <4>2, <5>3 DEF TypeOK, Entries
        <5> QED
          BY <3>2, <5>1, <5>2, <5>3
      <4> QED
        BY <4>1, <4>2
    <3>3. CASE CompleteWrite(c)
      BY <3>2, <3>3 DEF CompleteWrite
    <3>4. CASE CompleteRead(c)
      BY <3>1, <3>4 DEF CompleteRead
    <3>5. ASSUME NEW m \in msgs, OnMallocResponse(m) \/ OnMallocError(m) \/ OnFreeResponse(m)
          PROVE  \A d \in Client, i \in Info : addrInfo'[d][i].live = addrInfo[d][i].live
      <4>1. CASE OnMallocResponse(m)
        BY <3>2, <4>1 DEF OnMallocResponse
      <4>2. CASE OnMallocError(m)
        BY <3>2, <4>2 DEF OnMallocError
      <4>3. CASE OnFreeResponse(m)
        BY <3>2, <4>3 DEF OnFreeResponse
      <4> QED
        BY <3>5, <4>1, <4>2, <4>3
    <3> QED
      BY <1>4, <3>3, <3>4, <3>5 DEF ClientEpoll
  <2> QED
    BY <2>1, <2>2, <2>3, EntryStays
<1>5. ASSUME NEW c \in Client, ServerEpoll(c)
      PROVE  EntryPhase'
  <2>1. UNCHANGED <<call, ht, worker, addrInfo>>
    BY <1>5 DEF ServerEpoll, OnMallocRequest, OnFreeRequest
  <2> QED
    BY <2>1, EntryStays
<1>6. CASE UNCHANGED vars
  BY <1>6, EntryStays DEF vars
<1> QED
  BY <1>1, <1>2, <1>3, <1>4, <1>5, <1>6 DEF Next

LEMMA InitCallInv == Init => CallInv
<1> SUFFICES ASSUME Init
             PROVE  CallInv
  OBVIOUS
<1>1. TypeOK /\ VerbPhase
  BY InitType
<1>2. WorkPhase
  BY DEF Init, WorkPhase, IdleWorker
<1>3. MessagePhase
  BY DEF Init, MessagePhase
<1>4. EntryPhase
  BY DEF Init, EntryPhase, LinkedLive, MallocsApart, WorkerEntry, PendingMalloc, IdleWorker, NoCall
<1> QED
  BY <1>1, <1>2, <1>3, <1>4 DEF CallInv

(* The invariant the rest follows from: in every reachable state, for every *)
(* number of clients and threads, the work list, the work thread, the verbs *)
(* and the messages of a client agree on which call is being served.        *)
THEOREM CallsAgree == Spec => []CallInv
<1>1. CallInv /\ [Next]_vars => CallInv'
  BY NextType, NextVerbPhase, NextWorkPhase, NextMessagePhase, NextEntryPhase DEF CallInv
<1> QED
  BY <1>1, InitCallInv, PTL DEF Spec

(* The pointers that travel through the server or the work list are good    *)
(* when they come back, whatever the threads and the adapters do in between. *)
THEOREM PointersStayGood == Spec => []PointersAreGood
<1>1. CallInv => PointersAreGood
  <2> SUFFICES ASSUME CallInv
               PROVE  PointersAreGood
    OBVIOUS
  <2>1. ASSUME NEW m \in msgs
        PROVE  addrInfo[m.client][m.info].live
    BY <2>1, MessageEntryLive DEF CallInv
  <2>2. ASSUME NEW m \in msgs, m.type \in {"MALLOC_REQUEST", "MALLOC_RESPONSE"}
        PROVE  call[m.task].op = "malloc" /\ ~call[m.task].done
    <3>1. m.client \in Client
      BY <2>2, MessageTypes DEF CallInv
    <3>2. worker[m.client].pc = "malloc" /\ worker[m.client].work = m.task
      BY <2>2 DEF CallInv, MessagePhase, MessageOK
    <3> QED
      BY <3>1, <3>2 DEF CallInv, WorkPhase, Pending
  <2>3. ASSUME NEW c \in Client, worker[c].pc # "idle"
        PROVE  call[worker[c].work].op # "none" /\ ~call[worker[c].work].done
    BY <2>3 DEF CallInv, WorkPhase, Pending
  <2>4. ASSUME NEW c \in Client, wr[c] # "none" \/ rd[c] # "none"
        PROVE  addrInfo[c][worker[c].info].live
    BY <2>4 DEF CallInv, VerbPhase, EntryPhase, WorkerEntry, LinkedLive
  <2> QED
    BY <2>1, <2>2, <2>3, <2>4 DEF PointersAreGood
<1> QED
  BY <1>1, CallsAgree, PTL
===============================================================================
