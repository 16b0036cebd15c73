----------------------------- MODULE DhmpL5Proofs -----------------------------
(***************************************************************************)
(* The L5 calls are right for every number of clients and set of values.   *)
(***************************************************************************)
EXTENDS DhmpL5Inv, FiniteSetTheorems, TLAPS

(* Client c, its buffers and the poller agree on the pending call.            *)
Agrees(c) ==
  /\ pc[c] = "new" <=> Node[c] >= client_num
  /\ mailbox[c] # 0 => pc[c] = "rung" /\ reply[c] = 0
  /\ mailbox[c] # 0 => ~IsAt(c, "copy") /\ ~IsAt(c, "reply")
  /\ IsAt(c, "copy") \/ IsAt(c, "reply") => pc[c] = "rung" /\ reply[c] = 0
  /\ reply[c] # 0 => pc[c] = "rung"
  /\ pc[c] = "rung" =>
       mailbox[c] # 0 \/ IsAt(c, "copy") \/ IsAt(c, "reply") \/ reply[c] # 0
  /\ pc[c] \in {"placed", "ringing", "rung"} /\ ~Served(c) =>
       /\ msg[c].op = call[c].op
       /\ call[c].op = "write" => msg[c].val = call[c].val

L5Inv ==
  /\ TypeOK
  /\ mailboxUp \/ poller.pc # "scan" => client_num > 0
  /\ \A c \in Client : Agrees(c)

(* Nothing of client d changes, and the poller does not come to its call.     *)
Same(d) ==
  /\ pc'[d] = pc[d] /\ call'[d] = call[d] /\ reply'[d] = reply[d]
  /\ msg'[d] = msg[d] /\ mailbox'[d] = mailbox[d]
  /\ out'[d] = out[d] /\ mem'[d] = mem[d]
  /\ IsAt(d, "copy")' <=> IsAt(d, "copy")
  /\ IsAt(d, "reply")' <=> IsAt(d, "reply")

PollerOf(c) == Pass(c) \/ Take(c) \/ CopyData(c) \/ PlaceReply(c) \/ Finish(c)

StepOf(c) ==
  \/ Connect(c) \/ SetUp(c)
  \/ \E op \in Op, v \in Value : (op = "write" \/ v = Zero) /\ Call(c, op, v)
  \/ WorkThread(c) \/ Adapter(c) \/ PollerOf(c)

-------------------------------------------------------------------------------
LEMMA Numbers ==
  ASSUME L5Assumption
  PROVE  /\ Cardinality(Client) \in Nat
         /\ \A c \in Client : Node[c] \in Nat /\ Node[c] < Cardinality(Client)
         /\ \A c, d \in Client : Node[c] = Node[d] => c = d
         /\ Length \in Nat /\ Length # 0
BY FS_CardinalityType DEF L5Assumption

(* The scan stays within the clients that have connected. *)
LEMMA ScanStays ==
  ASSUME NEW n \in Nat, n > 0, NEW i \in Nat
  PROVE  (i + 1) % n \in 0..(n - 1)
BY SMT

(* The first state agrees. *)
LEMMA InitInv == ASSUME L5Assumption PROVE Init => L5Inv
<1> SUFFICES ASSUME Init PROVE L5Inv
  OBVIOUS
<1>1. TypeOK
  <2>1. 0 \in 0..Cardinality(Client) /\ Zero \in Value
    BY Numbers DEF L5Assumption
  <2>2. NoWork \in [op : Op, val : Value]
    BY <2>1 DEF NoWork, Op
  <2> HIDE DEF NoWork
  <2>3. poller = [pc |-> "scan", i |-> 0] /\ client_num = 0
    BY DEF Init
  <2>4. poller \in [pc : {"scan", "copy", "reply", "replied"}, i : 0..Cardinality(Client)]
    BY <2>1, <2>3
  <2>5. /\ call \in [Client -> [op : Op, val : Value]]
        /\ msg \in [Client -> [op : Op, val : Value]]
        /\ pc \in [Client -> {"new", "connected", "idle", "messaging", "placed", "ringing",
                             "rung", "done"}]
    BY <2>2 DEF Init
  <2>6. /\ reply \in [Client -> {0, Length}] /\ mailbox \in [Client -> {0, 1}]
        /\ out \in [Client -> Value] /\ mem \in [Client -> Value]
        /\ mailboxUp \in BOOLEAN /\ serverUp \in BOOLEAN
    BY <2>1 DEF Init
  <2>7. client_num \in 0..Cardinality(Client) /\ poller.i = 0
    BY <2>1, <2>3
  <2> QED BY <2>4, <2>5, <2>6, <2>7 DEF TypeOK
<1>2. ASSUME NEW c \in Client PROVE Agrees(c)
  BY Numbers DEF Init, Agrees, IsAt
<1>3. mailboxUp \/ poller.pc # "scan" => client_num > 0
  BY DEF Init
<1> QED BY <1>1, <1>2, <1>3 DEF L5Inv

(* A step keeps the types and the scan in its bounds. *)
LEMMA TypeStep ==
  ASSUME L5Assumption, L5Inv, NEW c \in Client, StepOf(c)
  PROVE  TypeOK' /\ (mailboxUp \/ poller.pc # "scan" => client_num > 0)'
<1> USE Numbers DEF L5Inv, TypeOK
<1>1. CASE Connect(c)
  BY <1>1 DEF Connect
<1>2. CASE SetUp(c)
  <2>1. client_num > 0
    BY <1>2 DEF SetUp, Agrees
  <2> QED BY <1>2, <2>1 DEF SetUp
<1>3. ASSUME NEW op \in Op, NEW v \in Value, Call(c, op, v)
      PROVE  TypeOK' /\ (mailboxUp \/ poller.pc # "scan" => client_num > 0)'
  BY <1>3 DEF Call, serverVars
<1>4. CASE WorkThread(c)
  <2>1. UNCHANGED serverVars
    BY <1>4 DEF WorkThread, Ring, TakeReply, Return
  <2>2. NoWork \in [op : Op, val : Value]
    BY DEF NoWork, Op, L5Assumption
  <2> HIDE DEF NoWork
  <2>3. CASE Ring(c)
    BY <2>3 DEF Ring, serverVars
  <2>4. CASE TakeReply(c)
    BY <2>4 DEF TakeReply, serverVars
  <2>5. CASE Return(c)
    BY <2>2, <2>5 DEF Return, serverVars
  <2> QED BY <1>4, <2>3, <2>4, <2>5 DEF WorkThread
<1>5. CASE PlaceMessage(c)
  <2> DEFINE m == [op |-> call[c].op, val |-> IF call[c].op = "write" THEN call[c].val ELSE msg[c].val]
  <2>1. m \in [op : Op, val : Value]
    OBVIOUS
  <2>2. msg' = [msg EXCEPT ![c] = m]
    BY <1>5 DEF PlaceMessage
  <2> HIDE DEF m
  <2> QED BY <1>5, <2>1, <2>2 DEF PlaceMessage
<1>6. CASE PlaceMailbox(c)
  BY <1>6 DEF PlaceMailbox
<1>7. CASE Pass(c)
  <2>1. NextByte \in 0..(client_num - 1)
    BY <1>7, ScanStays DEF Pass, Looking, NextByte
  <2> QED BY <1>7, <2>1 DEF Pass, clientVars
<1>p. \A at \in {"scan", "copy", "reply", "replied"} :
        [poller EXCEPT !.pc = at] \in [pc : {"scan", "copy", "reply", "replied"},
                                       i : 0..Cardinality(Client)]
  OBVIOUS
<1>8. CASE Take(c)
  <2>1. client_num > 0 /\ poller' = [poller EXCEPT !.pc = "copy"]
    BY <1>8 DEF Take, Looking
  <2> QED BY <1>8, <1>p, <2>1 DEF Take, clientVars
<1>9. CASE CopyData(c)
  <2>1. client_num > 0 /\ poller' = [poller EXCEPT !.pc = "reply"]
    BY <1>9 DEF CopyData, Handling
  <2>2. mem' \in [Client -> Value] /\ out' \in [Client -> Value]
    BY <1>9 DEF CopyData
  <2> QED BY <1>9, <1>p, <2>1, <2>2 DEF CopyData, clientVars
<1>10. CASE PlaceReply(c)
  <2>1. client_num > 0 /\ poller' = [poller EXCEPT !.pc = "replied"]
    BY <1>10 DEF PlaceReply, Handling
  <2> QED BY <1>10, <1>p, <2>1 DEF PlaceReply
<1>11. CASE Finish(c)
  <2>1. client_num > 0 /\ poller.i \in Nat
    BY <1>11 DEF Finish, Handling, Agrees, IsAt
  <2>2. NextByte \in 0..(client_num - 1)
    BY <2>1, ScanStays DEF NextByte
  <2> QED BY <1>11, <2>2 DEF Finish, clientVars
<1> QED
  BY <1>1, <1>2, <1>3, <1>4, <1>5, <1>6, <1>7, <1>8, <1>9, <1>10, <1>11
  DEF StepOf, Adapter, PollerOf

(* A step of or for client c leaves every other client alone. *)
LEMMA OthersStay ==
  ASSUME L5Assumption, L5Inv, NEW c \in Client, StepOf(c), NEW d \in Client, d # c
  PROVE  Same(d)
<1> USE Numbers DEF L5Inv, Same, TypeOK, IsAt
<1>1. CASE Connect(c)
  BY <1>1 DEF Connect
<1>2. CASE SetUp(c)
  BY <1>2 DEF SetUp
<1>3. ASSUME NEW op \in Op, NEW v \in Value, Call(c, op, v) PROVE Same(d)
  BY <1>3 DEF Call, serverVars
<1>4. CASE WorkThread(c)
  BY <1>4 DEF WorkThread, Ring, TakeReply, Return, serverVars
<1>5. CASE Adapter(c)
  BY <1>5 DEF Adapter, PlaceMessage, PlaceMailbox
<1>6. CASE Pass(c)
  BY <1>6 DEF Pass, Looking, clientVars
<1>7. CASE Take(c)
  BY <1>7 DEF Take, Looking, clientVars
<1>8. CASE CopyData(c)
  BY <1>8 DEF CopyData, Handling, clientVars
<1>9. CASE PlaceReply(c)
  BY <1>9 DEF PlaceReply, Handling
<1>10. CASE Finish(c)
  BY <1>10 DEF Finish, Handling, clientVars
<1> QED
  BY <1>1, <1>2, <1>3, <1>4, <1>5, <1>6, <1>7, <1>8, <1>9, <1>10 DEF StepOf, PollerOf

(* A client nothing of which changes goes on agreeing. *)
LEMMA Frame ==
  ASSUME L5Assumption, NEW d \in Client, Agrees(d), Same(d), client_num \in Nat,
         client_num' = client_num \/ (client_num' = client_num + 1 /\ Node[d] # client_num)
  PROVE  Agrees(d)'
BY Numbers DEF Agrees, Same, Served

(* A step of or for client c keeps its own parts in agreement. *)
LEMMA OwnStep ==
  ASSUME L5Assumption, L5Inv, NEW c \in Client, StepOf(c)
  PROVE  Agrees(c)'
<1> USE Numbers DEF L5Inv, TypeOK, Agrees, IsAt, Served
<1>1. CASE Connect(c)
  BY <1>1 DEF Connect
<1>2. CASE SetUp(c)
  BY <1>2 DEF SetUp
<1>3. ASSUME NEW op \in Op, NEW v \in Value, Call(c, op, v) PROVE Agrees(c)'
  BY <1>3 DEF Call, serverVars
<1>4. CASE Ring(c)
  BY <1>4 DEF Ring, serverVars
<1>5. CASE TakeReply(c)
  BY <1>5 DEF TakeReply, serverVars
<1>6. CASE Return(c)
  BY <1>6 DEF Return, serverVars
<1>7. CASE PlaceMessage(c)
  BY <1>7 DEF PlaceMessage
<1>8. CASE PlaceMailbox(c)
  BY <1>8 DEF PlaceMailbox
<1>9. CASE Pass(c)
  BY <1>9 DEF Pass, Looking, clientVars
<1>10. CASE Take(c)
  BY <1>10 DEF Take, Looking, clientVars
<1>11. CASE CopyData(c)
  BY <1>11 DEF CopyData, Handling, clientVars
<1>12. CASE PlaceReply(c)
  BY <1>12 DEF PlaceReply, Handling
<1>13. CASE Finish(c)
  BY <1>13 DEF Finish, Handling, clientVars
<1> QED
  BY <1>1, <1>2, <1>3, <1>4, <1>5, <1>6, <1>7, <1>8, <1>9, <1>10, <1>11, <1>12, <1>13
  DEF StepOf, WorkThread, Adapter, PollerOf

(* Only a connecting client gets a node id. *)
LEMMA Numbering ==
  ASSUME L5Assumption, L5Inv, NEW c \in Client, StepOf(c), NEW d \in Client, d # c
  PROVE  client_num' = client_num \/ (client_num' = client_num + 1 /\ Node[d] # client_num)
BY Numbers DEF StepOf, Connect, SetUp, Call, WorkThread, Ring, TakeReply, Return, Adapter,
   PlaceMessage, PlaceMailbox, PollerOf, Pass, Take, CopyData, PlaceReply, Finish,
   serverVars

-------------------------------------------------------------------------------
(* The inductive invariant of the L5 calls holds in every reachable state.    *)
THEOREM L5Agrees == ASSUME L5Assumption PROVE Spec => []L5Inv
<1>1. Init => L5Inv
  BY InitInv
<1>2. L5Inv /\ [Next]_vars => L5Inv'
  <2> SUFFICES ASSUME L5Inv, [Next]_vars PROVE L5Inv'
    OBVIOUS
  <2>n. client_num \in Nat
    BY Numbers DEF L5Inv, TypeOK
  <2>1. CASE UNCHANGED vars
    <3>1. \A d \in Client : Same(d) /\ client_num' = client_num
      BY <2>1 DEF vars, Same, IsAt
    <3>2. \A d \in Client : Agrees(d)'
      BY <3>1, <2>n, Frame DEF L5Inv
    <3>3. TypeOK' /\ (mailboxUp \/ poller.pc # "scan" => client_num > 0)'
      BY <2>1 DEF vars, L5Inv, TypeOK
    <3> QED BY <3>2, <3>3 DEF L5Inv
  <2>2. CASE Next
    <3>1. PICK c \in Client : StepOf(c)
      BY <2>2 DEF Next, StepOf, Poller, PollerOf
    <3>2. \A d \in Client : d # c => Agrees(d)'
      BY <3>1, <2>n, OthersStay, Numbering, Frame DEF L5Inv
    <3>3. Agrees(c)'
      BY <3>1, OwnStep
    <3>4. TypeOK' /\ (mailboxUp \/ poller.pc # "scan" => client_num > 0)'
      BY <3>1, TypeStep
    <3> QED BY <3>2, <3>3, <3>4 DEF L5Inv
  <2> QED BY <2>1, <2>2
<1> QED BY <1>1, <1>2, PTL DEF Spec

(* Every variable of the L5 calls keeps its type and the scan its bounds.     *)
THEOREM L5TypeCorrect == ASSUME L5Assumption PROVE Spec => []TypeOK
<1>1. L5Inv => TypeOK
  BY DEF L5Inv
<1> QED BY <1>1, L5Agrees, PTL

(* The poller handles the pending call of a waiting client and nothing else.  *)
THEOREM OnlyPendingIsHandled == ASSUME L5Assumption PROVE Spec => []HandledIsPending
<1>1. L5Inv => HandledIsPending
  <2> SUFFICES ASSUME L5Inv, NEW c \in Client, mailbox[c] # 0 \/ IsAt(c, "copy")
               PROVE  /\ pc[c] = "rung" /\ ~Served(c)
                      /\ msg[c].op = call[c].op
                      /\ call[c].op = "write" => msg[c].val = call[c].val
    BY DEF HandledIsPending
  <2>1. Agrees(c)
    BY DEF L5Inv
  <2>2. pc[c] = "rung" /\ ~Served(c)
    BY <2>1 DEF Agrees, Served, IsAt
  <2> QED BY <2>1, <2>2 DEF Agrees
<1> QED BY <1>1, L5Agrees, PTL

(* A client that has rung is in the mailbox, with the poller or replied to.   *)
THEOREM RingsAreKept == ASSUME L5Assumption PROVE Spec => []NoRingLost
<1>1. L5Inv => NoRingLost
  BY DEF L5Inv, Agrees, NoRingLost
<1> QED BY <1>1, L5Agrees, PTL

-------------------------------------------------------------------------------
(* The abstract state of client c keeps what it was. *)
Stutter(c) ==
  /\ RequestOf(c)' = RequestOf(c)
  /\ AnswerOf(c)' = AnswerOf(c)
  /\ mem'[c] = mem[c]

(* What a step does to the abstract state of client c, named for the actions  *)
(* of RemoteCell.                                                             *)
Invokes(c) ==
  /\ RequestOf(c) = NULL
  /\ RequestOf(c)' \in Abstract!Requests
  /\ AnswerOf(c)' = AnswerOf(c) /\ mem'[c] = mem[c]

Reads(c) ==
  /\ RequestOf(c) # NULL /\ RequestOf(c).op = "read"
  /\ AnswerOf(c) = Abstract!NoAnswer /\ AnswerOf(c)' = Abstract!Answer(mem[c])
  /\ RequestOf(c)' = RequestOf(c) /\ mem'[c] = mem[c]

Writes(c) ==
  /\ RequestOf(c) # NULL /\ RequestOf(c).op = "write"
  /\ AnswerOf(c) = Abstract!NoAnswer /\ AnswerOf(c)' = Abstract!Answer(NULL)
  /\ RequestOf(c)' = RequestOf(c) /\ mem'[c] = RequestOf(c).val

Responds(c) ==
  /\ AnswerOf(c) # Abstract!NoAnswer
  /\ RequestOf(c)' = NULL
  /\ AnswerOf(c)' = Abstract!NoAnswer /\ mem'[c] = mem[c]

(* A client nothing of which changes has the abstract state it had. *)
LEMMA AbstractFrame ==
  ASSUME NEW d \in Client, Same(d)
  PROVE  Stutter(d)
<1>1. RequestOf(d)' = RequestOf(d)
  BY DEF RequestOf, Same
<1>2. (Served(d) \/ pc[d] = "done")' <=> Served(d) \/ pc[d] = "done"
  BY DEF Served, Same
<1>3. AnswerOf(d)' = AnswerOf(d)
  BY <1>2 DEF AnswerOf, Same
<1> QED BY <1>1, <1>3 DEF Stutter, Same

(* Each step of client c is one of these. *)
LEMMA StepMaps ==
  ASSUME L5Assumption, L5Inv, L5Inv', NEW c \in Client, StepOf(c)
  PROVE  Stutter(c) \/ Invokes(c) \/ Reads(c) \/ Writes(c) \/ Responds(c)
<1>a. Agrees(c) /\ Agrees(c)' /\ TypeOK /\ TypeOK'
  BY DEF L5Inv
<1>b. poller \in [pc : {"scan", "copy", "reply", "replied"}, i : 0..Cardinality(Client)]
  BY <1>a DEF TypeOK
<1> USE Numbers DEF Stutter, RequestOf, AnswerOf, Served, IsAt
<1>1. CASE Connect(c)
  BY <1>1, <1>a DEF Connect, TypeOK
<1>2. CASE SetUp(c)
  BY <1>2, <1>a DEF SetUp, TypeOK
<1>3. ASSUME NEW op \in Op, NEW v \in Value, Call(c, op, v) PROVE Invokes(c)
  <2>1. /\ pc[c] = "idle" /\ pc'[c] = "messaging" /\ call'[c] = [op |-> op, val |-> v]
        /\ UNCHANGED <<reply, serverVars>>
    BY <1>3, <1>a DEF Call, TypeOK
  <2>2. RequestOf(c)' \in Abstract!Requests
    BY <2>1 DEF Abstract!Requests, Op
  <2> QED BY <2>1, <2>2 DEF Invokes, serverVars
<1>4. CASE Ring(c)
  BY <1>4, <1>a DEF Ring, serverVars, TypeOK
<1>5. CASE TakeReply(c)
  BY <1>5, <1>a DEF TakeReply, serverVars, TypeOK
<1>6. CASE Return(c)
  <2>1. /\ pc[c] = "done" /\ pc'[c] = "idle"
        /\ UNCHANGED <<reply, serverVars>>
    BY <1>6, <1>a DEF Return, TypeOK
  <2> QED BY <2>1 DEF Responds, Abstract!NoAnswer, serverVars
<1>7. CASE PlaceMessage(c)
  BY <1>7, <1>a DEF PlaceMessage, TypeOK
<1>8. CASE PlaceMailbox(c)
  BY <1>8, <1>a DEF PlaceMailbox, TypeOK, Agrees
<1>9. CASE Pass(c)
  BY <1>9, <1>a, <1>b DEF Pass, Looking, clientVars, TypeOK
<1>10. CASE Take(c)
  BY <1>10, <1>a, <1>b DEF Take, Looking, clientVars, TypeOK
<1>11. CASE CopyData(c)
  <2>1. /\ IsAt(c, "copy") /\ IsAt(c, "reply")'
        /\ UNCHANGED <<clientVars, msg, mailbox>>
    BY <1>11, <1>b DEF CopyData, Handling
  <2>2. /\ pc[c] = "rung" /\ reply[c] = 0 /\ msg[c].op = call[c].op
        /\ call[c].op = "write" => msg[c].val = call[c].val
    BY <2>1, <1>a DEF Agrees
  <2>3. RequestOf(c) # NULL /\ RequestOf(c) = [op |-> call[c].op, val |-> call[c].val]
    BY <2>2, <1>a DEF TypeOK, L5Assumption, Op
  <2>4. RequestOf(c)' = RequestOf(c)
    BY <2>1 DEF clientVars
  <2>5. /\ ~Served(c) /\ pc[c] # "done"
        /\ Served(c)' /\ call' = call
    BY <2>1, <2>2 DEF clientVars
  <2>6. CASE call[c].op = "write"
    <3>1. mem'[c] = msg[c].val
      BY <1>11, <2>2, <2>6, <1>a DEF CopyData, TypeOK
    <3> QED BY <2>2, <2>3, <2>4, <2>5, <2>6, <3>1 DEF Writes, Abstract!NoAnswer, Abstract!Answer
  <2>7. CASE call[c].op = "read"
    <3>1. out'[c] = mem[c] /\ mem' = mem
      BY <1>11, <2>2, <2>7, <1>a DEF CopyData, TypeOK
    <3> QED BY <2>2, <2>3, <2>4, <2>5, <2>7, <3>1 DEF Reads, Abstract!NoAnswer, Abstract!Answer
  <2> QED BY <2>6, <2>7, <1>a DEF TypeOK, Op
<1>12. CASE PlaceReply(c)
  BY <1>12, <1>a, <1>b DEF PlaceReply, Handling, TypeOK, Agrees
<1>13. CASE Finish(c)
  BY <1>13, <1>a, <1>b DEF Finish, Handling, clientVars, TypeOK
<1> QED
  BY <1>1, <1>2, <1>3, <1>4, <1>5, <1>6, <1>7, <1>8, <1>9, <1>10, <1>11, <1>12, <1>13
  DEF StepOf, WorkThread, Adapter, PollerOf

(* The first state is the abstract first state. *)
LEMMA InitMaps == ASSUME L5Assumption, Init PROVE Abstract!Init
<1>1. ASSUME NEW c \in Client
      PROVE  RequestOf(c) = NULL /\ AnswerOf(c) = Abstract!NoAnswer
  BY DEF Init, RequestOf, AnswerOf, Served, IsAt, Abstract!NoAnswer
<1> QED BY <1>1 DEF Abstract!Init, Init

Req == [c \in Client |-> RequestOf(c)]
Ans == [c \in Client |-> AnswerOf(c)]

(* A step of one client is a step of RemoteCell or stutters.                  *)
LEMMA NextMaps ==
  ASSUME L5Assumption, L5Inv, L5Inv', NEW c \in Client, StepOf(c)
  PROVE  [Abstract!Next]_Abstract!cellVars
<1>1. ASSUME NEW d \in Client, d # c
      PROVE  RequestOf(d)' = RequestOf(d) /\ AnswerOf(d)' = AnswerOf(d) /\ mem'[d] = mem[d]
  BY <1>1, OthersStay, AbstractFrame DEF Stutter
<1>2. mem \in [Client -> Value] /\ mem' \in [Client -> Value]
  BY DEF L5Inv, TypeOK
<1>3. /\ Req' = [d \in Client |-> RequestOf(d)']
      /\ Ans' = [d \in Client |-> AnswerOf(d)']
  BY DEF Req, Ans
<1>4. ASSUME NEW q, RequestOf(c)' = q PROVE Req' = [Req EXCEPT ![c] = q]
  BY <1>1, <1>3, <1>4 DEF Req
<1>5. ASSUME NEW r, AnswerOf(c)' = r PROVE Ans' = [Ans EXCEPT ![c] = r]
  BY <1>1, <1>3, <1>5 DEF Ans
<1>6. RequestOf(c)' = RequestOf(c) => Req' = Req
  BY <1>1, <1>3 DEF Req
<1>7. AnswerOf(c)' = AnswerOf(c) => Ans' = Ans
  BY <1>1, <1>3 DEF Ans
<1>8. mem'[c] = mem[c] => mem' = mem
  BY <1>1, <1>2
<1>9. Req[c] = RequestOf(c) /\ Ans[c] = AnswerOf(c)
  BY DEF Req, Ans
<1>10. CASE Stutter(c)
  BY <1>10, <1>6, <1>7, <1>8 DEF Stutter, Abstract!cellVars, Req, Ans
<1>11. CASE Invokes(c)
  <2>1. PICK q \in Abstract!Requests : RequestOf(c)' = q
    BY <1>11 DEF Invokes
  <2>2. Req' = [Req EXCEPT ![c] = q]
    BY <2>1, <1>4
  <2>3. Abstract!Invoke(c, q)
    BY <2>2, <1>7, <1>8, <1>9, <1>11 DEF Invokes, Abstract!Invoke, Req, Ans
  <2> QED BY <2>1, <2>3 DEF Abstract!Next
<1>12. CASE Reads(c)
  <2>1. Ans' = [Ans EXCEPT ![c] = Abstract!Answer(mem[c])]
    BY <1>5, <1>12 DEF Reads
  <2>2. Abstract!Read(c)
    BY <2>1, <1>6, <1>8, <1>9, <1>12 DEF Reads, Abstract!Read, Req, Ans
  <2> QED BY <2>2 DEF Abstract!Next
<1>13. CASE Writes(c)
  <2>1. Ans' = [Ans EXCEPT ![c] = Abstract!Answer(NULL)]
    BY <1>5, <1>13 DEF Writes
  <2>2. mem' = [mem EXCEPT ![c] = RequestOf(c).val]
    BY <1>1, <1>2, <1>13 DEF Writes
  <2>3. Abstract!Write(c)
    BY <2>1, <2>2, <1>6, <1>9, <1>13 DEF Writes, Abstract!Write, Req, Ans
  <2> QED BY <2>3 DEF Abstract!Next
<1>14. CASE Responds(c)
  <2>1. Req' = [Req EXCEPT ![c] = NULL] /\ Ans' = [Ans EXCEPT ![c] = Abstract!NoAnswer]
    BY <1>4, <1>5, <1>14 DEF Responds
  <2>2. Abstract!Respond(c)
    BY <2>1, <1>8, <1>9, <1>14 DEF Responds, Abstract!Respond, Req, Ans
  <2> QED BY <2>2 DEF Abstract!Next
<1> QED BY <1>10, <1>11, <1>12, <1>13, <1>14, StepMaps

(* The L5 calls implement RemoteCell: however the clients, the adapters and   *)
(* the one poller interleave, each call takes effect once, between its        *)
(* invocation and its return, on the object of its own client.                *)
THEOREM L5ImplementsCell ==
  ASSUME L5Assumption PROVE Spec => ImplementsRemoteCell
<1>1. Init => Abstract!Init
  BY InitMaps
<1>2. L5Inv /\ L5Inv' /\ [Next]_vars => [Abstract!Next]_Abstract!cellVars
  <2> SUFFICES ASSUME L5Inv, L5Inv', [Next]_vars
               PROVE  [Abstract!Next]_Abstract!cellVars
    OBVIOUS
  <2>1. CASE UNCHANGED vars
    <3>1. \A d \in Client : Same(d)
      BY <2>1 DEF vars, Same, IsAt
    <3>2. \A d \in Client : RequestOf(d)' = RequestOf(d) /\ AnswerOf(d)' = AnswerOf(d)
      BY <3>1, AbstractFrame DEF Stutter
    <3>3. Req' = Req /\ Ans' = Ans /\ mem' = mem
      BY <2>1, <3>2 DEF Req, Ans, vars
    <3> QED BY <3>3 DEF Req, Ans, Abstract!cellVars
  <2>2. CASE Next
    <3>1. PICK c \in Client : StepOf(c)
      BY <2>2 DEF Next, StepOf, Poller, PollerOf
    <3> QED BY <3>1, NextMaps
  <2> QED BY <2>1, <2>2
<1> QED BY <1>1, <1>2, L5Agrees, PTL DEF Spec, ImplementsRemoteCell, Abstract!Spec
===============================================================================
