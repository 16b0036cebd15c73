---------------------------- MODULE DhmpRfpProofs -----------------------------
(***************************************************************************)
(* The RFP calls are right for every number of clients, set of values and  *)
(* length, whatever the order in which the parts of a request land and     *)
(* whatever region each polling thread takes up. A client that has its own *)
(* thread, and no other, is in step with it; a length whose low byte is a  *)
(* time can put it a turn ahead for as long as one call is handled.        *)
(***************************************************************************)
EXTENDS DhmpRfpInv, TLAPS

Low == Length % 256

(* The request of client c is being handled. *)
Handled(c) == srv[c].pc \in {"size", "copy", "publish"}

(* What has landed of a request is the call's, the rest what was there before. *)
PlacedIsOwn(c) ==
  /\ pc[c] # "writing" => unplaced[c] = {}
  /\ pc[c] = "writing" /\ ~Fits(c, call[c].op) => "valid" \in unplaced[c]
  /\ call[c].op = "read" => "data" \notin unplaced[c]
  /\ pc[c] \notin {"idle", "error"} =>
       /\ req[c].op = IF "head" \in unplaced[c] THEN before[c].op ELSE call[c].op
       /\ req[c].val = IF call[c].op = "write" /\ "data" \notin unplaced[c]
                       THEN call[c].val ELSE before[c].val

(* The call waits and has no reply, its thread has replied, the size shows in  *)
(* the place of the time the client waits for, the client took it for that.    *)
Pending(c) == Waiting(c) /\ stime[c] # ctime[c]
Served(c) == ~Handled(c) /\ stime[c] = ctime[c]
SizeUp(c) ==
  /\ srv[c].pc \in {"copy", "publish"} /\ Low = ctime[c]
  /\ reply[c].time = Low /\ stime[c] # ctime[c]
Early(c) ==
  srv[c].pc \in {"copy", "publish"} /\ Low = Other(ctime[c]) /\ stime[c] = ctime[c]

(* Client c, its regions and its polling thread agree on the pending call. *)
InStep(c) ==
  /\ srv[c].pc = "start" => ctime[c] = 1 /\ stime[c] = 0
  /\ srv[c].pc # "start" => stime[c] \in 1..2
  /\ Handled(c) => \/ Pending(c) /\ srv[c].op \in {call[c].op, before[c].op}
                   \/ Early(c)
  /\ Served(c) => /\ Waiting(c) /\ reply[c].time = ctime[c]
                  /\ srv[c].pc = "clear" \/ ~req[c].valid
  /\ reply[c].time = ctime[c] => Served(c) \/ SizeUp(c)
  /\ srv[c].pc \in {"start", "poll"} /\ req[c].valid => Pending(c)
  /\ pc[c] = "fetched" /\ local[c].time = ctime[c] =>
       \/ Served(c) /\ (Low \notin 1..2 => local[c].val = reply[c].val)
       \/ SizeUp(c)

RfpInv ==
  /\ TypeOK
  /\ \A c \in Client : PlacedIsOwn(c)
  /\ \A c \in Client : OwnThread(c) => InStep(c)

(* Nothing of client d changes. *)
Same(d) ==
  /\ pc'[d] = pc[d] /\ call'[d] = call[d] /\ ctime'[d] = ctime[d]
  /\ unplaced'[d] = unplaced[d] /\ before'[d] = before[d]
  /\ local'[d] = local[d] /\ req'[d] = req[d] /\ reply'[d] = reply[d]
  /\ stime'[d] = stime[d] /\ mem'[d] = mem[d] /\ srv'[d] = srv[d]

(* A step of client c, of its adapter or of the thread made for it. *)
ClientStep(c) ==
  \/ \E op \in Op, v \in Value : (op = "write" \/ v = Zero) /\ Call(c, op, v)
  \/ WorkThread(c)
  \/ Adapter(c)

StepOf(c) == ClientStep(c) \/ PollThread(c)

-------------------------------------------------------------------------------
(* A client nothing of which changes goes on agreeing. *)
LEMMA Frame ==
  ASSUME NEW d \in Client, InStep(d), Same(d)
  PROVE  InStep(d)'
BY DEF InStep, Same, Handled, Waiting, Pending, Served, SizeUp, Early, Other

(* The byte the size leaves on the time byte is a byte. *)
LEMMA SizeByte ==
  ASSUME RfpAssumption, NEW op
  PROVE  /\ SizeOf(op) % 256 \in 0..255
         /\ op = "none" => SizeOf(op) % 256 = 0
         /\ op # "none" => SizeOf(op) % 256 = Low
BY SMT DEF RfpAssumption, SizeOf, Low

(* The first state agrees. *)
LEMMA InitInv == ASSUME RfpAssumption PROVE Init => RfpInv
<1> SUFFICES ASSUME Init PROVE RfpInv
  OBVIOUS
<1>1. TypeOK
  <2>1. PICK node \in [Client -> Client] :
          srv = [s \in Client |-> [pc |-> "start", node |-> node[s], op |-> "none"]]
    BY DEF Init
  <2>2. srv \in [Client -> [pc : {"start", "poll", "size", "copy", "publish", "clear"},
                            node : Client, op : Op \cup {"none"}]]
    BY <2>1 DEF Op
  <2> QED BY <2>2 DEF Init, TypeOK, RfpAssumption, NoWork, Op
<1>2. ASSUME NEW c \in Client PROVE srv[c].pc = "start"
  BY DEF Init
<1>3. ASSUME NEW c \in Client PROVE PlacedIsOwn(c)
  BY DEF Init, PlacedIsOwn, NoWork
<1>4. ASSUME NEW c \in Client PROVE InStep(c)
  BY <1>2 DEF Init, InStep, Handled, Waiting, Pending, Served, SizeUp, Early
<1> QED BY <1>1, <1>3, <1>4 DEF RfpInv

(* No step changes what region a thread polls. *)
LEMMA NodesStay ==
  ASSUME TypeOK, NEW c \in Client, StepOf(c)
  PROVE  \A s \in Client : srv'[s].node = srv[s].node
<1>1. CASE ClientStep(c)
  BY <1>1 DEF ClientStep, Call, WorkThread, PostRead, CheckAgain, Check, Return, Adapter,
              RequestFaults, Place, FetchReply, serverVars
<1>2. CASE PollThread(c)
  <2>1. CASE StartThread(c)
    BY <2>1 DEF StartThread, TypeOK
  <2>2. CASE TakeRequest(c)
    BY <2>2 DEF TakeRequest, TypeOK
  <2>3. CASE WriteSize(c)
    BY <2>3 DEF WriteSize, TypeOK
  <2>4. CASE CopyData(c)
    BY <2>4 DEF CopyData, TypeOK
  <2>5. CASE Publish(c)
    BY <2>5 DEF Publish, TypeOK
  <2>6. CASE ClearValid(c)
    BY <2>6 DEF ClearValid, TypeOK
  <2> QED BY <1>2, <2>1, <2>2, <2>3, <2>4, <2>5, <2>6 DEF PollThread
<1> QED BY <1>1, <1>2 DEF StepOf

(* A step keeps the types. *)
LEMMA TypeStep ==
  ASSUME RfpAssumption, TypeOK, NEW c \in Client, StepOf(c)
  PROVE  TypeOK'
<1> USE DEF clientVars, serverVars
<1>n. PICK n \in Client : srv[c].node = n
  BY DEF TypeOK
<1>s. /\ srv \in [Client -> [pc : {"start", "poll", "size", "copy", "publish", "clear"},
                            node : Client, op : Op \cup {"none"}]]
      /\ srv[c] \in [pc : {"start", "poll", "size", "copy", "publish", "clear"},
                     node : Client, op : Op \cup {"none"}]
  BY DEF TypeOK
<1>r. /\ reply \in [Client -> [time : 0..255, val : Value]]
      /\ reply[n] \in [time : 0..255, val : Value]
  BY DEF TypeOK
<1>q. req \in [Client -> [valid : BOOLEAN, op : Op \cup {"none"}, val : Value]]
  BY DEF TypeOK
<1>k. /\ req[n] \in [valid : BOOLEAN, op : Op \cup {"none"}, val : Value]
      /\ req[c] \in [valid : BOOLEAN, op : Op \cup {"none"}, val : Value]
  BY <1>q
<1>1. ASSUME NEW op \in Op, NEW v \in Value, Call(c, op, v) PROVE TypeOK'
  <2>1. Parts(op) \in SUBSET {"valid", "head", "data"}
    BY DEF Parts
  <2>2. unplaced' \in [Client -> SUBSET {"valid", "head", "data"}]
    BY <1>1, <2>1 DEF Call, TypeOK
  <2>3. before' \in [Client -> [op : Op \cup {"none"}, val : Value]]
    BY <1>1, <1>k DEF Call, TypeOK
  <2> QED BY <1>1, <2>2, <2>3 DEF Call, TypeOK
<1>2. CASE PostRead(c)
  BY <1>2 DEF PostRead, TypeOK
<1>3. CASE CheckAgain(c)
  BY <1>3 DEF CheckAgain, TypeOK
<1>4. CASE Check(c)
  <2> DEFINE res == IF call[c].op = "read" THEN local[c].val ELSE NULL
             Result == Value \cup {NULL}
             Work == [op : Op, val : Value, res : Result]
  <2>1. res \in Result /\ call \in [Client -> Work]
    BY DEF TypeOK
  <2>2. call' = [call EXCEPT ![c].res = res]
    BY <1>4 DEF Check
  <2> HIDE DEF res, Result
  <2>3. [call[c] EXCEPT !.res = res] \in Work
    BY <2>1
  <2> HIDE DEF Work
  <2>4. call' \in [Client -> Work]
    BY <2>1, <2>2, <2>3
  <2> QED BY <1>4, <2>4 DEF Work, Result, Check, TypeOK, Other
<1>5. CASE Return(c)
  <2>1. NoWork \in [op : Op, val : Value, res : Value \cup {NULL}]
    BY DEF NoWork, Op, RfpAssumption
  <2>2. before' \in [Client -> [op : Op \cup {"none"}, val : Value]]
    BY <1>5 DEF Return, TypeOK, RfpAssumption
  <2> QED BY <1>5, <2>1, <2>2 DEF Return, TypeOK
<1>6. CASE RequestFaults(c)
  BY <1>6 DEF RequestFaults, TypeOK
<1>7. ASSUME NEW part, Place(c, part) PROVE TypeOK'
  <2>1. unplaced' \in [Client -> SUBSET {"valid", "head", "data"}]
    BY <1>7 DEF Place, TypeOK
  <2>2. call[c].op \in Op \cup {"none"} /\ call[c].val \in Value
    BY DEF TypeOK
  <2>3. CASE req' = [req EXCEPT ![c].valid = TRUE]
    <3>1. req' \in [Client -> [valid : BOOLEAN, op : Op \cup {"none"}, val : Value]]
      BY <2>3, <1>q
    <3> QED BY <1>7, <2>1, <3>1 DEF Place, TypeOK
  <2>4. CASE req' = [req EXCEPT ![c].op = call[c].op]
    <3>1. req' \in [Client -> [valid : BOOLEAN, op : Op \cup {"none"}, val : Value]]
      BY <2>2, <2>4, <1>q
    <3> QED BY <1>7, <2>1, <3>1 DEF Place, TypeOK
  <2>5. CASE req' = [req EXCEPT ![c].val = call[c].val]
    <3>1. req' \in [Client -> [valid : BOOLEAN, op : Op \cup {"none"}, val : Value]]
      BY <2>2, <2>5, <1>q
    <3> QED BY <1>7, <2>1, <3>1 DEF Place, TypeOK
  <2> QED BY <1>7, <2>3, <2>4, <2>5 DEF Place
<1>10. CASE FetchReply(c)
  BY <1>10 DEF FetchReply, TypeOK
<1>11. CASE StartThread(c)
  <2>1. srv' \in [Client -> [pc : {"start", "poll", "size", "copy", "publish", "clear"},
                             node : Client, op : Op \cup {"none"}]]
    BY <1>11, <1>s DEF StartThread
  <2>2. stime' \in [Client -> 0..2]
    BY <1>11, <1>n DEF StartThread, TypeOK
  <2> QED BY <1>11, <2>1, <2>2 DEF StartThread, TypeOK
<1>12. CASE TakeRequest(c)
  <2>1. srv' \in [Client -> [pc : {"start", "poll", "size", "copy", "publish", "clear"},
                             node : Client, op : Op \cup {"none"}]]
    BY <1>12, <1>n, <1>s, <1>k DEF TakeRequest
  <2> QED BY <1>12, <2>1 DEF TakeRequest, TypeOK
<1>13. CASE WriteSize(c)
  <2>1. srv' \in [Client -> [pc : {"start", "poll", "size", "copy", "publish", "clear"},
                             node : Client, op : Op \cup {"none"}]]
    BY <1>13, <1>s DEF WriteSize
  <2>2. reply' \in [Client -> [time : 0..255, val : Value]]
    <3> DEFINE low == SizeOf(srv[c].op) % 256
    <3>1. low \in 0..255
      BY SizeByte
    <3>2. reply' = [reply EXCEPT ![n].time = low]
      BY <1>13, <1>n DEF WriteSize
    <3> HIDE DEF low
    <3> QED BY <3>1, <3>2, <1>r
  <2> QED BY <1>13, <2>1, <2>2 DEF WriteSize, TypeOK
<1>14. CASE CopyData(c)
  <2>1. srv' \in [Client -> [pc : {"start", "poll", "size", "copy", "publish", "clear"},
                             node : Client, op : Op \cup {"none"}]]
    BY <1>14, <1>s DEF CopyData
  <2>2. reply' \in [Client -> [time : 0..255, val : Value]]
    <3>1. mem[n] \in Value
      BY DEF TypeOK
    <3>2. [reply[n] EXCEPT !.val = mem[n]] \in [time : 0..255, val : Value]
      BY <3>1, <1>r
    <3>3. reply' = reply \/ reply' = [reply EXCEPT ![n] = [reply[n] EXCEPT !.val = mem[n]]]
      BY <1>14, <1>n DEF CopyData
    <3> QED BY <3>2, <3>3, <1>r
  <2>3. mem' \in [Client -> Value]
    <3>1. req[n].val \in Value
      BY <1>k
    <3>2. mem' = mem \/ mem' = [mem EXCEPT ![n] = req[n].val]
      BY <1>14, <1>n DEF CopyData
    <3>3. mem \in [Client -> Value]
      BY DEF TypeOK
    <3> QED BY <3>1, <3>2, <3>3
  <2> QED BY <1>14, <2>1, <2>2, <2>3 DEF CopyData, TypeOK
<1>15. CASE Publish(c)
  <2>1. srv' \in [Client -> [pc : {"start", "poll", "size", "copy", "publish", "clear"},
                             node : Client, op : Op \cup {"none"}]]
    BY <1>15, <1>s DEF Publish
  <2>2. Other(stime[n]) \in 1..2
    BY DEF Other
  <2>3. reply' \in [Client -> [time : 0..255, val : Value]]
    BY <1>15, <1>n, <1>r, <2>2 DEF Publish
  <2>4. stime' \in [Client -> 0..2]
    BY <1>15, <1>n, <2>2 DEF Publish, TypeOK
  <2> QED BY <1>15, <2>1, <2>3, <2>4 DEF Publish, TypeOK
<1>16. CASE ClearValid(c)
  <2>1. srv' \in [Client -> [pc : {"start", "poll", "size", "copy", "publish", "clear"},
                             node : Client, op : Op \cup {"none"}]]
    BY <1>16, <1>s DEF ClearValid
  <2>2. req' \in [Client -> [valid : BOOLEAN, op : Op \cup {"none"}, val : Value]]
    BY <1>16, <1>n, <1>q DEF ClearValid
  <2> QED BY <1>16, <2>1, <2>2 DEF ClearValid, TypeOK
<1> QED
  BY <1>1, <1>2, <1>3, <1>4, <1>5, <1>6, <1>7, <1>10, <1>11, <1>12, <1>13,
     <1>14, <1>15, <1>16 DEF StepOf, ClientStep, WorkThread, Adapter, PollThread


(* What has landed of a request stays the call's own, action by action; the    *)
(* polling threads only clear valid bytes.                                     *)
LEMMA PlacedStep ==
  ASSUME TypeOK, \A d \in Client : PlacedIsOwn(d), NEW c \in Client, StepOf(c),
         NEW d \in Client
  PROVE  PlacedIsOwn(d)'
<1>a. PlacedIsOwn(d) /\ PlacedIsOwn(c)
  OBVIOUS
<1>n. PICK n \in Client : srv[c].node = n
  BY DEF TypeOK
<1> USE DEF PlacedIsOwn, Fits, TypeOK, serverVars
<1>1. ASSUME NEW op \in Op, NEW v \in Value, Call(c, op, v) PROVE PlacedIsOwn(d)'
  <2>1. CASE d # c
    BY <1>1, <1>a, <2>1 DEF Call
  <2>2. CASE d = c
    <3>1. /\ pc'[c] = "writing" /\ unplaced'[c] = Parts(op)
          /\ call'[c].op = op /\ call'[c].val = v
          /\ before'[c].op = req[c].op /\ before'[c].val = req[c].val
          /\ req' = req
      BY <1>1 DEF Call
    <3>2. /\ {"valid", "head"} \subseteq Parts(op)
          /\ "data" \in Parts(op) <=> op = "write"
      BY DEF Parts
    <3> QED BY <2>2, <3>1, <3>2
  <2> QED BY <2>1, <2>2
<1>2. CASE PostRead(c)
  BY <1>2, <1>a DEF PostRead
<1>3. CASE CheckAgain(c)
  BY <1>3, <1>a DEF CheckAgain
<1>4. CASE Check(c)
  <2>1. /\ pc[c] = "fetched" /\ pc'[c] = "done"
        /\ call'[c].op = call[c].op /\ call'[c].val = call[c].val
        /\ d # c => call'[d] = call[d] /\ pc'[d] = pc[d]
        /\ UNCHANGED <<unplaced, before, req>>
    BY <1>4 DEF Check
  <2> QED BY <1>a, <2>1
<1>5. CASE Return(c)
  <2>1. /\ pc[c] = "done" /\ pc'[c] = "idle"
        /\ call'[c].op = "read"
        /\ d # c => call'[d] = call[d] /\ pc'[d] = pc[d] /\ before'[d] = before[d]
        /\ UNCHANGED <<unplaced, req>>
    BY <1>5 DEF Return, NoWork
  <2> QED BY <1>a, <2>1
<1>6. CASE RequestFaults(c)
  BY <1>6, <1>a DEF RequestFaults
<1>7. ASSUME NEW part, Place(c, part) PROVE PlacedIsOwn(d)'
  <2>1. /\ pc[c] = "writing" /\ part \in unplaced[c] /\ Fits(c, call[c].op)
        /\ unplaced'[c] = unplaced[c] \ {part}
        /\ d # c => unplaced'[d] = unplaced[d] /\ req'[d] = req[d]
        /\ UNCHANGED <<pc, call, before>>
    BY <1>7 DEF Place
  <2>2. \/ part = "valid" /\ req'[c].op = req[c].op /\ req'[c].val = req[c].val
        \/ part = "head" /\ req'[c].op = call[c].op /\ req'[c].val = req[c].val
        \/ part = "data" /\ req'[c].op = req[c].op /\ req'[c].val = call[c].val
    BY <1>7 DEF Place
  <2>3. CASE d # c
    BY <1>a, <2>1, <2>3
  <2>4. CASE d = c /\ part = "valid"
    BY <1>a, <2>1, <2>2, <2>4
  <2>5. CASE d = c /\ part = "head"
    BY <1>a, <2>1, <2>2, <2>5
  <2>6. CASE d = c /\ part = "data"
    <3>1. call[c].op = "write"
      BY <1>a, <2>1, <2>6 DEF Op
    <3> QED BY <1>a, <2>1, <2>2, <2>6, <3>1
  <2> QED BY <2>2, <2>3, <2>4, <2>5, <2>6
<1>8. CASE FetchReply(c)
  BY <1>8, <1>a DEF FetchReply
<1>9. CASE PollThread(c)
  <2>1. /\ UNCHANGED <<pc, call, unplaced, before>>
        /\ req'[d].op = req[d].op /\ req'[d].val = req[d].val
    <3>1. CASE ClearValid(c)
      BY <3>1, <1>n DEF ClearValid, clientVars
    <3>2. CASE ~ClearValid(c)
      BY <1>9, <3>2 DEF PollThread, StartThread, TakeRequest, WriteSize, CopyData, Publish,
                        clientVars
    <3> QED BY <3>1, <3>2
  <2> QED BY <1>a, <2>1
<1> QED BY <1>1, <1>2, <1>3, <1>4, <1>5, <1>6, <1>7, <1>8, <1>9
        DEF StepOf, ClientStep, WorkThread, Adapter

(* A step made for client c leaves every other client that has its own thread *)
(* alone.                                                                      *)
LEMMA OthersStay ==
  ASSUME TypeOK, NEW c \in Client, StepOf(c), NEW d \in Client, d # c, OwnThread(d)
  PROVE  Same(d)
<1>n. PICK n \in Client : srv[c].node = n
  BY DEF TypeOK
<1>m. n # d
  BY <1>n DEF OwnThread
<1> USE DEF Same, TypeOK, clientVars, serverVars
<1>1. CASE ClientStep(c)
  BY <1>1 DEF ClientStep, Call, WorkThread, PostRead, CheckAgain, Check, Return,
              Adapter, RequestFaults, Place, FetchReply
<1>2. CASE StartThread(c)
  BY <1>2, <1>n, <1>m DEF StartThread
<1>3. CASE TakeRequest(c)
  BY <1>3 DEF TakeRequest
<1>4. CASE WriteSize(c)
  BY <1>4, <1>n, <1>m DEF WriteSize
<1>5. CASE CopyData(c)
  BY <1>5, <1>n, <1>m DEF CopyData
<1>6. CASE Publish(c)
  BY <1>6, <1>n, <1>m DEF Publish
<1>7. CASE ClearValid(c)
  BY <1>7, <1>n, <1>m DEF ClearValid
<1> QED BY <1>1, <1>2, <1>3, <1>4, <1>5, <1>6, <1>7 DEF StepOf, PollThread

(* A step made for client c keeps c in step with its thread, action by action. *)
LEMMA OwnStep ==
  ASSUME RfpAssumption, RfpInv, NEW c \in Client, OwnThread(c), StepOf(c)
  PROVE  InStep(c)'
<1>a. TypeOK /\ PlacedIsOwn(c) /\ InStep(c)
  BY DEF RfpInv
<1>n. srv[c].node = c
  BY DEF OwnThread
<1>t. ctime[c] \in 1..2 /\ stime[c] \in 0..2
  BY <1>a DEF TypeOK
<1> USE DEF InStep, Handled, Waiting, Pending, Served, SizeUp, Early
<1>1. ASSUME NEW op \in Op, NEW v \in Value, Call(c, op, v) PROVE InStep(c)'
  <2>1. /\ pc[c] = "idle" /\ pc'[c] = "writing" /\ "valid" \in unplaced'[c]
        /\ UNCHANGED <<ctime, local, req, reply, stime, srv>>
    BY <1>1, <1>a DEF Call, Parts, TypeOK, serverVars
  <2>2. call'[c].op = op /\ before'[c].op = req[c].op
    BY <1>1, <1>a DEF Call, TypeOK
  <2> QED BY <2>1, <2>2, <1>a
<1>2. CASE PostRead(c)
  BY <1>2, <1>a DEF PostRead, TypeOK, serverVars
<1>3. CASE CheckAgain(c)
  BY <1>3, <1>a DEF CheckAgain, TypeOK, serverVars
<1>4. CASE Check(c)
  <2>1. /\ pc[c] = "fetched" /\ pc'[c] = "done" /\ local[c].time = ctime[c]
        /\ ctime'[c] = Other(ctime[c])
        /\ UNCHANGED <<local, unplaced, before, req, reply, stime, mem, srv>>
    BY <1>4, <1>a DEF Check, TypeOK, serverVars
  <2>2. Served(c) \/ SizeUp(c)
    BY <2>1, <1>a
  <2>3. Other(ctime[c]) # ctime[c] /\ Other(Other(ctime[c])) = ctime[c]
    BY <1>t DEF Other
  <2>4. CASE Served(c)
    BY <2>1, <2>3, <2>4, <1>a, <1>t
  <2>5. CASE SizeUp(c)
    <3>1. srv[c].pc \in {"copy", "publish"} /\ stime[c] \in 1..2
      BY <2>5, <1>a
    <3>2. stime[c] = Other(ctime[c]) /\ Low = Other(ctime'[c])
      BY <2>1, <2>3, <2>5, <3>1, <1>t DEF Other
    <3>3. reply'[c].time # ctime'[c]
      BY <2>1, <2>3, <2>5
    <3> QED BY <2>1, <2>3, <3>1, <3>2, <3>3
  <2> QED BY <2>2, <2>4, <2>5
<1>5. CASE Return(c)
  <2>1. /\ pc[c] = "done" /\ pc'[c] = "idle"
        /\ UNCHANGED <<ctime, local, unplaced, req, reply, stime, mem, srv>>
    BY <1>5, <1>a DEF Return, TypeOK, serverVars
  <2> QED BY <2>1, <1>a
<1>6. CASE RequestFaults(c)
  <2>1. /\ pc[c] = "writing" /\ pc'[c] = "error" /\ "valid" \in unplaced[c]
        /\ UNCHANGED <<ctime, local, req, reply, stime, mem, srv>>
    BY <1>6, <1>a DEF RequestFaults, TypeOK, serverVars, PlacedIsOwn
  <2> QED BY <2>1, <1>a
<1>7. ASSUME NEW part, Place(c, part) PROVE InStep(c)'
  <2>1. /\ pc[c] = "writing" /\ part \in unplaced[c]
        /\ unplaced'[c] = unplaced[c] \ {part}
        /\ UNCHANGED <<pc, call, ctime, local, before, reply, stime, mem, srv>>
    BY <1>7, <1>a DEF Place, TypeOK, serverVars
  <2>2. CASE part = "valid"
    BY <2>1, <2>2, <1>a
  <2>3. CASE part # "valid"
    <3>1. req'[c].valid = req[c].valid
      BY <1>7, <2>3, <1>a DEF Place, TypeOK
    <3> QED BY <2>1, <2>3, <3>1, <1>a
  <2> QED BY <2>2, <2>3
<1>8. CASE FetchReply(c)
  <2>1. /\ pc[c] = "reading" /\ pc'[c] = "fetched" /\ local'[c] = reply[c]
        /\ UNCHANGED <<call, ctime, unplaced, before, req, reply, stime, mem, srv>>
    BY <1>8, <1>a DEF FetchReply, TypeOK, serverVars
  <2> QED BY <2>1, <1>a
<1>9. CASE StartThread(c)
  <2>1. /\ srv[c].pc = "start" /\ srv'[c].pc = "poll" /\ stime'[c] = 2
        /\ UNCHANGED <<pc, call, ctime, local, unplaced, before, req, reply>>
    BY <1>9, <1>a, <1>n DEF StartThread, TypeOK, clientVars
  <2> QED BY <2>1, <1>a
<1>10. CASE TakeRequest(c)
  <2>1. /\ srv[c].pc = "poll" /\ srv'[c].pc = "size" /\ srv'[c].op = req[c].op
        /\ req[c].valid
        /\ UNCHANGED <<pc, call, ctime, local, unplaced, before, req, reply, stime>>
    BY <1>10, <1>a, <1>n DEF TakeRequest, TypeOK, clientVars
  <2>2. Pending(c) /\ req[c].op \in {call[c].op, before[c].op}
    BY <2>1, <1>a DEF PlacedIsOwn
  <2> QED BY <2>1, <2>2, <1>a
<1>11. CASE WriteSize(c)
  <2>1. /\ srv[c].pc = "size" /\ srv'[c].pc = "copy" /\ srv'[c].op = srv[c].op
        /\ reply'[c].time = SizeOf(srv[c].op) % 256
        /\ UNCHANGED <<pc, call, ctime, local, unplaced, before, req, stime>>
    BY <1>11, <1>a, <1>n DEF WriteSize, TypeOK, clientVars
  <2>2. Pending(c) /\ srv[c].op \in {call[c].op, before[c].op}
    BY <2>1, <1>a
  <2>3. reply'[c].time = ctime[c] => Low = ctime[c] /\ reply'[c].time = Low
    BY <2>1, <1>t, SizeByte
  <2> QED BY <2>1, <2>2, <2>3, <1>a
<1>12. CASE CopyData(c)
  <2>1. /\ srv[c].pc = "copy" /\ srv'[c].pc = "publish" /\ srv'[c].op = srv[c].op
        /\ reply'[c].time = reply[c].time
        /\ UNCHANGED <<pc, call, ctime, local, unplaced, before, req, stime>>
    BY <1>12, <1>a, <1>n DEF CopyData, TypeOK, clientVars
  <2> QED BY <2>1, <1>a
<1>13. CASE Publish(c)
  <2>1. /\ srv[c].pc = "publish" /\ srv'[c].pc = "clear"
        /\ reply'[c].time = Other(stime[c]) /\ stime'[c] = Other(stime[c])
        /\ UNCHANGED <<pc, call, ctime, local, unplaced, before, req>>
    BY <1>13, <1>a, <1>n DEF Publish, TypeOK, clientVars
  <2>2. stime[c] \in 1..2
    BY <2>1, <1>a
  <2>3. CASE Pending(c)
    <3>1. Other(stime[c]) = ctime[c]
      BY <2>2, <2>3, <1>t DEF Other
    <3> QED BY <2>1, <2>3, <3>1, <1>a DEF Other
  <2>4. CASE Early(c)
    <3>1. Other(stime[c]) # ctime[c]
      BY <2>4, <1>t DEF Other
    <3> QED BY <2>1, <2>4, <3>1, <1>a DEF Other
  <2> QED BY <2>1, <2>3, <2>4, <1>a
<1>14. CASE ClearValid(c)
  <2>1. /\ srv[c].pc = "clear" /\ srv'[c].pc = "poll" /\ ~req'[c].valid
        /\ UNCHANGED <<pc, call, ctime, local, unplaced, before, reply, stime>>
    BY <1>14, <1>a, <1>n DEF ClearValid, TypeOK, clientVars
  <2> QED BY <2>1, <1>a
<1> QED BY <1>1, <1>2, <1>3, <1>4, <1>5, <1>6, <1>7, <1>8, <1>9, <1>10, <1>11, <1>12, <1>13,
           <1>14 DEF StepOf, ClientStep, WorkThread, Adapter, PollThread

-------------------------------------------------------------------------------
(* The inductive invariant of the RFP calls holds in every reachable state.   *)
THEOREM RfpAgrees == ASSUME RfpAssumption PROVE Spec => []RfpInv
<1>1. Init => RfpInv
  BY InitInv
<1>2. RfpInv /\ [Next]_vars => RfpInv'
  <2> SUFFICES ASSUME RfpInv, [Next]_vars PROVE RfpInv'
    OBVIOUS
  <2>1. CASE UNCHANGED vars
    BY <2>1 DEF vars, clientVars, serverVars, RfpInv, TypeOK, PlacedIsOwn, Fits, OwnThread,
                InStep, Handled, Waiting, Pending, Served, SizeUp, Early
  <2>2. CASE Next
    <3>1. PICK c \in Client : StepOf(c)
      BY <2>2 DEF Next, StepOf, ClientStep
    <3>2. TypeOK'
      BY <3>1, TypeStep DEF RfpInv
    <3>3. ASSUME NEW d \in Client PROVE PlacedIsOwn(d)'
      BY <3>1, PlacedStep DEF RfpInv
    <3>4. ASSUME NEW d \in Client, OwnThread(d)' PROVE InStep(d)'
      <4>1. OwnThread(d)
        BY <3>1, <3>4, NodesStay DEF OwnThread, RfpInv
      <4>2. CASE d # c
        <5>1. Same(d)
          BY <3>1, <4>1, <4>2, OthersStay DEF RfpInv
        <5> QED BY <4>1, <5>1, Frame DEF RfpInv
      <4>3. CASE d = c
        BY <3>1, <4>1, <4>3, OwnStep
      <4> QED BY <4>2, <4>3
    <3> QED BY <3>2, <3>3, <3>4 DEF RfpInv
  <2> QED BY <2>1, <2>2
<1> QED BY <1>1, <1>2, PTL DEF Spec

(* Every variable of the RFP calls keeps its type.                            *)
THEOREM RfpTypeCorrect == ASSUME RfpAssumption PROVE Spec => []TypeOK
<1>1. RfpInv => TypeOK
  BY DEF RfpInv
<1> QED BY <1>1, RfpAgrees, PTL

(* The time byte shows the time the client waits for only when the reply is   *)
(* complete, the low byte of the size aside.                                  *)
THEOREM RepliesAreFresh == ASSUME RfpAssumption PROVE Spec => []ReplyIsFresh
<1>1. RfpInv => ReplyIsFresh
  <2> SUFFICES ASSUME RfpInv, NEW c \in Client, OwnThread(c), reply[c].time = ctime[c]
               PROVE  Replied(c) \/ SizeShows(c)
    BY DEF ReplyIsFresh
  <2>1. Served(c) \/ SizeUp(c)
    BY DEF RfpInv, InStep
  <2>2. CASE Served(c)
    <3>1. ~Serving(c) /\ Waiting(c)
      BY <2>2 DEF Serving, Handled, Served, OwnThread, RfpInv, InStep
    <3> QED BY <2>2, <3>1 DEF Replied, Served
  <2>3. CASE SizeUp(c)
    BY <2>3 DEF SizeUp, SizeShows, Low, OwnThread
  <2> QED BY <2>1, <2>2, <2>3
<1> QED BY <1>1, RfpAgrees, PTL

(* Whatever has landed of the requests, the polling thread of a client handles *)
(* only the call the client waits for, or one it has taken the size of for a   *)
(* reply.                                                                      *)
THEOREM OnlyPendingIsServed == ASSUME RfpAssumption PROVE Spec => []ServedIsPending
<1>1. RfpInv => ServedIsPending
  <2> SUFFICES ASSUME RfpInv, NEW s \in Client, NEW n \in Client, srv[s].node = n,
                      OwnThread(n), srv[s].pc \in {"size", "copy", "publish"}
               PROVE  \/ /\ Waiting(n) /\ stime[n] # ctime[n]
                         /\ srv[s].op \in {call[n].op, before[n].op}
                         /\ "head" \notin unplaced[n] => req[n].op = call[n].op
                         /\ req[n].val = IF call[n].op = "write" /\ "data" \notin unplaced[n]
                                         THEN call[n].val ELSE before[n].val
                      \/ TakenEarly(n)
    BY DEF ServedIsPending, RfpInv, TypeOK
  <2>1. s = n
    BY DEF OwnThread
  <2>2. InStep(n) /\ PlacedIsOwn(n) /\ Handled(n)
    BY <2>1 DEF RfpInv, Handled
  <2>3. CASE Pending(n) /\ srv[n].op \in {call[n].op, before[n].op}
    BY <2>1, <2>2, <2>3 DEF Pending, PlacedIsOwn, Waiting
  <2>4. CASE Early(n)
    BY <2>1, <2>4 DEF Early, TakenEarly, Low, OwnThread
  <2> QED BY <2>2, <2>3, <2>4 DEF InStep
<1> QED BY <1>1, RfpAgrees, PTL

-------------------------------------------------------------------------------
(* Whether the call of a kept client took effect shows in its own parts alone. *)
Effect(c) == pc[c] = "done" \/ Served(c) \/ srv[c].pc = "publish"

LEMMA EffectIsLocal ==
  ASSUME NEW c \in Client
  PROVE  /\ RfpInv /\ OwnThread(c) => (TookEffect(c) <=> Effect(c))
         /\ (RfpInv /\ OwnThread(c) => (TookEffect(c) <=> Effect(c)))'
<1>1. RfpInv /\ OwnThread(c) => (TookEffect(c) <=> Effect(c))
  <2> SUFFICES ASSUME RfpInv, OwnThread(c) PROVE TookEffect(c) <=> Effect(c)
    OBVIOUS
  <2>1. \A s \in Client : srv[s].node = c <=> s = c
    BY DEF OwnThread
  <2>2. Serving(c) <=> Handled(c)
    BY <2>1 DEF Serving, Handled
  <2>3. Served(c) => Waiting(c)
    BY DEF RfpInv, InStep
  <2> QED BY <2>1, <2>2, <2>3 DEF TookEffect, Effect, Replied, Served
<1> QED BY <1>1, PTL

(* The size is never taken for a time.                                        *)
LEMMA NeverEarly ==
  ASSUME RfpInv, NEW c \in Client, Kept(c)
  PROVE  /\ OwnThread(c) /\ InStep(c) /\ PlacedIsOwn(c) /\ TypeOK
         /\ ~Early(c) /\ ~SizeUp(c)
<1>1. ctime[c] \in 1..2 /\ Low \notin 1..2
  BY DEF RfpInv, TypeOK, Kept, Low
<1>2. ~Early(c) /\ ~SizeUp(c)
  BY <1>1 DEF Early, SizeUp, Other
<1> QED BY <1>2 DEF Kept, RfpInv

(* What the client is to the abstract specification stays as it is.           *)
Stutter(c) ==
  /\ RequestOf(c)' = RequestOf(c) /\ LeftOf(c)' = LeftOf(c) /\ AnswerOf(c)' = AnswerOf(c)
  /\ mem'[c] = mem[c] /\ reply'[c].val = reply[c].val

(* The steps of RemoteFetch, for one client.                                  *)
Invokes(c) ==
  /\ RequestOf(c) = NULL /\ RequestOf(c)' \in Abstract!Requests
  /\ LeftOf(c)' = LeftOf(c) /\ AnswerOf(c)' = AnswerOf(c)
  /\ mem'[c] = mem[c] /\ reply'[c].val = reply[c].val

Serves(c, op, v) ==
  /\ RequestOf(c) # NULL /\ AnswerOf(c) = Abstract!NoAnswer
  /\ op \in {RequestOf(c).op, LeftOf(c).op}
  /\ op = "write" => \/ v = LeftOf(c).val
                     \/ v = RequestOf(c).val /\ RequestOf(c).op = "write"
  /\ mem'[c] = IF op = "write" THEN v ELSE mem[c]
  /\ reply'[c].val = IF op = "read" THEN mem[c] ELSE reply[c].val
  /\ AnswerOf(c)' = Abstract!Answer(IF RequestOf(c).op = "read" THEN reply'[c].val ELSE NULL)
  /\ RequestOf(c)' = RequestOf(c) /\ LeftOf(c)' = LeftOf(c)

Responds(c) ==
  /\ AnswerOf(c) # Abstract!NoAnswer
  /\ RequestOf(c)' = NULL /\ AnswerOf(c)' = Abstract!NoAnswer
  /\ LeftOf(c)' = Abstract!Leaves(RequestOf(c), LeftOf(c))
  /\ mem'[c] = mem[c] /\ reply'[c].val = reply[c].val

(* A client nothing of which changes stays as it is.                          *)
LEMMA AbstractFrame ==
  ASSUME RfpInv, RfpInv', NEW d \in Client, OwnThread(d), OwnThread(d)', Same(d)
  PROVE  Stutter(d)
<1>1. TookEffect(d) <=> Effect(d)
  BY EffectIsLocal
<1>2. (TookEffect(d) <=> Effect(d))'
  BY EffectIsLocal
<1>3. TookEffect(d)' <=> TookEffect(d)
  BY <1>1, <1>2 DEF Effect, Served, Handled, Same
<1>4. /\ RequestOf(d)' = RequestOf(d) /\ LeftOf(d)' = LeftOf(d)
      /\ ResultOf(d)' = ResultOf(d)
  BY DEF RequestOf, LeftOf, ResultOf, Same
<1> QED BY <1>3, <1>4 DEF Stutter, AnswerOf, Same

(* Each step of a kept client is a step of RemoteFetch or stutters; the call   *)
(* takes effect in CopyData.                                                   *)
LEMMA StepMaps ==
  ASSUME RfpAssumption, RfpInv, RfpInv', NEW c \in Client, Kept(c), Kept(c)', StepOf(c)
  PROVE  \/ Stutter(c) \/ Invokes(c) \/ Responds(c)
         \/ \E op \in {"none", "read", "write"}, v \in Value : Serves(c, op, v)
<1>a. TypeOK /\ PlacedIsOwn(c) /\ InStep(c) /\ ~Early(c) /\ ~SizeUp(c) /\ OwnThread(c)
  BY NeverEarly
<1>b. TypeOK' /\ InStep(c)' /\ OwnThread(c)'
  BY DEF RfpInv, Kept
<1>n. srv[c].node = c
  BY <1>a DEF OwnThread
<1>e. TookEffect(c) <=> Effect(c)
  BY <1>a, EffectIsLocal
<1>f. TookEffect(c)' <=> Effect(c)'
  BY <1>b, EffectIsLocal
<1>d. [op |-> call[c].op, val |-> call[c].val] # NULL
  BY <1>a DEF RfpAssumption, TypeOK, Op
<1>w. /\ Handled(c) => Waiting(c) /\ stime[c] # ctime[c]
      /\ Served(c) => Waiting(c)
      /\ Waiting(c) => pc[c] \notin {"idle", "done", "error"}
  BY <1>a DEF InStep, Waiting, Pending
<1> USE DEF Stutter, RequestOf, LeftOf, AnswerOf, ResultOf, clientVars, serverVars
<1>1. ASSUME NEW op \in Op, NEW v \in Value, Call(c, op, v) PROVE Invokes(c)
  <2>1. /\ pc[c] = "idle" /\ pc'[c] = "writing"
        /\ call'[c] = [op |-> op, val |-> v, res |-> NULL]
        /\ before'[c] = [op |-> req[c].op, val |-> req[c].val]
        /\ UNCHANGED <<ctime, req, reply, stime, mem, srv>>
    BY <1>1, <1>a DEF Call, TypeOK
  <2>2. ~Effect(c) /\ ~Effect(c)'
    BY <2>1, <1>w DEF Effect, Served, Handled
  <2>3. RequestOf(c)' \in Abstract!Requests
    BY <2>1 DEF Abstract!Requests, Op
  <2> QED BY <2>1, <2>2, <2>3, <1>e, <1>f DEF Invokes
<1>2. CASE PostRead(c)
  BY <1>2, <1>a, <1>e, <1>f DEF PostRead, TypeOK, Effect, Served, Handled
<1>3. CASE CheckAgain(c)
  BY <1>3, <1>a, <1>e, <1>f DEF CheckAgain, TypeOK, Effect, Served, Handled
<1>4. CASE Check(c)
  <2>1. /\ pc[c] = "fetched" /\ pc'[c] = "done" /\ local[c].time = ctime[c]
        /\ call'[c].op = call[c].op /\ call'[c].val = call[c].val
        /\ call'[c].res = IF call[c].op = "read" THEN local[c].val ELSE NULL
        /\ UNCHANGED <<before, req, reply, mem>>
    BY <1>4, <1>a DEF Check, TypeOK
  <2>2. Served(c) /\ local[c].val = reply[c].val
    BY <2>1, <1>a DEF InStep, Low, Kept
  <2>3. TookEffect(c) /\ TookEffect(c)'
    BY <2>1, <2>2, <1>e, <1>f DEF Effect
  <2> QED BY <2>1, <2>2, <2>3
<1>5. CASE Return(c)
  <2>1. /\ pc[c] = "done" /\ pc'[c] = "idle"
        /\ UNCHANGED <<ctime, req, reply, stime, mem, srv>>
    BY <1>5, <1>a DEF Return, TypeOK
  <2>2. TookEffect(c) /\ ~TookEffect(c)'
    BY <2>1, <1>w, <1>e, <1>f DEF Effect, Served, Handled, Waiting
  <2>3. /\ req[c].op = call[c].op
        /\ req[c].val = IF call[c].op = "write" THEN call[c].val ELSE before[c].val
    BY <2>1, <1>a DEF PlacedIsOwn
  <2> QED BY <2>1, <2>2, <2>3 DEF Responds, Abstract!NoAnswer, Abstract!Leaves
<1>6. CASE RequestFaults(c)
  <2>1. /\ pc[c] = "writing" /\ pc'[c] = "error" /\ ~Fits(c, call[c].op)
        /\ UNCHANGED <<call, ctime, before, req, reply, stime, mem, srv>>
    BY <1>6, <1>a DEF RequestFaults, TypeOK
  <2>2. ~Waiting(c)
    BY <2>1, <1>a DEF PlacedIsOwn, Waiting
  <2>3. ~Effect(c) /\ ~Effect(c)'
    BY <2>1, <2>2, <1>w DEF Effect, Served, Handled
  <2> QED BY <2>1, <2>3, <1>e, <1>f
<1>7. ASSUME NEW part, Place(c, part) PROVE Stutter(c)
  <2>1. pc[c] = "writing" /\ UNCHANGED <<pc, call, ctime, before, reply, stime, mem, srv>>
    BY <1>7 DEF Place
  <2> QED BY <2>1, <1>e, <1>f DEF Effect, Served, Handled
<1>8. CASE FetchReply(c)
  BY <1>8, <1>a, <1>e, <1>f DEF FetchReply, TypeOK, Effect, Served, Handled
<1>9. CASE StartThread(c)
  <2>1. /\ srv[c].pc = "start" /\ srv'[c].pc = "poll" /\ stime'[c] = 2
        /\ UNCHANGED <<pc, call, ctime, before, req, reply, mem>>
    BY <1>9, <1>a, <1>n DEF StartThread, TypeOK
  <2>2. stime[c] # ctime[c] /\ stime'[c] # ctime'[c]
    BY <2>1, <1>a DEF InStep
  <2> QED BY <2>1, <2>2, <1>e, <1>f DEF Effect, Served, Handled
<1>10. CASE TakeRequest(c)
  <2>1. /\ srv[c].pc = "poll" /\ srv'[c].pc = "size" /\ req[c].valid
        /\ UNCHANGED <<pc, call, ctime, before, req, reply, stime, mem>>
    BY <1>10, <1>a, <1>n DEF TakeRequest, TypeOK
  <2>2. stime[c] # ctime[c]
    BY <2>1, <1>a DEF InStep, Pending
  <2> QED BY <2>1, <2>2, <1>e, <1>f DEF Effect, Served, Handled
<1>11. CASE WriteSize(c)
  <2>1. /\ srv[c].pc = "size" /\ srv'[c].pc = "copy" /\ reply'[c].val = reply[c].val
        /\ UNCHANGED <<pc, call, ctime, before, req, stime, mem>>
    BY <1>11, <1>a, <1>n DEF WriteSize, TypeOK
  <2> QED BY <2>1, <1>e, <1>f DEF Effect, Served, Handled
<1>12. CASE CopyData(c)
  <2>1. /\ srv[c].pc = "copy" /\ srv'[c].pc = "publish"
        /\ UNCHANGED <<pc, call, ctime, unplaced, before, req, stime>>
    BY <1>12, <1>a, <1>n DEF CopyData, TypeOK
  <2>2. /\ mem'[c] = IF srv[c].op = "write" THEN req[c].val ELSE mem[c]
        /\ reply'[c].val = IF srv[c].op = "read" THEN mem[c] ELSE reply[c].val
    BY <1>12, <1>a, <1>n DEF CopyData, TypeOK
  <2>3. /\ Waiting(c) /\ srv[c].op \in {call[c].op, before[c].op}
        /\ pc[c] \notin {"idle", "done", "error"}
    BY <2>1, <1>a, <1>w DEF InStep, Handled
  <2>4. req[c].val = before[c].val \/ (req[c].val = call[c].val /\ call[c].op = "write")
    BY <2>3, <1>a DEF PlacedIsOwn
  <2>5. ~TookEffect(c) /\ TookEffect(c)'
    BY <2>1, <2>3, <1>e, <1>f DEF Effect, Served, Handled
  <2>6. srv[c].op \in {"none", "read", "write"} /\ req[c].val \in Value
    BY <1>a DEF TypeOK, Op
  <2>7. Serves(c, srv[c].op, req[c].val)
    BY <2>1, <2>2, <2>3, <2>4, <2>5, <1>d
    DEF Serves, Abstract!NoAnswer, Abstract!Answer
  <2> QED BY <2>6, <2>7
<1>13. CASE Publish(c)
  <2>1. /\ srv[c].pc = "publish" /\ srv'[c].pc = "clear"
        /\ stime'[c] = Other(stime[c]) /\ reply'[c].val = reply[c].val
        /\ UNCHANGED <<pc, call, ctime, before, req, mem>>
    BY <1>13, <1>a, <1>n DEF Publish, TypeOK
  <2>2. stime[c] \in 1..2 /\ ctime[c] \in 1..2 /\ stime[c] # ctime[c] /\ pc[c] # "done"
    BY <2>1, <1>a, <1>w DEF InStep, Handled, TypeOK
  <2>3. stime'[c] = ctime'[c]
    BY <2>1, <2>2 DEF Other
  <2>4. TookEffect(c) /\ TookEffect(c)'
    BY <2>1, <2>3, <1>e, <1>f DEF Effect, Served, Handled
  <2> QED BY <2>1, <2>2, <2>4
<1>14. CASE ClearValid(c)
  <2>1. /\ srv[c].pc = "clear" /\ srv'[c].pc = "poll"
        /\ req'[c].op = req[c].op /\ req'[c].val = req[c].val
        /\ UNCHANGED <<pc, call, ctime, before, reply, stime, mem>>
    BY <1>14, <1>a, <1>n DEF ClearValid, TypeOK
  <2> QED BY <2>1, <1>e, <1>f DEF Effect, Served, Handled
<1> QED BY <1>1, <1>2, <1>3, <1>4, <1>5, <1>6, <1>7, <1>8, <1>9, <1>10, <1>11, <1>12, <1>13,
           <1>14 DEF StepOf, ClientStep, WorkThread, Adapter, PollThread

-------------------------------------------------------------------------------
(* The abstract state, client by client.                                      *)
CellOf(c)  == IF Kept(c) THEN mem[c] ELSE Zero
AskedBy(c) == IF Kept(c) THEN RequestOf(c) ELSE NULL
LeftBy(c)  == IF Kept(c) THEN LeftOf(c) ELSE [op |-> "none", val |-> Zero]
ShownTo(c) == IF Kept(c) THEN reply[c].val ELSE Zero
Answers(c) == IF Kept(c) THEN AnswerOf(c) ELSE [is |-> "pending", res |-> NULL]

Cell  == [c \in Client |-> CellOf(c)]
Asked == [c \in Client |-> AskedBy(c)]
Left  == [c \in Client |-> LeftBy(c)]
Shown == [c \in Client |-> ShownTo(c)]
Ans   == [c \in Client |-> Answers(c)]

(* Nothing of the abstract state of a client changes. *)
Rests(c) ==
  /\ CellOf(c)' = CellOf(c) /\ AskedBy(c)' = AskedBy(c) /\ LeftBy(c)' = LeftBy(c)
  /\ ShownTo(c)' = ShownTo(c) /\ Answers(c)' = Answers(c)

(* The first state is the first state of RemoteFetch. *)
LEMMA InitMaps == ASSUME RfpAssumption, Init PROVE Abstract!Init
<1>1. ASSUME NEW c \in Client
      PROVE  /\ mem[c] = Zero /\ RequestOf(c) = NULL /\ reply[c].val = Zero
             /\ LeftOf(c) = [op |-> "none", val |-> Zero]
             /\ AnswerOf(c) = [is |-> "pending", res |-> NULL]
  <2>1. ~TookEffect(c)
    <3>1. \A s \in Client : srv[s].pc = "start"
      <4>1. PICK node \in [Client -> Client] :
              srv = [s \in Client |-> [pc |-> "start", node |-> node[s], op |-> "none"]]
        BY DEF Init
      <4> QED BY <4>1
    <3>2. pc[c] = "idle"
      BY DEF Init
    <3> QED BY <3>1, <3>2 DEF TookEffect, Replied, Waiting
  <2> QED BY <2>1 DEF Init, RequestOf, LeftOf, AnswerOf
<1> QED BY <1>1 DEF Abstract!Init, Abstract!NoAnswer

(* When every client but c rests, a step of c is one of RemoteFetch. *)
LEMMA RestMaps ==
  ASSUME RfpAssumption, NEW c \in Client, \A d \in Client \ {c} : Rests(d), Kept(c), Kept(c)',
         \/ Stutter(c) \/ Invokes(c) \/ Responds(c)
         \/ \E op \in {"none", "read", "write"}, v \in Value : Serves(c, op, v)
  PROVE  [Abstract!Next]_Abstract!fetchVars
<1>1. /\ Cell[c] = mem[c] /\ Asked[c] = RequestOf(c) /\ Left[c] = LeftOf(c)
      /\ Shown[c] = reply[c].val /\ Ans[c] = AnswerOf(c)
  BY DEF Cell, CellOf, Asked, AskedBy, Left, LeftBy, Shown, ShownTo, Ans, Answers
<1>2. /\ CellOf(c)' = mem'[c] /\ AskedBy(c)' = RequestOf(c)' /\ LeftBy(c)' = LeftOf(c)'
      /\ ShownTo(c)' = reply'[c].val /\ Answers(c)' = AnswerOf(c)'
  BY DEF CellOf, AskedBy, LeftBy, ShownTo, Answers
<1>3. /\ Cell' = [d \in Client |-> CellOf(d)'] /\ Asked' = [d \in Client |-> AskedBy(d)']
      /\ Left' = [d \in Client |-> LeftBy(d)'] /\ Shown' = [d \in Client |-> ShownTo(d)']
      /\ Ans' = [d \in Client |-> Answers(d)']
  BY DEF Cell, Asked, Left, Shown, Ans
<1>4. ASSUME NEW x, mem'[c] = x PROVE Cell' = [Cell EXCEPT ![c] = x]
  BY <1>2, <1>3, <1>4 DEF Cell, Rests
<1>5. ASSUME NEW x, RequestOf(c)' = x PROVE Asked' = [Asked EXCEPT ![c] = x]
  BY <1>2, <1>3, <1>5 DEF Asked, Rests
<1>6. ASSUME NEW x, LeftOf(c)' = x PROVE Left' = [Left EXCEPT ![c] = x]
  BY <1>2, <1>3, <1>6 DEF Left, Rests
<1>7. ASSUME NEW x, reply'[c].val = x PROVE Shown' = [Shown EXCEPT ![c] = x]
  BY <1>2, <1>3, <1>7 DEF Shown, Rests
<1>8. ASSUME NEW x, AnswerOf(c)' = x PROVE Ans' = [Ans EXCEPT ![c] = x]
  BY <1>2, <1>3, <1>8 DEF Ans, Rests
<1>9. /\ mem'[c] = mem[c] => Cell' = Cell
      /\ RequestOf(c)' = RequestOf(c) => Asked' = Asked
      /\ LeftOf(c)' = LeftOf(c) => Left' = Left
      /\ reply'[c].val = reply[c].val => Shown' = Shown
      /\ AnswerOf(c)' = AnswerOf(c) => Ans' = Ans
  BY <1>1, <1>2, <1>3 DEF Cell, Asked, Left, Shown, Ans, Rests
<1>10. CASE Stutter(c)
  <2>1. Cell' = Cell /\ Asked' = Asked /\ Left' = Left /\ Shown' = Shown /\ Ans' = Ans
    BY <1>9, <1>10 DEF Stutter
  <2> QED BY <2>1 DEF Abstract!fetchVars, Cell, CellOf, Asked, AskedBy, Left, LeftBy,
                      Shown, ShownTo, Ans, Answers
<1>11. CASE Invokes(c)
  <2>1. PICK q \in Abstract!Requests : RequestOf(c)' = q
    BY <1>11 DEF Invokes
  <2>2. /\ Asked[c] = NULL /\ Asked' = [Asked EXCEPT ![c] = q]
        /\ Cell' = Cell /\ Left' = Left /\ Shown' = Shown /\ Ans' = Ans
    BY <2>1, <1>1, <1>5, <1>9, <1>11 DEF Invokes
  <2>3. Abstract!Invoke(c, q)
    BY <2>2 DEF Abstract!Invoke, Cell, CellOf, Asked, AskedBy, Left, LeftBy, Shown, ShownTo,
                Ans, Answers
  <2> QED BY <2>1, <2>3 DEF Abstract!Next
<1>12. CASE Responds(c)
  <2>1. /\ Ans[c] # Abstract!NoAnswer /\ Asked' = [Asked EXCEPT ![c] = NULL]
        /\ Ans' = [Ans EXCEPT ![c] = Abstract!NoAnswer]
        /\ Left' = [Left EXCEPT ![c] = Abstract!Leaves(Asked[c], Left[c])]
        /\ Cell' = Cell /\ Shown' = Shown
    BY <1>1, <1>5, <1>6, <1>8, <1>9, <1>12 DEF Responds
  <2>2. Abstract!Respond(c)
    BY <2>1 DEF Abstract!Respond, Cell, CellOf, Asked, AskedBy, Left, LeftBy, Shown, ShownTo,
                Ans, Answers
  <2> QED BY <2>2 DEF Abstract!Next
<1>13. ASSUME NEW op \in {"none", "read", "write"}, NEW v \in Value, Serves(c, op, v)
       PROVE  [Abstract!Next]_Abstract!fetchVars
  <2>1. /\ Asked[c] # NULL /\ Ans[c] = Abstract!NoAnswer
        /\ op \in {Asked[c].op, Left[c].op}
        /\ op = "write" => v = Left[c].val \/ (v = Asked[c].val /\ Asked[c].op = "write")
        /\ Asked' = Asked /\ Left' = Left
    BY <1>1, <1>9, <1>13 DEF Serves
  <2>2. Cell' = [Cell EXCEPT ![c] = IF op = "write" THEN v ELSE Cell[c]]
    BY <1>1, <1>4, <1>13 DEF Serves
  <2>3. /\ Shown' = [Shown EXCEPT ![c] = IF op = "read" THEN Cell[c] ELSE Shown[c]]
        /\ Shown'[c] = reply'[c].val
    BY <1>1, <1>2, <1>3, <1>7, <1>13 DEF Serves
  <2>4. Ans' = [Ans EXCEPT ![c] =
                  Abstract!Answer(IF Asked[c].op = "read" THEN Shown'[c] ELSE NULL)]
    BY <2>3, <1>1, <1>8, <1>13 DEF Serves
  <2>5. Abstract!Serve(c, op, v)
    BY <2>1, <2>2, <2>3, <2>4
    DEF Abstract!Serve, Cell, CellOf, Asked, AskedBy, Left, LeftBy, Shown, ShownTo, Ans, Answers
  <2> QED BY <2>5 DEF Abstract!Next
<1> QED BY <1>10, <1>11, <1>12, <1>13

(* A step of one client is a step of RemoteFetch or stutters.                 *)
LEMMA NextMaps ==
  ASSUME RfpAssumption, RfpInv, RfpInv', NEW c \in Client, StepOf(c)
  PROVE  [Abstract!Next]_Abstract!fetchVars
<1>1. ASSUME NEW d \in Client PROVE OwnThread(d)' <=> OwnThread(d)
  BY NodesStay DEF OwnThread, RfpInv
<1>2. ASSUME NEW d \in Client PROVE Kept(d)' <=> Kept(d)
  BY <1>1 DEF Kept
<1>3. ASSUME NEW d \in Client, d # c \/ ~Kept(d) PROVE Rests(d)
  <2>1. CASE ~Kept(d)
    BY <2>1, <1>2 DEF Rests, CellOf, AskedBy, LeftBy, ShownTo, Answers
  <2>2. CASE Kept(d)
    <3>1. Same(d)
      BY <1>3, <2>2, OthersStay DEF Kept, RfpInv
    <3>2. Stutter(d)
      BY <1>1, <2>2, <3>1, AbstractFrame DEF Kept
    <3> QED BY <1>2, <2>2, <3>2
            DEF Stutter, Rests, CellOf, AskedBy, LeftBy, ShownTo, Answers
  <2> QED BY <2>1, <2>2
<1>4. CASE Kept(c)
  <2>1. Kept(c)'
    BY <1>2, <1>4
  <2>2. \/ Stutter(c) \/ Invokes(c) \/ Responds(c)
        \/ \E op \in {"none", "read", "write"}, v \in Value : Serves(c, op, v)
    BY <1>4, <2>1, StepMaps
  <2> QED BY <1>3, <1>4, <2>1, <2>2, RestMaps
<1>5. CASE ~Kept(c)
  <2>1. \A d \in Client : Rests(d)
    BY <1>3, <1>5
  <2>2. Cell' = Cell /\ Asked' = Asked /\ Left' = Left /\ Shown' = Shown /\ Ans' = Ans
    BY <2>1 DEF Rests, Cell, Asked, Left, Shown, Ans
  <2> QED BY <2>2 DEF Abstract!fetchVars, Cell, CellOf, Asked, AskedBy, Left, LeftBy,
                      Shown, ShownTo, Ans, Answers
<1> QED BY <1>4, <1>5

(* The RFP calls implement RemoteFetch: whatever the interleaving of clients,  *)
(* the parts of their requests and the polling threads, the call of a client   *)
(* that has its own thread takes effect at most once, between its invocation   *)
(* and its return, as itself or with what the calls before it left.            *)
THEOREM RfpImplementsFetch == ASSUME RfpAssumption PROVE Spec => ImplementsRemoteFetch
<1>1. Init => Abstract!Init
  BY InitMaps
<1>2. RfpInv /\ RfpInv' /\ [Next]_vars => [Abstract!Next]_Abstract!fetchVars
  <2> SUFFICES ASSUME RfpInv, RfpInv', [Next]_vars
               PROVE  [Abstract!Next]_Abstract!fetchVars
    OBVIOUS
  <2>1. CASE UNCHANGED vars
    BY <2>1 DEF vars, clientVars, serverVars, Abstract!fetchVars, Kept, OwnThread, RequestOf,
                LeftOf, AnswerOf, ResultOf, TookEffect, Replied, Waiting, Serving
  <2>2. CASE Next
    <3>1. PICK c \in Client : StepOf(c)
      BY <2>2 DEF Next, StepOf, ClientStep
    <3> QED BY <3>1, NextMaps
  <2> QED BY <2>1, <2>2
<1> QED BY <1>1, <1>2, RfpAgrees, PTL DEF Spec, ImplementsRemoteFetch, Abstract!Spec
===============================================================================
