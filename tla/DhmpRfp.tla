------------------------------- MODULE DhmpRfp --------------------------------
(***************************************************************************)
(* The RFP remote procedure calls (remote fetching: the client writes its  *)
(* request into the server's memory and fetches the reply with RDMA READs) *)
(* of several clients on established connections, after dhmp_malloc(size,  *)
(* 6) has set the two regions of each client up. The server runs one       *)
(* polling thread per client.                                              *)
(*                                                                         *)
(* A client's call is served by its work thread alone, so one call of a    *)
(* client is pending at a time and the application's spin on done_flag is  *)
(* the end of the call. The object a client calls for is its own area.     *)
(*                                                                         *)
(* No order is promised in which the bytes of a WRITE land: the polling    *)
(* thread may see any part of a request before the others.                 *)
(***************************************************************************)
EXTENDS Integers

CONSTANTS
  Client,        \* the client processes, and the polling threads made for them
  Value,         \* contents of an object
  Zero,          \* the content nvm_malloc's memset leaves
  NULL,
  Length,        \* the length of every object and call
  Registered     \* [Client -> Nat], the size the client gave dhmp_malloc(size, 6)

ASSUME RfpAssumption ==
  /\ Zero \in Value
  /\ NULL \notin Value \cup [op : {"read", "write"}, val : Value]
  /\ Length \in Nat
  /\ Registered \in [Client -> Nat]

VARIABLES
  pc,      \* [Client -> where the work thread is in amper_RFP_work_handler]
  call,    \* [Client -> the struct dhmp_RFP_work]
  ctime,   \* [Client -> client->RFP.time]
  local,   \* [Client -> per_ops_mr2, where the fetched reply lands]
  unplaced, \* [Client -> the parts of its request that have not landed yet]
  before,  \* [Client -> what the request region held when the call was made;
           \* read by no action, for the properties only]
  req,     \* [Client -> server->RFP[node_id].write_mr: the request]
  reply,   \* [Client -> server->RFP[node_id].read_mr: the reply]
  stime,   \* [Client -> server->RFP[node_id].time]
  mem,     \* [Client -> the content of the client's object]
  srv      \* [Client -> the polling thread: where it is, its node, its locals]

clientVars == <<pc, call, ctime, local, unplaced, before>>
serverVars == <<reply, stime, mem, srv>>
vars == <<clientVars, req, serverVars>>

-------------------------------------------------------------------------------
Op == {"read", "write"}
NoWork == [op |-> "read", val |-> Zero, res |-> NULL]

(* A region is zero at first: a head of flag 0 and size 0, here of op "none".  *)
(* RFP_run reads its node_id through a pointer into the frame of               *)
(* amper_allocspace_for_server, where a later call may have left another       *)
(* client's by then: node is the one the thread of each client will find.      *)
Init ==
  /\ pc    = [c \in Client |-> "idle"]
  /\ call  = [c \in Client |-> NoWork]
  /\ ctime = [c \in Client |-> 1]
  /\ local = [c \in Client |-> [time |-> 0, val |-> Zero]]
  /\ unplaced = [c \in Client |-> {}]
  /\ before = [c \in Client |-> [op |-> "none", val |-> Zero]]
  /\ req   = [c \in Client |-> [valid |-> FALSE, op |-> "none", val |-> Zero]]
  /\ reply = [c \in Client |-> [time |-> 0, val |-> Zero]]
  /\ stime = [c \in Client |-> 0]
  /\ mem   = [c \in Client |-> Zero]
  /\ \E node \in [Client -> Client] :
       srv = [s \in Client |-> [pc |-> "start", node |-> node[s], op |-> "none"]]

(* The time byte goes 1, 2, 1, ... *)
Other(time) == IF time = 1 THEN 2 ELSE 1

(* valid, flag, address and length, before the data of a write. *)
HeadSize == 18

(* The valid byte, the flag with the address and the size, the data.          *)
Parts(op) == IF op = "write" THEN {"valid", "head", "data"} ELSE {"valid", "head"}

(* dhmp_malloc_request_handler registers req_size + 16 bytes per region. *)
Fits(c, op) == (IF op = "write" THEN HeadSize + Length ELSE HeadSize) <= Registered[c] + 16

-------------------------------------------------------------------------------
(* The client. *)

(* amper_RFP; the work thread builds the request and posts the WRITE. *)
Call(c, op, v) ==
  /\ pc[c] = "idle"
  /\ pc' = [pc EXCEPT ![c] = "writing"]
  /\ call' = [call EXCEPT ![c] = [op |-> op, val |-> v, res |-> NULL]]
  /\ unplaced' = [unplaced EXCEPT ![c] = Parts(op)]
  /\ before' = [before EXCEPT ![c] = [op |-> req[c].op, val |-> req[c].val]]
  /\ UNCHANGED <<ctime, local, req, serverVars>>

(* The spin on the WRITE's done_flag ends and the first READ is posted. *)
PostRead(c) ==
  /\ pc[c] = "writing" /\ unplaced[c] = {}
  /\ pc' = [pc EXCEPT ![c] = "reading"]
  /\ UNCHANGED <<call, ctime, local, unplaced, before, req, serverVars>>

(* Mutant: the first reply fetched is taken. *)
CheckOnce(c) ==
  /\ pc[c] = "fetched"
  /\ ctime' = [ctime EXCEPT ![c] = Other(@)]
  /\ call' = [call EXCEPT ![c].res = IF call[c].op = "read" THEN local[c].val ELSE NULL]
  /\ pc' = [pc EXCEPT ![c] = "done"]
  /\ UNCHANGED <<local, unplaced, before, req, serverVars>>

(* The reply carries another time: it is the last one still, fetch again. *)
CheckAgain(c) ==
  /\ pc[c] = "fetched"
  /\ local[c].time # ctime[c]
  /\ pc' = [pc EXCEPT ![c] = "reading"]
  /\ UNCHANGED <<call, ctime, local, unplaced, before, req, serverVars>>

(* The time the client expects: take the reply, expect the other one next. *)
Check(c) ==
  /\ pc[c] = "fetched"
  /\ local[c].time = ctime[c]
  /\ ctime' = [ctime EXCEPT ![c] = Other(@)]
  /\ call' = [call EXCEPT ![c].res = IF call[c].op = "read" THEN local[c].val ELSE NULL]
  /\ pc' = [pc EXCEPT ![c] = "done"]
  /\ UNCHANGED <<local, unplaced, before, req, serverVars>>

Return(c) ==
  /\ pc[c] = "done"
  /\ pc' = [pc EXCEPT ![c] = "idle"]
  /\ call' = [call EXCEPT ![c] = NoWork]
  /\ before' = [before EXCEPT ![c] = [op |-> "none", val |-> Zero]]
  /\ UNCHANGED <<ctime, local, unplaced, req, serverVars>>

WorkThread(c) == PostRead(c) \/ CheckAgain(c) \/ Check(c) \/ Return(c)

-------------------------------------------------------------------------------
(* The adapters. *)

(* A WRITE past the end of the region is a remote access error, of which      *)
(* nothing lands and whose completion sets no flag.                           *)
RequestFaults(c) ==
  /\ pc[c] = "writing"
  /\ ~Fits(c, call[c].op)
  /\ pc' = [pc EXCEPT ![c] = "error"]
  /\ unplaced' = [unplaced EXCEPT ![c] = {}]
  /\ UNCHANGED <<call, ctime, local, before, req, serverVars>>

(* A part of the request lands. Only a write carries data; a read leaves the  *)
(* data of an older write there.                                              *)
Place(c, part) ==
  /\ pc[c] = "writing" /\ Fits(c, call[c].op)
  /\ part \in unplaced[c]
  /\ unplaced' = [unplaced EXCEPT ![c] = @ \ {part}]
  /\ \/ part = "valid" /\ req' = [req EXCEPT ![c].valid = TRUE]
     \/ part = "head" /\ req' = [req EXCEPT ![c].op = call[c].op]
     \/ part = "data" /\ req' = [req EXCEPT ![c].val = call[c].val]
  /\ UNCHANGED <<pc, call, ctime, local, before, serverVars>>

FetchReply(c) ==
  /\ pc[c] = "reading"
  /\ local' = [local EXCEPT ![c] = reply[c]]
  /\ pc' = [pc EXCEPT ![c] = "fetched"]
  /\ UNCHANGED <<call, ctime, unplaced, before, req, serverVars>>

Adapter(c) ==
  \/ RequestFaults(c)
  \/ \E part \in unplaced[c] : Place(c, part)
  \/ FetchReply(c)

-------------------------------------------------------------------------------
(* The polling thread made for client s. *)

StartThread(s) ==
  /\ srv[s].pc = "start"
  /\ srv' = [srv EXCEPT ![s].pc = "poll"]
  /\ stime' = [stime EXCEPT ![srv[s].node] = 2]
  /\ UNCHANGED <<clientVars, req, reply, mem>>

(* The valid byte is up: the flag and the size are read as they are now.      *)
TakeRequest(s) ==
  LET n == srv[s].node IN
  /\ srv[s].pc = "poll"
  /\ req[n].valid
  /\ srv' = [srv EXCEPT ![s] = [@ EXCEPT !.pc = "size", !.op = req[n].op]]
  /\ UNCHANGED <<clientVars, req, reply, stime, mem>>

(* Mutant: the reply is published before its data is copied. *)
WriteSizeAndPublish(s) ==
  LET n == srv[s].node IN
  /\ srv[s].pc = "size"
  /\ reply' = [reply EXCEPT ![n].time = Other(stime[n])]
  /\ srv' = [srv EXCEPT ![s].pc = "copy"]
  /\ UNCHANGED <<clientVars, req, stime, mem>>

SizeOf(op) == IF op = "none" THEN 0 ELSE Length

(* memcpy(temp, &size, sizeof(size_t)): the low byte lands on the time byte. *)
WriteSize(s) ==
  LET n == srv[s].node IN
  /\ srv[s].pc = "size"
  /\ reply' = [reply EXCEPT ![n].time = SizeOf(srv[s].op) % 256]
  /\ srv' = [srv EXCEPT ![s].pc = "copy"]
  /\ UNCHANGED <<clientVars, req, stime, mem>>

(* The data of a write goes from the request to the object, that of a read    *)
(* from the object to the reply; of size 0 nothing goes.                      *)
CopyData(s) ==
  LET n == srv[s].node IN
  /\ srv[s].pc = "copy"
  /\ \/ /\ srv[s].op = "write"
        /\ mem' = [mem EXCEPT ![n] = req[n].val]
        /\ UNCHANGED reply
     \/ /\ srv[s].op = "read"
        /\ reply' = [reply EXCEPT ![n].val = mem[n]]
        /\ UNCHANGED mem
     \/ /\ srv[s].op = "none"
        /\ UNCHANGED <<reply, mem>>
  /\ srv' = [srv EXCEPT ![s].pc = "publish"]
  /\ UNCHANGED <<clientVars, req, stime>>

(* Mutant: the time byte is written before the time is turned over. *)
PublishOldTime(s) ==
  LET n == srv[s].node IN
  /\ srv[s].pc = "publish"
  /\ reply' = [reply EXCEPT ![n].time = stime[n]]
  /\ stime' = [stime EXCEPT ![n] = Other(@)]
  /\ srv' = [srv EXCEPT ![s].pc = "clear"]
  /\ UNCHANGED <<clientVars, req, mem>>

(* The time byte makes the reply the one the client waits for. *)
Publish(s) ==
  LET n == srv[s].node IN
  /\ srv[s].pc = "publish"
  /\ reply' = [reply EXCEPT ![n].time = Other(stime[n])]
  /\ stime' = [stime EXCEPT ![n] = Other(@)]
  /\ srv' = [srv EXCEPT ![s].pc = "clear"]
  /\ UNCHANGED <<clientVars, req, mem>>

(* Mutant: the valid byte stays up. *)
ClearNothing(s) ==
  /\ srv[s].pc = "clear"
  /\ srv' = [srv EXCEPT ![s].pc = "poll"]
  /\ UNCHANGED <<clientVars, req, reply, stime, mem>>

(* The valid byte is cleared after the reply is out, so it may be the next    *)
(* request that is cleared.                                                   *)
ClearValid(s) ==
  LET n == srv[s].node IN
  /\ srv[s].pc = "clear"
  /\ req' = [req EXCEPT ![n].valid = FALSE]
  /\ srv' = [srv EXCEPT ![s].pc = "poll"]
  /\ UNCHANGED <<clientVars, reply, stime, mem>>

PollThread(s) ==
  \/ StartThread(s) \/ TakeRequest(s) \/ WriteSize(s) \/ CopyData(s)
  \/ Publish(s) \/ ClearValid(s)

-------------------------------------------------------------------------------
Next ==
  \E c \in Client :
    \/ \E op \in Op, v \in Value : (op = "write" \/ v = Zero) /\ Call(c, op, v)
    \/ WorkThread(c)
    \/ Adapter(c)
    \/ PollThread(c)

Spec == Init /\ [][Next]_vars

(* Every thread is scheduled and every posted verb is performed. *)
FairSpec ==
  /\ Spec
  /\ \A c \in Client : WF_vars(WorkThread(c)) /\ WF_vars(Adapter(c)) /\ WF_vars(PollThread(c))
===============================================================================
