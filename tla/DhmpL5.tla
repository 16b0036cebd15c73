-------------------------------- MODULE DhmpL5 --------------------------------
(***************************************************************************)
(* The L5 remote procedure calls of several clients: each client writes    *)
(* its request into a message buffer of its own in the server and rings    *)
(* its byte in the one mailbox, which the one thread L5_run scans; the     *)
(* reply is written back into the client's memory. Clients connect one     *)
(* after the other and set their buffers up with dhmp_malloc(size, 3).     *)
(*                                                                         *)
(* A client's call is served by its work thread alone, so one call of a    *)
(* client is pending at a time. The object a client calls for is its own.  *)
(***************************************************************************)
EXTENDS Integers, FiniteSets

CONSTANTS
  Client,  \* the client processes
  Node,    \* [Client -> Nat], the node ids in the order the clients connect
  Value,   \* contents of an object
  Zero,    \* the content nvm_malloc's memset leaves
  NULL,
  Length   \* the length of every object and call

(* Node ids are distinct and follow the order of connecting: DhmpSession has    *)
(* them so (SlotsAreOwn, ScanReachesNodes) while no connection has been dropped *)
(* and no accept has failed.                                                    *)
ASSUME L5Assumption ==
  /\ IsFiniteSet(Client)
  /\ Node \in [Client -> 0..(Cardinality(Client) - 1)]
  /\ \A c, d \in Client : Node[c] = Node[d] => c = d
  /\ Zero \in Value
  /\ NULL \notin Value \cup [op : {"read", "write"}, val : Value]
  /\ Length \in Nat \ {0}

VARIABLES
  pc,          \* [Client -> where the client is]
  call,        \* [Client -> the struct amper_L5_work]
  reply,       \* [Client -> client->local_mr: the size and whether its data is there]
  msg,         \* [Client -> server->L5_message[node_id].addr]
  mailbox,     \* [Client -> the client's byte in server->L5_mailbox]
  mailboxUp,   \* server->L5_mailbox.addr is set
  client_num,  \* server->client_num
  out,         \* [Client -> the data in server->L5_message[node_id].reply_smr]
  mem,         \* [Client -> the content of the client's object]
  poller,      \* L5_run: where it is and the mailbox byte it looks at
  serverUp     \* FALSE once the server process has crashed

vars == <<pc, call, reply, msg, mailbox, mailboxUp, client_num, out, mem, poller, serverUp>>

-------------------------------------------------------------------------------
Op == {"read", "write"}

NoWork == [op |-> "read", val |-> Zero]

Init ==
  /\ pc         = [c \in Client |-> "new"]
  /\ call       = [c \in Client |-> NoWork]
  /\ reply      = [c \in Client |-> 0]
  /\ msg        = [c \in Client |-> NoWork]
  /\ mailbox    = [c \in Client |-> 0]
  /\ mailboxUp  = FALSE
  /\ client_num = 0
  /\ out        = [c \in Client |-> Zero]
  /\ mem        = [c \in Client |-> Zero]
  /\ poller     = [pc |-> "scan", i |-> 0]
  /\ serverUp   = TRUE

clientVars == <<pc, call, reply>>
serverVars == <<msg, mailbox, mailboxUp, client_num, out, mem, poller, serverUp>>

-------------------------------------------------------------------------------
(* Connecting and setting up. *)

(* on_cm_connect_request: the next node id is given out. *)
Connect(c) ==
  /\ serverUp
  /\ pc[c] = "new" /\ Node[c] = client_num
  /\ client_num' = client_num + 1
  /\ pc' = [pc EXCEPT ![c] = "connected"]
  /\ UNCHANGED <<call, reply, msg, mailbox, mailboxUp, out, mem, poller, serverUp>>

(* dhmp_malloc(size, 3). Only the client with node id 0 allocates the mailbox; *)
(* for any other the server dereferences the mailbox it does not have yet.    *)
SetUp(c) ==
  /\ serverUp
  /\ pc[c] = "connected"
  /\ \/ /\ Node[c] = 0 \/ mailboxUp
        /\ mailboxUp' = TRUE
        /\ pc' = [pc EXCEPT ![c] = "idle"]
        /\ UNCHANGED serverUp
     \/ /\ Node[c] # 0 /\ ~mailboxUp
        /\ serverUp' = FALSE
        /\ UNCHANGED <<mailboxUp, pc>>
  /\ UNCHANGED <<call, reply, msg, mailbox, client_num, out, mem, poller>>

-------------------------------------------------------------------------------
(* The client's work thread, amper_L5_work_handler. *)

(* amper_write_L5; the work thread builds the message and posts its WRITE. *)
Call(c, op, v) ==
  /\ pc[c] = "idle"
  /\ call' = [call EXCEPT ![c] = [op |-> op, val |-> v]]
  /\ pc' = [pc EXCEPT ![c] = "messaging"]
  /\ UNCHANGED <<reply, serverVars>>

(* The READ that flushes the message is done: post the WRITE of the mailbox. *)
Ring(c) ==
  /\ pc[c] = "placed"
  /\ pc' = [pc EXCEPT ![c] = "ringing"]
  /\ UNCHANGED <<call, reply, serverVars>>

(* Mutant: the size that ended the spin stays in place. *)
TakeReplyKeeps(c) ==
  /\ pc[c] = "rung"
  /\ reply[c] # 0
  /\ pc' = [pc EXCEPT ![c] = "done"]
  /\ UNCHANGED <<call, reply, serverVars>>

(* The spin on the size in the reply ends and the size is cleared. It is then *)
(* read once more, as the number of bytes to copy for the caller: none.       *)
TakeReply(c) ==
  /\ pc[c] = "rung"
  /\ reply[c] # 0
  /\ reply' = [reply EXCEPT ![c] = 0]
  /\ pc' = [pc EXCEPT ![c] = "done"]
  /\ UNCHANGED <<call, serverVars>>

Return(c) ==
  /\ pc[c] = "done"
  /\ pc' = [pc EXCEPT ![c] = "idle"]
  /\ call' = [call EXCEPT ![c] = NoWork]
  /\ UNCHANGED <<reply, serverVars>>

WorkThread(c) == Ring(c) \/ TakeReply(c) \/ Return(c)

-------------------------------------------------------------------------------
(* The client's adapter. A read carries no data behind the head. *)
PlaceMessage(c) ==
  /\ serverUp
  /\ pc[c] = "messaging"
  /\ msg' = [msg EXCEPT ![c] = [op |-> call[c].op,
               val |-> IF call[c].op = "write" THEN call[c].val ELSE @.val]]
  /\ pc' = [pc EXCEPT ![c] = "placed"]
  /\ UNCHANGED <<call, reply, mailbox, mailboxUp, client_num, out, mem, poller, serverUp>>

PlaceMailbox(c) ==
  /\ serverUp
  /\ pc[c] = "ringing"
  /\ mailbox' = [mailbox EXCEPT ![c] = 1]
  /\ pc' = [pc EXCEPT ![c] = "rung"]
  /\ UNCHANGED <<call, reply, msg, mailboxUp, client_num, out, mem, poller, serverUp>>

Adapter(c) == PlaceMessage(c) \/ PlaceMailbox(c)

-------------------------------------------------------------------------------
(* The server's L5_run. *)

NextByte == (poller.i + 1) % client_num

Looking(c) ==
  /\ serverUp /\ mailboxUp
  /\ poller.pc = "scan" /\ poller.i = Node[c]

Pass(c) ==
  /\ Looking(c)
  /\ mailbox[c] = 0
  /\ poller' = [poller EXCEPT !.i = NextByte]
  /\ UNCHANGED <<clientVars, msg, mailbox, mailboxUp, client_num, out, mem, serverUp>>

(* Mutant: the byte stays up. *)
TakeKeepsByte(c) ==
  /\ Looking(c)
  /\ mailbox[c] # 0
  /\ poller' = [poller EXCEPT !.pc = "copy"]
  /\ UNCHANGED <<clientVars, msg, mailbox, mailboxUp, client_num, out, mem, serverUp>>

(* The byte is cleared before the message is handled. *)
Take(c) ==
  /\ Looking(c)
  /\ mailbox[c] # 0
  /\ mailbox' = [mailbox EXCEPT ![c] = 0]
  /\ poller' = [poller EXCEPT !.pc = "copy"]
  /\ UNCHANGED <<clientVars, msg, mailboxUp, client_num, out, mem, serverUp>>

Handling(c, at) == serverUp /\ poller.pc = at /\ poller.i = Node[c]

CopyData(c) ==
  /\ Handling(c, "copy")
  /\ \/ /\ msg[c].op = "write"
        /\ mem' = [mem EXCEPT ![c] = msg[c].val]
        /\ UNCHANGED out
     \/ /\ msg[c].op = "read"
        /\ out' = [out EXCEPT ![c] = mem[c]]
        /\ UNCHANGED mem
  /\ poller' = [poller EXCEPT !.pc = "reply"]
  /\ UNCHANGED <<clientVars, msg, mailbox, mailboxUp, client_num, serverUp>>

(* The server's adapter writes the reply into the client's memory, the size   *)
(* first.                                                                     *)
PlaceReply(c) ==
  /\ Handling(c, "reply")
  /\ reply' = [reply EXCEPT ![c] = Length]
  /\ poller' = [poller EXCEPT !.pc = "replied"]
  /\ UNCHANGED <<pc, call, msg, mailbox, mailboxUp, client_num, out, mem, serverUp>>

(* Mutant: the byte is cleared when the reply is out. *)
FinishClears(c) ==
  /\ Handling(c, "replied")
  /\ mailbox' = [mailbox EXCEPT ![c] = 0]
  /\ poller' = [pc |-> "scan", i |-> NextByte]
  /\ UNCHANGED <<clientVars, msg, mailboxUp, client_num, out, mem, serverUp>>

(* The spin on the reply's done_flag ends. *)
Finish(c) ==
  /\ Handling(c, "replied")
  /\ poller' = [pc |-> "scan", i |-> NextByte]
  /\ UNCHANGED <<clientVars, msg, mailbox, mailboxUp, client_num, out, mem, serverUp>>

Poller == \E c \in Client : Pass(c) \/ Take(c) \/ CopyData(c) \/ PlaceReply(c) \/ Finish(c)

-------------------------------------------------------------------------------
Next ==
  \/ \E c \in Client :
       \/ Connect(c) \/ SetUp(c)
       \/ \E op \in Op, v \in Value : (op = "write" \/ v = Zero) /\ Call(c, op, v)
       \/ WorkThread(c)
       \/ Adapter(c)
  \/ Poller

Spec == Init /\ [][Next]_vars

(* Every thread is scheduled and every posted verb is performed; whether and   *)
(* when a client connects or calls is up to the applications.                 *)
FairSpec ==
  /\ Spec
  /\ \A c \in Client : WF_vars(WorkThread(c)) /\ WF_vars(Adapter(c))
  /\ WF_vars(Poller)
===============================================================================
