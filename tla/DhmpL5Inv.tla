------------------------------ MODULE DhmpL5Inv -------------------------------
(***************************************************************************)
(* What the L5 calls promise: the poller handles the message of a waiting  *)
(* client and nothing else, a reply is for the call that takes it, no ring *)
(* is lost.                                                                *)
(***************************************************************************)
EXTENDS DhmpL5

(* The variables keep their types, and the poller looks at no mailbox byte    *)
(* beyond the clients that have connected.                                    *)
TypeOK ==
  /\ pc \in [Client -> {"new", "connected", "idle", "messaging", "placed", "ringing",
                        "rung", "done"}]
  /\ call \in [Client -> [op : Op, val : Value]]
  /\ reply \in [Client -> {0, Length}]
  /\ msg \in [Client -> [op : Op, val : Value]]
  /\ mailbox \in [Client -> {0, 1}]
  /\ mailboxUp \in BOOLEAN
  /\ client_num \in 0..Cardinality(Client)
  /\ out \in [Client -> Value]
  /\ mem \in [Client -> Value]
  /\ poller \in [pc : {"scan", "copy", "reply", "replied"}, i : 0..Cardinality(Client)]
  /\ poller.i < client_num \/ poller.i = 0
  /\ serverUp \in BOOLEAN

-------------------------------------------------------------------------------
IsAt(c, at) == poller.pc = at /\ poller.i = Node[c]

(* The call of c took effect and its reply is not taken yet. *)
Served(c) == pc[c] = "rung" /\ (IsAt(c, "reply") \/ reply[c] # 0)

(* A client's byte is up, or its message is being handled, only while the     *)
(* client waits for that very call: the poller meets no message that is half  *)
(* written, replaced under its hands or handled before.                       *)
HandledIsPending ==
  \A c \in Client :
    mailbox[c] # 0 \/ IsAt(c, "copy") =>
      /\ pc[c] = "rung" /\ ~Served(c)
      /\ msg[c].op = call[c].op
      /\ call[c].op = "write" => msg[c].val = call[c].val

(* A waiting client is rung for, being handled or replied to: its request is  *)
(* never lost between the mailbox, the poller and the reply.                  *)
NoRingLost ==
  \A c \in Client :
    pc[c] = "rung" => mailbox[c] # 0 \/ IsAt(c, "copy") \/ IsAt(c, "reply") \/ reply[c] # 0

(* With one poller for all, every call returns, however the others call,      *)
(* unless the server has crashed.                                             *)
EveryL5Returns ==
  \A c \in Client : pc[c] = "messaging" ~> (pc[c] = "idle" \/ ~serverUp)

-------------------------------------------------------------------------------
(* The calls implement RemoteCell on the server's side: a call takes effect   *)
(* when the poller copies its data, and what it answers is what the server    *)
(* wrote back (amper_L5_work_handler copies none of it to the caller).        *)
RequestOf(c) ==
  IF pc[c] \in {"new", "connected", "idle"} THEN NULL
  ELSE [op |-> call[c].op, val |-> call[c].val]

AnswerOf(c) ==
  IF Served(c) \/ pc[c] = "done"
  THEN [is |-> "answered", res |-> IF call[c].op = "read" THEN out[c] ELSE NULL]
  ELSE [is |-> "pending", res |-> NULL]

Abstract == INSTANCE RemoteCell WITH
  cell <- mem,
  request <- [c \in Client |-> RequestOf(c)],
  answer <- [c \in Client |-> AnswerOf(c)]

(* In every interleaving of the clients and the poller a call takes effect    *)
(* once, on the object of its own client, between its invocation and its      *)
(* return.                                                                    *)
ImplementsRemoteCell == Abstract!Spec
===============================================================================
