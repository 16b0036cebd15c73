------------------------------ MODULE DhmpRfpInv ------------------------------
(***************************************************************************)
(* What the RFP calls promise, however the bytes of a request land: each   *)
(* call is served at most once, a reply is taken only when it is complete, *)
(* and a call whose request is not erased returns.                         *)
(***************************************************************************)
EXTENDS DhmpRfp

(* The variables keep their types; the times stay within the char they are    *)
(* kept in, and a time the client expects is one of the two in use.           *)
TypeOK ==
  /\ pc \in [Client -> {"idle", "writing", "reading", "fetched", "done", "error"}]
  /\ call \in [Client -> [op : Op, val : Value, res : Value \cup {NULL}]]
  /\ ctime \in [Client -> 1..2]
  /\ local \in [Client -> [time : 0..255, val : Value]]
  /\ unplaced \in [Client -> SUBSET {"valid", "head", "data"}]
  /\ before \in [Client -> [op : Op \cup {"none"}, val : Value]]
  /\ req \in [Client -> [valid : BOOLEAN, op : Op \cup {"none"}, val : Value]]
  /\ reply \in [Client -> [time : 0..255, val : Value]]
  /\ stime \in [Client -> 0..2]
  /\ mem \in [Client -> Value]
  /\ srv \in [Client -> [pc : {"start", "poll", "size", "copy", "publish", "clear"},
                         node : Client, op : Op \cup {"none"}]]

-------------------------------------------------------------------------------
(* The thread made for client c polls its region, and no other does: what the *)
(* stack frame behind the pointer decides (line 491 of dhmp_server.c). No step *)
(* changes it. A client without it is promised nothing.                       *)
OwnThread(c) == \A s \in Client : srv[s].node = c <=> s = c

(* The valid byte of the pending call has landed. *)
Waiting(c) ==
  \/ pc[c] = "writing" /\ "valid" \notin unplaced[c]
  \/ pc[c] \in {"reading", "fetched"}

Serving(c) == \E s \in Client : srv[s].node = c /\ srv[s].pc \in {"size", "copy", "publish"}

(* The reply of the pending call has been published. *)
Replied(c) == Waiting(c) /\ stime[c] = ctime[c] /\ ~Serving(c)

(* The low byte of the size stands where the time belongs. *)
SizeShows(c) ==
  /\ reply[c].time = Length % 256
  /\ \E s \in Client : srv[s].node = c /\ srv[s].pc \in {"copy", "publish"}

(* The time byte in the reply region shows the time the client waits for only *)
(* from the moment its own reply is complete: a fetched reply the client      *)
(* takes is never an old one or half of one. The exception is the size that   *)
(* RFP_run's handler writes over that byte first: with a low byte of 1 or 2   *)
(* it may be taken for the time.                                              *)
ReplyIsFresh ==
  \A c \in Client :
    OwnThread(c) /\ reply[c].time = ctime[c] => Replied(c) \/ SizeShows(c)

(* The client has taken the size for the time: its time is a turn ahead.      *)
TakenEarly(c) ==
  /\ ctime[c] = stime[c] /\ Length % 256 = Other(ctime[c])
  /\ \E s \in Client : srv[s].node = c /\ srv[s].pc \in {"copy", "publish"}

(* What amper_RFP_request_handler is serving is a call the client waits for   *)
(* and has no reply to. What has landed of it is not overwritten before it is *)
(* replied to, and of what had not landed when it was looked at the handler   *)
(* sees what the calls before left.                                           *)
ServedIsPending ==
  \A s \in Client :
    LET n == srv[s].node IN
    OwnThread(n) /\ srv[s].pc \in {"size", "copy", "publish"} =>
      \/ /\ Waiting(n) /\ stime[n] # ctime[n]
         /\ srv[s].op \in {call[n].op, before[n].op}
         /\ "head" \notin unplaced[n] => req[n].op = call[n].op
         /\ req[n].val = IF call[n].op = "write" /\ "data" \notin unplaced[n]
                         THEN call[n].val ELSE before[n].val
      \/ TakenEarly(n)

(* A write the caller is told is done has been done: test/client.c asks for   *)
(* it by "1 for write".                                                       *)
WritesLand ==
  \A c \in Client :
    OwnThread(c) /\ pc[c] = "done" /\ call[c].op = "write" => mem[c] = call[c].val

(* The late clear of the valid byte has taken the pending request away before *)
(* the polling thread saw it.                                                 *)
Erased(c) ==
  /\ Waiting(c) /\ ~Replied(c) /\ ~Serving(c)
  /\ ~req[c].valid

(* A call whose request fits in its region returns unless it is erased:       *)
(* nothing else stops it, in whatever order its bytes land.                   *)
ReturnsOrIsErased ==
  \A c \in Client :
    (OwnThread(c) /\ pc[c] = "writing" /\ Fits(c, call[c].op))
      ~> (pc[c] = "idle" \/ Erased(c))

-------------------------------------------------------------------------------
(* The calls implement RemoteFetch: a call takes effect when the polling      *)
(* thread copies its data. Nothing is said of a client without a thread of    *)
(* its own, nor if the low byte of the size can be taken for a time: its      *)
(* abstract state is then the first one for good.                             *)
Kept(c) == OwnThread(c) /\ Length % 256 \notin 1..2

TookEffect(c) ==
  \/ pc[c] = "done"
  \/ Replied(c)
  \/ \E s \in Client : srv[s].node = c /\ srv[s].pc = "publish"

RequestOf(c) == IF pc[c] = "idle" THEN NULL ELSE [op |-> call[c].op, val |-> call[c].val]

ResultOf(c) ==
  IF pc[c] = "done" THEN call[c].res
  ELSE IF call[c].op = "read" THEN reply[c].val ELSE NULL

AnswerOf(c) ==
  IF TookEffect(c) THEN [is |-> "answered", res |-> ResultOf(c)]
                   ELSE [is |-> "pending", res |-> NULL]

LeftOf(c) == IF pc[c] = "idle" THEN [op |-> req[c].op, val |-> req[c].val] ELSE before[c]

Abstract == INSTANCE RemoteFetch WITH
  cell    <- [c \in Client |-> IF Kept(c) THEN mem[c] ELSE Zero],
  request <- [c \in Client |-> IF Kept(c) THEN RequestOf(c) ELSE NULL],
  left    <- [c \in Client |-> IF Kept(c) THEN LeftOf(c) ELSE [op |-> "none", val |-> Zero]],
  shown   <- [c \in Client |-> IF Kept(c) THEN reply[c].val ELSE Zero],
  answer  <- [c \in Client |-> IF Kept(c) THEN AnswerOf(c) ELSE [is |-> "pending", res |-> NULL]]

(* In every interleaving of the client, the bytes of its request and the      *)
(* polling thread a call takes effect at most once, between its invocation    *)
(* and its return, as itself or with what the calls before it left to be      *)
(* seen, and a read returns what was put out then.                            *)
ImplementsRemoteFetch == Abstract!Spec
===============================================================================
