------------------------------ MODULE DhmpChannel ------------------------------
(***************************************************************************)
(* How the completions of a process reach its handlers: receive regions,   *)
(* completion queues with their channels, and the epoll thread that serves *)
(* the channels and the connection events one descriptor after the other.  *)
(*                                                                         *)
(* A message is its number on the connection. The network, the adapter and *)
(* epoll are modelled from how the code uses them: a message waits until a *)
(* region is posted (rnr_retry_count is past the largest the verbs know),  *)
(* an armed queue raises one event with the next completion, a queue with  *)
(* no room for a completion is lost, epoll reports every descriptor that   *)
(* is ready, and a queue pair that is destroyed takes its completions out  *)
(* of the queue, as the mlx providers do.                                  *)
(***************************************************************************)
EXTENDS Integers, Sequences, FiniteSets, SequencesExt

CONSTANTS
  Conns,     \* the connections
  Posters,   \* those on which threads of the process post operations
  Clusters,  \* the places of DaRPC_dcq
  First,     \* its first place
  Closers,   \* those whose peer ends in good order; the link of the others breaks
  Regions,   \* [Conns -> the receive regions], more for a QP that is not polled
  NoRegion,  \* no region
  CqSize,    \* the room for completions: 100
  MaxMsgs,   \* bound: [Conns -> messages that the peer sends]
  MaxCount   \* bound: what a place of dcq_count counts up to

ASSUME ChannelAssumption ==
  /\ \A c \in Conns : IsFiniteSet(Regions[c]) /\ NoRegion \notin Regions[c]
  /\ Posters \subseteq Conns /\ Closers \subseteq Conns
  /\ First \in Clusters
  /\ Conns \cap Clusters = {}
  /\ CqSize \in Nat \ {0}
  /\ MaxMsgs \in [Conns -> Nat] /\ MaxCount \in Nat

(* A connection has a completion queue of its own, or shares one of DaRPC_dcq. *)
Cqs == Conns \cup Clusters

VARIABLES
  shared,   \* the build has DaRPC_SERVER
  dcq,      \* [Conns -> its queue, or itself]
  dcq_count,\* [Clusters -> Int]
  made,     \* the queues there are
  state,    \* [Conns -> state of the queue pair]
  cm,       \* [Conns -> what rdma_get_cm_event has to report]
  closing,  \* [Conns -> the last message sent is DHMP_MSG_CLOSE_CONNECTION]
  sent, placed, handled,  \* [Conns -> number of messages]
  mem,      \* [Conns -> [Regions[c] -> the message in it]]
  posted,   \* [Conns -> the regions posted to receive into, oldest first]
  op,       \* [Conns -> the send, read or write that a thread waits for]
  cq,       \* [Cqs -> the completions in the queue]
  armed,    \* [Cqs -> the next completion raises an event]
  events,   \* [Cqs -> events in the completion channel]
  watched,  \* the queues whose channel epoll watches
  overrun,  \* the queues that had no room for a completion
  at,       \* where the epoll thread is
  batch,    \* descriptors that epoll_wait reported and that are not yet served
  serving,  \* the queue whose handler runs
  wc        \* <<>>, or the receive whose region is to be posted again

buildVars == <<dcq, dcq_count, made>>
msgVars == <<sent, placed, handled, mem, posted>>
queueVars == <<cq, armed, events, overrun>>
epollVars == <<at, batch, serving, wc>>
vars == <<shared, buildVars, state, cm, closing, msgVars, op, queueVars, watched,
          epollVars>>

-------------------------------------------------------------------------------
Empty(c) == [r \in Regions[c] |-> 0]

(* Mutant: every region is posted at the start of the receive memory. *)
PostOneRegion(c) == [i \in 1..Cardinality(Regions[c]) |-> SetToSeq(Regions[c])[1]]

(* dhmp_post_all_recv: every region once. *)
PostAllRecv(c) == SetToSeq(Regions[c])

(* A completion: of a receive, of an operation, or of a receive or operation   *)
(* that was flushed out of a broken queue pair.                                *)
Wc(k, c, r) == [kind |-> k, conn |-> c, region |-> r]
Completions ==
  [kind : {"recv", "op", "flush"}, conn : Conns,
   region : (UNION {Regions[c] : c \in Conns}) \cup {NoRegion}]

(* What is left of queue ws, in order, when the queue pair of c is destroyed. *)
Without(c, ws) ==
  LET left[k \in 0..Len(ws)] ==
        IF k = 0 THEN <<>>
        ELSE IF ws[k].conn = c THEN left[k - 1] ELSE Append(left[k - 1], ws[k])
  IN left[Len(ws)]

(* Completion w comes into queue q, which raises an event if it was armed. *)
Complete(q, w) ==
  IF q \notin overrun /\ Len(cq[q]) < CqSize
    THEN /\ cq' = [cq EXCEPT ![q] = Append(@, w)]
         /\ events' = [events EXCEPT ![q] = IF armed[q] THEN @ + 1 ELSE @]
         /\ armed' = [armed EXCEPT ![q] = FALSE]
         /\ UNCHANGED overrun
    ELSE /\ overrun' = overrun \cup {q}
         /\ UNCHANGED <<cq, armed, events>>

Init ==
  /\ shared \in BOOLEAN
  /\ dcq = [c \in Conns |-> c]
  /\ dcq_count = [k \in Clusters |-> 0]
  /\ made = {}
  /\ state = [c \in Conns |-> "none"]
  /\ cm = [c \in Conns |-> "quiet"]
  /\ closing = [c \in Conns |-> FALSE]
  /\ sent = [c \in Conns |-> 0]
  /\ placed = [c \in Conns |-> 0]
  /\ handled = [c \in Conns |-> 0]
  /\ mem = [c \in Conns |-> Empty(c)]
  /\ posted = [c \in Conns |-> <<>>]
  /\ op = [c \in Conns |-> "idle"]
  /\ cq = [q \in Cqs |-> <<>>]
  /\ armed = [q \in Cqs |-> FALSE]
  /\ events = [q \in Cqs |-> 0]
  /\ watched = {}
  /\ overrun = {}
  /\ at = "loop"
  /\ batch = {}
  /\ serving = First
  /\ wc = <<>>

-------------------------------------------------------------------------------
(* The peer, the network and the adapter. *)

(* The peer asks for a connection, or the route to it is resolved. *)
Request(c) ==
  /\ state[c] = "none" /\ cm[c] = "quiet"
  /\ cm' = [cm EXCEPT ![c] = "request"]
  /\ UNCHANGED <<shared, buildVars, state, closing, msgVars, op, queueVars, watched, epollVars>>

(* The peer sends a message; after DHMP_MSG_CLOSE_CONNECTION it sends no more. *)
Send(c, close) ==
  /\ state[c] # "none" /\ cm[c] = "quiet" /\ ~closing[c]
  /\ sent[c] < MaxMsgs[c] /\ (close => c \in Closers)
  /\ sent' = [sent EXCEPT ![c] = @ + 1]
  /\ closing' = [closing EXCEPT ![c] = close]
  /\ UNCHANGED <<shared, buildVars, state, cm, placed, handled, mem, posted, op, queueVars,
                 watched, epollVars>>

(* The next message is placed in the region posted first. *)
Place(c) ==
  /\ state[c] = "up" /\ placed[c] < sent[c] /\ posted[c] # <<>>
  /\ placed' = [placed EXCEPT ![c] = @ + 1]
  /\ mem' = [mem EXCEPT ![c][Head(posted[c])] = placed[c] + 1]
  /\ posted' = [posted EXCEPT ![c] = Tail(@)]
  /\ Complete(dcq[c], Wc("recv", c, Head(posted[c])))
  /\ UNCHANGED <<shared, buildVars, state, cm, closing, sent, handled, op, watched, epollVars>>

(* A thread posts a send, read or write and waits for done_flag. *)
Post(c) ==
  /\ c \in Posters /\ state[c] # "none" /\ op[c] = "idle"
  /\ op' = [op EXCEPT ![c] = "posted"]
  /\ UNCHANGED <<shared, buildVars, state, cm, closing, msgVars, queueVars, watched, epollVars>>

(* The operation is done. *)
Finish(c) ==
  /\ state[c] = "up" /\ op[c] = "posted"
  /\ op' = [op EXCEPT ![c] = "done"]
  /\ Complete(dcq[c], Wc("op", c, NoRegion))
  /\ UNCHANGED <<shared, buildVars, state, cm, closing, msgVars, watched, epollVars>>

(* The peer goes away, or the link breaks. *)
Leave(c) ==
  /\ state[c] # "none" /\ cm[c] = "quiet"
  /\ cm' = [cm EXCEPT ![c] = "gone"]
  /\ state' = [state EXCEPT ![c] = IF c \in Closers THEN @ ELSE "error"]
  /\ UNCHANGED <<shared, buildVars, closing, msgVars, op, queueVars, watched, epollVars>>

(* A queue pair in error flushes what is posted, one after the other. *)
FlushRecv(c) ==
  /\ state[c] = "error" /\ posted[c] # <<>>
  /\ posted' = [posted EXCEPT ![c] = Tail(@)]
  /\ Complete(dcq[c], Wc("flush", c, Head(posted[c])))
  /\ UNCHANGED <<shared, buildVars, state, cm, closing, sent, placed, handled, mem, op,
                 watched, epollVars>>

FlushOp(c) ==
  /\ state[c] = "error" /\ op[c] = "posted"
  /\ op' = [op EXCEPT ![c] = "flushed"]
  /\ Complete(dcq[c], Wc("flush", c, NoRegion))
  /\ UNCHANGED <<shared, buildVars, state, cm, closing, msgVars, watched, epollVars>>

-------------------------------------------------------------------------------
(* The epoll thread. *)
(* The descriptors that are ready: channels of queues, and the event channel. *)
Ready ==
  {<<"cq", q>> : q \in {p \in watched : events[p] > 0}}
    \cup {<<"cm", First>> : c \in {d \in Conns : cm[d] # "quiet"}}

(* epoll_wait returns what is ready, in no order one could count on. *)
EpollWait ==
  /\ at = "loop" /\ batch = {} /\ Ready # {}
  /\ batch' = Ready
  /\ UNCHANGED <<shared, buildVars, state, cm, closing, msgVars, op, queueVars, watched,
                 at, serving, wc>>

(* dhmp_comp_channel_handler: ibv_get_cq_event, which fails if there is none. *)
TakeEvent(q) ==
  /\ at = "loop" /\ <<"cq", q>> \in batch
  /\ batch' = batch \ {<<"cq", q>>}
  /\ IF events[q] = 0
       THEN UNCHANGED <<events, at, serving>>
       ELSE /\ events' = [events EXCEPT ![q] = @ - 1]
            /\ at' = "acked"
            /\ serving' = q
  /\ UNCHANGED <<shared, buildVars, state, cm, closing, msgVars, op, cq, armed, overrun,
                 watched, wc>>

(* ibv_req_notify_cq, before the queue is emptied. *)
Arm ==
  /\ at = "acked"
  /\ armed' = [armed EXCEPT ![serving] = TRUE]
  /\ at' = "poll"
  /\ UNCHANGED <<shared, buildVars, state, cm, closing, msgVars, op, cq, events, overrun,
                 watched, batch, serving, wc>>

(* ibv_poll_cq finds nothing: the handler returns. *)
Emptied ==
  /\ at = "poll" /\ cq[serving] = <<>>
  /\ at' = "loop"
  /\ serving' = First
  /\ UNCHANGED <<shared, buildVars, state, cm, closing, msgVars, op, queueVars, watched, batch, wc>>

(* ibv_poll_cq takes completion w out of the queue. *)
Poll(w) ==
  /\ at = "poll" /\ cq[serving] # <<>>
  /\ w = Head(cq[serving])
  /\ cq' = [cq EXCEPT ![serving] = Tail(@)]
  /\ UNCHANGED <<shared, buildVars, closing, sent, placed, mem, posted, armed, events, overrun,
                 watched, batch, serving>>

(* A message is handled where it was received; the last one may close. *)
HandleRecv(w) ==
  /\ w.kind = "recv" /\ Poll(w)
  /\ LET msg == mem[w.conn][w.region]
     IN  /\ handled' = [handled EXCEPT ![w.conn] = msg]
         /\ IF closing[w.conn] /\ msg = sent[w.conn]
              THEN /\ state' = [state EXCEPT ![w.conn] = IF @ = "up" THEN "error" ELSE @]
                   /\ cm' = [cm EXCEPT ![w.conn] = "gone"]
              ELSE UNCHANGED <<state, cm>>
  /\ at' = "repost"
  /\ wc' = <<w>>
  /\ UNCHANGED op

(* Mutant: the handler takes one completion for each event. *)
RepostReturns ==
  /\ at = "repost"
  /\ posted' = [posted EXCEPT ![wc[1].conn] = Append(@, wc[1].region)]
  /\ at' = "loop"
  /\ wc' = <<>>
  /\ UNCHANGED <<shared, buildVars, state, cm, closing, sent, placed, handled, mem, op,
                 queueVars, watched, batch, serving>>

(* dhmp_post_recv, into the region that has been handled. *)
Repost ==
  /\ at = "repost"
  /\ posted' = [posted EXCEPT ![wc[1].conn] = Append(@, wc[1].region)]
  /\ at' = "poll"
  /\ wc' = <<>>
  /\ UNCHANGED <<shared, buildVars, state, cm, closing, sent, placed, handled, mem, op,
                 queueVars, watched, batch, serving>>

(* Mutant: done_flag is not set. *)
HandleOpSilently(w) ==
  /\ w.kind = "op" /\ Poll(w)
  /\ UNCHANGED <<state, cm, handled, op, at, wc>>

(* done_flag is set: the thread that waits goes on. *)
HandleOp(w) ==
  /\ w.kind = "op" /\ Poll(w)
  /\ op' = [op EXCEPT ![w.conn] = "idle"]
  /\ UNCHANGED <<state, cm, handled, at, wc>>

(* dhmp_wc_error_handler only writes to the log: no done_flag, no region again. *)
HandleError(w) ==
  /\ w.kind = "flush" /\ Poll(w)
  /\ UNCHANGED <<state, cm, handled, op, at, wc>>

(* dhmp_event_channel_handler serves every event there is. *)
TakeCm ==
  /\ at = "loop" /\ <<"cm", First>> \in batch
  /\ batch' = batch \ {<<"cm", First>>}
  /\ at' = "cm"
  /\ UNCHANGED <<shared, buildVars, state, cm, closing, msgVars, op, queueVars, watched,
                 serving, wc>>

(* A connection is set up with queue q, which is new unless it is one of DaRPC_dcq. *)
SetUp(c, q) ==
  /\ at = "cm" /\ cm[c] = "request"
  /\ dcq' = [dcq EXCEPT ![c] = q]
  /\ IF q \in made
       THEN UNCHANGED <<made, cq, armed, events, overrun, watched>>
       ELSE /\ made' = IF q \in Clusters THEN made \cup {q} ELSE made
            /\ cq' = [cq EXCEPT ![q] = <<>>]
            /\ armed' = [armed EXCEPT ![q] = TRUE]
            /\ events' = [events EXCEPT ![q] = 0]
            /\ overrun' = overrun \ {q}
            /\ watched' = watched \cup {q}
  /\ cm' = [cm EXCEPT ![c] = "quiet"]
  /\ state' = [state EXCEPT ![c] = "up"]
  /\ posted' = [posted EXCEPT ![c] = PostAllRecv(c)]
  /\ UNCHANGED <<shared, closing, sent, placed, handled, mem, op, at, batch, serving, wc>>

Connect(c) ==
  /\ ~shared
  /\ SetUp(c, c)
  /\ UNCHANGED dcq_count

(* The index into DaRPC_dcq is taken from node_id before node_id is set. *)
ConnectShared(c, k) ==
  /\ shared /\ dcq_count[k] < MaxCount
  /\ SetUp(c, k)
  /\ dcq_count' = [dcq_count EXCEPT ![k] = @ + 1]

(* dhmp_destroy_source: the queue loses its descriptor, in the DaRPC build once  *)
(* the count of the place that node_id gives is 0. node_id is set by then, and   *)
(* need not give the place the connection was counted at.                        *)
Destroy(c) ==
  /\ at = "cm" /\ cm[c] = "gone"
  /\ cq' = [cq EXCEPT ![dcq[c]] = Without(c, @)]
  /\ \E k \in Clusters :
       /\ dcq_count' = IF shared THEN [dcq_count EXCEPT ![k] = @ - 1] ELSE dcq_count
       /\ watched' = IF shared => dcq_count'[k] = 0 THEN watched \ {dcq[c]} ELSE watched
  /\ state' = [state EXCEPT ![c] = "none"]
  /\ cm' = [cm EXCEPT ![c] = "quiet"]
  /\ closing' = [closing EXCEPT ![c] = FALSE]
  /\ sent' = [sent EXCEPT ![c] = 0]
  /\ placed' = [placed EXCEPT ![c] = 0]
  /\ handled' = [handled EXCEPT ![c] = 0]
  /\ mem' = [mem EXCEPT ![c] = Empty(c)]
  /\ posted' = [posted EXCEPT ![c] = <<>>]
  /\ op' = [op EXCEPT ![c] = "idle"]
  /\ dcq' = [dcq EXCEPT ![c] = c]
  /\ UNCHANGED <<shared, made, armed, events, overrun, at, batch, serving, wc>>

CmDone ==
  /\ at = "cm" /\ \A c \in Conns : cm[c] = "quiet"
  /\ at' = "loop"
  /\ UNCHANGED <<shared, buildVars, state, cm, closing, msgVars, op, queueVars, watched, batch,
                 serving, wc>>

-------------------------------------------------------------------------------
Network(c) ==
  \/ Request(c) \/ Leave(c) \/ \E close \in BOOLEAN : Send(c, close)
  \/ Place(c) \/ Post(c) \/ Finish(c) \/ FlushRecv(c) \/ FlushOp(c)

EpollThread ==
  \/ EpollWait \/ Arm \/ Emptied \/ Repost \/ TakeCm \/ CmDone
  \/ \E w \in Completions : HandleRecv(w) \/ HandleOp(w) \/ HandleError(w)
  \/ \E q \in Cqs : TakeEvent(q)
  \/ \E c \in Conns : Connect(c) \/ Destroy(c) \/ \E k \in Clusters : ConnectShared(c, k)

Next == EpollThread \/ \E c \in Conns : Network(c)

Spec == Init /\ [][Next]_vars

(* The epoll thread runs, the network delivers, and neither keeps a queue nor the *)
(* event channel from ever being seen empty: both loops have no other end.        *)
FairSpec ==
  /\ Spec
  /\ WF_vars(EpollThread) /\ SF_vars(Emptied) /\ SF_vars(CmDone)
  /\ \A c \in Conns : WF_vars(Place(c)) /\ WF_vars(Finish(c))
===============================================================================
