---------------------------- MODULE DhmpChannelInv ----------------------------
(***************************************************************************)
(* What completion queues and the epoll thread promise: no completion is   *)
(* forgotten, and messages are handled in order, each once.                *)
(***************************************************************************)
EXTENDS DhmpChannel

Serves(q) == serving = q /\ at \in {"acked", "poll", "repost"}

(* A completion that lies in a queue has an event that will bring the epoll      *)
(* thread there, or the thread is on its way to it: also one that came in        *)
(* between the last look into the queue and the return to epoll_wait.            *)
NothingForgotten ==
  \A q \in Cqs : cq[q] # <<>> => events[q] > 0 \/ Serves(q)

Stream == INSTANCE RemoteStream

(* The handlers see the messages of each connection in the order in which they   *)
(* were sent, each once: no region is received into before its message has been  *)
(* handled, and nothing of a connection is handled after its end.                *)
ImplementsRemoteStream == Stream!Spec

(* What keeps a connection from being served: it ends, its queue had no room, or *)
(* the queue's descriptor went with the count of another place.                  *)
Lost(c) ==
  \/ state[c] # "up" \/ cm[c] # "quiet"
  \/ dcq[c] \in overrun
  \/ shared /\ dcq[c] \notin watched

(* Every message that is sent is handled, and every operation that a thread      *)
(* waits for returns to it.                                                      *)
EveryCompletionHandled ==
  \A c \in Conns :
    /\ \A n \in 1..MaxMsgs[c] : sent[c] >= n ~> handled[c] >= n \/ Lost(c)
    /\ op[c] = "posted" ~> op[c] = "idle" \/ Lost(c)

-------------------------------------------------------------------------------
(* The next completion of queue q is noticed: it raises an event, or one is there *)
(* already, or the epoll thread is about to look.                                 *)
Notices(q) == armed[q] \/ events[q] > 0 \/ (serving = q /\ at = "acked")

ChannelInv ==
  /\ dcq \in [Conns -> Cqs] /\ made \subseteq Clusters /\ serving \in Cqs
  /\ state \in [Conns -> {"none", "up", "error"}]
  /\ DOMAIN cq = Cqs
  /\ armed \in [Cqs -> BOOLEAN] /\ events \in [Cqs -> Nat]
  /\ \A c \in Conns : state[c] # "none" => Notices(dcq[c])
  /\ \A q \in made : Notices(q)
  /\ NothingForgotten

-------------------------------------------------------------------------------
(* Completion k of ws is a receive of connection c. *)
Recv(ws, k, c) == ws[k].kind = "recv" /\ ws[k].conn = c

(* The receives of c in ws, whose regions hold m, are the messages that follow n, *)
(* one behind the other.                                                          *)
Follow(ws, m, c, n) ==
  \A k \in DOMAIN ws : Recv(ws, k, c) =>
    LET msg == m[ws[k].region]
        earlier == {j \in DOMAIN ws : j < k /\ Recv(ws, j, c)}
    IN /\ msg > n
       /\ \A j \in earlier : m[ws[j].region] < msg
       /\ msg = n + 1 \/ \E j \in earlier : m[ws[j].region] = msg - 1

Orderly(ws, m, c, n, last) ==
  /\ Follow(ws, m, c, n)
  /\ \A k \in DOMAIN ws : Recv(ws, k, c) => m[ws[k].region] <= last

(* Message n of c is among the receives in ws. *)
Holds(ws, m, c, n) == \E k \in DOMAIN ws : Recv(ws, k, c) /\ m[ws[k].region] = n

(* Region r is not posted, so no message is placed in it. *)
NotPosted(c, r) == r \in Regions[c] /\ \A i \in DOMAIN posted[c] : posted[c][i] # r

(* A completion in queue q belongs to a connection that is set up with q. *)
Fits(w, q) ==
  /\ state[w.conn] # "none" /\ dcq[w.conn] = q
  /\ w.kind = "recv" => NotPosted(w.conn, w.region)

CompletionsFit(q) == \A k \in DOMAIN cq[q] : Fits(cq[q][k], q)

StreamInv(c) ==
  /\ handled[c] <= placed[c] /\ placed[c] <= sent[c]
  /\ state[c] = "none" => sent[c] = 0
  /\ cm[c] = "request" => state[c] = "none"
  /\ dcq[c] \in {c} \cup made
  /\ \A i, j \in DOMAIN posted[c] : posted[c][i] = posted[c][j] => i = j
  /\ Orderly(cq[dcq[c]], mem[c], c, handled[c], placed[c])
  /\ placed[c] > handled[c] =>
       dcq[c] \in overrun \/ Holds(cq[dcq[c]], mem[c], c, placed[c])

(* The region that is about to be posted again has been handled. *)
RepostInv ==
  IF at = "repost"
    THEN \E w \in Completions :
           /\ wc = <<w>> /\ state[w.conn] # "none" /\ NotPosted(w.conn, w.region)
           /\ mem[w.conn][w.region] = handled[w.conn]
    ELSE wc = <<>>

StreamTypes ==
  /\ sent \in [Conns -> Nat] /\ placed \in [Conns -> Nat] /\ handled \in [Conns -> Nat]
  /\ DOMAIN mem = Conns /\ \A c \in Conns : mem[c] \in [Regions[c] -> Nat]
  /\ DOMAIN posted = Conns /\ \A c \in Conns : posted[c] \in Seq(Regions[c])
  /\ cq \in [Cqs -> Seq(Completions)]
  /\ DOMAIN cm = Conns

AllStreams ==
  /\ StreamTypes /\ RepostInv
  /\ \A q \in Cqs : CompletionsFit(q)
  /\ \A c \in Conns : StreamInv(c)
===============================================================================
