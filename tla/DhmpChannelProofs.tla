--------------------------- MODULE DhmpChannelProofs ---------------------------
(***************************************************************************)
(* No completion is forgotten, and the handlers see the messages of each   *)
(* connection in order, each once: for any connections, any queue that     *)
(* some of them share, any number of regions and any room for completions. *)
(***************************************************************************)
EXTENDS DhmpChannelInv, WellFoundedInduction, NaturalsInduction, FiniteSetTheorems, TLAPS

(* Induction over the numbers, stated of the set of those with the property. *)
LEMMA NatSetInduction ==
  ASSUME NEW T \in SUBSET Nat, 0 \in T, \A n \in T : n + 1 \in T
  PROVE  T = Nat
<1> DEFINE R == OpToRel(<, Nat)
<1>1. IsWellFoundedOn(R, Nat)
  BY NatLessThanWellFounded, Zenon
<1>2. \A m, n \in Nat : m < n => <<m, n>> \in R
  BY DEF OpToRel
<1> HIDE DEF R
<1>3. SUFFICES ASSUME Nat \ T # {}
               PROVE  FALSE
  OBVIOUS
<1>4. PICK n \in Nat \ T : \A m \in Nat \ T : ~ (<<m, n>> \in R)
  BY <1>1, <1>3, WFMin
<1>5. n # 0 /\ n - 1 \in Nat /\ n - 1 < n /\ (n - 1) + 1 = n
  BY <1>4
<1>6. n - 1 \in T
  BY <1>2, <1>4, <1>5
<1> QED
  BY <1>4, <1>5, <1>6

-------------------------------------------------------------------------------
(* What is left of a queue pair that is destroyed: the recursion of Without has a *)
(* solution.                                                                      *)
IsLeft(g, c, ws, n) ==
  g = [k \in 0..n |->
         IF k = 0 THEN <<>>
         ELSE IF ws[k].conn = c THEN g[k - 1] ELSE Append(g[k - 1], ws[k])]

(* A solution there is, for queues of any length. *)
LEMMA LeftExists ==
  ASSUME NEW c, NEW ws, NEW m \in Nat
  PROVE  \E g : IsLeft(g, c, ws, m)
<1> DEFINE T == {n \in Nat : \E g : IsLeft(g, c, ws, n)}
<1>1. 0 \in T
  <2>1. PICK g : g = [k \in 0..0 |-> <<>>]
    OBVIOUS
  <2>2. IsLeft(g, c, ws, 0)
    BY <2>1 DEF IsLeft
  <2> QED
    BY <2>2
<1>2. ASSUME NEW n \in T
      PROVE  n + 1 \in T
  <2>1. n \in Nat
    OBVIOUS
  <2>2. PICK g : IsLeft(g, c, ws, n)
    OBVIOUS
  <2>3. PICK h : h = [k \in 0..(n + 1) |->
          IF k # n + 1 THEN g[k]
          ELSE IF ws[n + 1].conn = c THEN g[n] ELSE Append(g[n], ws[n + 1])]
    OBVIOUS
  <2>4. \A k \in 0..n : h[k] = g[k]
    BY <2>1, <2>3
  <2>5. \A k \in 0..n : g[k] = IF k = 0 THEN <<>>
           ELSE IF ws[k].conn = c THEN g[k - 1] ELSE Append(g[k - 1], ws[k])
    BY <2>2 DEF IsLeft
  <2>6. h[n + 1] = IF ws[n + 1].conn = c THEN h[n] ELSE Append(h[n], ws[n + 1])
    BY <2>1, <2>3, <2>4
  <2>7. \A k \in 0..(n + 1) : h[k] = IF k = 0 THEN <<>>
           ELSE IF ws[k].conn = c THEN h[k - 1] ELSE Append(h[k - 1], ws[k])
    <3> SUFFICES ASSUME NEW k \in 0..(n + 1)
                 PROVE  h[k] = IF k = 0 THEN <<>>
                     ELSE IF ws[k].conn = c THEN h[k - 1] ELSE Append(h[k - 1], ws[k])
      OBVIOUS
    <3>1. CASE k = n + 1
      BY <2>1, <2>6, <3>1
    <3>2. CASE k # n + 1
      <4>1. k \in 0..n /\ (k # 0 => k - 1 \in 0..n)
        BY <2>1, <3>2
      <4> QED
        BY <2>4, <2>5, <4>1
    <3> QED
      BY <3>1, <3>2
  <2>8. IsLeft(h, c, ws, n + 1)
    BY <2>3, <2>7 DEF IsLeft
  <2> QED
    BY <2>1, <2>8
<1>3. T = Nat
  BY <1>1, <1>2, NatSetInduction
<1> QED
  BY <1>3

(* Nothing is left of nothing. *)
LEMMA WithoutNothing ==
  ASSUME NEW c
  PROVE  Without(c, <<>>) = <<>>
<1> DEFINE g == CHOOSE h : IsLeft(h, c, <<>>, 0)
<1>1. IsLeft(g, c, <<>>, 0)
  BY LeftExists
<1>2. Len(<<>>) = 0
  OBVIOUS
<1>3. Without(c, <<>>) = g[0]
  BY <1>2 DEF Without, IsLeft
<1> HIDE DEF g
<1> QED
  BY <1>1, <1>3 DEF IsLeft

-------------------------------------------------------------------------------
(* A completion comes into a queue that notices it. *)
LEMMA CompleteKeeps ==
  ASSUME ChannelInv, NEW q \in Cqs, NEW w, Notices(q), Complete(q, w),
         UNCHANGED <<serving, at, dcq, made>>,
         state' \in [Conns -> {"none", "up", "error"}],
         \A c \in Conns : state'[c] # "none" => state[c] # "none"
  PROVE  ChannelInv'
<1>1. CASE ~(q \notin overrun /\ Len(cq[q]) < CqSize)
  BY <1>1 DEF Complete, ChannelInv, Notices, NothingForgotten, Serves
<1>2. CASE q \notin overrun /\ Len(cq[q]) < CqSize
  <2>1. /\ cq' = [cq EXCEPT ![q] = Append(@, w)]
        /\ events' = [events EXCEPT ![q] = IF armed[q] THEN @ + 1 ELSE @]
        /\ armed' = [armed EXCEPT ![q] = FALSE]
    BY <1>2 DEF Complete
  <2>2. events' \in [Cqs -> Nat] /\ armed' \in [Cqs -> BOOLEAN] /\ DOMAIN cq' = Cqs
    BY <2>1 DEF ChannelInv
  <2>3. events'[q] > 0 \/ (serving = q /\ at = "acked")
    BY <2>1 DEF ChannelInv, Notices
  <2>4. \A p \in Cqs : p # q =>
          cq'[p] = cq[p] /\ events'[p] = events[p] /\ armed'[p] = armed[p]
    BY <2>1 DEF ChannelInv
  <2>5. \A p \in Cqs : Notices(p) => Notices(p)'
    BY <2>3, <2>4 DEF Notices
  <2>6. NothingForgotten'
    BY <2>3, <2>4 DEF NothingForgotten, Serves, ChannelInv
  <2>7. \A c \in Conns : state'[c] # "none" => Notices(dcq[c])'
    <3>1. dcq' = dcq
      OBVIOUS
    <3> QED
      BY <2>5, <3>1 DEF ChannelInv
  <2>8. \A p \in made' : p \in Cqs /\ Notices(p)
    BY DEF ChannelInv, Cqs
  <2> QED
    BY <2>2, <2>5, <2>6, <2>7, <2>8 DEF ChannelInv
<1> QED
  BY <1>1, <1>2

(* At the start every queue is empty. *)
LEMMA ChannelInit == Init => ChannelInv
  BY ChannelAssumption DEF Init, ChannelInv, Notices, NothingForgotten, Serves, Cqs

(* The peer, the network and the adapter: what comes into a queue is noticed. *)
LEMMA NetworkKeeps ==
  ASSUME ChannelInv, NEW c \in Conns, Network(c)
  PROVE  ChannelInv'
<1>1. CASE Request(c) \/ Leave(c) \/ Post(c) \/ \E close \in BOOLEAN : Send(c, close)
  BY <1>1 DEF ChannelInv, Notices, NothingForgotten, Serves, Request, Leave, Post, Send,
              buildVars, queueVars, epollVars
<1>2. CASE Place(c) \/ Finish(c) \/ FlushRecv(c) \/ FlushOp(c)
  <2>1. PICK w : Complete(dcq[c], w)
    BY <1>2 DEF Place, Finish, FlushRecv, FlushOp
  <2>2. state[c] # "none" /\ UNCHANGED <<serving, at, dcq, made, state>>
    BY <1>2 DEF Place, Finish, FlushRecv, FlushOp, buildVars, epollVars
  <2>3. dcq[c] \in Cqs /\ Notices(dcq[c])
    BY <2>2 DEF ChannelInv
  <2> QED
    BY <2>1, <2>2, <2>3, CompleteKeeps DEF ChannelInv
<1> QED
  BY <1>1, <1>2 DEF Network

(* A connection gets a queue: one that is there, or one that has just been armed. *)
LEMMA SetUpKeeps ==
  ASSUME ChannelInv, NEW c \in Conns, NEW q \in Cqs, SetUp(c, q)
  PROVE  ChannelInv'
<1> USE DEF SetUp
<1>1. dcq' \in [Conns -> Cqs] /\ made' \subseteq Clusters
  BY DEF ChannelInv
<1>2. state' \in [Conns -> {"none", "up", "error"}]
  BY DEF ChannelInv
<1>3. DOMAIN cq' = Cqs /\ armed' \in [Cqs -> BOOLEAN] /\ events' \in [Cqs -> Nat]
  <2>1. CASE q \in made
    BY <2>1 DEF ChannelInv
  <2>2. CASE q \notin made
    <3>1. /\ cq' = [cq EXCEPT ![q] = <<>>]
          /\ armed' = [armed EXCEPT ![q] = TRUE]
          /\ events' = [events EXCEPT ![q] = 0]
      BY <2>2
    <3> QED
      BY <3>1 DEF ChannelInv
  <2> QED
    BY <2>1, <2>2
<1>4. Notices(q)'
  BY DEF ChannelInv, Notices
<1>5. \A p \in Cqs : Notices(p) => Notices(p)'
  BY <1>4 DEF ChannelInv, Notices
<1>6. \A d \in Conns : state'[d] # "none" => Notices(dcq[d])' 
  BY <1>4, <1>5 DEF ChannelInv
<1>7. \A p \in made' : Notices(p)'
  BY <1>4, <1>5 DEF ChannelInv, Cqs
<1>8. NothingForgotten'
  BY DEF ChannelInv, NothingForgotten, Serves
<1> QED
  BY <1>1, <1>2, <1>3, <1>6, <1>7, <1>8 DEF ChannelInv

(* A connection goes: a queue is never longer for that. *)
LEMMA DestroyKeeps ==
  ASSUME ChannelInv, NEW c \in Conns, Destroy(c)
  PROVE  ChannelInv'
<1> USE DEF Destroy
<1>1. \A p \in Cqs : cq'[p] # <<>> => cq[p] # <<>>
  <2>1. PICK q \in Cqs : q = dcq[c]
    BY DEF ChannelInv
  <2>2. cq[q] = <<>> => cq'[q] = <<>>
    BY <2>1, WithoutNothing DEF ChannelInv
  <2>3. \A p \in Cqs : p # q => cq'[p] = cq[p]
    BY <2>1 DEF ChannelInv
  <2> QED
    BY <2>2, <2>3
<1>2. /\ DOMAIN cq' = Cqs
      /\ dcq' \in [Conns -> Cqs]
      /\ state' \in [Conns -> {"none", "up", "error"}]
  BY DEF ChannelInv, Cqs
<1>3. \A d \in Conns : state'[d] # "none" => state[d] # "none" /\ dcq'[d] = dcq[d]
  BY DEF ChannelInv
<1>4. UNCHANGED <<made, armed, events, serving, at>>
  BY DEF Destroy
<1> QED
  BY <1>1, <1>2, <1>3, <1>4 DEF ChannelInv, Notices, NothingForgotten, Serves

(* The epoll thread arms a queue before it empties it. *)
LEMMA EpollKeeps ==
  ASSUME ChannelInv, EpollThread
  PROVE  ChannelInv'
<1> USE DEF Notices, NothingForgotten, Serves
<1>1. CASE EpollWait \/ Repost \/ TakeCm \/ CmDone \/ Emptied
  BY <1>1, ChannelAssumption
     DEF ChannelInv, EpollWait, Repost, TakeCm, CmDone, Emptied, buildVars, queueVars, Cqs
<1>2. CASE Arm
  <2>1. armed' = [armed EXCEPT ![serving] = TRUE] /\ at = "acked" /\ at' = "poll"
    BY <1>2 DEF Arm
  <2>2. UNCHANGED <<dcq, made, state, cq, events, serving>>
    BY <1>2 DEF Arm, buildVars
  <2> QED
    BY <2>1, <2>2 DEF ChannelInv
<1>3. CASE \E q \in Cqs : TakeEvent(q)
  <2>1. PICK q \in Cqs : TakeEvent(q)
    BY <1>3
  <2>2. UNCHANGED <<dcq, made, state, cq, armed>> /\ at = "loop"
    BY <2>1 DEF TakeEvent, buildVars
  <2>3. CASE events[q] = 0
    BY <2>1, <2>2, <2>3 DEF TakeEvent, ChannelInv
  <2>4. CASE events[q] # 0
    <3>1. events' = [events EXCEPT ![q] = @ - 1] /\ at' = "acked" /\ serving' = q
      BY <2>1, <2>4 DEF TakeEvent
    <3>2. events' \in [Cqs -> Nat]
      BY <2>4, <3>1 DEF ChannelInv
    <3> QED
      BY <2>2, <3>1, <3>2 DEF ChannelInv
  <2> QED
    BY <2>3, <2>4
<1>4. CASE \E w \in Completions : HandleRecv(w) \/ HandleOp(w) \/ HandleError(w)
  <2>1. PICK w \in Completions : HandleRecv(w) \/ HandleOp(w) \/ HandleError(w)
    BY <1>4
  <2>2. /\ at = "poll" /\ cq' = [cq EXCEPT ![serving] = Tail(@)]
        /\ UNCHANGED <<dcq, made, armed, events, serving>>
        /\ at' \in {"poll", "repost"}
    BY <2>1 DEF HandleRecv, HandleOp, HandleError, Poll, buildVars
  <2>3. state' \in [Conns -> {"none", "up", "error"}]
        /\ \A c \in Conns : state'[c] # "none" => state[c] # "none"
    <3>1. CASE state' = state
      BY <3>1 DEF ChannelInv
    <3>2. CASE state' # state
      <4>1. HandleRecv(w) /\ state' = [state EXCEPT ![w.conn] = IF @ = "up" THEN "error" ELSE @]
        BY <2>1, <3>2 DEF HandleRecv, HandleOp, HandleError
      <4> QED
        BY <4>1 DEF ChannelInv
    <3> QED
      BY <3>1, <3>2
  <2> QED
    BY <2>2, <2>3 DEF ChannelInv
<1>5. CASE \E c \in Conns : Connect(c) \/ Destroy(c) \/ \E k \in Clusters : ConnectShared(c, k)
  BY <1>5, SetUpKeeps, DestroyKeeps DEF Connect, ConnectShared, Cqs
<1> QED
  BY <1>1, <1>2, <1>3, <1>4, <1>5 DEF EpollThread

(* Each queue in use is armed, has an event under way or is about to be looked into. *)
THEOREM ChannelHolds == Spec => []ChannelInv
<1>1. ChannelInv /\ [Next]_vars => ChannelInv'
  <2> SUFFICES ASSUME ChannelInv, [Next]_vars PROVE ChannelInv'
    OBVIOUS
  <2>1. CASE UNCHANGED vars
    BY <2>1 DEF vars, buildVars, queueVars, epollVars, ChannelInv, Notices, NothingForgotten,
                Serves
  <2> QED
    BY <2>1, NetworkKeeps, EpollKeeps DEF Next
<1> QED
  BY <1>1, ChannelInit, PTL DEF Spec

(* No completion lies in a queue that the epoll thread is not on its way to. *)
THEOREM ForgetsNothing == Spec => []NothingForgotten
<1>1. ChannelInv => NothingForgotten
  BY DEF ChannelInv
<1> QED
  BY <1>1, ChannelHolds, PTL

-------------------------------------------------------------------------------
(* p is what f picks of the first k of ws, in order: all that are not of c. *)
PartOf(p, c, ws, k, f) ==
  /\ f \in [DOMAIN p -> 1..k]
  /\ \A i, j \in DOMAIN p : i < j => f[i] < f[j]
  /\ \A i \in DOMAIN p : p[i] = ws[f[i]] /\ ws[f[i]].conn # c
  /\ \A n \in 1..k : ws[n].conn # c => \E i \in DOMAIN p : f[i] = n

(* One completion more to pick from. *)
LEMMA PartMore ==
  ASSUME NEW c, NEW S, NEW ws \in Seq(S), NEW k \in Nat, k + 1 <= Len(ws),
         NEW p \in Seq(S), NEW f, PartOf(p, c, ws, k, f)
  PROVE  LET q == IF ws[k + 1].conn = c THEN p ELSE Append(p, ws[k + 1])
         IN q \in Seq(S) /\ \E g : PartOf(q, c, ws, k + 1, g)
<1>1. k + 1 \in 1..(k + 1) /\ 1..k \subseteq 1..(k + 1) /\ ws[k + 1] \in S
      /\ \A n \in 1..(k + 1) : n = k + 1 \/ n \in 1..k
  OBVIOUS
<1>2. CASE ws[k + 1].conn = c
  <2>1. PartOf(p, c, ws, k + 1, f)
    BY <1>1, <1>2 DEF PartOf
  <2> QED
    BY <1>2, <2>1
<1>3. CASE ws[k + 1].conn # c
  <2>0. PICK w \in S : w = ws[k + 1]
    BY <1>1
  <2>a. Append(p, w) \in Seq(S)
    OBVIOUS
  <2>1. PICK q : q \in Seq(S) /\ q = Append(p, w)
    BY <2>a
  <2>2. /\ DOMAIN q = 1..(Len(p) + 1) /\ DOMAIN p = 1..Len(p) /\ Len(p) \in Nat
        /\ q[Len(p) + 1] = ws[k + 1] /\ \A i \in DOMAIN p : q[i] = p[i]
        /\ \A i \in DOMAIN q : i \in DOMAIN p \/ i = Len(p) + 1
        /\ Len(p) + 1 \notin DOMAIN p
    BY <2>0, <2>1
  <2>3. PICK g : g = [i \in DOMAIN q |-> IF i \in DOMAIN p THEN f[i] ELSE k + 1]
    OBVIOUS
  <2>4. g \in [DOMAIN q -> 1..(k + 1)]
    BY <1>1, <2>3 DEF PartOf
  <2>5. /\ \A i \in DOMAIN p : i \in DOMAIN q /\ g[i] = f[i] /\ f[i] \in 1..k
        /\ g[Len(p) + 1] = k + 1 /\ Len(p) + 1 \in DOMAIN q
    BY <2>2, <2>3 DEF PartOf
  <2>6. \A i, j \in DOMAIN q : i < j => g[i] < g[j]
    <3> SUFFICES ASSUME NEW i \in DOMAIN q, NEW j \in DOMAIN q, i < j
                 PROVE  g[i] < g[j]
      OBVIOUS
    <3>1. i \in DOMAIN p
      BY <2>2
    <3>2. CASE j \in DOMAIN p
      BY <2>5, <3>1, <3>2 DEF PartOf
    <3>3. CASE j = Len(p) + 1
      BY <2>5, <3>1, <3>3
    <3> QED
      BY <2>2, <3>2, <3>3
  <2>7. \A i \in DOMAIN q : q[i] = ws[g[i]] /\ ws[g[i]].conn # c
    BY <1>3, <2>2, <2>5 DEF PartOf
  <2>8. \A n \in 1..(k + 1) : ws[n].conn # c => \E i \in DOMAIN q : g[i] = n
    <3> SUFFICES ASSUME NEW n \in 1..(k + 1), ws[n].conn # c
                 PROVE  \E i \in DOMAIN q : g[i] = n
      OBVIOUS
    <3>1. CASE n = k + 1
      BY <2>5, <3>1
    <3>2. CASE n \in 1..k
      <4>1. PICK i \in DOMAIN p : f[i] = n
        BY <3>2 DEF PartOf
      <4> QED
        BY <2>5, <4>1
    <3> QED
      BY <1>1, <3>1, <3>2
  <2>9. PartOf(q, c, ws, k + 1, g)
    BY <2>4, <2>6, <2>7, <2>8 DEF PartOf
  <2> QED
    BY <1>3, <2>0, <2>1, <2>9
<1> QED
  BY <1>2, <1>3

(* What is left are the completions of the other connections, all of them, in order. *)
LEMMA WithoutIs ==
  ASSUME NEW c, NEW S, NEW ws \in Seq(S)
  PROVE  Without(c, ws) \in Seq(S) /\ \E f : PartOf(Without(c, ws), c, ws, Len(ws), f)
<1> DEFINE g == CHOOSE h : IsLeft(h, c, ws, Len(ws))
<1>1. Len(ws) \in Nat
  OBVIOUS
<1>2. IsLeft(g, c, ws, Len(ws))
  BY <1>1, LeftExists
<1>3. Without(c, ws) = g[Len(ws)]
  BY DEF Without, IsLeft
<1> DEFINE T == {k \in Nat : k <= Len(ws) =>
                   g[k] \in Seq(S) /\ \E f : PartOf(g[k], c, ws, k, f)}
<1> HIDE DEF g
<1>4. \A k \in 0..Len(ws) : g[k] = IF k = 0 THEN <<>>
           ELSE IF ws[k].conn = c THEN g[k - 1] ELSE Append(g[k - 1], ws[k])
  BY <1>2 DEF IsLeft
<1>5. 0 \in T
  <2>1. g[0] = <<>>
    BY <1>1, <1>4
  <2>2. PICK f : f = [i \in {} |-> 0]
    OBVIOUS
  <2>3. PartOf(<<>>, c, ws, 0, f)
    BY <2>2 DEF PartOf
  <2>4. <<>> \in Seq(S)
    OBVIOUS
  <2>5. PICK p : p = g[0]
    OBVIOUS
  <2>6. p \in Seq(S) /\ \E h : PartOf(p, c, ws, 0, h)
    BY <2>1, <2>3, <2>4, <2>5
  <2> QED
    BY <2>5, <2>6
<1>6. ASSUME NEW k \in T
      PROVE  k + 1 \in T
  <2>1. k \in Nat
    OBVIOUS
  <2>2. SUFFICES ASSUME k + 1 <= Len(ws)
                 PROVE  g[k + 1] \in Seq(S) /\ \E f : PartOf(g[k + 1], c, ws, k + 1, f)
    BY <2>1
  <2>3. k <= Len(ws) /\ k + 1 \in 0..Len(ws) /\ k + 1 # 0 /\ (k + 1) - 1 = k
    BY <1>1, <2>1, <2>2
  <2>4. PICK p : p = g[k]
    OBVIOUS
  <2>5. p \in Seq(S) /\ \E f : PartOf(p, c, ws, k, f)
    BY <2>3, <2>4
  <2>6. PICK f : PartOf(p, c, ws, k, f)
    BY <2>5
  <2>7. g[k + 1] = IF ws[k + 1].conn = c THEN p ELSE Append(p, ws[k + 1])
    BY <1>4, <2>3, <2>4
  <2> QED
    BY <2>1, <2>2, <2>5, <2>6, <2>7, PartMore
<1>7. T = Nat
  BY <1>5, <1>6, NatSetInduction
<1> QED
  BY <1>1, <1>3, <1>7

-------------------------------------------------------------------------------
(* What a queue may do to the receives of a connection. *)
Numbered(ws, m, c) == \A k \in DOMAIN ws : Recv(ws, k, c) => m[ws[k].region] \in Nat

(* p holds in order what f picks of ws, of the receives of c all. *)
Keeps(p, ws, c, f) ==
  /\ f \in [DOMAIN p -> DOMAIN ws]
  /\ \A i, j \in DOMAIN p : i < j => f[i] < f[j]
  /\ \A i \in DOMAIN p : p[i] = ws[f[i]]
  /\ \A k \in DOMAIN ws : Recv(ws, k, c) => \E i \in DOMAIN p : f[i] = k

(* Nothing of c goes: its receives follow on as before. *)
LEMMA FollowFewer ==
  ASSUME NEW ws \in Seq(Completions), NEW p \in Seq(Completions), NEW m, NEW c, NEW n \in Nat,
         Follow(ws, m, c, n), NEW f, Keeps(p, ws, c, f)
  PROVE  Follow(p, m, c, n) /\ \A x : Holds(ws, m, c, x) => Holds(p, m, c, x)
<1>1. /\ \A i \in DOMAIN p : f[i] \in DOMAIN ws /\ p[i] = ws[f[i]]
      /\ \A i \in DOMAIN p : Recv(p, i, c) <=> Recv(ws, f[i], c)
      /\ \A k \in DOMAIN ws : Recv(ws, k, c) => \E i \in DOMAIN p : f[i] = k
      /\ DOMAIN p \subseteq Nat /\ DOMAIN ws \subseteq Nat \ {0}
  BY DEF Keeps, Recv
<1>2. \A i, j \in DOMAIN p : i < j <=> f[i] < f[j]
  <2> SUFFICES ASSUME NEW i \in DOMAIN p, NEW j \in DOMAIN p
               PROVE  i < j <=> f[i] < f[j]
    OBVIOUS
  <2>1. i < j \/ j < i \/ i = j
    BY <1>1
  <2>2. f[i] \in Nat /\ f[j] \in Nat /\ i \in Nat /\ j \in Nat
    BY <1>1
  <2>3. (i < j => f[i] < f[j]) /\ (j < i => f[j] < f[i])
    BY DEF Keeps
  <2> QED
    BY <2>1, <2>2, <2>3
<1>3. ASSUME NEW i \in DOMAIN p, Recv(p, i, c)
      PROVE  LET msg == m[p[i].region]
                 earlier == {j \in DOMAIN p : j < i /\ Recv(p, j, c)}
             IN /\ msg > n
                /\ \A j \in earlier : m[p[j].region] < msg
                /\ msg = n + 1 \/ \E j \in earlier : m[p[j].region] = msg - 1
  <2>1. PICK k \in DOMAIN ws : k = f[i] /\ p[i] = ws[k] /\ Recv(ws, k, c)
    BY <1>1, <1>3
  <2>2. /\ m[ws[k].region] > n
        /\ \A j \in DOMAIN ws : j < k /\ Recv(ws, j, c) => m[ws[j].region] < m[ws[k].region]
        /\ \/ m[ws[k].region] = n + 1
           \/ \E j \in DOMAIN ws : /\ j < k /\ Recv(ws, j, c)
                                   /\ m[ws[j].region] = m[ws[k].region] - 1
    BY <2>1 DEF Follow
  <2>3. \A j \in DOMAIN p : j < i /\ Recv(p, j, c) => m[p[j].region] < m[p[i].region]
    <3> SUFFICES ASSUME NEW j \in DOMAIN p, j < i, Recv(p, j, c)
                 PROVE  m[p[j].region] < m[p[i].region]
      OBVIOUS
    <3>1. PICK l \in DOMAIN ws : l = f[j] /\ p[j] = ws[l] /\ Recv(ws, l, c)
      BY <1>1
    <3>2. l < k
      BY <1>2, <2>1, <3>1
    <3> QED
      BY <2>1, <2>2, <3>1, <3>2
  <2>4. ASSUME NEW j \in DOMAIN ws, j < k, Recv(ws, j, c), m[ws[j].region] = m[ws[k].region] - 1
        PROVE  \E l \in DOMAIN p : l < i /\ Recv(p, l, c) /\ m[p[l].region] = m[p[i].region] - 1
    <3>1. PICK l \in DOMAIN p : f[l] = j
      BY <1>1, <2>4
    <3> QED
      BY <1>1, <1>2, <2>1, <2>4, <3>1
  <2> QED
    BY <2>1, <2>2, <2>3, <2>4
<1>4. ASSUME NEW x, Holds(ws, m, c, x)
      PROVE  Holds(p, m, c, x)
  BY <1>1, <1>4 DEF Holds
<1> QED
  BY <1>3, <1>4 DEF Follow

(* The head, a receive of c, goes: it is the message that follows, and the others *)
(* follow on it.                                                                  *)
LEMMA FollowHead ==
  ASSUME NEW ws \in Seq(Completions), ws # <<>>, NEW m, NEW c, NEW n \in Nat,
         Numbered(ws, m, c), Follow(ws, m, c, n), Recv(ws, 1, c)
  PROVE  /\ m[ws[1].region] = n + 1
         /\ Follow(Tail(ws), m, c, n + 1)
         /\ \A x : x # n + 1 /\ Holds(ws, m, c, x) => Holds(Tail(ws), m, c, x)
         /\ \A k \in DOMAIN Tail(ws) : Recv(Tail(ws), k, c) => Tail(ws)[k].region # ws[1].region
<1>1. PICK p : p = Tail(ws)
  OBVIOUS
<1>2. /\ 1 \in DOMAIN ws /\ DOMAIN ws \subseteq Nat /\ DOMAIN p \subseteq Nat
      /\ \A k \in DOMAIN ws : ~(k < 1) /\ (k = 1 \/ k > 1)
      /\ \A k \in DOMAIN p : k + 1 \in DOMAIN ws /\ p[k] = ws[k + 1] /\ 1 < k + 1
      /\ \A k \in DOMAIN ws : k > 1 => k - 1 \in DOMAIN p /\ p[k - 1] = ws[k]
  BY <1>1
<1>3. m[ws[1].region] = n + 1
  BY <1>2 DEF Follow
<1>4. ASSUME NEW i \in DOMAIN p, Recv(p, i, c)
      PROVE  LET msg == m[p[i].region]
                 earlier == {j \in DOMAIN p : j < i /\ Recv(p, j, c)}
             IN /\ msg > n + 1
                /\ \A j \in earlier : m[p[j].region] < msg
                /\ msg = (n + 1) + 1 \/ \E j \in earlier : m[p[j].region] = msg - 1
  <2>1. PICK k \in DOMAIN ws : k = i + 1 /\ p[i] = ws[k] /\ Recv(ws, k, c) /\ 1 < k
    BY <1>2, <1>4 DEF Recv
  <2>2. /\ m[ws[k].region] > n
        /\ \A j \in DOMAIN ws : j < k /\ Recv(ws, j, c) => m[ws[j].region] < m[ws[k].region]
        /\ \/ m[ws[k].region] = n + 1
           \/ \E j \in DOMAIN ws : /\ j < k /\ Recv(ws, j, c)
                                   /\ m[ws[j].region] = m[ws[k].region] - 1
    BY <2>1 DEF Follow
  <2>3. m[ws[k].region] \in Nat /\ m[ws[k].region] > n + 1
    BY <1>2, <1>3, <2>1, <2>2 DEF Numbered
  <2>4. \A j \in DOMAIN p : j < i /\ Recv(p, j, c) => m[p[j].region] < m[p[i].region]
    <3> SUFFICES ASSUME NEW j \in DOMAIN p, j < i, Recv(p, j, c)
                 PROVE  m[p[j].region] < m[p[i].region]
      OBVIOUS
    <3>1. PICK l \in DOMAIN ws : l = j + 1 /\ p[j] = ws[l]
      BY <1>2
    <3>2. l < k /\ Recv(ws, l, c)
      BY <1>2, <2>1, <3>1 DEF Recv
    <3> QED
      BY <2>1, <2>2, <3>1, <3>2
  <2>5. PICK j \in DOMAIN ws : j < k /\ Recv(ws, j, c) /\ m[ws[j].region] = m[ws[k].region] - 1
    BY <2>2, <2>3
  <2>6. CASE j = 1
    BY <1>3, <2>1, <2>3, <2>4, <2>5, <2>6
  <2>7. CASE j # 1
    <3>1. PICK l \in DOMAIN p : l = j - 1 /\ p[l] = ws[j]
      BY <1>2, <2>7
    <3>2. i \in Nat /\ j \in Nat /\ k = i + 1 /\ j < k /\ l = j - 1
      BY <1>2, <2>1, <2>5, <3>1
    <3>3. l < i
      BY <3>2
    <3>4. Recv(p, l, c)
      BY <2>5, <3>1 DEF Recv
    <3> QED
      BY <2>1, <2>3, <2>4, <2>5, <3>1, <3>3, <3>4
  <2> QED
    BY <2>6, <2>7
<1>5. Follow(p, m, c, n + 1)
  BY <1>4 DEF Follow
<1>6. ASSUME NEW x, x # n + 1, Holds(ws, m, c, x)
      PROVE  Holds(p, m, c, x)
  <2>1. PICK k \in DOMAIN ws : Recv(ws, k, c) /\ m[ws[k].region] = x
    BY <1>6 DEF Holds
  <2>2. k - 1 \in DOMAIN p /\ p[k - 1] = ws[k]
    BY <1>2, <1>3, <1>6, <2>1
  <2> QED
    BY <2>1, <2>2 DEF Holds, Recv
<1>7. \A k \in DOMAIN p : Recv(p, k, c) => p[k].region # ws[1].region
  <2> SUFFICES ASSUME NEW k \in DOMAIN p, Recv(p, k, c)
               PROVE  p[k].region # ws[1].region
    OBVIOUS
  <2>1. m[p[k].region] > n + 1
    BY <1>4
  <2> QED
    BY <1>3, <2>1
<1> QED
  BY <1>1, <1>3, <1>5, <1>6, <1>7

(* A message comes behind those that are there. *)
LEMMA FollowPlace ==
  ASSUME NEW ws \in Seq(Completions), NEW w \in Completions, NEW m, NEW m2, NEW c,
         NEW n \in Nat, NEW x \in Nat, Numbered(ws, m, c), Follow(ws, m, c, n), n <= x,
         x > n => Holds(ws, m, c, x),
         \A k \in DOMAIN ws : Recv(ws, k, c) =>
           m2[ws[k].region] = m[ws[k].region] /\ m[ws[k].region] <= x,
         w.kind = "recv", w.conn = c, m2[w.region] = x + 1
  PROVE  Follow(Append(ws, w), m2, c, n) /\ Holds(Append(ws, w), m2, c, x + 1)
<1>1. PICK p : p = Append(ws, w)
  OBVIOUS
<1>2. PICK z : z = Len(ws) + 1
  OBVIOUS
<1>3. /\ DOMAIN ws \subseteq DOMAIN p /\ z \in DOMAIN p /\ p[z] = w
      /\ \A k \in DOMAIN ws : p[k] = ws[k] /\ k < z
      /\ \A k \in DOMAIN p : k \in DOMAIN ws \/ k = z
      /\ \A k \in DOMAIN p : k \in Nat /\ ~(k > z)
  BY <1>1, <1>2
<1>4. Recv(p, z, c) /\ \A k \in DOMAIN ws : Recv(p, k, c) <=> Recv(ws, k, c)
  BY <1>3 DEF Recv
<1>5. ASSUME NEW k \in DOMAIN p, Recv(p, k, c)
      PROVE  LET msg == m2[p[k].region]
                 earlier == {j \in DOMAIN p : j < k /\ Recv(p, j, c)}
             IN /\ msg > n
                /\ \A j \in earlier : m2[p[j].region] < msg
                /\ msg = n + 1 \/ \E j \in earlier : m2[p[j].region] = msg - 1
  <2>1. CASE k \in DOMAIN ws
    <3>1. /\ m[ws[k].region] > n
          /\ \A j \in DOMAIN ws : j < k /\ Recv(ws, j, c) => m[ws[j].region] < m[ws[k].region]
          /\ \/ m[ws[k].region] = n + 1
             \/ \E j \in DOMAIN ws : /\ j < k /\ Recv(ws, j, c)
                                     /\ m[ws[j].region] = m[ws[k].region] - 1
      BY <1>4, <1>5, <2>1 DEF Follow
    <3>2. \A j \in DOMAIN ws : Recv(ws, j, c) =>
            p[j] = ws[j] /\ m2[p[j].region] = m[ws[j].region] /\ Recv(p, j, c)
      BY <1>3, <1>4
    <3>3. \A j \in DOMAIN p : j < k /\ Recv(p, j, c) => j \in DOMAIN ws /\ Recv(ws, j, c)
      BY <1>3, <1>4, <2>1
    <3> QED
      BY <1>3, <1>4, <1>5, <2>1, <3>1, <3>2, <3>3
  <2>2. CASE k = z
    <3>1. m2[p[k].region] = x + 1
      BY <1>3, <2>2
    <3>2. \A j \in DOMAIN p : j < k /\ Recv(p, j, c) => m2[p[j].region] < x + 1
      BY <1>3, <1>4, <2>2 DEF Numbered
    <3>3. x = n \/ \E j \in DOMAIN p : j < k /\ Recv(p, j, c) /\ m2[p[j].region] = x
      <4>1. CASE x > n
        BY <1>3, <1>4, <2>2, <4>1 DEF Holds
      <4> QED
        BY <4>1
    <3> QED
      BY <3>1, <3>2, <3>3
  <2> QED
    BY <1>3, <2>1, <2>2
<1> QED
  BY <1>1, <1>3, <1>4, <1>5 DEF Follow, Holds

(* A message that is placed elsewhere changes nothing. *)
LEMMA FollowSame ==
  ASSUME NEW ws \in Seq(Completions), NEW m, NEW m2, NEW c, NEW n \in Nat, Follow(ws, m, c, n),
         \A k \in DOMAIN ws : Recv(ws, k, c) => m2[ws[k].region] = m[ws[k].region]
  PROVE  Follow(ws, m2, c, n) /\ \A x : Holds(ws, m, c, x) => Holds(ws, m2, c, x)
  BY DEF Follow, Holds

(* A completion that is no receive of c comes. *)
LEMMA FollowMore ==
  ASSUME NEW ws \in Seq(Completions), NEW w \in Completions, NEW m, NEW c, NEW n \in Nat,
         ~(w.kind = "recv" /\ w.conn = c)
  PROVE  /\ \A x : Orderly(ws, m, c, n, x) => Orderly(Append(ws, w), m, c, n, x)
         /\ \A x : Holds(ws, m, c, x) => Holds(Append(ws, w), m, c, x)
<1>1. PICK p : p = Append(ws, w)
  OBVIOUS
<1>2. /\ DOMAIN ws \subseteq DOMAIN p /\ \A k \in DOMAIN ws : p[k] = ws[k]
      /\ \A k \in DOMAIN p : k \in DOMAIN ws \/ p[k] = w
  BY <1>1
<1>3. \A k \in DOMAIN p : Recv(p, k, c) <=> k \in DOMAIN ws /\ Recv(ws, k, c)
  BY <1>2 DEF Recv
<1>4. ASSUME NEW x, Orderly(ws, m, c, n, x)
      PROVE  Orderly(p, m, c, n, x)
  BY <1>2, <1>3, <1>4 DEF Orderly, Follow
<1>5. \A x : Holds(ws, m, c, x) => Holds(p, m, c, x)
  BY <1>2, <1>3 DEF Holds
<1> QED
  BY <1>1, <1>4, <1>5

(* As FollowFewer, with the bound on the numbers. *)
LEMMA OrderlyFewer ==
  ASSUME NEW ws \in Seq(Completions), NEW p \in Seq(Completions), NEW m, NEW c, NEW n \in Nat,
         NEW f, Keeps(p, ws, c, f)
  PROVE  /\ \A x : Orderly(ws, m, c, n, x) => Orderly(p, m, c, n, x)
         /\ \A x : Holds(ws, m, c, x) => Holds(p, m, c, x)
<1>1. ASSUME NEW x, Orderly(ws, m, c, n, x)
      PROVE  Orderly(p, m, c, n, x)
  <2>1. Follow(p, m, c, n)
    BY <1>1, FollowFewer DEF Orderly
  <2>2. \A k \in DOMAIN p : Recv(p, k, c) => m[p[k].region] <= x
    BY <1>1 DEF Orderly, Keeps, Recv
  <2> QED
    BY <2>1, <2>2 DEF Orderly
<1>2. ASSUME NEW x, Holds(ws, m, c, x)
      PROVE  Holds(p, m, c, x)
  <2>1. PICK k \in DOMAIN ws : Recv(ws, k, c) /\ m[ws[k].region] = x
    BY <1>2 DEF Holds
  <2>2. PICK i \in DOMAIN p : f[i] = k /\ p[i] = ws[k]
    BY <2>1 DEF Keeps
  <2> QED
    BY <2>1, <2>2 DEF Holds, Recv
<1> QED
  BY <1>1, <1>2

(* The end of another connection leaves the receives of c in the queue. *)
LEMMA WithoutKeeps ==
  ASSUME NEW ws \in Seq(Completions), NEW c, NEW d, c # d
  PROVE  /\ Without(d, ws) \in Seq(Completions)
         /\ \E f : Keeps(Without(d, ws), ws, c, f)
         /\ \A i \in DOMAIN Without(d, ws) : /\ Without(d, ws)[i].conn # d
                                             /\ \E k \in DOMAIN ws : Without(d, ws)[i] = ws[k]
<1>1. PICK p : p = Without(d, ws)
  OBVIOUS
<1>2. p \in Seq(Completions) /\ \E f : PartOf(p, d, ws, Len(ws), f)
  BY <1>1, WithoutIs
<1>3. PICK f : PartOf(p, d, ws, Len(ws), f)
  BY <1>2
<1>4. DOMAIN ws = 1..Len(ws)
  OBVIOUS
<1>5. Keeps(p, ws, c, f)
  BY <1>3, <1>4 DEF PartOf, Keeps, Recv
<1>6. \A i \in DOMAIN p : p[i].conn # d /\ \E k \in DOMAIN ws : p[i] = ws[k]
  BY <1>3, <1>4 DEF PartOf
<1> QED
  BY <1>1, <1>2, <1>5, <1>6

(* A head that is no receive of c leaves them there too. *)
LEMMA TailKeeps ==
  ASSUME NEW ws \in Seq(Completions), ws # <<>>, NEW c, ~Recv(ws, 1, c)
  PROVE  Tail(ws) \in Seq(Completions) /\ \E f : Keeps(Tail(ws), ws, c, f)
<1>1. PICK p : p = Tail(ws)
  OBVIOUS
<1>2. p \in Seq(Completions)
  BY <1>1
<1>3. /\ \A k \in DOMAIN p : k + 1 \in DOMAIN ws /\ p[k] = ws[k + 1]
      /\ \A k \in DOMAIN ws : k # 1 => k - 1 \in DOMAIN p
      /\ DOMAIN p \subseteq Nat /\ DOMAIN ws \subseteq Nat
  BY <1>1
<1>4. PICK f : f = [k \in DOMAIN p |-> k + 1]
  OBVIOUS
<1>5. f \in [DOMAIN p -> DOMAIN ws]
  BY <1>3, <1>4
<1>6. \A i, j \in DOMAIN p : i < j => f[i] < f[j]
  BY <1>3, <1>4
<1>7. \A k \in DOMAIN ws : Recv(ws, k, c) => \E i \in DOMAIN p : f[i] = k
  <2> SUFFICES ASSUME NEW k \in DOMAIN ws, Recv(ws, k, c)
               PROVE  \E i \in DOMAIN p : f[i] = k
    OBVIOUS
  <2>1. k # 1 /\ k \in Nat
    BY <1>3
  <2>2. PICK i \in DOMAIN p : i = k - 1
    BY <1>3, <2>1
  <2> QED
    BY <1>4, <2>1, <2>2
<1>8. Keeps(p, ws, c, f)
  BY <1>3, <1>4, <1>5, <1>6, <1>7 DEF Keeps
<1> QED
  BY <1>1, <1>2, <1>8

(* dhmp_post_all_recv posts every region once. *)
LEMMA AllPosted ==
  ASSUME NEW c \in Conns
  PROVE  /\ PostAllRecv(c) \in Seq(Regions[c])
         /\ \A i, j \in DOMAIN PostAllRecv(c) : PostAllRecv(c)[i] = PostAllRecv(c)[j] => i = j
<1>1. PICK S : S = Regions[c]
  OBVIOUS
<1>2. Cardinality(S) \in Nat /\ ExistsBijection(1..Cardinality(S), S)
  BY <1>1, FS_CardinalityType, ChannelAssumption
<1>3. \E f \in [1..Cardinality(S) -> S] : IsInjective(f)
  BY <1>2 DEF ExistsBijection, Bijection, Injection
<1>4. PICK n \in Nat : n = Cardinality(S)
  BY <1>2
<1>5. SetToSeq(S) \in [1..n -> S] /\ IsInjective(SetToSeq(S))
  BY <1>3, <1>4 DEF SetToSeq
<1>6. PICK p : p = SetToSeq(S)
  OBVIOUS
<1>7. p \in Seq(S) /\ \A i, j \in DOMAIN p : p[i] = p[j] => i = j
  BY <1>5, <1>6 DEF IsInjective
<1> QED
  BY <1>1, <1>6, <1>7 DEF PostAllRecv

-------------------------------------------------------------------------------
(* A step that leaves the receives of c that are to be handled where they are. *)
LEMMA StreamStays ==
  ASSUME NEW c \in Conns, StreamInv(c), placed[c] \in Nat, sent[c] \in Nat, sent'[c] \in Nat,
         handled'[c] = handled[c], placed'[c] = placed[c], mem'[c] = mem[c], dcq'[c] = dcq[c],
         sent'[c] >= sent[c], state'[c] = "none" => state[c] = "none" /\ sent'[c] = 0,
         cm'[c] = "request" => state'[c] = "none",
         dcq[c] \in made => dcq[c] \in made', dcq[c] \in overrun => dcq[c] \in overrun',
         \A i, j \in DOMAIN posted'[c] : posted'[c][i] = posted'[c][j] => i = j,
         Orderly(cq[dcq[c]], mem[c], c, handled[c], placed[c]) =>
           Orderly(cq'[dcq[c]], mem[c], c, handled[c], placed[c]),
         Holds(cq[dcq[c]], mem[c], c, placed[c]) => Holds(cq'[dcq[c]], mem[c], c, placed[c])
  PROVE  StreamInv(c)'
<1>1. handled'[c] <= placed'[c] /\ placed'[c] <= sent'[c]
  BY DEF StreamInv
<1>2. dcq'[c] \in {c} \cup made'
  BY DEF StreamInv
<1>3. Orderly(cq'[dcq'[c]], mem'[c], c, handled'[c], placed'[c])
  BY DEF StreamInv
<1>4. placed'[c] > handled'[c] =>
        dcq'[c] \in overrun' \/ Holds(cq'[dcq'[c]], mem'[c], c, placed'[c])
  BY DEF StreamInv
<1> QED
  BY <1>1, <1>2, <1>3, <1>4 DEF StreamInv

(* A completion stays where it fits. *)
LEMMA FitStays ==
  ASSUME NEW w \in Completions, NEW q \in Cqs, Fits(w, q),
         state'[w.conn] # "none", dcq'[w.conn] = dcq[w.conn],
         w.kind = "recv" => \A i \in DOMAIN posted'[w.conn] : posted'[w.conn][i] # w.region
  PROVE  Fits(w, q)'
  BY DEF Fits, NotPosted

(* The completions fit after a step if each fits. *)
LEMMA FitsAll ==
  ASSUME \A q \in Cqs : \A k \in DOMAIN cq'[q] : \A w : w = cq'[q][k] => Fits(w, q)'
  PROVE  \A q \in Cqs : CompletionsFit(q)'
  BY DEF CompletionsFit, Fits, NotPosted

(* The region that is about to be posted again stays what it is. *)
LEMMA RepostStays ==
  ASSUME RepostInv, wc' = wc, at' = "repost" <=> at = "repost",
         \A w \in Completions : at = "repost" /\ wc = <<w>> =>
           /\ state[w.conn] # "none" => state'[w.conn] # "none"
           /\ NotPosted(w.conn, w.region) =>
                \A i \in DOMAIN posted'[w.conn] : posted'[w.conn][i] # w.region
           /\ NotPosted(w.conn, w.region) => mem'[w.conn][w.region] = mem[w.conn][w.region]
           /\ handled'[w.conn] = handled[w.conn]
  PROVE  RepostInv'
<1>1. CASE at # "repost"
  BY <1>1 DEF RepostInv
<1>2. CASE at = "repost"
  <2>1. PICK w \in Completions :
          /\ wc = <<w>> /\ state[w.conn] # "none" /\ NotPosted(w.conn, w.region)
          /\ mem[w.conn][w.region] = handled[w.conn]
    BY <1>2 DEF RepostInv
  <2>2. /\ state'[w.conn] # "none"
        /\ \A i \in DOMAIN posted'[w.conn] : posted'[w.conn][i] # w.region
        /\ mem'[w.conn][w.region] = handled'[w.conn] /\ w.region \in Regions[w.conn]
    BY <1>2, <2>1 DEF NotPosted
  <2> QED
    BY <1>2, <2>1, <2>2 DEF RepostInv, NotPosted
<1> QED
  BY <1>1, <1>2

(* A step that is about no message that is already there. *)
LEMMA StreamsStay ==
  ASSUME AllStreams, UNCHANGED <<dcq, made, placed, handled, mem, posted, cq, overrun, wc>>,
         sent' \in [Conns -> Nat], DOMAIN cm' = Conns, at' = "repost" <=> at = "repost",
         \A c \in Conns :
           /\ sent'[c] >= sent[c] /\ (state'[c] = "none" <=> state[c] = "none")
           /\ state[c] = "none" => sent'[c] = 0
           /\ cm'[c] = "request" => state'[c] = "none"
  PROVE  AllStreams'
<1>1. StreamTypes'
  BY DEF AllStreams, StreamTypes
<1>2. RepostInv'
  <2>1. \A w \in Completions : w.conn \in Conns
    BY DEF Completions
  <2> QED
    BY <2>1, RepostStays DEF AllStreams, NotPosted
<1>3. ASSUME NEW q \in Cqs
      PROVE  CompletionsFit(q)'
  <2>1. ASSUME NEW k \in DOMAIN cq[q]
        PROVE  Fits(cq[q][k], q)'
    <3>1. PICK w \in Completions : w = cq[q][k]
      BY DEF AllStreams, StreamTypes
    <3>2. Fits(w, q) /\ w.conn \in Conns
      BY <3>1 DEF AllStreams, CompletionsFit, Completions
    <3>3. Fits(w, q)'
      BY <3>2, FitStays DEF Fits, NotPosted
    <3> QED
      BY <3>1, <3>3 DEF Fits, NotPosted
  <2> QED
    BY <2>1 DEF CompletionsFit
<1>4. ASSUME NEW c \in Conns
      PROVE  StreamInv(c)'
  BY StreamStays DEF AllStreams, StreamTypes, StreamInv
<1> QED
  BY <1>1, <1>2, <1>3, <1>4 DEF AllStreams

(* The steps that touch no message. *)
LEMMA QuietSteps ==
  ASSUME AllStreams, ChannelInv,
         \/ EpollWait \/ Arm \/ Emptied \/ TakeCm \/ CmDone
         \/ \E q \in Cqs : TakeEvent(q)
         \/ \E c \in Conns : Request(c) \/ Leave(c) \/ Post(c)
  PROVE  AllStreams' /\ UNCHANGED <<sent, handled>>
<1>1. UNCHANGED <<dcq, made, sent, placed, handled, mem, posted, cq, overrun, wc>>
  BY DEF EpollWait, Arm, Emptied, TakeCm, CmDone, TakeEvent, Request, Leave, Post,
         buildVars, msgVars, queueVars, epollVars
<1>2. at' = "repost" <=> at = "repost"
  BY DEF EpollWait, Arm, Emptied, TakeCm, CmDone, TakeEvent, Request, Leave, Post, epollVars
<1>3. DOMAIN cm = Conns /\ DOMAIN state = Conns /\ sent \in [Conns -> Nat]
      /\ \A d \in Conns : /\ state[d] = "none" => sent[d] = 0
                          /\ cm[d] = "request" => state[d] = "none"
  BY DEF AllStreams, StreamTypes, StreamInv, ChannelInv
<1>4. /\ DOMAIN cm' = Conns
      /\ \A d \in Conns : /\ state'[d] = "none" <=> state[d] = "none"
                          /\ cm'[d] = "request" => state'[d] = "none"
  <2>1. CASE UNCHANGED <<state, cm>>
    BY <1>3, <2>1
  <2>2. CASE \E c \in Conns : Request(c)
    BY <1>3, <2>2 DEF Request
  <2>3. CASE \E c \in Conns : Leave(c)
    BY <1>3, <2>3 DEF Leave
  <2> QED
    BY <2>1, <2>2, <2>3 DEF EpollWait, Arm, Emptied, TakeCm, CmDone, TakeEvent, Post
<1>5. \A d \in Conns : /\ sent'[d] >= sent[d] /\ (state'[d] = "none" <=> state[d] = "none")
                       /\ state[d] = "none" => sent'[d] = 0
                       /\ cm'[d] = "request" => state'[d] = "none"
  BY <1>1, <1>3, <1>4
<1> QED
  BY <1>1, <1>2, <1>3, <1>4, <1>5, StreamsStay

(* A message is sent. *)
LEMMA SendStep ==
  ASSUME AllStreams, NEW c \in Conns, NEW close \in BOOLEAN, Send(c, close)
  PROVE  AllStreams' /\ Stream!Send(c)
<1>1. UNCHANGED <<dcq, made, placed, handled, mem, posted, cq, overrun, wc, at, state,
                cm>>
  BY DEF Send, buildVars, queueVars, epollVars
<1>2. state[c] # "none" /\ sent' = [sent EXCEPT ![c] = @ + 1] /\ sent \in [Conns -> Nat]
      /\ DOMAIN cm = Conns
  BY DEF Send, AllStreams, StreamTypes
<1>3. sent' \in [Conns -> Nat]
  BY <1>2
<1>4. \A d \in Conns : sent'[d] >= sent[d] /\ (state[d] = "none" => sent'[d] = sent[d])
  BY <1>2
<1>5. \A d \in Conns : /\ state[d] = "none" => sent[d] = 0
                       /\ cm[d] = "request" => state[d] = "none"
  BY DEF AllStreams, StreamInv
<1>7. \A d \in Conns : /\ sent'[d] >= sent[d] /\ (state'[d] = "none" <=> state[d] = "none")
                       /\ state[d] = "none" => sent'[d] = 0
                       /\ cm'[d] = "request" => state'[d] = "none"
  BY <1>1, <1>4, <1>5
<1>6. AllStreams'
  BY <1>1, <1>2, <1>3, <1>7, StreamsStay
<1> QED
  BY <1>1, <1>2, <1>6 DEF Stream!Send

-------------------------------------------------------------------------------
(* Completions that come. *)
LEMMA CompleteGives ==
  ASSUME AllStreams, NEW q \in Cqs, NEW w \in Completions, Complete(q, w)
  PROVE  /\ cq' \in [Cqs -> Seq(Completions)]
         /\ \A p \in overrun : p \in overrun'
         /\ \A p \in Cqs : p # q => cq'[p] = cq[p]
         /\ cq'[q] = Append(cq[q], w) \/ (cq'[q] = cq[q] /\ q \in overrun')
<1>1. cq \in [Cqs -> Seq(Completions)]
  BY DEF AllStreams, StreamTypes
<1>2. Append(cq[q], w) \in Seq(Completions)
  BY <1>1
<1> QED
  BY <1>1, <1>2 DEF Complete

(* What is in the queue behind a completion fits as before. *)
LEMMA CompleteFits ==
  ASSUME AllStreams, NEW q \in Cqs, NEW w \in Completions, Complete(q, w), Fits(w, q)',
         UNCHANGED <<dcq, state>>,
         \A c \in Conns : \A r \in Regions[c] :
           NotPosted(c, r) => \A i \in DOMAIN posted'[c] : posted'[c][i] # r
  PROVE  \A p \in Cqs : CompletionsFit(p)'
<1>1. ASSUME NEW p \in Cqs, NEW k \in DOMAIN cq'[p]
      PROVE  \E v : v = cq'[p][k] /\ Fits(v, p)'
  <2>1. PICK ws \in Seq(Completions) : ws = cq[p]
    BY DEF AllStreams, StreamTypes
  <2>2. cq'[p] = ws \/ (p = q /\ cq'[p] = Append(ws, w))
    BY <2>1, CompleteGives
  <2>3. (k \in DOMAIN ws /\ cq'[p][k] = ws[k]) \/ (p = q /\ cq'[p][k] = w)
    BY <2>2
  <2>4. ASSUME k \in DOMAIN ws, cq'[p][k] = ws[k]
        PROVE  \E v : v = cq'[p][k] /\ Fits(v, p)'
    <3>1. PICK v \in Completions : v = ws[k]
      BY <2>4
    <3>2. Fits(v, p) /\ v.conn \in Conns
      BY <2>1, <2>4, <3>1 DEF AllStreams, CompletionsFit, Completions
    <3>3. Fits(v, p)'
      BY <3>2, FitStays DEF Fits, NotPosted
    <3> QED
      BY <2>4, <3>1, <3>3
  <2> QED
    BY <2>3, <2>4
<1> QED
  BY <1>1 DEF CompletionsFit, Fits, NotPosted

(* A completion that is no receive of c leaves its receives where they are. *)
LEMMA CompleteOther ==
  ASSUME AllStreams, NEW q \in Cqs, NEW w \in Completions, Complete(q, w), NEW c \in Conns,
         NEW p \in Cqs, ~(w.kind = "recv" /\ w.conn = c)
  PROVE  /\ Orderly(cq[p], mem[c], c, handled[c], placed[c]) =>
              Orderly(cq'[p], mem[c], c, handled[c], placed[c])
         /\ Holds(cq[p], mem[c], c, placed[c]) => Holds(cq'[p], mem[c], c, placed[c])
<1>1. PICK ws \in Seq(Completions) : ws = cq[p]
  BY DEF AllStreams, StreamTypes
<1>2. cq'[p] = ws \/ cq'[p] = Append(ws, w)
  BY <1>1, CompleteGives
<1>3. handled[c] \in Nat
  BY DEF AllStreams, StreamTypes
<1> QED
  BY <1>1, <1>2, <1>3, FollowMore

(* The region that was posted first is posted no more. *)
LEMMA TakePosted ==
  ASSUME AllStreams, NEW c \in Conns, posted[c] # <<>>,
         DOMAIN posted' = Conns, posted'[c] = Tail(posted[c]),
         \A d \in Conns : d # c => posted'[d] = posted[d]
  PROVE  /\ Head(posted[c]) \in Regions[c]
         /\ \A i \in DOMAIN posted'[c] : posted'[c][i] # Head(posted[c])
         /\ \A d \in Conns : /\ posted'[d] \in Seq(Regions[d])
                             /\ \A i, j \in DOMAIN posted'[d] :
                                  posted'[d][i] = posted'[d][j] => i = j
         /\ \A d \in Conns : \A r \in Regions[d] :
              NotPosted(d, r) => \A i \in DOMAIN posted'[d] : posted'[d][i] # r
<1>1. PICK S : S = Regions[c]
  OBVIOUS
<1>2. PICK p \in Seq(S) : p = posted[c]
  BY <1>1 DEF AllStreams, StreamTypes
<1>3. PICK t \in Seq(S) : t = Tail(p)
  BY <1>2
<1>4. /\ p # <<>> /\ Head(p) = p[1] /\ p[1] \in S /\ 1 \in DOMAIN p
      /\ \A i \in DOMAIN t : i + 1 \in DOMAIN p /\ t[i] = p[i + 1] /\ i + 1 # 1 /\ i \in Nat
  BY <1>2, <1>3
<1>5. \A i, j \in DOMAIN p : p[i] = p[j] => i = j
  BY <1>2 DEF AllStreams, StreamInv
<1>6. \A i \in DOMAIN t : t[i] # p[1]
  BY <1>4, <1>5
<1>7. \A i, j \in DOMAIN t : t[i] = t[j] => i = j
  BY <1>4, <1>5
<1>8. ASSUME NEW r, \A i \in DOMAIN p : p[i] # r
      PROVE  \A i \in DOMAIN t : t[i] # r
  BY <1>4, <1>8
<1>9. \A d \in Conns : d # c =>
        /\ posted'[d] \in Seq(Regions[d])
        /\ \A i, j \in DOMAIN posted'[d] : posted'[d][i] = posted'[d][j] => i = j
        /\ \A r : NotPosted(d, r) => \A i \in DOMAIN posted'[d] : posted'[d][i] # r
  BY DEF AllStreams, StreamTypes, StreamInv, NotPosted
<1>10. posted'[c] = t
  BY <1>2, <1>3
<1>11. /\ posted'[c] \in Seq(Regions[c])
       /\ \A i, j \in DOMAIN posted'[c] : posted'[c][i] = posted'[c][j] => i = j
       /\ \A r : NotPosted(c, r) => \A i \in DOMAIN posted'[c] : posted'[c][i] # r
  BY <1>1, <1>2, <1>7, <1>8, <1>10 DEF NotPosted
<1>12. Head(posted[c]) = p[1]
  BY <1>2, <1>4
<1>13. \A d \in Conns :
         /\ posted'[d] \in Seq(Regions[d])
         /\ \A i, j \in DOMAIN posted'[d] : posted'[d][i] = posted'[d][j] => i = j
         /\ \A r : NotPosted(d, r) => \A i \in DOMAIN posted'[d] : posted'[d][i] # r
  BY <1>9, <1>11, Zenon
<1> QED
  BY <1>1, <1>4, <1>6, <1>10, <1>12, <1>13

(* An operation is done or flushed, or a receive is flushed. *)
LEMMA OtherCompletes ==
  ASSUME AllStreams, ChannelInv, NEW c \in Conns, Finish(c) \/ FlushOp(c) \/ FlushRecv(c)
  PROVE  AllStreams' /\ UNCHANGED <<sent, handled>>
<1>1. /\ UNCHANGED <<dcq, made, state, cm, sent, placed, handled, mem, at, wc>>
      /\ state[c] # "none"
  BY DEF Finish, FlushOp, FlushRecv, buildVars, msgVars, epollVars
<1>2. DOMAIN posted' = Conns /\ \A d \in Conns :
        /\ posted'[d] \in Seq(Regions[d])
        /\ \A i, j \in DOMAIN posted'[d] : posted'[d][i] = posted'[d][j] => i = j
        /\ \A r \in Regions[d] :
             NotPosted(d, r) => \A i \in DOMAIN posted'[d] : posted'[d][i] # r
  <2>1. CASE posted' = posted
    BY <2>1 DEF AllStreams, StreamTypes, StreamInv, NotPosted
  <2>2. CASE FlushRecv(c)
    <3>1. /\ posted[c] # <<>> /\ DOMAIN posted' = Conns /\ posted'[c] = Tail(posted[c])
          /\ \A d \in Conns : d # c => posted'[d] = posted[d]
      BY <2>2 DEF FlushRecv, AllStreams, StreamTypes
    <3> QED
      BY <3>1, TakePosted
  <2> QED
    BY <2>1, <2>2 DEF Finish, FlushOp, msgVars
<1>3. PICK w \in Completions : w.kind # "recv" /\ w.conn = c /\ Complete(dcq[c], w)
  <2>1. CASE Finish(c)
    BY <2>1 DEF Finish, Wc, Completions
  <2>2. CASE FlushOp(c)
    BY <2>2 DEF FlushOp, Wc, Completions
  <2>3. CASE FlushRecv(c)
    <3>1. posted[c] # <<>> /\ posted[c] \in Seq(Regions[c])
      BY <2>3 DEF FlushRecv, AllStreams, StreamTypes
    <3>2. Head(posted[c]) \in Regions[c]
      BY <3>1
    <3>3. Wc("flush", c, Head(posted[c])) \in Completions
      BY <3>2 DEF Wc, Completions
    <3> QED
      BY <2>3, <3>3 DEF FlushRecv, Wc
  <2> QED
    BY <2>1, <2>2, <2>3
<1>4. PICK q \in Cqs : q = dcq[c]
  BY DEF ChannelInv
<1>5. Complete(q, w)
  BY <1>3, <1>4
<1>6. StreamTypes'
  BY <1>1, <1>2, <1>5, CompleteGives DEF AllStreams, StreamTypes
<1>7. RepostInv'
  <2>1. \A v \in Completions : v.conn \in Conns
    BY DEF Completions
  <2> QED
    BY <1>1, <1>2, <2>1, RepostStays DEF AllStreams, NotPosted
<1>8. \A p \in Cqs : CompletionsFit(p)'
  <2>1. Fits(w, q)'
    BY <1>1, <1>3, <1>4 DEF Fits
  <2> QED
    BY <1>1, <1>2, <1>5, <2>1, CompleteFits
<1>9. ASSUME NEW d \in Conns
      PROVE  StreamInv(d)'
  <2>1. dcq[d] \in Cqs
    BY DEF ChannelInv
  <2>2. /\ Orderly(cq[dcq[d]], mem[d], d, handled[d], placed[d]) =>
             Orderly(cq'[dcq[d]], mem[d], d, handled[d], placed[d])
        /\ Holds(cq[dcq[d]], mem[d], d, placed[d]) => Holds(cq'[dcq[d]], mem[d], d, placed[d])
    BY <1>3, <1>5, <2>1, CompleteOther
  <2>3. dcq[d] \in overrun => dcq[d] \in overrun'
    BY <1>5, CompleteGives
  <2>4. /\ placed[d] \in Nat /\ sent[d] \in Nat /\ StreamInv(d)
        /\ state[d] = "none" => sent[d] = 0
        /\ cm[d] = "request" => state[d] = "none"
    BY DEF AllStreams, StreamTypes, StreamInv
  <2> QED
    BY <1>1, <1>2, <2>2, <2>3, <2>4, StreamStays
<1> QED
  BY <1>1, <1>6, <1>7, <1>8, <1>9 DEF AllStreams

(* A message is placed: behind those of its connection that are not handled yet, *)
(* in a region where none of them is.                                            *)
LEMMA PlaceStep ==
  ASSUME AllStreams, ChannelInv, NEW c \in Conns, Place(c)
  PROVE  AllStreams' /\ UNCHANGED <<sent, handled>>
<1>1. /\ UNCHANGED <<dcq, made, state, cm, sent, handled, at, wc>>
      /\ state[c] # "none" /\ placed[c] < sent[c] /\ posted[c] # <<>>
  BY DEF Place, buildVars, epollVars
<1>2. PICK r : r = Head(posted[c])
  OBVIOUS
<1>3. /\ DOMAIN posted' = Conns /\ posted'[c] = Tail(posted[c])
      /\ \A d \in Conns : d # c => posted'[d] = posted[d]
  BY DEF Place, AllStreams, StreamTypes
<1>4. /\ r \in Regions[c]
      /\ \A i \in DOMAIN posted'[c] : posted'[c][i] # r
      /\ \A d \in Conns :
           /\ posted'[d] \in Seq(Regions[d])
           /\ \A i, j \in DOMAIN posted'[d] : posted'[d][i] = posted'[d][j] => i = j
           /\ \A x \in Regions[d] :
                NotPosted(d, x) => \A i \in DOMAIN posted'[d] : posted'[d][i] # x
  BY <1>1, <1>2, <1>3, TakePosted
<1>5. ~NotPosted(c, r)
  <2>1. posted[c] \in Seq(Regions[c])
    BY DEF AllStreams, StreamTypes
  <2>2. 1 \in DOMAIN posted[c] /\ posted[c][1] = r
    BY <1>1, <1>2, <2>1
  <2> QED
    BY <2>2 DEF NotPosted
<1>6. /\ placed' \in [Conns -> Nat] /\ placed'[c] = placed[c] + 1
      /\ \A d \in Conns : d # c => placed'[d] = placed[d]
  BY DEF Place, AllStreams, StreamTypes
<1>7. /\ DOMAIN mem' = Conns /\ \A d \in Conns : d # c => mem'[d] = mem[d]
      /\ mem'[c] \in [Regions[c] -> Nat] /\ mem'[c][r] = placed[c] + 1
      /\ \A x \in Regions[c] : x # r => mem'[c][x] = mem[c][x]
  <2>1. mem' = [mem EXCEPT ![c][r] = placed[c] + 1] /\ mem[c] \in [Regions[c] -> Nat]
        /\ placed[c] + 1 \in Nat /\ DOMAIN mem = Conns
    BY <1>2 DEF Place, AllStreams, StreamTypes
  <2>2. PICK h : h = [mem[c] EXCEPT ![r] = placed[c] + 1]
    OBVIOUS
  <2>3. h \in [Regions[c] -> Nat] /\ h[r] = placed[c] + 1
        /\ \A x \in Regions[c] : x # r => h[x] = mem[c][x]
    BY <1>4, <2>1, <2>2
  <2>4. mem'[c] = h /\ DOMAIN mem' = Conns /\ \A d \in Conns : d # c => mem'[d] = mem[d]
    BY <2>1, <2>2
  <2> QED
    BY <2>3, <2>4
<1>8. PICK w \in Completions : w.kind = "recv" /\ w.conn = c /\ w.region = r
                            /\ Complete(dcq[c], w)
  <2>1. Wc("recv", c, r) \in Completions
    BY <1>4 DEF Wc, Completions
  <2>2. Complete(dcq[c], Wc("recv", c, r))
    BY <1>2 DEF Place
  <2>3. Wc("recv", c, r).kind = "recv" /\ Wc("recv", c, r).conn = c /\ Wc("recv", c, r).region = r
    BY DEF Wc
  <2> QED
    BY <2>1, <2>2, <2>3
<1>9. PICK q \in Cqs : q = dcq[c] /\ Complete(q, w)
  BY <1>8 DEF ChannelInv
<1>10. StreamTypes'
  <2>1. \A d \in Conns : mem'[d] \in [Regions[d] -> Nat]
    BY <1>7 DEF AllStreams, StreamTypes
  <2> QED
    BY <1>1, <1>3, <1>4, <1>6, <1>7, <1>9, <2>1, CompleteGives DEF AllStreams, StreamTypes
<1>11. RepostInv'
  <2>1. ASSUME NEW v \in Completions, NotPosted(v.conn, v.region)
        PROVE  mem'[v.conn][v.region] = mem[v.conn][v.region]
    <3>1. v.conn \in Conns /\ v.region \in Regions[v.conn]
      BY <2>1 DEF NotPosted, Completions
    <3> QED
      BY <1>5, <1>7, <2>1, <3>1
  <2>2. \A v \in Completions : NotPosted(v.conn, v.region) =>
          \A i \in DOMAIN posted'[v.conn] : posted'[v.conn][i] # v.region
    BY <1>4 DEF NotPosted, Completions
  <2> QED
    BY <1>1, <2>1, <2>2, RepostStays DEF AllStreams
<1>12. \A p \in Cqs : CompletionsFit(p)'
  <2>1. Fits(w, q)'
    BY <1>1, <1>4, <1>8, <1>9 DEF Fits, NotPosted
  <2> QED
    BY <1>1, <1>4, <1>9, <2>1, CompleteFits
<1>13. ASSUME NEW d \in Conns, d # c
       PROVE  StreamInv(d)'
  <2>1. dcq[d] \in Cqs
    BY DEF ChannelInv
  <2>2. /\ Orderly(cq[dcq[d]], mem[d], d, handled[d], placed[d]) =>
             Orderly(cq'[dcq[d]], mem[d], d, handled[d], placed[d])
        /\ Holds(cq[dcq[d]], mem[d], d, placed[d]) => Holds(cq'[dcq[d]], mem[d], d, placed[d])
    BY <1>8, <1>9, <1>13, <2>1, CompleteOther
  <2>3. dcq[d] \in overrun => dcq[d] \in overrun'
    BY <1>9, CompleteGives
  <2>4. /\ placed[d] \in Nat /\ sent[d] \in Nat /\ StreamInv(d)
        /\ state[d] = "none" => sent[d] = 0
        /\ cm[d] = "request" => state[d] = "none"
    BY DEF AllStreams, StreamTypes, StreamInv
  <2> QED
    BY <1>1, <1>4, <1>6, <1>7, <1>13, <2>2, <2>3, <2>4, StreamStays
<1>14. StreamInv(c)'
  <2>1. PICK ws \in Seq(Completions) : ws = cq[q]
    BY DEF AllStreams, StreamTypes
  <2>2. /\ handled[c] \in Nat /\ placed[c] \in Nat /\ sent[c] \in Nat
        /\ handled[c] <= placed[c]
        /\ cm[c] = "request" => state[c] = "none"
        /\ dcq[c] \in {c} \cup made
        /\ Orderly(ws, mem[c], c, handled[c], placed[c])
        /\ placed[c] > handled[c] => q \in overrun \/ Holds(ws, mem[c], c, placed[c])
    BY <1>9, <2>1 DEF AllStreams, StreamTypes, StreamInv
  <2>3. \A k \in DOMAIN ws : Recv(ws, k, c) =>
          /\ mem'[c][ws[k].region] = mem[c][ws[k].region]
          /\ mem[c][ws[k].region] \in Nat /\ mem[c][ws[k].region] <= placed[c]
    <3> SUFFICES ASSUME NEW k \in DOMAIN ws, Recv(ws, k, c)
                 PROVE  /\ mem'[c][ws[k].region] = mem[c][ws[k].region]
                        /\ mem[c][ws[k].region] \in Nat /\ mem[c][ws[k].region] <= placed[c]
      OBVIOUS
    <3>1. NotPosted(c, ws[k].region)
      BY <2>1 DEF AllStreams, CompletionsFit, Fits, Recv
    <3>2. ws[k].region \in Regions[c] /\ ws[k].region # r
      BY <1>5, <3>1 DEF NotPosted
    <3>3. mem[c][ws[k].region] \in Nat
      BY <3>2 DEF AllStreams, StreamTypes
    <3> QED
      BY <1>7, <2>2, <3>2, <3>3 DEF Orderly
  <2>4. Follow(ws, mem[c], c, handled[c]) /\ Numbered(ws, mem[c], c)
    BY <2>2, <2>3 DEF Orderly, Numbered
  <2>5. CASE cq'[q] = ws /\ q \in overrun'
    <3>1. Follow(ws, mem'[c], c, handled[c])
      BY <2>2, <2>3, <2>4, FollowSame
    <3>2. \A k \in DOMAIN ws : Recv(ws, k, c) => mem'[c][ws[k].region] <= placed[c] + 1
      BY <2>2, <2>3
    <3>3. Orderly(cq'[q], mem'[c], c, handled[c], placed[c] + 1)
      BY <2>5, <3>1, <3>2 DEF Orderly
    <3>4. handled'[c] <= placed'[c] /\ placed'[c] <= sent'[c]
      BY <1>1, <1>6, <2>2
    <3> QED
      BY <1>1, <1>4, <1>6, <1>9, <2>2, <2>5, <3>3, <3>4 DEF StreamInv
  <2>6. CASE cq'[q] = Append(ws, w) /\ q \notin overrun
    <3>1. placed[c] > handled[c] => Holds(ws, mem[c], c, placed[c])
      BY <2>2, <2>6
    <3>2. PICK p : p = Append(ws, w)
      OBVIOUS
    <3>3. Follow(p, mem'[c], c, handled[c]) /\ Holds(p, mem'[c], c, placed[c] + 1)
      <4>1. PICK m, m2 : m = mem[c] /\ m2 = mem'[c]
        OBVIOUS
      <4>2. PICK n \in Nat, x \in Nat : n = handled[c] /\ x = placed[c]
        BY <2>2
      <4>3. /\ Numbered(ws, m, c) /\ Follow(ws, m, c, n) /\ n <= x
            /\ x > n => Holds(ws, m, c, x)
            /\ m2[w.region] = x + 1
        BY <1>7, <1>8, <2>2, <2>4, <3>1, <4>1, <4>2
      <4>4. \A k \in DOMAIN ws : Recv(ws, k, c) =>
              m2[ws[k].region] = m[ws[k].region] /\ m[ws[k].region] <= x
        BY <2>3, <4>1, <4>2
      <4>5. Follow(Append(ws, w), m2, c, n) /\ Holds(Append(ws, w), m2, c, x + 1)
        BY <1>8, <4>3, <4>4, FollowPlace
      <4> QED
        BY <3>2, <4>1, <4>2, <4>5
    <3>4. \A k \in DOMAIN p : (k \in DOMAIN ws /\ p[k] = ws[k]) \/ p[k] = w
      BY <3>2
    <3>5. \A k \in DOMAIN p : Recv(p, k, c) => mem'[c][p[k].region] <= placed[c] + 1
      <4> SUFFICES ASSUME NEW k \in DOMAIN p, Recv(p, k, c)
                   PROVE  mem'[c][p[k].region] <= placed[c] + 1
        OBVIOUS
      <4>1. CASE p[k] = w
        BY <1>7, <1>8, <2>2, <4>1
      <4>2. CASE k \in DOMAIN ws /\ p[k] = ws[k]
        <5>1. Recv(ws, k, c)
          BY <4>2 DEF Recv
        <5> QED
          BY <2>2, <2>3, <4>2, <5>1
      <4> QED
        BY <3>4, <4>1, <4>2
    <3>6. Orderly(cq'[q], mem'[c], c, handled[c], placed[c] + 1)
      BY <2>6, <3>2, <3>3, <3>5 DEF Orderly
    <3>7. handled'[c] <= placed'[c] /\ placed'[c] <= sent'[c]
      BY <1>1, <1>6, <2>2
    <3> QED
      BY <1>1, <1>4, <1>6, <1>9, <2>2, <2>6, <3>2, <3>3, <3>6, <3>7 DEF StreamInv
  <2>7. (cq'[q] = ws /\ q \in overrun') \/ (cq'[q] = Append(ws, w) /\ q \notin overrun)
    BY <1>9, <2>1 DEF Complete, ChannelInv
  <2> QED
    BY <2>5, <2>6, <2>7
<1> QED
  BY <1>1, <1>10, <1>11, <1>12, <1>13, <1>14 DEF AllStreams

-------------------------------------------------------------------------------
(* What is left of a queue was in it, and is not of the connection that ends. *)
LEMMA WithoutFrom ==
  ASSUME NEW ws \in Seq(Completions), NEW c
  PROVE  /\ Without(c, ws) \in Seq(Completions)
         /\ \A i \in DOMAIN Without(c, ws) : /\ Without(c, ws)[i].conn # c
                                             /\ \E k \in DOMAIN ws : Without(c, ws)[i] = ws[k]
<1>1. PICK p : p = Without(c, ws)
  OBVIOUS
<1>2. p \in Seq(Completions) /\ \E f : PartOf(p, c, ws, Len(ws), f)
  BY <1>1, WithoutIs
<1>3. \A i \in DOMAIN p : p[i].conn # c /\ \E k \in DOMAIN ws : p[i] = ws[k]
  BY <1>2 DEF PartOf
<1> QED
  BY <1>1, <1>2, <1>3

(* A completion is taken out of its queue. *)
LEMMA PollGives ==
  ASSUME AllStreams, ChannelInv, NEW w \in Completions, Poll(w),
         \A c \in Conns : state[c] # "none" => state'[c] # "none"
  PROVE  /\ cq' \in [Cqs -> Seq(Completions)]
         /\ cq[serving] # <<>> /\ cq[serving][1] = w /\ cq'[serving] = Tail(cq[serving])
         /\ \A p \in Cqs : p # serving => cq'[p] = cq[p]
         /\ serving \in Cqs /\ Fits(w, serving)
         /\ \A p \in Cqs : CompletionsFit(p)'
<1>1. PICK q \in Cqs : q = serving
  BY DEF ChannelInv
<1>2. PICK ws \in Seq(Completions) : ws = cq[q]
  BY DEF AllStreams, StreamTypes
<1>3. cq' = [cq EXCEPT ![q] = Tail(ws)] /\ ws # <<>> /\ w = ws[1] /\ 1 \in DOMAIN ws
  BY <1>1, <1>2 DEF Poll
<1>a. ws # <<>>
  BY <1>3
<1>b. Tail(ws) \in Seq(Completions)
  BY <1>a
<1>4. PICK t \in Seq(Completions) : t = Tail(ws)
  BY <1>b
<1>5. /\ cq' \in [Cqs -> Seq(Completions)] /\ cq'[q] = t
      /\ \A p \in Cqs : p # q => cq'[p] = cq[p]
  BY <1>3, <1>4 DEF AllStreams, StreamTypes
<1>6. Fits(w, q)
  BY <1>2, <1>3 DEF AllStreams, CompletionsFit
<1>7. \A k \in DOMAIN t : k + 1 \in DOMAIN ws /\ t[k] = ws[k + 1]
  BY <1>4
<1>8. ASSUME NEW p \in Cqs, NEW k \in DOMAIN cq'[p]
      PROVE  \E v : v = cq'[p][k] /\ Fits(v, p)'
  <2>1. PICK u \in Seq(Completions) : u = cq[p]
    BY DEF AllStreams, StreamTypes
  <2>2. \E j \in DOMAIN u : cq'[p][k] = u[j]
    <3>1. CASE p = q
      BY <1>2, <1>5, <1>7, <2>1, <3>1
    <3>2. CASE p # q
      BY <1>5, <2>1, <3>2
    <3> QED
      BY <3>1, <3>2
  <2>3. PICK v \in Completions : v = cq'[p][k] /\ \E j \in DOMAIN u : v = u[j]
    BY <2>2
  <2>4. Fits(v, p) /\ v.conn \in Conns
    BY <2>1, <2>3 DEF AllStreams, CompletionsFit, Completions
  <2>5. UNCHANGED <<dcq, posted>>
    BY DEF Poll, buildVars
  <2>6. Fits(v, p)'
    BY <2>4, <2>5, FitStays DEF Fits, NotPosted
  <2> QED
    BY <2>3, <2>6
<1>9. \A p \in Cqs : CompletionsFit(p)'
  <2> SUFFICES ASSUME NEW p \in Cqs, NEW k \in DOMAIN cq'[p], NEW v, v = cq'[p][k]
               PROVE  Fits(v, p)'
    BY FitsAll
  <2> QED
    BY <1>8
<1> QED
  BY <1>1, <1>2, <1>3, <1>4, <1>5, <1>6, <1>9

(* If it is no receive of c, those stay where they are. *)
LEMMA PollOther ==
  ASSUME AllStreams, ChannelInv, NEW w \in Completions, Poll(w), NEW c \in Conns,
         \A d \in Conns : state[d] # "none" => state'[d] # "none",
         ~(w.kind = "recv" /\ w.conn = c), handled'[c] = handled[c],
         cm'[c] = "request" => cm[c] = "request", state[c] = "none" => state'[c] = "none"
  PROVE  StreamInv(c)'
<1>1. PICK p \in Cqs : p = dcq[c]
  BY DEF ChannelInv
<1>2. PICK ws \in Seq(Completions) : ws = cq[p]
  BY DEF AllStreams, StreamTypes
<1>3. handled[c] \in Nat /\ placed[c] \in Nat /\ sent[c] \in Nat
  BY DEF AllStreams, StreamTypes
<1>4. /\ Orderly(ws, mem[c], c, handled[c], placed[c]) =>
           Orderly(cq'[p], mem[c], c, handled[c], placed[c])
      /\ Holds(ws, mem[c], c, placed[c]) => Holds(cq'[p], mem[c], c, placed[c])
  <2>1. CASE p # serving
    BY <1>2, <2>1, PollGives
  <2>2. CASE p = serving
    <3>1. ws # <<>> /\ ws[1] = w /\ cq'[p] = Tail(ws)
      BY <1>2, <2>2, PollGives
    <3>2. ~Recv(ws, 1, c)
      BY <3>1 DEF Recv
    <3>3. PICK t : t = Tail(ws)
      OBVIOUS
    <3>4. t \in Seq(Completions) /\ \E f : Keeps(t, ws, c, f)
      BY <3>1, <3>2, <3>3, TailKeeps
    <3>5. PICK f : Keeps(t, ws, c, f)
      BY <3>4
    <3>6. t \in Seq(Completions)
      BY <3>4
    <3>7. PICK n \in Nat : n = handled[c]
      BY <1>3
    <3>8. /\ \A x : Orderly(ws, mem[c], c, n, x) => Orderly(t, mem[c], c, n, x)
          /\ \A x : Holds(ws, mem[c], c, x) => Holds(t, mem[c], c, x)
      BY <3>5, <3>6, OrderlyFewer
    <3> QED
      BY <3>1, <3>3, <3>7, <3>8
  <2> QED
    BY <2>1, <2>2
<1>5. UNCHANGED <<dcq, made, sent, placed, mem, posted, overrun>>
  BY DEF Poll, buildVars
<1>6. /\ StreamInv(c)
      /\ state[c] = "none" => sent[c] = 0
      /\ cm[c] = "request" => state[c] = "none"
      /\ \A i, j \in DOMAIN posted[c] : posted[c][i] = posted[c][j] => i = j
  BY DEF AllStreams, StreamInv
<1> QED
  BY <1>1, <1>2, <1>3, <1>4, <1>5, <1>6, StreamStays

(* An operation or an error is handled: no message is. *)
LEMMA HandleOpStep ==
  ASSUME AllStreams, ChannelInv, NEW w \in Completions, HandleOp(w) \/ HandleError(w)
  PROVE  AllStreams' /\ UNCHANGED <<sent, handled>>
<1>1. /\ Poll(w) /\ UNCHANGED <<state, cm, handled, at, wc, sent, placed, mem, posted>>
      /\ w.kind # "recv"
  BY DEF HandleOp, HandleError, Poll
<1>2. \A c \in Conns : StreamInv(c)'
  BY <1>1, PollOther
<1>3. StreamTypes' /\ \A p \in Cqs : CompletionsFit(p)'
  BY <1>1, PollGives DEF AllStreams, StreamTypes
<1>4. RepostInv'
  BY <1>1, RepostStays DEF AllStreams, NotPosted
<1> QED
  BY <1>1, <1>2, <1>3, <1>4 DEF AllStreams

(* The message that is handled is the one that follows. *)
LEMMA HandleRecvStep ==
  ASSUME AllStreams, ChannelInv, NEW w \in Completions, HandleRecv(w)
  PROVE  AllStreams' /\ Stream!Handle(w.conn)
<1>1. PICK c \in Conns : c = w.conn
  BY DEF Completions
<1>2. /\ Poll(w) /\ w.kind = "recv" /\ at' = "repost" /\ wc' = <<w>>
      /\ UNCHANGED <<dcq, made, sent, placed, mem, posted, overrun>>
      /\ handled' = [handled EXCEPT ![c] = mem[c][w.region]]
  BY <1>1 DEF HandleRecv, Poll, buildVars
<1>3. DOMAIN state = Conns /\ DOMAIN cm = Conns
  BY DEF ChannelInv, AllStreams, StreamTypes
<1>4. /\ DOMAIN cm' = Conns
      /\ \A d \in Conns : /\ state[d] # "none" <=> state'[d] # "none"
                          /\ cm'[d] = "request" => cm[d] = "request"
  BY <1>1, <1>3 DEF HandleRecv
<1>5. PICK q \in Cqs : q = serving
  BY <1>2, <1>4, PollGives
<1>6. PICK ws \in Seq(Completions) : ws = cq[q]
  BY DEF AllStreams, StreamTypes
<1>7. /\ ws # <<>> /\ ws[1] = w /\ cq'[q] = Tail(ws) /\ cq' \in [Cqs -> Seq(Completions)]
      /\ Fits(w, q) /\ \A p \in Cqs : CompletionsFit(p)'
  BY <1>2, <1>4, <1>5, <1>6, PollGives
<1>8. dcq[c] = q /\ NotPosted(c, w.region) /\ state[c] # "none" /\ w.region \in Regions[c]
  BY <1>1, <1>2, <1>7 DEF Fits, NotPosted
<1>a. PICK m : m = mem[c]
  OBVIOUS
<1>9. PICK n \in Nat, x \in Nat : n = handled[c] /\ x = placed[c] /\ m = mem[c]
  BY <1>a DEF AllStreams, StreamTypes
<1>10. /\ Follow(ws, m, c, n) /\ (x > n => q \in overrun \/ Holds(ws, m, c, x))
       /\ \A k \in DOMAIN ws : Recv(ws, k, c) => m[ws[k].region] <= x
       /\ n <= x /\ x <= sent[c] /\ sent[c] \in Nat
       /\ dcq[c] \in {c} \cup made /\ (cm[c] = "request" => state[c] = "none")
       /\ \A i, j \in DOMAIN posted[c] : posted[c][i] = posted[c][j] => i = j
  BY <1>6, <1>8, <1>9 DEF AllStreams, StreamTypes, StreamInv, Orderly
<1>11. Numbered(ws, m, c)
  <2> SUFFICES ASSUME NEW k \in DOMAIN ws, Recv(ws, k, c)
               PROVE  m[ws[k].region] \in Nat
    BY DEF Numbered
  <2>1. ws[k].region \in Regions[c]
    BY <1>6 DEF AllStreams, CompletionsFit, Fits, Recv, NotPosted
  <2> QED
    BY <1>9, <2>1 DEF AllStreams, StreamTypes
<1>12. Recv(ws, 1, c) /\ 1 \in DOMAIN ws
  BY <1>1, <1>2, <1>7 DEF Recv
<1>13. PICK t \in Seq(Completions) : t = Tail(ws)
  BY <1>7
<1>14. /\ m[w.region] = n + 1 /\ Follow(t, m, c, n + 1)
       /\ \A y : y # n + 1 /\ Holds(ws, m, c, y) => Holds(t, m, c, y)
  BY <1>7, <1>10, <1>11, <1>12, <1>13, FollowHead
<1>15. n + 1 <= x /\ handled' = [handled EXCEPT ![c] = n + 1]
  BY <1>2, <1>7, <1>9, <1>10, <1>12, <1>14
<1>16. handled' \in [Conns -> Nat] /\ handled'[c] = n + 1
       /\ \A d \in Conns : d # c => handled'[d] = handled[d]
  BY <1>15 DEF AllStreams, StreamTypes
<1>17. StreamTypes'
  BY <1>2, <1>4, <1>7, <1>16 DEF AllStreams, StreamTypes
<1>18. RepostInv'
  BY <1>1, <1>2, <1>4, <1>8, <1>9, <1>14, <1>16 DEF RepostInv, NotPosted
<1>19. \A d \in Conns : d # c => StreamInv(d)'
  BY <1>1, <1>2, <1>4, <1>16, PollOther
<1>20. StreamInv(c)'
  <2>1. \A k \in DOMAIN t : Recv(t, k, c) => m[t[k].region] <= x
    <3>1. \A k \in DOMAIN t : k + 1 \in DOMAIN ws /\ t[k] = ws[k + 1]
      BY <1>13
    <3> QED
      BY <1>10, <3>1 DEF Recv
  <2>2. Orderly(t, m, c, n + 1, x)
    BY <1>14, <2>1 DEF Orderly
  <2>3. x > n + 1 => q \in overrun \/ Holds(t, m, c, x)
    BY <1>10, <1>14
  <2> QED
    BY <1>2, <1>4, <1>7, <1>8, <1>9, <1>10, <1>13, <1>15, <1>16, <2>2, <2>3 DEF StreamInv
<1>21. Stream!Handle(w.conn)
  <2>1. n < sent[c]
    BY <1>10, <1>15
  <2> QED
    BY <1>1, <1>2, <1>9, <1>15, <2>1 DEF Stream!Handle
<1> QED
  BY <1>7, <1>17, <1>18, <1>19, <1>20, <1>21 DEF AllStreams

(* The region that is posted again is posted once: its message is handled, those *)
(* in the queue are not.                                                         *)
LEMMA RepostStep ==
  ASSUME AllStreams, ChannelInv, Repost
  PROVE  AllStreams' /\ UNCHANGED <<sent, handled>>
<1>1. PICK w \in Completions :
        /\ wc = <<w>> /\ state[w.conn] # "none" /\ NotPosted(w.conn, w.region)
        /\ mem[w.conn][w.region] = handled[w.conn]
  BY DEF AllStreams, RepostInv, Repost
<1>2. PICK c \in Conns : c = w.conn
  BY DEF Completions
<1>a. PICK S : S = Regions[c]
  OBVIOUS
<1>b. PICK r \in S : r = w.region
  BY <1>1, <1>2, <1>a DEF NotPosted
<1>3. /\ at' = "poll" /\ wc' = <<>>
      /\ UNCHANGED <<dcq, made, state, cm, sent, placed, handled, mem, cq, overrun>>
  BY DEF Repost, buildVars, queueVars
<1>4. PICK p \in Seq(S) : p = posted[c]
  BY <1>a DEF AllStreams, StreamTypes
<1>c. Append(p, r) \in Seq(S)
  OBVIOUS
<1>5. PICK t \in Seq(S) : t = Append(p, r)
  BY <1>c
<1>6. /\ DOMAIN posted' = Conns /\ posted'[c] = t
      /\ \A d \in Conns : d # c => posted'[d] = posted[d]
  <2>1. posted' = [posted EXCEPT ![c] = Append(@, r)]
    BY <1>1, <1>2, <1>b DEF Repost
  <2> QED
    BY <1>4, <1>5, <2>1 DEF AllStreams, StreamTypes
<1>7. \A i, j \in DOMAIN t : t[i] = t[j] => i = j
  <2>1. /\ \A i \in DOMAIN p : p[i] # r
        /\ \A i, j \in DOMAIN p : p[i] = p[j] => i = j
    BY <1>1, <1>2, <1>4, <1>b DEF NotPosted, AllStreams, StreamInv
  <2>2. /\ \A i \in DOMAIN t : (i \in DOMAIN p /\ t[i] = p[i]) \/ (i = Len(p) + 1 /\ t[i] = r)
    BY <1>5
  <2> QED
    BY <2>1, <2>2
<1>8. \A d \in Conns : /\ posted'[d] \in Seq(Regions[d])
                       /\ \A i, j \in DOMAIN posted'[d] : posted'[d][i] = posted'[d][j] => i = j
  BY <1>6, <1>7, <1>a DEF AllStreams, StreamTypes, StreamInv
<1>9. \A d \in Conns : StreamInv(d)'
  <2> SUFFICES ASSUME NEW d \in Conns
               PROVE  StreamInv(d)'
    OBVIOUS
  <2>1. /\ placed[d] \in Nat /\ sent[d] \in Nat /\ StreamInv(d)
        /\ state[d] = "none" => sent[d] = 0
        /\ cm[d] = "request" => state[d] = "none"
    BY DEF AllStreams, StreamTypes, StreamInv
  <2>2. sent[d] >= sent[d]
    BY <2>1
  <2> QED
    BY <1>3, <1>8, <2>1, <2>2, StreamStays
<1>10. \A q \in Cqs : CompletionsFit(q)'
  <2> SUFFICES ASSUME NEW q \in Cqs, NEW k \in DOMAIN cq'[q], NEW v, v = cq'[q][k]
               PROVE  Fits(v, q)'
    BY FitsAll
  <2>0. k \in DOMAIN cq[q] /\ v = cq[q][k]
    BY <1>3
  <2>1. v \in Completions /\ Fits(v, q)
    BY <2>0 DEF AllStreams, StreamTypes, CompletionsFit
  <2>2. /\ v.conn \in Conns /\ state[v.conn] # "none"
        /\ v.kind = "recv" => \A i \in DOMAIN posted[v.conn] : posted[v.conn][i] # v.region
    BY <2>1 DEF Completions, Fits, NotPosted
  <2>3. CASE v.conn # c
    BY <1>3, <1>6, <2>1, <2>2, <2>3, FitStays
  <2>4. CASE v.conn = c /\ v.kind = "recv"
    <3>1. PICK ws \in Seq(Completions) : ws = cq[q] /\ dcq[c] = q
      BY <2>1, <2>4 DEF Fits, AllStreams, StreamTypes
    <3>2. Recv(ws, k, c) /\ Follow(ws, mem[c], c, handled[c])
      BY <2>0, <2>4, <3>1 DEF Recv, AllStreams, StreamInv, Orderly
    <3>3. mem[c][v.region] > handled[c]
      BY <2>0, <3>1, <3>2 DEF Follow
    <3>4. v.region # r
      BY <1>1, <1>2, <1>b, <3>3 DEF AllStreams, StreamTypes
    <3>5. \A i \in DOMAIN p : p[i] # v.region
      BY <1>4, <2>1, <2>4 DEF Fits, NotPosted
    <3>6. \A i \in DOMAIN t : t[i] # v.region
      BY <1>5, <3>4, <3>5
    <3> QED
      BY <1>3, <1>6, <2>1, <2>2, <2>4, <3>6, FitStays
  <2>5. CASE v.kind # "recv"
    BY <1>3, <2>1, <2>2, <2>5, FitStays
  <2> QED
    BY <2>3, <2>4, <2>5
<1>11. RepostInv'
  BY <1>3 DEF RepostInv
<1>12. StreamTypes'
  BY <1>3, <1>6, <1>8 DEF AllStreams, StreamTypes
<1> QED
  BY <1>3, <1>9, <1>10, <1>11, <1>12 DEF AllStreams

-------------------------------------------------------------------------------
(* A connection that begins or ends. *)
LEMMA SetUpStep ==
  ASSUME AllStreams, ChannelInv, NEW c \in Conns, NEW q \in {c} \cup Clusters, SetUp(c, q)
  PROVE  AllStreams' /\ UNCHANGED <<sent, handled>>
<1>1. /\ at = "cm" /\ cm[c] = "request" /\ UNCHANGED <<sent, placed, handled, mem, at, wc>>
      /\ dcq' = [dcq EXCEPT ![c] = q] /\ cm' = [cm EXCEPT ![c] = "quiet"]
      /\ state' = [state EXCEPT ![c] = "up"]
      /\ posted' = [posted EXCEPT ![c] = PostAllRecv(c)]
  BY DEF SetUp
<1>2. /\ dcq \in [Conns -> Cqs] /\ made \subseteq Clusters /\ DOMAIN state = Conns
      /\ DOMAIN cm = Conns /\ DOMAIN posted = Conns /\ cq \in [Cqs -> Seq(Completions)]
      /\ q \in Cqs /\ Conns \cap Clusters = {}
  BY ChannelAssumption DEF ChannelInv, AllStreams, StreamTypes, Cqs
<1>3. /\ dcq'[c] = q /\ cm'[c] = "quiet" /\ state'[c] = "up" /\ posted'[c] = PostAllRecv(c)
      /\ \A d \in Conns : d # c => /\ dcq'[d] = dcq[d] /\ cm'[d] = cm[d]
                                   /\ state'[d] = state[d] /\ posted'[d] = posted[d]
  BY <1>1, <1>2
<1>4. /\ state[c] = "none" /\ sent[c] = 0 /\ placed[c] = 0 /\ handled[c] = 0
  BY <1>1 DEF AllStreams, StreamTypes, StreamInv
<1>5. /\ cq' \in [Cqs -> Seq(Completions)] /\ made \subseteq made' /\ q \in {c} \cup made'
      /\ \A p \in Cqs : cq'[p] = cq[p] \/ (p = q /\ q \notin made /\ cq'[p] = <<>>)
      /\ \A p \in overrun : p \in overrun' \/ (p = q /\ q \notin made)
  <2>1. CASE q \in made
    BY <1>2, <2>1 DEF SetUp
  <2>2. CASE q \notin made
    <3>1. /\ made' = (IF q \in Clusters THEN made \cup {q} ELSE made)
          /\ cq' = [cq EXCEPT ![q] = <<>>] /\ overrun' = overrun \ {q}
      BY <2>2 DEF SetUp
    <3>2. <<>> \in Seq(Completions)
      OBVIOUS
    <3> QED
      BY <1>2, <2>2, <3>1, <3>2
  <2> QED
    BY <2>1, <2>2
<1>6. \A d \in Conns : d # c /\ dcq[d] = q => q \in made
  BY <1>2 DEF AllStreams, StreamInv
<1>7. \A p \in Cqs : \A k \in DOMAIN cq'[p] :
        k \in DOMAIN cq[p] /\ cq'[p][k] = cq[p][k] /\ cq[p][k].conn # c
  BY <1>4, <1>5 DEF AllStreams, CompletionsFit, Fits
<1>8. /\ PostAllRecv(c) \in Seq(Regions[c])
      /\ \A i, j \in DOMAIN PostAllRecv(c) : PostAllRecv(c)[i] = PostAllRecv(c)[j] => i = j
  BY AllPosted
<1>9. StreamTypes'
  BY <1>1, <1>2, <1>3, <1>5, <1>8 DEF AllStreams, StreamTypes
<1>10. RepostInv'
  BY <1>1 DEF AllStreams, RepostInv
<1>11. \A p \in Cqs : CompletionsFit(p)'
  <2> SUFFICES ASSUME NEW p \in Cqs, NEW k \in DOMAIN cq'[p], NEW v, v = cq'[p][k]
               PROVE  Fits(v, p)'
    BY FitsAll
  <2>1. v \in Completions /\ Fits(v, p) /\ v.conn # c
    BY <1>7 DEF AllStreams, StreamTypes, CompletionsFit
  <2>2. v.conn \in Conns
    BY <2>1 DEF Completions
  <2> QED
    BY <1>3, <2>1, <2>2, FitStays DEF Fits, NotPosted
<1>12. ASSUME NEW d \in Conns, d # c
       PROVE  StreamInv(d)'
  <2>1. cq'[dcq[d]] = cq[dcq[d]] /\ (dcq[d] \in overrun => dcq[d] \in overrun')
    BY <1>2, <1>5, <1>6, <1>12
  <2>2. /\ placed[d] \in Nat /\ sent[d] \in Nat /\ StreamInv(d)
        /\ state[d] = "none" => sent[d] = 0
        /\ cm[d] = "request" => state[d] = "none"
        /\ \A i, j \in DOMAIN posted[d] : posted[d][i] = posted[d][j] => i = j
    BY DEF AllStreams, StreamTypes, StreamInv
  <2> QED
    BY <1>1, <1>3, <1>5, <1>12, <2>1, <2>2, StreamStays
<1>13. StreamInv(c)'
  <2>1. PICK ws \in Seq(Completions) : ws = cq'[q]
    BY <1>2, <1>5
  <2>2. \A k \in DOMAIN ws : ~Recv(ws, k, c)
    BY <1>2, <1>7, <2>1 DEF Recv
  <2>3. Orderly(ws, mem[c], c, 0, 0)
    BY <2>2 DEF Orderly, Follow
  <2> QED
    BY <1>1, <1>3, <1>4, <1>5, <1>8, <2>1, <2>3 DEF StreamInv
<1> QED
  BY <1>1, <1>9, <1>10, <1>11, <1>12, <1>13 DEF AllStreams

(* A connection ends: its completions go, the others of the queue stay in order. *)
LEMMA DestroyStep ==
  ASSUME AllStreams, ChannelInv, NEW c \in Conns, Destroy(c)
  PROVE  AllStreams' /\ Stream!End(c)
<1>1. PICK q \in Cqs : q = dcq[c]
  BY DEF ChannelInv
<1>2. PICK ws \in Seq(Completions) : ws = cq[q]
  BY DEF AllStreams, StreamTypes
<1>3. PICK t : t = Without(c, ws)
  OBVIOUS
<1>4. /\ t \in Seq(Completions)
      /\ \A i \in DOMAIN t : t[i].conn # c /\ \E k \in DOMAIN ws : t[i] = ws[k]
  BY <1>3, WithoutFrom
<1>5. /\ cq' = [cq EXCEPT ![q] = t] /\ UNCHANGED <<made, overrun, at, wc>> /\ at = "cm"
      /\ state' = [state EXCEPT ![c] = "none"] /\ cm' = [cm EXCEPT ![c] = "quiet"]
      /\ sent' = [sent EXCEPT ![c] = 0] /\ placed' = [placed EXCEPT ![c] = 0]
      /\ handled' = [handled EXCEPT ![c] = 0] /\ mem' = [mem EXCEPT ![c] = Empty(c)]
      /\ posted' = [posted EXCEPT ![c] = <<>>] /\ dcq' = [dcq EXCEPT ![c] = c]
  BY <1>1, <1>2, <1>3 DEF Destroy
<1>6. StreamTypes /\ dcq \in [Conns -> Cqs] /\ DOMAIN state = Conns
  BY DEF ChannelInv, AllStreams
<1>7. /\ state'[c] = "none" /\ cm'[c] = "quiet" /\ sent'[c] = 0 /\ placed'[c] = 0
      /\ handled'[c] = 0 /\ mem'[c] = Empty(c) /\ posted'[c] = <<>> /\ dcq'[c] = c
      /\ \A d \in Conns : d # c =>
           /\ state'[d] = state[d] /\ cm'[d] = cm[d] /\ sent'[d] = sent[d]
           /\ placed'[d] = placed[d] /\ handled'[d] = handled[d] /\ mem'[d] = mem[d]
           /\ posted'[d] = posted[d] /\ dcq'[d] = dcq[d]
  BY <1>5, <1>6 DEF StreamTypes
<1>8. /\ cq' \in [Cqs -> Seq(Completions)] /\ cq'[q] = t
      /\ \A p \in Cqs : p # q => cq'[p] = cq[p]
  BY <1>4, <1>5, <1>6 DEF StreamTypes
<1>9. StreamTypes'
  <2>1. mem'[c] \in [Regions[c] -> Nat] /\ posted'[c] \in Seq(Regions[c])
    BY <1>7 DEF Empty
  <2>2. sent' \in [Conns -> Nat] /\ placed' \in [Conns -> Nat] /\ handled' \in [Conns -> Nat]
        /\ DOMAIN mem' = Conns /\ DOMAIN posted' = Conns /\ DOMAIN cm' = Conns
    BY <1>5, <1>6 DEF StreamTypes
  <2> QED
    BY <1>6, <1>7, <1>8, <2>1, <2>2 DEF StreamTypes
<1>10. RepostInv'
  BY <1>5 DEF AllStreams, RepostInv
<1>11. ASSUME NEW p \in Cqs, NEW k \in DOMAIN cq'[p], NEW v, v = cq'[p][k]
       PROVE  v.conn # c /\ v \in Completions /\ Fits(v, p)
  <2>1. CASE p = q
    BY <1>2, <1>4, <1>8, <1>11, <2>1 DEF AllStreams, CompletionsFit
  <2>2. CASE p # q
    <3>1. v \in Completions /\ Fits(v, p)
      BY <1>8, <1>11, <2>2 DEF AllStreams, StreamTypes, CompletionsFit
    <3> QED
      BY <1>1, <2>2, <3>1 DEF Fits
  <2> QED
    BY <2>1, <2>2
<1>12. \A p \in Cqs : CompletionsFit(p)'
  <2> SUFFICES ASSUME NEW p \in Cqs, NEW k \in DOMAIN cq'[p], NEW v, v = cq'[p][k]
               PROVE  Fits(v, p)'
    BY FitsAll
  <2>1. v \in Completions /\ Fits(v, p) /\ v.conn # c
    BY <1>11
  <2>2. v.conn \in Conns
    BY <2>1 DEF Completions
  <2> QED
    BY <1>7, <2>1, <2>2, FitStays DEF Fits, NotPosted
<1>13. ASSUME NEW d \in Conns, d # c
       PROVE  StreamInv(d)'
  <2>1. /\ Orderly(cq[dcq[d]], mem[d], d, handled[d], placed[d]) =>
             Orderly(cq'[dcq[d]], mem[d], d, handled[d], placed[d])
        /\ Holds(cq[dcq[d]], mem[d], d, placed[d]) => Holds(cq'[dcq[d]], mem[d], d, placed[d])
    <3>1. CASE dcq[d] # q
      BY <1>6, <1>8, <3>1
    <3>2. CASE dcq[d] = q
      <4>1. \E f : Keeps(t, ws, d, f)
        BY <1>3, <1>13, WithoutKeeps
      <4>2. PICK f : Keeps(t, ws, d, f)
        BY <4>1
      <4>3. PICK n \in Nat : n = handled[d]
        BY <1>6 DEF StreamTypes
      <4>4. t \in Seq(Completions)
        BY <1>4
      <4>5. /\ \A x : Orderly(ws, mem[d], d, n, x) => Orderly(t, mem[d], d, n, x)
            /\ \A x : Holds(ws, mem[d], d, x) => Holds(t, mem[d], d, x)
        BY <4>2, <4>4, OrderlyFewer
      <4> QED
        BY <1>2, <1>8, <3>2, <4>3, <4>5
    <3> QED
      BY <3>1, <3>2
  <2>2. /\ placed[d] \in Nat /\ sent[d] \in Nat /\ StreamInv(d)
        /\ state[d] = "none" => sent[d] = 0
        /\ cm[d] = "request" => state[d] = "none"
        /\ \A i, j \in DOMAIN posted[d] : posted[d][i] = posted[d][j] => i = j
    BY DEF AllStreams, StreamTypes, StreamInv
  <2> QED
    BY <1>5, <1>7, <1>13, <2>1, <2>2, StreamStays
<1>14. StreamInv(c)'
  <2>1. PICK u \in Seq(Completions) : u = cq'[c] /\ c \in Cqs
    BY <1>8 DEF Cqs
  <2>2. \A k \in DOMAIN u : ~Recv(u, k, c)
    BY <1>11, <2>1 DEF Recv
  <2>3. Orderly(u, mem'[c], c, 0, 0)
    BY <2>2 DEF Orderly, Follow
  <2>4. \A i, j \in DOMAIN posted'[c] : posted'[c][i] = posted'[c][j] => i = j
    BY <1>7
  <2> QED
    BY <1>5, <1>7, <2>1, <2>3, <2>4 DEF StreamInv
<1> QED
  BY <1>5, <1>9, <1>10, <1>12, <1>13, <1>14 DEF AllStreams, Stream!End

-------------------------------------------------------------------------------
(* At the start nothing is sent, handled or queued. *)
LEMMA StreamsInit == Init => AllStreams /\ Stream!Init
<1> SUFFICES ASSUME Init
             PROVE  AllStreams /\ Stream!Init
  OBVIOUS
<1>1. StreamTypes
  BY DEF Init, StreamTypes, Empty
<1>2. RepostInv
  BY DEF Init, RepostInv
<1>3. \A q \in Cqs : CompletionsFit(q)
  BY DEF Init, CompletionsFit
<1>4. ASSUME NEW c \in Conns
      PROVE  StreamInv(c)
  <2>1. c \in Cqs /\ dcq[c] = c /\ cq[c] = <<>> /\ posted[c] = <<>>
    BY DEF Init, Cqs
  <2>2. Orderly(cq[dcq[c]], mem[c], c, 0, 0)
    BY <2>1 DEF Orderly, Follow
  <2>3. \A i, j \in DOMAIN posted[c] : posted[c][i] = posted[c][j] => i = j
    BY <2>1
  <2> QED
    BY <2>1, <2>2, <2>3 DEF Init, StreamInv
<1> QED
  BY <1>1, <1>2, <1>3, <1>4 DEF AllStreams, Stream!Init, Init

(* Every step of the channel is a step of the stream, or changes neither number. *)
LEMMA StreamStep ==
  ASSUME AllStreams, ChannelInv, [Next]_vars
  PROVE  AllStreams' /\ [Stream!Next]_<<sent, handled>>
<1>1. CASE UNCHANGED vars
  <2>1. UNCHANGED <<dcq, made, sent, placed, handled, mem, posted, cq, overrun, wc, state, cm, at>>
    BY <1>1 DEF vars, buildVars, msgVars, queueVars, epollVars
  <2>2. /\ sent \in [Conns -> Nat] /\ DOMAIN cm = Conns
        /\ \A d \in Conns : /\ state[d] = "none" => sent[d] = 0
                            /\ cm[d] = "request" => state[d] = "none"
    BY DEF AllStreams, StreamTypes, StreamInv
  <2>3. \A d \in Conns : sent[d] >= sent[d]
    BY <2>2
  <2>4. AllStreams'
    BY <2>1, <2>2, <2>3, StreamsStay
  <2> QED
    BY <2>1, <2>4
<1>2. CASE EpollThread
  <2>1. CASE EpollWait \/ Arm \/ Emptied \/ TakeCm \/ CmDone \/ \E q \in Cqs : TakeEvent(q)
    BY <2>1, QuietSteps
  <2>2. CASE Repost
    BY <2>2, RepostStep
  <2>3. CASE \E w \in Completions : HandleRecv(w)
    <3>1. PICK w \in Completions : HandleRecv(w)
      BY <2>3
    <3>2. AllStreams' /\ Stream!Handle(w.conn) /\ w.conn \in Conns
      BY <3>1, HandleRecvStep DEF Completions
    <3> QED
      BY <3>2 DEF Stream!Next
  <2>4. CASE \E w \in Completions : HandleOp(w) \/ HandleError(w)
    BY <2>4, HandleOpStep
  <2>5. CASE \E c \in Conns : Connect(c) \/ \E k \in Clusters : ConnectShared(c, k)
    BY <2>5, SetUpStep DEF Connect, ConnectShared
  <2>6. CASE \E c \in Conns : Destroy(c)
    <3>1. PICK c \in Conns : Destroy(c)
      BY <2>6
    <3>2. AllStreams' /\ Stream!End(c)
      BY <3>1, DestroyStep
    <3> QED
      BY <3>2 DEF Stream!Next
  <2> QED
    BY <1>2, <2>1, <2>2, <2>3, <2>4, <2>5, <2>6 DEF EpollThread
<1>3. CASE \E c \in Conns : Network(c)
  <2>1. PICK c \in Conns : Network(c)
    BY <1>3
  <2>2. CASE Request(c) \/ Leave(c) \/ Post(c)
    BY <2>2, QuietSteps
  <2>3. CASE \E close \in BOOLEAN : Send(c, close)
    <3>1. AllStreams' /\ Stream!Send(c)
      BY <2>3, SendStep
    <3> QED
      BY <3>1 DEF Stream!Next
  <2>4. CASE Place(c)
    BY <2>4, PlaceStep
  <2>5. CASE Finish(c) \/ FlushRecv(c) \/ FlushOp(c)
    BY <2>5, OtherCompletes
  <2> QED
    BY <2>1, <2>2, <2>3, <2>4, <2>5 DEF Network
<1> QED
  BY <1>1, <1>2, <1>3 DEF Next

(* The handlers of each connection see its messages in the order in which they   *)
(* were sent, each once: for any connections, queues, regions and bounds.        *)
THEOREM ChannelImplementsStream == Spec => ImplementsRemoteStream
<1>1. AllStreams /\ ChannelInv /\ [Next]_vars =>
        AllStreams' /\ [Stream!Next]_<<sent, handled>>
  BY StreamStep
<1> QED
  BY <1>1, StreamsInit, ChannelHolds, PTL DEF Spec, ImplementsRemoteStream, Stream!Spec
===============================================================================
