--------------------------- MODULE DhmpDaRPCProofs ---------------------------
(***************************************************************************)
(* The window of the DaRPC calls is kept, and the calls are applied as one *)
(* log, for every number of threads, objects and values, and every window. *)
(***************************************************************************)
EXTENDS DhmpDaRPCInv, FiniteSetTheorems, SequenceTheorems, TLAPS

(* A thread in a call has one to make, and the work thread has work unless it *)
(* is idle.                                                                   *)
WorkIsACall ==
  /\ \A t \in Thread : pc[t] # "idle" => call[t] \in Log!Calls
  /\ worker.pc = "idle" <=> worker.t = NoOne

(* Where the i-th of n responses is if the next goes to p, in a region of r. *)
At(p, n, r, i) == LET d == p - 1 - (n - i) IN IF d >= 0 THEN d ELSE d + r

(* The posted responses lie one behind the other, from the end of the region  *)
(* to its start, and the last is just before cur_pos.                         *)
Behind(i) == At(cur_pos, Len(posted), Ring, i)

OneBehindTheOther == \A i \in 1..Len(posted) : posted[i] = Behind(i)

DaRPCInv ==
  TypeOK /\ WorkIsACall /\ WorkIsWaitedFor /\ WindowKept /\ OneBehindTheOther

Entered == {t \in Thread : pc[t] = "entered"}

-------------------------------------------------------------------------------
(* The kinds of numbers the window is counted in. *)
LEMMA Counts ==
  ASSUME DaRPCAssumption, TypeOK
  PROVE  /\ IsFiniteSet(Entered) /\ Cardinality(Entered) \in Nat
         /\ Len(work_list) \in Nat /\ Len(NotSent) \in {0, 1} /\ Len(requests) \in Nat
         /\ Len(posted) \in Nat /\ responses \in Nat /\ para_request_num \in Nat
         /\ worker.pc \in {"taken", "posted"} <=> Len(NotSent) = 1
<1>1. IsFiniteSet(Entered) /\ Cardinality(Entered) \in Nat
  BY FS_Subset, FS_CardinalityType DEF DaRPCAssumption, Entered
<1>2. Len(work_list) \in Nat /\ Len(requests) \in Nat /\ Len(posted) \in Nat
  BY DEF TypeOK
<1>3. Len(NotSent) \in {0, 1} /\ (worker.pc \in {"taken", "posted"} <=> Len(NotSent) = 1)
  BY DEF NotSent
<1>4. responses \in Nat /\ para_request_num \in Nat
  BY DEF TypeOK, DaRPCAssumption
<1> QED BY <1>1, <1>2, <1>3, <1>4

(* Never more than a window of responses is on its way, nor more than the      *)
(* region holds.                                                              *)
LEMMA ResponsesFit ==
  ASSUME DaRPCAssumption, TypeOK, WindowKept
  PROVE  Len(posted) + Len(requests) <= Window /\ Window <= Ring
BY Counts DEF WindowKept, Taken, Entered, DaRPCAssumption

(* A place taken after p leaves the others where they are, and no two are the  *)
(* same.                                                                      *)
LEMMA PlacesStay ==
  ASSUME NEW r \in Nat, NEW n \in Nat, n < r, NEW p \in 0..r, NEW i \in 1..n
  PROVE  At(IF p = r THEN 1 ELSE p + 1, n + 1, r, i) = At(p, n, r, i)
BY DEF At

LEMMA PlacesDiffer ==
  ASSUME NEW r \in Nat, NEW n \in Nat, n <= r, NEW p \in 0..r, NEW i \in 1..n, NEW j \in 1..n,
         At(p, n, r, i) = At(p, n, r, j)
  PROVE  i = j
BY DEF At

(* The first state keeps the invariant. *)
LEMMA InitInv == ASSUME DaRPCAssumption PROVE Init => DaRPCInv
<1> SUFFICES ASSUME Init PROVE DaRPCInv
  OBVIOUS
<1>1. TypeOK
  BY DEF Init, TypeOK, DaRPCAssumption
<1>2. WorkIsACall /\ WorkIsWaitedFor
  BY DEF Init, WorkIsACall, WorkIsWaitedFor
<1>3. WindowKept
  <2>1. Entered = {} /\ Cardinality(Entered) = 0
    BY FS_EmptySet DEF Init, Entered
  <2>2. Len(NotSent) = 0 /\ Len(work_list) = 0 /\ Len(requests) = 0 /\ Len(posted) = 0
    BY DEF Init, NotSent
  <2> QED BY <2>1, <2>2 DEF Init, WindowKept, Taken, Entered, DaRPCAssumption
<1>4. OneBehindTheOther
  BY DEF Init, OneBehindTheOther
<1> QED BY <1>1, <1>2, <1>3, <1>4 DEF DaRPCInv

-------------------------------------------------------------------------------
(* A step keeps the types. *)
LEMMA TypeStep ==
  ASSUME DaRPCAssumption, DaRPCInv, Next
  PROVE  TypeOK'
<1> USE DEF DaRPCInv, TypeOK, callVars, workVars, serverVars
<1>1. ASSUME NEW t \in Thread, NEW c \in Log!Calls, Call(t, c) PROVE TypeOK'
  BY <1>1 DEF Call
<1>2. ASSUME NEW t \in Thread, EnterWindow(t) PROVE TypeOK'
  BY <1>2 DEF EnterWindow, DaRPCAssumption
<1>3. ASSUME NEW t \in Thread, Enqueue(t) PROVE TypeOK'
  BY <1>3 DEF Enqueue
<1>4. ASSUME NEW t \in Thread, Return(t) PROVE TypeOK'
  BY <1>4 DEF Return
<1>5. CASE TakeWork
  <2>1. Head(work_list) \in Thread /\ Tail(work_list) \in Seq(Thread)
    BY <1>5 DEF TakeWork
  <2> QED BY <1>5, <2>1 DEF TakeWork
<1>6. CASE PostRequest
  BY <1>6 DEF PostRequest
<1>7. CASE DeliverRequest
  <2>1. worker.t \in Thread /\ call[worker.t] \in Log!Calls
    BY <1>7 DEF DeliverRequest, WorkIsWaitedFor, WorkIsACall
  <2>2. requests' \in Seq(Log!Calls)
    BY <1>7, <2>1 DEF DeliverRequest
  <2> QED BY <1>7, <2>2 DEF DeliverRequest
<1>8. CASE Done
  BY <1>8 DEF Done
<1>9. CASE HandleRequest
  <2>1. Head(requests) \in Log!Calls /\ Tail(requests) \in Seq(Log!Calls)
    BY <1>9 DEF HandleRequest
  <2>2. Head(requests).val \in Value
    BY <2>1 DEF Log!Calls
  <2>3. mem' \in [Object -> Value]
    BY <1>9, <2>2 DEF HandleRequest, Log!Applied
  <2>4. Place \in 0..(Ring - 1) /\ Place + 1 \in 0..Ring
    BY DEF Place, DaRPCAssumption
  <2>5. posted' \in Seq(0..(Ring - 1)) /\ cur_pos' \in 0..Ring
    BY <1>9, <2>4 DEF HandleRequest
  <2> QED BY <1>9, <2>1, <2>3, <2>5 DEF HandleRequest
<1>10. CASE DeliverResponse
  BY <1>10 DEF DeliverResponse
<1>11. CASE OnResponse
  <2>1. para_request_num + 1 <= Window
    BY <1>11, Counts DEF OnResponse, WindowKept, Taken, Entered, DaRPCAssumption
  <2> QED BY <1>11, <2>1 DEF OnResponse, DaRPCAssumption
<1> QED
  BY <1>1, <1>2, <1>3, <1>4, <1>5, <1>6, <1>7, <1>8, <1>9, <1>10, <1>11
  DEF Next, WorkThread

(* What is taken out of the list is not in the rest of it. *)
LEMMA TakeStep ==
  ASSUME TypeOK, WorkIsWaitedFor, TakeWork
  PROVE  /\ WorkIsWaitedFor'
         /\ worker' = [pc |-> "taken", t |-> Head(work_list)]
         /\ Head(work_list) \in Thread
<1>1. work_list \in Seq(Thread) /\ work_list # <<>> /\ work_list' = Tail(work_list)
  BY DEF TypeOK, TakeWork
<1>2. /\ Len(work_list) \in Nat /\ Len(work_list) > 0
      /\ DOMAIN work_list = 1..Len(work_list)
      /\ Head(work_list) = work_list[1] /\ Head(work_list) \in Thread
      /\ DOMAIN work_list' = 1..(Len(work_list) - 1)
      /\ \A i \in 1..(Len(work_list) - 1) : work_list'[i] = work_list[i + 1]
  BY <1>1
<1>3. worker' = [pc |-> "taken", t |-> Head(work_list)] /\ pc' = pc
  BY DEF TakeWork, callVars
<1>4. \A i \in DOMAIN work_list' : i + 1 \in DOMAIN work_list /\ i + 1 # 1
  BY <1>2
<1>5. 1 \in DOMAIN work_list /\ pc[work_list[1]] = "waiting"
  BY <1>2 DEF WorkIsWaitedFor
<1>6. \A i \in DOMAIN work_list' : pc'[work_list'[i]] = "waiting" /\ work_list'[i] # worker'.t
  <2> TAKE i \in DOMAIN work_list'
  <2>1. work_list'[i] = work_list[i + 1] /\ work_list[i + 1] # work_list[1]
    BY <1>2, <1>4, <1>5 DEF WorkIsWaitedFor
  <2>2. pc[work_list[i + 1]] = "waiting"
    BY <1>4 DEF WorkIsWaitedFor
  <2> QED BY <1>2, <1>3, <2>1, <2>2
<1>7. \A i, j \in DOMAIN work_list' : work_list'[i] = work_list'[j] => i = j
  <2> TAKE i, j \in DOMAIN work_list'
  <2>1. work_list[i + 1] = work_list[j + 1] => i + 1 = j + 1
    BY <1>4 DEF WorkIsWaitedFor
  <2> QED BY <1>2, <2>1
<1>8. worker'.t \in Thread /\ pc'[worker'.t] = "waiting"
  BY <1>2, <1>3, <1>5
<1> QED BY <1>2, <1>3, <1>6, <1>7, <1>8 DEF WorkIsWaitedFor

(* A step keeps the work list the list of those who wait. *)
LEMMA WorkStep ==
  ASSUME DaRPCAssumption, DaRPCInv, Next
  PROVE  WorkIsACall' /\ WorkIsWaitedFor'
<1> USE DEF DaRPCInv, TypeOK, callVars, workVars, serverVars, WorkIsACall, WorkIsWaitedFor
<1>1. ASSUME NEW t \in Thread, NEW c \in Log!Calls, Call(t, c)
      PROVE  WorkIsACall' /\ WorkIsWaitedFor'
  BY <1>1 DEF Call
<1>2. ASSUME NEW t \in Thread, EnterWindow(t) PROVE WorkIsACall' /\ WorkIsWaitedFor'
  BY <1>2 DEF EnterWindow
<1>3. ASSUME NEW t \in Thread, Enqueue(t) PROVE WorkIsACall' /\ WorkIsWaitedFor'
  <2>1. /\ DOMAIN work_list' = 1..(Len(work_list) + 1)
        /\ \A i \in 1..Len(work_list) : work_list'[i] = work_list[i]
        /\ work_list'[Len(work_list) + 1] = t
        /\ DOMAIN work_list = 1..Len(work_list) /\ Len(work_list) \in Nat
    BY <1>3 DEF Enqueue
  <2>2. \A i \in DOMAIN work_list : work_list[i] # t
    BY <1>3 DEF Enqueue
  <2>3. t # worker.t /\ pc'[t] = "waiting" /\ \A u \in Thread \ {t} : pc'[u] = pc[u]
    BY <1>3 DEF Enqueue, DaRPCAssumption
  <2>4. UNCHANGED <<call, worker>>
    BY <1>3 DEF Enqueue
  <2>5. WorkIsACall'
    BY <1>3, <2>3, <2>4 DEF Enqueue
  <2>6. \A i \in DOMAIN work_list' : pc'[work_list'[i]] = "waiting" /\ work_list'[i] # worker'.t
    BY <2>1, <2>2, <2>3, <2>4
  <2>7. \A i, j \in DOMAIN work_list' : work_list'[i] = work_list'[j] => i = j
    BY <2>1, <2>2
  <2> QED BY <2>3, <2>4, <2>5, <2>6, <2>7
<1>4. ASSUME NEW t \in Thread, Return(t) PROVE WorkIsACall' /\ WorkIsWaitedFor'
  BY <1>4 DEF Return
<1>5. CASE TakeWork
  <2>1. WorkIsWaitedFor' /\ worker' = [pc |-> "taken", t |-> Head(work_list)]
        /\ Head(work_list) \in Thread
    BY <1>5, TakeStep
  <2>2. WorkIsACall'
    BY <1>5, <2>1 DEF TakeWork, DaRPCAssumption
  <2> QED BY <2>1, <2>2
<1>6. CASE PostRequest
  BY <1>6 DEF PostRequest
<1>7. CASE DeliverRequest
  BY <1>7 DEF DeliverRequest
<1>8. CASE Done
  BY <1>8 DEF Done, DaRPCAssumption
<1>9. CASE HandleRequest \/ DeliverResponse \/ OnResponse
  BY <1>9 DEF HandleRequest, DeliverResponse, OnResponse
<1> QED
  BY <1>1, <1>2, <1>3, <1>4, <1>5, <1>6, <1>7, <1>8, <1>9 DEF Next, WorkThread

-------------------------------------------------------------------------------
(* Every step that takes a place in the window from one holder gives it to    *)
(* another.                                                                   *)
LEMMA WindowStep ==
  ASSUME DaRPCAssumption, DaRPCInv, Next, TypeOK'
  PROVE  WindowKept'
<1> DEFINE In == Cardinality(Entered)
<1> USE DEF WindowKept, Taken
<1>t. TypeOK /\ WindowKept /\ WorkIsWaitedFor
  BY DEF DaRPCInv
<1>k. /\ para_request_num + (In + Len(work_list) + Len(NotSent) + Len(requests)
           + Len(posted) + responses) = Window
      /\ In \in Nat /\ Len(work_list) \in Nat /\ Len(NotSent) \in {0, 1}
      /\ Len(requests) \in Nat /\ Len(posted) \in Nat /\ responses \in Nat
      /\ para_request_num \in Nat
  BY <1>t, Counts DEF Entered
<1>g. WindowKept' <=>
        para_request_num' + (In' + Len(work_list)' + Len(NotSent)' + Len(requests)'
          + Len(posted)' + responses') = Window
  BY DEF Entered
<1>s. /\ \A t \in Thread : pc[t] = "entered" => In = Cardinality(Entered \ {t}) + 1
      /\ \A t \in Thread : pc[t] # "entered" => Cardinality(Entered \cup {t}) = In + 1
  <2> SUFFICES ASSUME NEW t \in Thread
               PROVE  /\ pc[t] = "entered" => In = Cardinality(Entered \ {t}) + 1
                      /\ pc[t] # "entered" => Cardinality(Entered \cup {t}) = In + 1
    OBVIOUS
  <2>1. t \in Entered <=> pc[t] = "entered"
    BY DEF Entered
  <2>2. IsFiniteSet(Entered) /\ Cardinality(Entered) \in Nat
    BY <1>t, Counts
  <2>3. Cardinality(Entered \cup {t}) = IF t \in Entered THEN In ELSE In + 1
    BY <2>2, FS_AddElement
  <2>4. Cardinality(Entered \ {t}) = IF t \in Entered THEN In - 1 ELSE In
    BY <2>2, FS_RemoveElement
  <2> QED BY <2>1, <2>2, <2>3, <2>4
<1> HIDE DEF In, WindowKept, Taken
<1>e. pc' = pc => In' = In
  BY DEF In, Entered
<1>1. ASSUME NEW t \in Thread, NEW c \in Log!Calls, Call(t, c) PROVE WindowKept'
  <2>1. Entered' = Entered
    BY <1>1, <1>t DEF Call, Entered, TypeOK
  <2>2. NotSent' = IF worker.pc \in {"taken", "posted"} THEN <<call'[worker.t]>> ELSE <<>>
    BY <1>1 DEF Call, NotSent, workVars
  <2>3. Len(NotSent') = Len(NotSent)
    BY <2>2 DEF NotSent
  <2> QED BY <1>1, <1>g, <1>k, <2>1, <2>3 DEF Call, In, workVars, serverVars
<1>2. ASSUME NEW t \in Thread, EnterWindow(t) PROVE WindowKept'
  <2>1. Entered' = Entered \cup {t} /\ pc[t] # "entered"
    BY <1>2, <1>t DEF EnterWindow, Entered, TypeOK
  <2>2. In' = In + 1 /\ NotSent' = NotSent
    BY <1>2, <1>s, <2>1 DEF In, EnterWindow, NotSent, workVars
  <2> QED BY <1>2, <1>g, <1>k, <2>2 DEF EnterWindow, workVars, serverVars
<1>3. ASSUME NEW t \in Thread, Enqueue(t) PROVE WindowKept'
  <2>1. Entered' = Entered \ {t} /\ pc[t] = "entered"
    BY <1>3, <1>t DEF Enqueue, Entered, TypeOK
  <2>2. In' = In - 1
    <3>1. In' = Cardinality(Entered \ {t})
      BY <2>1 DEF In
    <3>2. Cardinality(Entered \ {t}) \in Nat
      BY <1>t, Counts, FS_RemoveElement, FS_CardinalityType
    <3>3. In = Cardinality(Entered \ {t}) + 1
      BY <1>s, <2>1
    <3> QED BY <3>1, <3>2, <3>3
  <2>n. NotSent' = NotSent
    BY <1>3 DEF Enqueue, NotSent
  <2>3. Len(work_list)' = Len(work_list) + 1
    BY <1>3, <1>t DEF Enqueue, TypeOK
  <2> QED BY <1>3, <1>g, <1>k, <2>2, <2>n, <2>3 DEF Enqueue, serverVars
<1>4. ASSUME NEW t \in Thread, Return(t) PROVE WindowKept'
  <2>1. Entered' = Entered
    BY <1>4, <1>t DEF Return, Entered, TypeOK
  <2>2. NotSent' = IF worker.pc \in {"taken", "posted"} THEN <<call'[worker.t]>> ELSE <<>>
    BY <1>4 DEF Return, NotSent, workVars
  <2>3. Len(NotSent') = Len(NotSent)
    BY <2>2 DEF NotSent
  <2> QED BY <1>4, <1>g, <1>k, <2>1, <2>3 DEF Return, In, workVars, serverVars
<1>5. CASE TakeWork
  <2>1. Len(work_list)' = Len(work_list) - 1
    BY <1>5, <1>t DEF TakeWork, TypeOK
  <2>2. Len(NotSent) = 0 /\ Len(NotSent)' = 1
    BY <1>5 DEF TakeWork, NotSent
  <2> QED BY <1>5, <1>e, <1>g, <1>k, <2>1, <2>2 DEF TakeWork, callVars, serverVars
<1>6. CASE PostRequest
  <2>1. Len(NotSent)' = Len(NotSent)
    BY <1>6, <1>t DEF PostRequest, NotSent, callVars, TypeOK
  <2> QED BY <1>6, <1>e, <1>g, <1>k, <2>1 DEF PostRequest, callVars, serverVars
<1>7. CASE DeliverRequest
  <2>1. Len(NotSent) = 1 /\ Len(NotSent)' = 0
    BY <1>7, <1>t DEF DeliverRequest, NotSent, TypeOK
  <2>2. Len(requests)' = Len(requests) + 1
    BY <1>7, <1>t DEF DeliverRequest, TypeOK
  <2>3. UNCHANGED <<pc, para_request_num, work_list, posted, responses>>
    BY <1>7 DEF DeliverRequest, callVars, serverVars
  <2> QED BY <1>e, <1>g, <1>k, <2>1, <2>2, <2>3
<1>8. CASE Done
  <2>1. Len(NotSent) = 0 /\ Len(NotSent)' = 0
    BY <1>8 DEF Done, NotSent
  <2>2. Entered' = Entered
    BY <1>8, <1>t DEF Done, Entered, TypeOK, WorkIsWaitedFor
  <2> QED BY <1>8, <1>g, <1>k, <2>1, <2>2 DEF Done, In, serverVars
<1>9. CASE HandleRequest
  <2>1. Len(requests)' = Len(requests) - 1
    BY <1>9, <1>t DEF HandleRequest, TypeOK
  <2>2. Len(posted)' = Len(posted) + 1
    BY <1>9, <1>t DEF HandleRequest, TypeOK
  <2>3. NotSent' = NotSent
    BY <1>9 DEF HandleRequest, NotSent, callVars, workVars
  <2> QED BY <1>9, <1>e, <1>g, <1>k, <2>1, <2>2, <2>3 DEF HandleRequest, callVars, workVars
<1>10. CASE DeliverResponse
  <2>1. Len(posted)' = Len(posted) - 1
    BY <1>10, <1>t DEF DeliverResponse, TypeOK
  <2>2. NotSent' = NotSent
    BY <1>10 DEF DeliverResponse, NotSent, callVars, workVars
  <2> QED BY <1>10, <1>e, <1>g, <1>k, <2>1, <2>2 DEF DeliverResponse, callVars, workVars
<1>11. CASE OnResponse
  <2>1. NotSent' = NotSent
    BY <1>11 DEF OnResponse, NotSent, callVars, workVars
  <2> QED BY <1>11, <1>e, <1>g, <1>k, <2>1 DEF OnResponse, callVars, workVars, serverVars
<1> QED
  BY <1>1, <1>2, <1>3, <1>4, <1>5, <1>6, <1>7, <1>8, <1>9, <1>10, <1>11
  DEF Next, WorkThread

(* A response goes behind the last, and the first is the one that is sent.    *)
LEMMA RegionStep ==
  ASSUME DaRPCAssumption, DaRPCInv, Next
  PROVE  OneBehindTheOther'
<1> USE DEF OneBehindTheOther, Behind
<1>t. TypeOK /\ OneBehindTheOther /\ Len(posted) + Len(requests) <= Ring /\ Len(posted) \in Nat
  BY ResponsesFit, Counts DEF DaRPCInv, DaRPCAssumption
<1>1. CASE HandleRequest
  <2>1. /\ Len(posted)' = Len(posted) + 1 /\ posted'[Len(posted) + 1] = Place
        /\ \A i \in 1..Len(posted) : posted'[i] = posted[i]
    BY <1>1, <1>t DEF HandleRequest, TypeOK
  <2>2. cur_pos' = Place + 1 /\ Len(posted) < Ring
    <3>1. Len(requests) > 0
      BY <1>1, <1>t DEF HandleRequest, TypeOK
    <3> QED BY <1>1, <1>t, <3>1 DEF HandleRequest, TypeOK, DaRPCAssumption
  <2>3. cur_pos \in 0..Ring /\ Ring \in Nat
    BY <1>t DEF TypeOK, DaRPCAssumption
  <2>4. /\ cur_pos = Ring => cur_pos' = 1 /\ Place = 0
        /\ cur_pos # Ring => cur_pos' = cur_pos + 1 /\ Place = cur_pos
    BY <2>2, <2>3 DEF Place
  <2>5. ASSUME NEW i \in 1..Len(posted) PROVE posted'[i] = Behind(i)'
    <3>1. posted'[i] = At(cur_pos, Len(posted), Ring, i)
      BY <1>t, <2>1
    <3>2. cur_pos' = IF cur_pos = Ring THEN 1 ELSE cur_pos + 1
      BY <2>4
    <3>3. Behind(i)' = At(cur_pos', Len(posted) + 1, Ring, i)
      BY <2>1
    <3> QED BY <1>t, <2>2, <2>3, <3>1, <3>2, <3>3, PlacesStay
  <2>6. posted'[Len(posted)'] = Behind(Len(posted))'
    BY <1>t, <2>1, <2>2, <2>3, <2>4 DEF At
  <2> QED BY <1>t, <2>1, <2>5, <2>6
<1>2. CASE DeliverResponse
  <2>1. /\ Len(posted)' = Len(posted) - 1 /\ Len(posted) > 0
        /\ \A i \in 1..(Len(posted) - 1) : posted'[i] = posted[i + 1]
    BY <1>2, <1>t DEF DeliverResponse, TypeOK
  <2>2. cur_pos' = cur_pos /\ cur_pos \in 0..Ring /\ Ring \in Nat
    BY <1>2, <1>t DEF DeliverResponse, TypeOK, DaRPCAssumption
  <2> QED BY <1>t, <2>1, <2>2 DEF At
<1>3. CASE UNCHANGED <<posted, cur_pos>>
  BY <1>t, <1>3
<1> QED
  BY <1>1, <1>2, <1>3
  DEF Next, WorkThread, Call, EnterWindow, Enqueue, Return, TakeWork, PostRequest,
      DeliverRequest, Done, OnResponse, serverVars

-------------------------------------------------------------------------------
(* The inductive invariant: the window is kept, the list is of those who wait, *)
(* and the responses lie behind each other in the region.                      *)
THEOREM DaRPCHolds == ASSUME DaRPCAssumption PROVE Spec => []DaRPCInv
<1>1. Init => DaRPCInv
  BY InitInv
<1>2. DaRPCInv /\ [Next]_vars => DaRPCInv'
  <2> SUFFICES ASSUME DaRPCInv, [Next]_vars PROVE DaRPCInv'
    OBVIOUS
  <2>1. CASE Next
    BY <2>1, TypeStep, WorkStep, WindowStep, RegionStep DEF DaRPCInv
  <2>2. CASE UNCHANGED vars
    BY <2>2 DEF vars, callVars, workVars, serverVars, DaRPCInv, TypeOK, WorkIsACall,
                WorkIsWaitedFor, WindowKept, Taken, NotSent, OneBehindTheOther, Behind
  <2> QED BY <2>1, <2>2
<1> QED BY <1>1, <1>2, PTL DEF Spec

(* The variables keep their types: para_request_num is never below zero.       *)
THEOREM DaRPCTypes == ASSUME DaRPCAssumption PROVE Spec => []TypeOK
<1>1. DaRPCInv => TypeOK
  BY DEF DaRPCInv
<1> QED BY <1>1, DaRPCHolds, PTL

(* No place in the window is lost or made up.                                  *)
THEOREM KeepsTheWindow == ASSUME DaRPCAssumption PROVE Spec => []WindowKept
<1>1. DaRPCInv => WindowKept
  BY DEF DaRPCInv
<1> QED BY <1>1, DaRPCHolds, PTL

(* The work thread sets done_flag for none but a thread that waits for it.     *)
THEOREM WorksForTheWaiting == ASSUME DaRPCAssumption PROVE Spec => []WorkIsWaitedFor
<1>1. DaRPCInv => WorkIsWaitedFor
  BY DEF DaRPCInv
<1> QED BY <1>1, DaRPCHolds, PTL

(* A response is never written over one that is still to be sent, in a region  *)
(* as large as the window.                                                     *)
THEOREM ResponsesStayApart == ASSUME DaRPCAssumption PROVE Spec => []NoResponseOverwritten
<1>1. DaRPCInv => NoResponseOverwritten
  <2> SUFFICES ASSUME DaRPCInv, NEW i \in DOMAIN posted, NEW j \in DOMAIN posted,
                      posted[i] = posted[j]
               PROVE  i = j
    BY DEF NoResponseOverwritten
  <2>1. /\ Len(posted) \in Nat /\ Len(posted) <= Ring /\ DOMAIN posted = 1..Len(posted)
        /\ cur_pos \in 0..Ring /\ Ring \in Nat
    BY ResponsesFit, Counts DEF DaRPCInv, TypeOK, DaRPCAssumption
  <2>2. posted[i] = Behind(i) /\ posted[j] = Behind(j)
    BY <2>1 DEF DaRPCInv, OneBehindTheOther
  <2> QED BY <2>1, <2>2, PlacesDiffer DEF Behind
<1> QED BY <1>1, DaRPCHolds, PTL

-------------------------------------------------------------------------------
(* The three parts of the calls that are pending. *)
LEMMA Parts ==
  ASSUME DaRPCInv
  PROVE  /\ requests \in Seq(Log!Calls) /\ NotSent \in Seq(Log!Calls)
         /\ Waiting \in Seq(Log!Calls) /\ Len(Waiting) = Len(work_list)
         /\ \A i \in 1..Len(work_list) : Waiting[i] = call[work_list[i]]
         /\ \A i \in 1..Len(work_list) : call[work_list[i]] \in Log!Calls
<1>1. requests \in Seq(Log!Calls) /\ work_list \in Seq(Thread)
  BY DEF DaRPCInv, TypeOK
<1>2. DOMAIN work_list = 1..Len(work_list) /\ Len(work_list) \in Nat
  BY <1>1
<1>3. \A i \in 1..Len(work_list) : call[work_list[i]] \in Log!Calls
  BY <1>1, <1>2 DEF DaRPCInv, WorkIsACall, WorkIsWaitedFor
<1>4. Waiting \in Seq(Log!Calls) /\ Len(Waiting) = Len(work_list)
  BY <1>2, <1>3 DEF Waiting
<1>5. NotSent \in Seq(Log!Calls)
  <2>1. CASE worker.pc \in {"taken", "posted"}
    BY <2>1 DEF NotSent, DaRPCInv, WorkIsACall, WorkIsWaitedFor
  <2>2. CASE worker.pc \notin {"taken", "posted"}
    BY <2>2 DEF NotSent
  <2> QED BY <2>1, <2>2
<1> QED BY <1>1, <1>2, <1>3, <1>4, <1>5 DEF Waiting

(* The calls that are pending, and how many they can be. *)
LEMMA PendingFits ==
  ASSUME DaRPCAssumption, DaRPCInv
  PROVE  /\ Pending \in Seq(Log!Calls)
         /\ Len(Pending) = Len(requests) + Len(NotSent) + Len(work_list)
         /\ \A t \in Thread : pc[t] = "entered" => Len(Pending) < Window
<1>1. requests \o NotSent \in Seq(Log!Calls) /\ Len(requests \o NotSent) = Len(requests) + Len(NotSent)
  BY Parts, ConcatProperties
<1>2. Pending \in Seq(Log!Calls) /\ Len(Pending) = Len(requests) + Len(NotSent) + Len(work_list)
  <2> DEFINE a == requests \o NotSent
  <2>1. Waiting \in Seq(Log!Calls) /\ Len(Waiting) = Len(work_list)
    BY Parts
  <2>2. a \in Seq(Log!Calls) /\ Len(a) = Len(requests) + Len(NotSent) /\ Pending = a \o Waiting
    BY <1>1 DEF Pending
  <2> HIDE DEF a
  <2>3. a \o Waiting \in Seq(Log!Calls) /\ Len(a \o Waiting) = Len(a) + Len(Waiting)
    BY <2>1, <2>2, ConcatProperties
  <2> QED BY <2>1, <2>2, <2>3
<1>3. ASSUME NEW t \in Thread, pc[t] = "entered" PROVE Len(Pending) < Window
  <2>1. t \in Entered /\ TypeOK
    BY <1>3 DEF Entered, DaRPCInv
  <2>2. Cardinality(Entered) > 0
    BY <2>1, Counts, FS_EmptySet
  <2> QED BY <1>2, <2>1, <2>2, Counts DEF DaRPCInv, WindowKept, Taken, Entered, DaRPCAssumption
<1> QED BY <1>2, <1>3

(* Facts on sequences of calls. *)
LEMMA MoveHead ==
  ASSUME NEW S, NEW a \in Seq(S), NEW w \in Seq(S), w # <<>>
  PROVE  (a \o <<Head(w)>>) \o Tail(w) = a \o w
<1>1. Head(w) \in S /\ Tail(w) \in Seq(S) /\ <<Head(w)>> \in Seq(S)
  BY HeadTailProperties
<1>2. <<Head(w)>> \o Tail(w) \in Seq(S) /\ Len(<<Head(w)>> \o Tail(w)) = Len(w)
  BY <1>1, HeadTailProperties, ConcatProperties, LenProperties
<1>3. \A i \in 1..Len(w) : (<<Head(w)>> \o Tail(w))[i] = w[i]
  BY <1>1, HeadTailProperties, ConcatProperties, LenProperties
<1>4. <<Head(w)>> \o Tail(w) = w
  BY <1>2, <1>3, SeqEqual
<1> QED BY <1>1, <1>4, ConcatAssociative

LEMMA AddLast ==
  ASSUME NEW S, NEW a \in Seq(S), NEW w \in Seq(S), NEW e \in S
  PROVE  a \o Append(w, e) = Append(a \o w, e)
<1>1. <<e>> \in Seq(S) /\ a \o w \in Seq(S)
  BY ConcatProperties
<1> QED BY <1>1, AppendIsConcat, ConcatAssociative

LEMMA TakeFirst ==
  ASSUME NEW S, NEW a \in Seq(S), NEW w \in Seq(S), a # <<>>
  PROVE  a \o w # <<>> /\ Head(a \o w) = Head(a) /\ Tail(a \o w) = Tail(a) \o w
<1>1. a \o w \in Seq(S) /\ Len(a) \in Nat \ {0} /\ Len(w) \in Nat
      /\ Len(a \o w) = Len(a) + Len(w)
      /\ \A i \in 1..(Len(a) + Len(w)) :
           (a \o w)[i] = IF i <= Len(a) THEN a[i] ELSE w[i - Len(a)]
  BY ConcatProperties, EmptySeq, LenProperties
<1>2. a \o w # <<>> /\ Head(a \o w) = Head(a)
  BY <1>1, EmptySeq
<1>3. /\ Tail(a) \in Seq(S) /\ Len(Tail(a)) = Len(a) - 1
      /\ \A i \in 1..(Len(a) - 1) : Tail(a)[i] = a[i + 1]
      /\ Tail(a \o w) \in Seq(S) /\ Len(Tail(a \o w)) = Len(a) + Len(w) - 1
      /\ \A i \in 1..(Len(a) + Len(w) - 1) : Tail(a \o w)[i] = (a \o w)[i + 1]
  BY <1>1, <1>2, HeadTailProperties
<1>4. /\ Tail(a) \o w \in Seq(S) /\ Len(Tail(a) \o w) = Len(a) - 1 + Len(w)
      /\ \A i \in 1..(Len(a) - 1 + Len(w)) :
           (Tail(a) \o w)[i] = IF i <= Len(a) - 1 THEN Tail(a)[i] ELSE w[i - (Len(a) - 1)]
  BY <1>1, <1>3, ConcatProperties
<1>5. ASSUME NEW i \in 1..(Len(a) + Len(w) - 1)
      PROVE  Tail(a \o w)[i] = (Tail(a) \o w)[i]
  <2>1. i + 1 \in 1..(Len(a) + Len(w)) /\ i \in 1..(Len(a) - 1 + Len(w))
    BY <1>1
  <2>2. CASE i <= Len(a) - 1
    BY <1>1, <1>3, <1>4, <2>1, <2>2
  <2>3. CASE i > Len(a) - 1
    <3>1. (i + 1) - Len(a) = i - (Len(a) - 1)
      BY <1>1
    <3> QED BY <1>1, <1>3, <1>4, <2>1, <2>3, <3>1
  <2> QED BY <1>1, <2>2, <2>3
<1>6. Tail(a \o w) = Tail(a) \o w
  <2>1. Len(Tail(a \o w)) = Len(Tail(a) \o w)
    BY <1>1, <1>3, <1>4
  <2> QED BY <1>1, <1>3, <1>4, <1>5, <2>1, SeqEqual
<1> QED BY <1>2, <1>6

-------------------------------------------------------------------------------
(* A step that calls, returns, waits or carries an answer leaves the log as it *)
(* is.                                                                         *)
LEMMA LogStays ==
  ASSUME DaRPCInv, UNCHANGED <<work_list, worker, requests, mem>>,
         \A t \in Thread : call'[t] = call[t] \/ pc[t] # "waiting"
  PROVE  UNCHANGED <<mem, Pending>>
<1>1. work_list \in Seq(Thread)
  BY DEF DaRPCInv, TypeOK
<1>2. \A i \in DOMAIN work_list : call'[work_list[i]] = call[work_list[i]]
  BY <1>1 DEF DaRPCInv, WorkIsWaitedFor
<1>3. worker.pc # "idle" => call'[worker.t] = call[worker.t]
  BY DEF DaRPCInv, WorkIsWaitedFor
<1>4. Waiting' = Waiting
  BY <1>2 DEF Waiting
<1>5. NotSent' = NotSent
  BY <1>3 DEF NotSent
<1> QED BY <1>4, <1>5 DEF Pending

(* Each step of the program is one of the log or none. *)
LEMMA StepMaps ==
  ASSUME DaRPCAssumption, DaRPCInv, DaRPCInv', Next
  PROVE  Log!Next \/ UNCHANGED <<mem, Pending>>
<1>t. TypeOK /\ WorkIsWaitedFor /\ WorkIsACall
  BY DEF DaRPCInv
<1>1. ASSUME NEW t \in Thread, NEW c \in Log!Calls, Call(t, c)
      PROVE  UNCHANGED <<mem, Pending>>
  BY <1>1, <1>t, LogStays DEF Call, workVars, serverVars, TypeOK
<1>2. ASSUME NEW t \in Thread, EnterWindow(t) PROVE UNCHANGED <<mem, Pending>>
  BY <1>2, LogStays DEF EnterWindow, workVars, serverVars
<1>3. ASSUME NEW t \in Thread, Enqueue(t) PROVE Log!Submit(call[t]) /\ call[t] \in Log!Calls
  <2>1. /\ work_list' = Append(work_list, t) /\ UNCHANGED <<call, worker, requests, mem>>
        /\ pc[t] = "entered" /\ call[t] \in Log!Calls
    BY <1>3, <1>t DEF Enqueue, serverVars, WorkIsACall
  <2>2. NotSent' = NotSent
    BY <2>1 DEF NotSent
  <2>3. Waiting' = Append(Waiting, call[t])
    <3>1. Append(Waiting, call[t]) \in Seq(Log!Calls)
          /\ Len(Append(Waiting, call[t])) = Len(work_list) + 1
          /\ \A i \in 1..Len(work_list) : Append(Waiting, call[t])[i] = Waiting[i]
          /\ Append(Waiting, call[t])[Len(work_list) + 1] = call[t]
      BY <2>1, Parts, AppendProperties
    <3>3. /\ Len(work_list') = Len(work_list) + 1 /\ Len(work_list) \in Nat
          /\ DOMAIN work_list' = 1..Len(work_list') /\ Len(work_list') \in Nat
          /\ \A i \in 1..Len(work_list) : work_list'[i] = work_list[i]
          /\ work_list'[Len(work_list) + 1] = t
      BY <2>1, <1>t, AppendProperties, LenProperties DEF TypeOK
    <3>2. /\ Waiting' \in Seq(Log!Calls) /\ Len(Waiting') = Len(work_list')
          /\ \A i \in 1..Len(work_list') : Waiting'[i] = call[work_list'[i]]
      <4>1. \A i \in 1..Len(work_list') : call[work_list'[i]] \in Log!Calls
        BY <2>1, <3>3, Parts
      <4>2. Waiting' = [i \in 1..Len(work_list') |-> call[work_list'[i]]]
        BY <2>1, <3>3 DEF Waiting
      <4> QED BY <3>3, <4>1, <4>2
    <3>4. \A i \in 1..Len(Waiting') : Waiting'[i] = Append(Waiting, call[t])[i]
      BY <3>1, <3>2, <3>3, Parts
    <3>5. Len(Waiting') = Len(Append(Waiting, call[t]))
      BY <3>1, <3>2, <3>3
    <3> QED BY <3>1, <3>2, <3>4, <3>5, SeqEqual
  <2>4. requests \o NotSent \in Seq(Log!Calls)
    BY Parts, ConcatProperties
  <2>5. Pending' = Append(Pending, call[t])
    <3> DEFINE a == requests \o NotSent
    <3>1. Pending = a \o Waiting /\ Pending' = a \o Append(Waiting, call[t])
      BY <2>1, <2>2, <2>3 DEF Pending
    <3>2. a \in Seq(Log!Calls) /\ Waiting \in Seq(Log!Calls) /\ call[t] \in Log!Calls
      BY <2>1, <2>4, Parts
    <3> HIDE DEF a
    <3> QED BY <3>1, <3>2, AddLast
  <2> QED BY <2>1, <2>5, PendingFits DEF Log!Submit
<1>4. ASSUME NEW t \in Thread, Return(t) PROVE UNCHANGED <<mem, Pending>>
  BY <1>4, <1>t, LogStays DEF Return, workVars, serverVars, TypeOK
<1>5. CASE TakeWork
  <2>1. /\ work_list # <<>> /\ work_list' = Tail(work_list)
        /\ worker' = [pc |-> "taken", t |-> Head(work_list)] /\ worker.pc = "idle"
        /\ UNCHANGED <<call, requests, mem>>
    BY <1>5 DEF TakeWork, callVars, serverVars
  <2>2. NotSent = <<>> /\ NotSent' = <<call[Head(work_list)]>>
    BY <2>1 DEF NotSent
  <2>3. Len(work_list) > 0 /\ Len(work_list) \in Nat /\ Head(work_list) = work_list[1]
        /\ Len(work_list') = Len(work_list) - 1 /\ DOMAIN work_list' = 1..Len(work_list')
        /\ \A i \in 1..Len(work_list') : work_list'[i] = work_list[i + 1]
    BY <2>1, <1>t DEF TypeOK
  <2>4. Waiting # <<>> /\ Head(Waiting) = call[Head(work_list)]
    BY <2>3, Parts, EmptySeq
  <2>5. Waiting' = Tail(Waiting)
    <3>1. /\ Waiting' \in Seq(Log!Calls) /\ Len(Waiting') = Len(work_list')
          /\ \A i \in 1..Len(work_list') : Waiting'[i] = call[work_list'[i]]
      <4>1. \A i \in 1..Len(work_list') : call[work_list'[i]] \in Log!Calls
        <5> TAKE i \in 1..Len(work_list')
        <5>1. i + 1 \in 1..Len(work_list) /\ work_list'[i] = work_list[i + 1]
          BY <2>3
        <5> QED BY <5>1, Parts
      <4>2. Waiting' = [i \in 1..Len(work_list') |-> call[work_list'[i]]]
        BY <2>1, <2>3 DEF Waiting
      <4> QED BY <2>3, <4>1, <4>2
    <3>2. /\ Tail(Waiting) \in Seq(Log!Calls) /\ Len(Tail(Waiting)) = Len(work_list) - 1
          /\ \A i \in 1..(Len(work_list) - 1) : Tail(Waiting)[i] = Waiting[i + 1]
      BY <2>4, Parts, HeadTailProperties
    <3>3. \A i \in 1..Len(Waiting') : Waiting'[i] = Tail(Waiting)[i]
      <4> TAKE i \in 1..Len(Waiting')
      <4>1. i \in 1..(Len(work_list) - 1) /\ i + 1 \in 1..Len(work_list)
        BY <2>3, <3>1
      <4>2. Waiting'[i] = call[work_list[i + 1]]
        BY <2>1, <2>3, <3>1, <4>1
      <4> QED BY <3>2, <4>1, <4>2, Parts
    <3>4. Len(Waiting') = Len(Tail(Waiting)) /\ Waiting' \in Seq(Log!Calls)
      BY <2>3, <3>1, <3>2
    <3> QED BY <3>2, <3>3, <3>4, SeqEqual
  <2>6. requests \o NotSent = requests
    BY <2>2, Parts, ConcatEmptySeq
  <2>7. Pending' = (requests \o <<Head(Waiting)>>) \o Tail(Waiting)
    BY <2>1, <2>2, <2>4, <2>5 DEF Pending
  <2>8. Pending = requests \o Waiting
    BY <2>6 DEF Pending
  <2> QED BY <2>1, <2>4, <2>7, <2>8, Parts, MoveHead
<1>6. CASE PostRequest
  <2>1. UNCHANGED <<call, work_list, requests, mem>>
    BY <1>6 DEF PostRequest, callVars, serverVars
  <2>2. NotSent' = NotSent
    BY <1>6, <1>t, <2>1 DEF PostRequest, NotSent, TypeOK
  <2> QED BY <2>1, <2>2 DEF Pending, Waiting
<1>7. CASE DeliverRequest
  <2> DEFINE c == call[worker.t]
  <2>1. /\ requests' = Append(requests, c) /\ UNCHANGED <<call, work_list, mem>>
        /\ NotSent = <<c>> /\ NotSent' = <<>>
    BY <1>7, <1>t DEF DeliverRequest, NotSent, callVars, serverVars, TypeOK
  <2>2. c \in Log!Calls
    BY <1>7, <1>t DEF DeliverRequest, WorkIsACall, WorkIsWaitedFor
  <2> HIDE DEF c
  <2>3. requests' \o NotSent' = requests \o NotSent
    <3>1. Append(requests, c) \in Seq(Log!Calls)
      BY <2>2, Parts, AppendProperties
    <3>2. Append(requests, c) \o <<>> = Append(requests, c)
      BY <3>1, ConcatEmptySeq
    <3> QED BY <2>1, <2>2, <3>2, Parts, AppendIsConcat
  <2>4. Waiting' = Waiting
    BY <2>1 DEF Waiting
  <2> QED BY <2>1, <2>3, <2>4 DEF Pending
<1>8. CASE Done
  <2>1. UNCHANGED <<call, work_list, requests, mem>> /\ NotSent = <<>> /\ NotSent' = <<>>
    BY <1>8 DEF Done, NotSent, serverVars
  <2> QED BY <2>1 DEF Pending, Waiting
<1>9. CASE HandleRequest
  <2>1. /\ requests # <<>> /\ requests' = Tail(requests)
        /\ mem' = Log!Applied(mem, Head(requests)) /\ UNCHANGED <<call, worker, work_list>>
    BY <1>9 DEF HandleRequest, callVars, workVars
  <2>2. NotSent' = NotSent /\ Waiting' = Waiting
    BY <2>1 DEF NotSent, Waiting
  <2> DEFINE w == NotSent \o Waiting
  <2>3. w \in Seq(Log!Calls) /\ requests \in Seq(Log!Calls)
    BY Parts, ConcatProperties
  <2>4. Pending = requests \o w
    BY Parts, ConcatAssociative DEF Pending
  <2>5. Tail(requests) \in Seq(Log!Calls)
    BY <2>1, Parts, HeadTailProperties
  <2>6. Pending' = Tail(requests) \o w
    <3>1. Pending' = (Tail(requests) \o NotSent) \o Waiting
      BY <2>1, <2>2 DEF Pending
    <3>2. (Tail(requests) \o NotSent) \o Waiting = Tail(requests) \o w
      BY <2>5, Parts, ConcatAssociative
    <3> QED BY <3>1, <3>2
  <2>7. Pending # <<>> /\ Head(Pending) = Head(requests) /\ Pending' = Tail(Pending)
    <3> HIDE DEF w
    <3>1. /\ requests \o w # <<>> /\ Head(requests \o w) = Head(requests)
          /\ Tail(requests \o w) = Tail(requests) \o w
      BY <2>1, <2>3, TakeFirst
    <3> QED BY <2>4, <2>6, <3>1
  <2>8. Log!Apply
    BY <2>1, <2>7 DEF Log!Apply
  <2> QED BY <2>8 DEF Log!Next
<1>10. CASE DeliverResponse \/ OnResponse
  BY <1>10, LogStays DEF DeliverResponse, OnResponse, callVars, workVars, serverVars
<1> QED
  BY <1>1, <1>2, <1>3, <1>4, <1>5, <1>6, <1>7, <1>8, <1>9, <1>10 DEF Next, WorkThread, Log!Next

(* The server's objects change as a log of the calls says: each is applied     *)
(* once, in the order of the work list, with no more than a window ahead.      *)
THEOREM DaRPCImplementsLog == ASSUME DaRPCAssumption PROVE Spec => ImplementsLog
<1>1. Init => Log!Init
  <2> SUFFICES ASSUME Init PROVE Log!Init
    OBVIOUS
  <2>1. requests = <<>> /\ NotSent = <<>> /\ Waiting = <<>>
    BY DEF Init, NotSent, Waiting
  <2>2. Pending = <<>>
    BY <2>1 DEF Pending
  <2> QED BY <2>2 DEF Init, Log!Init
<1>2. DaRPCInv /\ DaRPCInv' /\ [Next]_vars => [Log!Next]_<<mem, Pending>>
  <2> SUFFICES ASSUME DaRPCInv, DaRPCInv', [Next]_vars
               PROVE  Log!Next \/ UNCHANGED <<mem, Pending>>
    OBVIOUS
  <2>1. CASE Next
    BY <2>1, StepMaps
  <2>2. CASE UNCHANGED vars
    BY <2>2 DEF vars, callVars, workVars, serverVars, Pending, NotSent, Waiting
  <2> QED BY <2>1, <2>2
<1> QED BY <1>1, <1>2, DaRPCHolds, PTL DEF Spec, ImplementsLog, Log!Spec
===============================================================================
