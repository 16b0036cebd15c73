-------------------------- MODULE DhmpPoolRegionProofs --------------------------
(***************************************************************************)
(* The write flags and the regions of DhmpPool: a flag is up exactly while *)
(* a WRITE to its entry is in flight, whatever the lengths asked for; and  *)
(* while no application asks for more than the server serves, what         *)
(* dhmp_malloc returned stays the caller's own until it is freed, no verb  *)
(* ever meets an area that is gone, the server's books are exact, and the  *)
(* pool implements RemotePool.                                             *)
(***************************************************************************)
EXTENDS DhmpPoolCallProofs, FiniteSetTheorems, WellFoundedInduction

(* The write flags, on which amper_post_write spins.                       *)

InFlight(c) == wr[c] \in {"posted", "performed", "error"}

LEMMA WriteFlagStays ==
  ASSUME CallInv, WriteFlagMeansInFlight, UNCHANGED ht,
         \A c \in Client, i \in Info : addrInfo'[c][i].write_flag = addrInfo[c][i].write_flag,
         \A c \in Client : /\ InFlight(c)' <=> InFlight(c)
                           /\ InFlight(c) => worker'[c].info = worker[c].info
  PROVE  WriteFlagMeansInFlight'
<1> SUFFICES ASSUME NEW c \in Client, NEW i \in ht[c]
             PROVE  addrInfo'[c][i].write_flag <=> InFlight(c)' /\ worker'[c].info = i
  BY DEF WriteFlagMeansInFlight, InFlight
<1>1. i \in Info
  BY EntryTypes DEF CallInv
<1> QED
  BY <1>1 DEF WriteFlagMeansInFlight, InFlight

(* The work thread of one client moves on with no WRITE in the queue pair.  *)
LEMMA WriteFlagIdle ==
  ASSUME CallInv, WriteFlagMeansInFlight, NEW c \in Client, wr[c] \in {"none", "done"},
         wr'[c] \in {"none", "done"},
         \A d \in Client \ {c} : /\ worker'[d] = worker[d] /\ wr'[d] = wr[d]
                                 /\ addrInfo'[d] = addrInfo[d] /\ ht'[d] = ht[d],
         \A i \in ht'[c] : \/ ~addrInfo'[c][i].write_flag
                           \/ i \in ht[c] /\ addrInfo'[c][i].write_flag = addrInfo[c][i].write_flag
  PROVE  WriteFlagMeansInFlight'
<1> SUFFICES ASSUME NEW d \in Client, NEW i \in ht'[d]
             PROVE  addrInfo'[d][i].write_flag <=> InFlight(d)' /\ worker'[d].info = i
  BY DEF WriteFlagMeansInFlight, InFlight
<1>1. CASE d = c
  BY <1>1 DEF WriteFlagMeansInFlight, InFlight
<1>2. CASE d # c
  BY <1>2 DEF WriteFlagMeansInFlight, InFlight
<1> QED
  BY <1>1, <1>2

LEMMA WorkThreadWriteFlag ==
  ASSUME CallInv, WriteFlagMeansInFlight, NEW c \in Client, WorkThread(c)
  PROVE  WriteFlagMeansInFlight'
<1>0. /\ worker \in [Client -> Workers] /\ ht \in [Client -> SUBSET Info]
      /\ wr \in [Client -> Verb] /\ addrInfo \in [Client -> [Info -> Entries]]
  BY DEF CallInv, TypeOK
<1>1. \A d \in Client \ {c} : /\ worker'[d] = worker[d] /\ wr'[d] = wr[d]
                              /\ addrInfo'[d] = addrInfo[d] /\ ht'[d] = ht[d]
  BY <1>0, Zenon DEF WorkThread, TakeWork, AddrNotFound, FinishWork, MallocSend, MallocFinish, FreeSend,
        FreeFinish, ReadPost, ReadFinish, WritePost, WriteFinish, Await, verbVars
<1>2. wr[c] \in {"none", "done"}
  <2>1. worker[c].pc # "write" => wr[c] = "none"
    BY DEF CallInv, VerbPhase
  <2> QED
    BY <2>1 DEF WorkThread, TakeWork, AddrNotFound, MallocSend, MallocFinish, FreeSend,
        FreeFinish, ReadPost, ReadFinish, WritePost, WriteFinish, Handling
<1>3. ASSUME UNCHANGED <<addrInfo, ht>>, wr'[c] \in {"none", "done"}
      PROVE  WriteFlagMeansInFlight'
  BY <1>1, <1>2, <1>3, WriteFlagIdle
<1>4. CASE MallocFinish(c)
  <2> DEFINE i == worker[c].info
  <2>1. /\ i \in Info /\ wr' = wr
        /\ \A j \in Info \ {i} : addrInfo'[c][j] = addrInfo[c][j]
    BY <1>0, <1>4, EntryTypes DEF MallocFinish, CallInv, verbVars
  <2>2. i \notin ht[c]
    <3> DEFINE w == worker[c].work
    <3>1. worker[c].pc = "malloc" /\ w \in Thread
      BY <1>4, EntryTypes DEF MallocFinish, CallInv
    <3>2. ClientOf[w] = c /\ PendingMalloc(w) /\ call[w].info = i
      BY <3>1 DEF CallInv, WorkPhase, Pending, PendingMalloc, EntryPhase, WorkerEntry
    <3> QED
      BY <3>1, <3>2 DEF CallInv, EntryPhase, MallocsApart
  <2>3. CASE addrInfo[c][i].addr = NULL
    <3>1. ht' = ht
      BY <1>4, <2>3 DEF MallocFinish
    <3>2. \A j \in ht'[c] : j \in ht[c] /\ addrInfo'[c][j] = addrInfo[c][j]
      BY <1>0, <2>1, <2>2, <3>1
    <3> QED
      BY <1>1, <1>2, <2>1, <3>2, WriteFlagIdle
  <2>4. CASE addrInfo[c][i].addr # NULL
    <3>1. /\ addrInfo' = [addrInfo EXCEPT ![c][i].write_flag = FALSE]
          /\ ht' = [ht EXCEPT ![c] = @ \cup {i}]
      BY <1>4, <2>4 DEF MallocFinish
    <3>2. ht'[c] = ht[c] \cup {i}
      BY <1>0, <3>1
    <3>4. ~addrInfo'[c][i].write_flag
      <4>1. addrInfo[c][i] \in Entries
        BY <1>0, <2>1
      <4>2. addrInfo'[c][i] = [addrInfo[c][i] EXCEPT !.write_flag = FALSE]
        BY <1>0, <2>1, <3>1
      <4> QED
        BY <4>1, <4>2 DEF Entries
    <3>3. ASSUME NEW j \in ht'[c]
          PROVE  \/ ~addrInfo'[c][j].write_flag
                 \/ j \in ht[c] /\ addrInfo'[c][j].write_flag = addrInfo[c][j].write_flag
      <4>1. CASE j = i
        BY <3>4, <4>1
      <4>2. CASE j # i
        BY <1>0, <2>1, <3>2, <4>2
      <4> QED
        BY <4>1, <4>2
    <3>5. wr'[c] \in {"none", "done"}
      BY <1>2, <2>1
    <3> HIDE DEF i
    <3> QED
      BY <1>1, <1>2, <3>3, <3>5, WriteFlagIdle
  <2> QED
    BY <2>3, <2>4
<1>5. CASE FreeSend(c)
  <2>1. UNCHANGED <<wr, addrInfo>> /\ ht'[c] \subseteq ht[c]
    BY <1>0, <1>5 DEF FreeSend, verbVars
  <2> QED
    BY <1>1, <1>2, <2>1, WriteFlagIdle
<1>6. CASE FreeFinish(c)
  <2>1. UNCHANGED <<wr, ht>> /\ worker[c].pc = "free" /\ worker[c].info \in Info
    BY <1>6, EntryTypes DEF FreeFinish, verbVars, CallInv
  <2>2. worker[c].info \notin ht[c]
    BY <2>1 DEF CallInv, EntryPhase, WorkerEntry
  <2>3. \A j \in Info \ {worker[c].info} : addrInfo'[c][j] = addrInfo[c][j]
    BY <1>0, <1>6, <2>1 DEF FreeFinish
  <2>4. \A j \in ht'[c] : j \in ht[c] /\ addrInfo'[c][j] = addrInfo[c][j]
    BY <1>0, <2>1, <2>2, <2>3
  <2> QED
    BY <1>1, <1>2, <2>1, <2>4, WriteFlagIdle
<1>7. CASE WritePost(c)
  <2>1. PICK i \in Lookup(c, call[worker[c].work].addr) :
          /\ addrInfo' = [addrInfo EXCEPT ![c][i].write_flag = TRUE]
          /\ Await(c, "write", i)
    BY <1>7 DEF WritePost
  <2>2. i \in ht[c] /\ i \in Info
    BY <1>0 DEF Lookup
  <2>3. /\ wr'[c] = "posted" /\ worker'[c].info = i /\ ht' = ht
        /\ addrInfo'[c][i].write_flag
        /\ \A j \in Info \ {i} : addrInfo'[c][j] = addrInfo[c][j]
    <3>1. wr'[c] = "posted" /\ ht' = ht
      BY <1>0, <1>7 DEF WritePost
    <3>2. worker'[c].info = i
      BY <1>0, <1>7, <2>1 DEF Await, Workers
    <3>3. addrInfo'[c][i].write_flag
      BY <1>0, <2>1, <2>2 DEF Entries
    <3>4. \A j \in Info \ {i} : addrInfo'[c][j] = addrInfo[c][j]
      BY <1>0, <2>1, <2>2
    <3> QED
      BY <3>1, <3>2, <3>3, <3>4
  <2> SUFFICES ASSUME NEW d \in Client, NEW j \in ht[d]
               PROVE  addrInfo'[d][j].write_flag <=> InFlight(d)' /\ worker'[d].info = j
    BY <2>3 DEF WriteFlagMeansInFlight, InFlight
  <2>4. CASE d = c /\ j = i
    BY <2>3, <2>4 DEF InFlight
  <2>5. CASE d = c /\ j # i
    BY <1>0, <1>2, <2>3, <2>5 DEF WriteFlagMeansInFlight
  <2>6. CASE d # c
    BY <1>1, <2>6 DEF WriteFlagMeansInFlight, InFlight
  <2> QED
    BY <2>4, <2>5, <2>6
<1>8. CASE TakeWork(c) \/ AddrNotFound(c) \/ MallocSend(c) \/ ReadPost(c) \/ ReadFinish(c)
  BY <1>2, <1>3, <1>8 DEF TakeWork, AddrNotFound, MallocSend, ReadPost, ReadFinish, verbVars
<1>9. CASE WriteFinish(c)
  BY <1>0, <1>3, <1>9 DEF WriteFinish
<1> QED
  BY <1>4, <1>5, <1>6, <1>7, <1>8, <1>9 DEF WorkThread

LEMMA NextWriteFlag ==
  ASSUME CallInv, WriteFlagMeansInFlight, [Next]_vars
  PROVE  WriteFlagMeansInFlight'
<1> USE DEF clientVars, verbVars, serverVars
<1>0. /\ ht \in [Client -> SUBSET Info]
      /\ wr \in [Client -> Verb] /\ addrInfo \in [Client -> [Info -> Entries]]
  BY DEF CallInv, TypeOK
<1>1. ASSUME NEW t \in Thread, AppThread(t)
      PROVE  WriteFlagMeansInFlight'
  <2>1. UNCHANGED <<ht, wr, worker>>
    BY <1>1, Zenon DEF AppThread, CallMalloc, CallFree, CallRead, CallWrite, Return
  <2>2. \A c \in Client, i \in Info : addrInfo'[c][i].write_flag = addrInfo[c][i].write_flag
    <3>1. CASE addrInfo' = addrInfo
      BY <3>1
    <3>2. ASSUME NEW len \in Size, CallMalloc(t, len)
          PROVE  \A c \in Client, i \in Info :
                   addrInfo'[c][i].write_flag = addrInfo[c][i].write_flag
      <4>1. PICK i \in Info : addrInfo' = [addrInfo EXCEPT ![ClientOf[t]][i] =
                                             [@ EXCEPT !.live = TRUE, !.len = 0]]
        BY <3>2, Zenon DEF CallMalloc
      <4>2. addrInfo'[ClientOf[t]][i].write_flag = addrInfo[ClientOf[t]][i].write_flag
        BY <1>0, <4>1, PoolAssumption DEF Entries
      <4>3. \A c \in Client, j \in Info : c # ClientOf[t] \/ j # i =>
              addrInfo'[c][j] = addrInfo[c][j]
        BY <1>0, <4>1
      <4> QED
        BY <4>2, <4>3
    <3> QED
      BY <1>1, <3>1, <3>2, Zenon DEF AppThread, CallFree, CallRead, CallWrite, Return
  <2> QED
    BY <2>1, <2>2, WriteFlagStays DEF InFlight
<1>2. ASSUME NEW c \in Client, WorkThread(c)
      PROVE  WriteFlagMeansInFlight'
  BY <1>2, WorkThreadWriteFlag
<1>3. ASSUME NEW c \in Client, Adapter(c)
      PROVE  WriteFlagMeansInFlight'
  <2>1. UNCHANGED <<ht, worker, addrInfo>>
    BY <1>3 DEF Adapter, PerformWrite, PerformRead
  <2>2. \A d \in Client : InFlight(d)' <=> InFlight(d)
    BY <1>0, <1>3 DEF Adapter, PerformWrite, PerformRead, InFlight
  <2> QED
    BY <2>1, <2>2, WriteFlagStays
<1>4. ASSUME NEW c \in Client, CompleteWrite(c)
      PROVE  WriteFlagMeansInFlight'
  <2> DEFINE i == worker[c].info
  <2>1. i \in Info /\ i \in ht[c]
    BY <1>4, EntryTypes DEF CompleteWrite, CallInv, VerbPhase, EntryPhase, WorkerEntry
  <2>2. /\ ~addrInfo'[c][i].write_flag /\ wr'[c] = "done"
        /\ \A d \in Client, j \in Info : d # c \/ j # i => addrInfo'[d][j] = addrInfo[d][j]
        /\ \A d \in Client \ {c} : wr'[d] = wr[d]
        /\ UNCHANGED <<ht, worker>>
    BY <1>0, <1>4, <2>1 DEF CompleteWrite, Entries
  <2> SUFFICES ASSUME NEW d \in Client, NEW j \in ht[d]
               PROVE  addrInfo'[d][j].write_flag <=> InFlight(d)' /\ worker[d].info = j
    BY <2>2 DEF WriteFlagMeansInFlight, InFlight
  <2>3. CASE d = c
    BY <1>0, <1>4, <2>2, <2>3 DEF WriteFlagMeansInFlight, InFlight, CompleteWrite
  <2>4. CASE d # c
    BY <1>0, <2>2, <2>4 DEF WriteFlagMeansInFlight, InFlight
  <2> QED
    BY <2>3, <2>4
<1>5. ASSUME NEW m \in msgs, OnMallocResponse(m) \/ OnMallocError(m) \/ OnFreeResponse(m)
      PROVE  WriteFlagMeansInFlight'
  <2>1. UNCHANGED <<ht, wr, worker>> /\ m.client \in Client /\ m.info \in Info
    BY <1>5, MessageTypes DEF OnMallocResponse, OnMallocError, OnFreeResponse, CallInv
  <2>2. \A d \in Client, j \in Info : d # m.client \/ j # m.info =>
          addrInfo'[d][j] = addrInfo[d][j]
    BY <1>0, <1>5 DEF OnMallocResponse, OnMallocError, OnFreeResponse
  <2>3. m.info \notin ht[m.client]
    BY MessageEntryLive DEF CallInv
  <2> QED
    BY <1>0, <2>1, <2>2, <2>3 DEF WriteFlagMeansInFlight
<1>6. ASSUME NEW c \in Client, CompleteRead(c) \/ ServerEpoll(c)
      PROVE  WriteFlagMeansInFlight'
  BY <1>6, WriteFlagStays
     DEF CompleteRead, ServerEpoll, OnMallocRequest, OnFreeRequest, InFlight
<1>7. CASE UNCHANGED vars
  BY <1>7, WriteFlagStays DEF vars, InFlight
<1> QED
  BY <1>1, <1>2, <1>3, <1>4, <1>5, <1>6, <1>7 DEF Next, ClientEpoll

(* An entry's write_flag is up exactly while a WRITE to it is in the queue   *)
(* pair: the spin of amper_post_write on the flag never admits a second      *)
(* WRITE and never waits for one that is over.                               *)
THEOREM WriteFlagExact == Spec => []WriteFlagMeansInFlight
<1>1. Init => WriteFlagMeansInFlight
  BY DEF Init, WriteFlagMeansInFlight
<1>2. CallInv /\ WriteFlagMeansInFlight /\ [Next]_vars => WriteFlagMeansInFlight'
  BY NextWriteFlag
<1> QED
  BY <1>1, <1>2, CallsAgree, PTL DEF Spec

-------------------------------------------------------------------------------
(* The regions.                                                            *)

LEMMA RegionTypes ==
  ASSUME CallInv
  PROVE  /\ worker \in [Client -> Workers] /\ ht \in [Client -> SUBSET Info]
         /\ addrInfo \in [Client -> [Info -> Entries]] /\ call \in [Thread -> Calls]
         /\ areaList \subseteq Addr /\ areaLen \in [Addr -> Nat]
         /\ \A m \in msgs : m.client \in Client /\ m.info \in Info
         /\ \A m \in Answers : m.mr.addr \in Addr \cup {NULL} /\ m.mr.len \in Nat
BY MessageTypes DEF CallInv, TypeOK, Answers, Messages, Mrs

(* A held entry is allocated; the client is not waiting for its address.    *)
LEMMA HeldLive ==
  ASSUME CallInv, NEW c \in Client, NEW i \in Info, Holds(c, i)
  PROVE  addrInfo[c][i].live
<1>1. CASE i \in ht[c]
  BY <1>1 DEF CallInv, EntryPhase, LinkedLive
<1>2. CASE worker[c].pc = "malloc" /\ worker[c].info = i
  <2>1. /\ worker[c].work \in Thread /\ ClientOf[worker[c].work] = c
        /\ PendingMalloc(worker[c].work) /\ call[worker[c].work].info = i
    BY <1>2, EntryTypes DEF CallInv, WorkPhase, Pending, PendingMalloc, EntryPhase, WorkerEntry
  <2> QED
    BY <2>1 DEF CallInv, EntryPhase, MallocsApart
<1>3. CASE \E m \in msgs : m.type = "FREE_REQUEST" /\ m.client = c /\ m.info = i
  BY <1>3, MessageEntryLive DEF CallInv
<1> QED
  BY <1>1, <1>2, <1>3 DEF Holds

(* While a message is on its way the entry it names is held only if that    *)
(* message is the request to free it.                                      *)
LEMMA MessageHolds ==
  ASSUME CallInv, NEW m \in msgs
  PROVE  Holds(m.client, m.info) <=> m.type = "FREE_REQUEST"
<1>1. m.info \notin ht[m.client]
  BY MessageEntryLive DEF CallInv
<1>2. m.client \in Client /\ m \in Messages
  BY RegionTypes DEF CallInv, TypeOK
<1>3. worker[m.client].pc = "malloc" => ~call[worker[m.client].work].recv
  BY <1>2 DEF CallInv, MessagePhase, MessageOK, Messages
<1>4. \A n \in msgs : n.client = m.client => n = m
  BY DEF CallInv, MessagePhase
<1> QED
  BY <1>1, <1>3, <1>4 DEF Holds

(* A step that hands out nothing and frees nothing.                         *)
LEMMA RegionStays ==
  ASSUME CallInv, RegionInv, UNCHANGED <<areaList, areaLen>>,
         Answers' \subseteq Answers,
         \A c \in Client, i \in Info : Holds(c, i)' =>
           /\ Holds(c, i)
           /\ addrInfo'[c][i].addr = addrInfo[c][i].addr
           /\ addrInfo'[c][i].len = addrInfo[c][i].len
  PROVE  RegionInv'
BY DEF RegionInv

(* A step of the application, which touches no entry a client holds.        *)
LEMMA AppThreadRegion ==
  ASSUME CallInv, RegionInv, NEW t \in Thread, AppThread(t)
  PROVE  RegionInv'
<1>1. UNCHANGED <<ht, worker, msgs, areaList, areaLen>>
  BY Zenon DEF AppThread, CallMalloc, CallFree, CallRead, CallWrite, Return, verbVars, serverVars
<1>2. \A u \in Thread \ {t} : call'[u] = call[u]
  BY Zenon DEF AppThread, CallMalloc, CallFree, CallRead, CallWrite, Submit, Return, CallInv, TypeOK
<1>3. \A c \in Client : worker[c].pc # "idle" => worker[c].work \in Thread \ {t}
  <2>1. call[t].op = "none" \/ call[t].done
    BY Zenon DEF AppThread, CallMalloc, CallFree, CallRead, CallWrite, Submit, Return
  <2> QED
    BY <2>1, EntryTypes DEF CallInv, WorkPhase, Pending
<1>4. \A c \in Client, i \in Info : Holds(c, i)' <=> Holds(c, i)
  BY <1>1, <1>2, <1>3 DEF Holds
<1>5. Answers' = Answers
  BY <1>1 DEF Answers
<1>6. CASE UNCHANGED addrInfo
  BY <1>1, <1>4, <1>5, <1>6, RegionStays
<1>7. ASSUME NEW len \in Size, CallMalloc(t, len)
      PROVE  RegionInv'
  <2>1. PICK i \in Info :
          /\ ~addrInfo[ClientOf[t]][i].live
          /\ addrInfo' = [addrInfo EXCEPT ![ClientOf[t]][i] = [@ EXCEPT !.live = TRUE, !.len = 0]]
    BY <1>7, Zenon DEF CallMalloc
  <2>2. \A c \in Client, j \in Info : c # ClientOf[t] \/ j # i => addrInfo'[c][j] = addrInfo[c][j]
    BY <2>1, RegionTypes
  <2>3. \A c \in Client, j \in Info : Holds(c, j) => c # ClientOf[t] \/ j # i
    BY <2>1, HeldLive
  <2> QED
    BY <1>1, <1>4, <1>5, <2>2, <2>3, RegionStays
<1> QED
  BY <1>6, <1>7, Zenon DEF AppThread, CallFree, CallRead, CallWrite, Return

(* A step of the work thread, after which it holds no more than before.     *)
LEMMA WorkThreadRegion ==
  ASSUME CallInv, RegionInv, NEW c \in Client, WorkThread(c)
  PROVE  RegionInv'
<1> USE DEF verbVars, serverVars
<1>0. UNCHANGED <<areaList, areaLen>>
  BY DEF WorkThread, TakeWork, AddrNotFound, MallocSend, MallocFinish, FreeSend,
         FreeFinish, ReadPost, ReadFinish, WritePost, WriteFinish
<1>1. \A d \in Client \ {c} : worker'[d] = worker[d] /\ addrInfo'[d] = addrInfo[d] /\ ht'[d] = ht[d]
  BY RegionTypes, Zenon
     DEF WorkThread, TakeWork, AddrNotFound, FinishWork, MallocSend, MallocFinish, FreeSend,
         FreeFinish, ReadPost, ReadFinish, WritePost, WriteFinish, Await
<1>2. \A d \in Client \ {c} : worker[d].pc = "malloc" => call'[worker[d].work] = call[worker[d].work]
  <2>1. CASE call' = call
    BY <2>1
  <2>2. ASSUME NEW res, FinishWork(c, res), worker[c].pc # "idle"
        PROVE  \A d \in Client \ {c} : worker[d].pc = "malloc" =>
                 call'[worker[d].work] = call[worker[d].work]
    <3>1. \A t \in Thread \ {worker[c].work} : call'[t] = call[t]
      BY <2>2, RegionTypes DEF FinishWork
    <3> QED
      BY <2>2, <3>1, WorksDiffer DEF CallInv
  <2> QED
    BY <2>1, <2>2 DEF WorkThread, TakeWork, AddrNotFound, MallocSend, MallocFinish, FreeSend,
         FreeFinish, ReadPost, ReadFinish, WritePost, WriteFinish, Handling
<1>3. \A i \in Info : /\ addrInfo'[c][i].addr = addrInfo[c][i].addr
                      /\ addrInfo'[c][i].len = addrInfo[c][i].len
  <2>1. CASE addrInfo' = addrInfo
    BY <2>1
  <2>2. ASSUME NEW i \in Info, NEW b,
               \/ addrInfo' = [addrInfo EXCEPT ![c][i].live = b]
               \/ addrInfo' = [addrInfo EXCEPT ![c][i].write_flag = b]
        PROVE  \A j \in Info : /\ addrInfo'[c][j].addr = addrInfo[c][j].addr
                               /\ addrInfo'[c][j].len = addrInfo[c][j].len
    <3>0. addrInfo[c][i] \in Entries
      BY RegionTypes
    <3>1. \A j \in Info \ {i} : addrInfo'[c][j] = addrInfo[c][j]
      BY <2>2, RegionTypes
    <3>2. \/ addrInfo'[c][i] = [addrInfo[c][i] EXCEPT !.live = b]
          \/ addrInfo'[c][i] = [addrInfo[c][i] EXCEPT !.write_flag = b]
      <4>1. addrInfo \in [Client -> [Info -> Entries]]
        BY RegionTypes
      <4>2. CASE addrInfo' = [addrInfo EXCEPT ![c][i].live = b]
        BY <4>1, <4>2
      <4>3. CASE addrInfo' = [addrInfo EXCEPT ![c][i].write_flag = b]
        BY <4>1, <4>3
      <4> QED
        BY <2>2, <4>2, <4>3
    <3> QED
      BY <3>0, <3>1, <3>2 DEF Entries
  <2>3. CASE MallocFinish(c)
    <3>1. worker[c].info \in Info
      BY <2>3, EntryTypes DEF MallocFinish, CallInv
    <3>2. \/ addrInfo' = [addrInfo EXCEPT ![c][worker[c].info].live = FALSE]
          \/ addrInfo' = [addrInfo EXCEPT ![c][worker[c].info].write_flag = FALSE]
      BY <2>3 DEF MallocFinish
    <3> QED
      BY <2>2, <3>1, <3>2
  <2>4. CASE FreeFinish(c)
    <3>1. worker[c].info \in Info
      BY <2>4, EntryTypes DEF FreeFinish, CallInv
    <3> QED
      BY <2>2, <2>4, <3>1 DEF FreeFinish
  <2>5. CASE WritePost(c)
    <3>1. PICK i \in Lookup(c, call[worker[c].work].addr) :
            addrInfo' = [addrInfo EXCEPT ![c][i].write_flag = TRUE]
      BY <2>5 DEF WritePost
    <3>2. i \in Info
      BY RegionTypes DEF Lookup
    <3> QED
      BY <2>2, <3>1, <3>2
  <2> QED
    BY <2>1, <2>3, <2>4, <2>5
       DEF WorkThread, TakeWork, AddrNotFound, MallocSend, FreeSend, ReadPost, ReadFinish, WriteFinish
<1>4. ASSUME \A m \in msgs' \ msgs : m.client = c /\ m.type # "MALLOC_RESPONSE",
             \A i \in Info : Holds(c, i)' => Holds(c, i)
      PROVE  RegionInv'
  <2>1. Answers' \subseteq Answers
    BY <1>4 DEF Answers
  <2>2. ASSUME NEW d \in Client \ {c}, NEW i \in Info, Holds(d, i)'
        PROVE  Holds(d, i)
    BY <1>1, <1>2, <1>4, <2>2 DEF Holds
  <2>3. \A d \in Client, i \in Info : Holds(d, i)' => Holds(d, i)
    BY <1>4, <2>2
  <2> QED
    BY <1>0, <1>1, <1>3, <2>1, <2>3, RegionStays
<1>5. ASSUME worker'[c].pc # "malloc", UNCHANGED <<ht, msgs>>
      PROVE  RegionInv'
  BY <1>4, <1>5 DEF Holds
<1>6. CASE MallocFinish(c)
  <2>1. worker'[c].pc = "idle" /\ msgs' = msgs
    BY <1>6, RegionTypes DEF MallocFinish, FinishWork, IdleWorker
  <2>2. \A i \in ht'[c] : i \in ht[c] \/ i = worker[c].info
    BY <1>6, RegionTypes DEF MallocFinish
  <2> QED
    BY <1>4, <1>6, <2>1, <2>2 DEF Holds, MallocFinish
<1>7. CASE MallocSend(c)
  <2>1. UNCHANGED <<call, ht>> /\ ~call[worker'[c].work].recv
    BY <1>7, RegionTypes
       DEF MallocSend, Await, Handling, CallInv, WorkPhase, Workers
  <2>2. \A m \in msgs' \ msgs : m.client = c /\ m.type = "MALLOC_REQUEST"
    BY <1>7 DEF MallocSend
  <2> QED
    BY <1>4, <2>1, <2>2 DEF Holds
<1>8. CASE FreeSend(c)
  <2>1. PICK i \in Lookup(c, call[worker[c].work].addr) :
          /\ ht' = [ht EXCEPT ![c] = @ \ {i}]
          /\ msgs' = msgs \cup {FreeRequestOf(c, i, Mr(c, i))}
          /\ Await(c, "free", i)
    BY <1>8 DEF FreeSend
  <2>2. i \in ht[c] /\ ht'[c] \subseteq ht[c]
    BY <2>1, RegionTypes DEF Lookup
  <2>3. worker'[c].pc = "free"
    BY <1>8, <2>1, RegionTypes DEF FreeSend, Handling, Await, Workers
  <2>4. \A m \in msgs' \ msgs : m.client = c /\ m.info = i /\ m.type = "FREE_REQUEST"
    BY <2>1 DEF FreeRequestOf
  <2> QED
    BY <1>4, <2>2, <2>3, <2>4 DEF Holds
<1>9. CASE TakeWork(c)
  BY <1>5, <1>9, RegionTypes DEF TakeWork
<1>10. CASE AddrNotFound(c) \/ FreeFinish(c) \/ ReadFinish(c) \/ WriteFinish(c)
  BY <1>5, <1>10, RegionTypes
     DEF AddrNotFound, FreeFinish, ReadFinish, WriteFinish, FinishWork, IdleWorker
<1>11. CASE ReadPost(c) \/ WritePost(c)
  <2>1. worker'[c].pc \in {"read", "write"}
    <3>1. PICK pc \in {"read", "write"} : \E i \in ht[c] : Await(c, pc, i)
      BY <1>11 DEF ReadPost, WritePost, Lookup
    <3>2. PICK i \in ht[c] : worker' = [worker EXCEPT ![c] = [@ EXCEPT !.pc = pc, !.info = i]]
      BY <3>1, Zenon DEF Await
    <3>3. worker[c].pc = "start" /\ worker[c] \in Workers
      BY <1>11, RegionTypes DEF ReadPost, WritePost, Handling
    <3>4. worker'[c] = [worker[c] EXCEPT !.pc = pc, !.info = i]
      BY <3>2, RegionTypes
    <3> QED
      BY <3>3, <3>4 DEF Workers
  <2> QED
    BY <1>5, <1>11, <2>1 DEF ReadPost, WritePost
<1> QED
  BY <1>6, <1>7, <1>8, <1>9, <1>10, <1>11 DEF WorkThread

(* The answer arrives: the entry takes over the region the answer stood for. *)
LEMMA MallocResponseRegion ==
  ASSUME CallInv, RegionInv, NEW m \in msgs, OnMallocResponse(m)
  PROVE  RegionInv'
<1> DEFINE c == m.client
           i == m.info
<1> USE DEF verbVars, serverVars
<1>1. /\ c \in Client /\ i \in Info /\ m \in Answers /\ m.task \in Thread
      /\ m.mr.addr \in Addr \cup {NULL} /\ m.mr.len \in Nat
  <2>1. m \in Messages /\ m.type = "MALLOC_RESPONSE"
    BY DEF OnMallocResponse, CallInv, TypeOK
  <2> QED
    BY <2>1 DEF Answers, Messages, Mrs
<1>2. /\ UNCHANGED <<ht, worker, areaList, areaLen>>
      /\ msgs' = msgs \ {m}
      /\ call' = [call EXCEPT ![m.task].recv = TRUE]
  BY DEF OnMallocResponse
<1>3. /\ \A d \in Client, j \in Info : d # c \/ j # i => addrInfo'[d][j] = addrInfo[d][j]
      /\ addrInfo'[c][i].addr = m.mr.addr /\ addrInfo'[c][i].len = m.mr.len
  <2>1. addrInfo' = [addrInfo EXCEPT ![c][i] = [@ EXCEPT !.addr = m.mr.addr, !.len = m.mr.len]]
    BY DEF OnMallocResponse
  <2>2. addrInfo \in [Client -> [Info -> Entries]]
    BY RegionTypes
  <2>3. addrInfo'[c][i] = [addrInfo[c][i] EXCEPT !.addr = m.mr.addr, !.len = m.mr.len]
    BY <1>1, <2>1, <2>2
  <2>4. addrInfo[c][i] \in Entries
    BY <1>1, <2>2
  <2> HIDE DEF c, i
  <2> QED
    BY <2>1, <2>2, <2>3, <2>4 DEF Entries
<1>4. \A d \in Client, j \in Info : Holds(d, j)' => Holds(d, j) \/ (d = c /\ j = i)
  <2>1. worker[c].work = m.task /\ worker[c].pc = "malloc" /\ worker[c].info = i
    BY <1>1 DEF Answers, CallInv, MessagePhase, MessageOK
  <2>2. \A t \in Thread \ {m.task} : call'[t] = call[t]
    BY <1>2, RegionTypes
  <2>3. \A d \in Client \ {c} : worker[d].pc = "malloc" => call'[worker[d].work] = call[worker[d].work]
    BY <1>1, <2>1, <2>2, WorksDiffer DEF CallInv
  <2> QED
    BY <1>2, <2>1, <2>3 DEF Holds
<1>5. ~Holds(c, i)
  BY <1>1, MessageHolds DEF Answers
<1>6. Answers' = Answers \ {m}
  BY <1>2 DEF Answers
<1>7. m.mr.addr \in areaList /\ areaLen[m.mr.addr] = m.mr.len
  BY <1>1 DEF RegionInv
<1>8. ASSUME NEW d \in Client, NEW j \in Info, Holds(d, j)
      PROVE  addrInfo'[d][j] = addrInfo[d][j] /\ addrInfo[d][j].addr # m.mr.addr
  BY <1>1, <1>3, <1>5, <1>8 DEF RegionInv
<1> HIDE DEF c, i
<1> SUFFICES
      /\ \A d \in Client, j \in Info : Holds(d, j)' =>
           /\ addrInfo'[d][j].addr \in areaList
           /\ areaLen[addrInfo'[d][j].addr] = addrInfo'[d][j].len
      /\ \A d, e \in Client, j, k \in Info :
           Holds(d, j)' /\ Holds(e, k)' /\ addrInfo'[d][j].addr = addrInfo'[e][k].addr
             => d = e /\ j = k
      /\ \A n \in Answers' :
           /\ n.mr.addr \in areaList
           /\ areaLen[n.mr.addr] = n.mr.len
           /\ \A d \in Client, j \in Info : Holds(d, j)' => addrInfo'[d][j].addr # n.mr.addr
      /\ \A n, o \in Answers' : n.mr.addr = o.mr.addr => n = o
  BY <1>2 DEF RegionInv
<1>9. \A d \in Client, j \in Info : Holds(d, j)' =>
        /\ addrInfo'[d][j].addr \in areaList
        /\ areaLen[addrInfo'[d][j].addr] = addrInfo'[d][j].len
  BY <1>3, <1>4, <1>7, <1>8 DEF RegionInv
<1>10. ASSUME NEW d \in Client, NEW e \in Client, NEW j \in Info, NEW k \in Info,
              Holds(d, j)', Holds(e, k)', addrInfo'[d][j].addr = addrInfo'[e][k].addr
       PROVE  d = e /\ j = k
  BY <1>3, <1>4, <1>8, <1>10 DEF RegionInv
<1>11. ASSUME NEW n \in Answers'
       PROVE  /\ n.mr.addr \in areaList
              /\ areaLen[n.mr.addr] = n.mr.len
              /\ \A d \in Client, j \in Info : Holds(d, j)' => addrInfo'[d][j].addr # n.mr.addr
  <2>1. n \in Answers /\ n # m /\ n.mr.addr # m.mr.addr
    BY <1>1, <1>6 DEF RegionInv
  <2> QED
    BY <1>3, <1>4, <1>8, <2>1 DEF RegionInv
<1>12. \A n, o \in Answers' : n.mr.addr = o.mr.addr => n = o
  BY <1>6 DEF RegionInv
<1> QED
  BY <1>9, <1>10, <1>11, <1>12

(* The client's epoll thread: other than by a malloc's answer, what is held  *)
(* stays as it is.                                                           *)
LEMMA ClientEpollRegion ==
  ASSUME CallInv, RegionInv, NEW c \in Client, ClientEpoll(c)
  PROVE  RegionInv'
<1> USE DEF verbVars, serverVars, clientVars
<1>1. CASE CompleteWrite(c)
  <2>1. UNCHANGED <<call, ht, worker, msgs, areaList, areaLen>>
    BY <1>1 DEF CompleteWrite
  <2>2. \A d \in Client, i \in Info : /\ addrInfo'[d][i].addr = addrInfo[d][i].addr
                                      /\ addrInfo'[d][i].len = addrInfo[d][i].len
    <3>1. worker[c].info \in Info
      BY <1>1, EntryTypes DEF CompleteWrite, CallInv, VerbPhase
    <3>2. \A d \in Client, i \in Info : d # c \/ i # worker[c].info =>
            addrInfo'[d][i] = addrInfo[d][i]
      BY <1>1, RegionTypes DEF CompleteWrite
    <3>3. addrInfo'[c][worker[c].info] = [addrInfo[c][worker[c].info] EXCEPT !.write_flag = FALSE]
      BY <1>1, <3>1, RegionTypes DEF CompleteWrite
    <3>4. addrInfo[c][worker[c].info] \in Entries
      BY <3>1, RegionTypes
    <3> QED
      BY <3>2, <3>3, <3>4 DEF Entries
  <2> QED
    BY <2>1, <2>2, RegionStays DEF Holds, Answers
<1>2. CASE CompleteRead(c)
  BY <1>2, RegionStays DEF CompleteRead, Holds, Answers
<1>3. ASSUME NEW m \in msgs, OnMallocError(m) \/ OnFreeResponse(m)
      PROVE  RegionInv'
  <2>1. /\ UNCHANGED <<call, ht, worker, areaList, areaLen>>
        /\ msgs' = msgs \ {m}
        /\ m.type # "FREE_REQUEST" /\ m.client \in Client /\ m.info \in Info
    BY <1>3, RegionTypes DEF OnMallocError, OnFreeResponse
  <2>2. \A d \in Client, i \in Info : d # m.client \/ i # m.info =>
          addrInfo'[d][i] = addrInfo[d][i]
    BY <1>3, RegionTypes DEF OnMallocError, OnFreeResponse
  <2>3. ~Holds(m.client, m.info)
    BY <2>1, MessageHolds
  <2>4. \A d \in Client, i \in Info : Holds(d, i)' => Holds(d, i)
    BY <2>1 DEF Holds
  <2>5. Answers' \subseteq Answers
    BY <2>1 DEF Answers
  <2> QED
    BY <2>1, <2>2, <2>3, <2>4, <2>5, RegionStays
<1> QED
  BY <1>1, <1>2, <1>3, MallocResponseRegion DEF ClientEpoll

(* A new area comes from outside the list, so nobody holds its address.      *)
LEMMA GrantRegion ==
  ASSUME CallInv, RegionInv, NEW m \in msgs, m.type = "MALLOC_REQUEST", Grant(m),
         UNCHANGED <<clientVars, verbVars>>
  PROVE  RegionInv'
<1> USE DEF clientVars
<1>1. PICK a \in Addr \ areaList :
        /\ areaList' = areaList \cup {a}
        /\ areaLen' = [areaLen EXCEPT ![a] = m.size]
        /\ msgs' = (msgs \ {m}) \cup {Reply(m, [addr |-> a, len |-> m.size])}
  BY DEF Grant
<1> DEFINE r == Reply(m, [addr |-> a, len |-> m.size])
<1>2. r.type = "MALLOC_RESPONSE" /\ r.mr.addr = a /\ r.mr.len = m.size
  BY DEF Reply
<1> HIDE DEF r
<1>3. areaLen'[a] = m.size /\ \A b \in areaList : areaLen'[b] = areaLen[b]
  BY <1>1, RegionTypes
<1>4. \A c \in Client, i \in Info : Holds(c, i)' => Holds(c, i)
  BY <1>1, <1>2 DEF Holds, r
<1>5. Answers' = Answers \cup {r}
  BY <1>1, <1>2 DEF Answers, r
<1>6. \A c \in Client, i \in Info : Holds(c, i) =>
        /\ addrInfo[c][i].addr \in areaList
        /\ areaLen'[addrInfo[c][i].addr] = addrInfo[c][i].len
  BY <1>3 DEF RegionInv
<1>7. \A n \in Answers : n.mr.addr \in areaList /\ areaLen'[n.mr.addr] = n.mr.len
  BY <1>3 DEF RegionInv
<1> QED
  BY <1>1, <1>2, <1>3, <1>4, <1>5, <1>6, <1>7 DEF RegionInv

(* The area that goes is the one the request's own entry held, which nobody  *)
(* else holds.                                                               *)
LEMMA FreeRegion ==
  ASSUME CallInv, RegionInv, NEW m \in msgs, OnFreeRequest(m)
  PROVE  RegionInv'
<1> USE DEF clientVars, verbVars, serverVars
<1> DEFINE c == m.client
           i == m.info
<1>1. m.type = "FREE_REQUEST" /\ UNCHANGED <<call, worker, addrInfo, ht, areaLen>>
  BY DEF OnFreeRequest
<1>2. /\ c \in Client /\ i \in Info /\ Holds(c, i)
      /\ m.mr.addr = addrInfo[c][i].addr
      /\ i \notin ht[c] /\ worker[c].pc = "free"
      /\ \A n \in msgs : n.client = c => n = m
  <2>1. c \in Client /\ i \in Info /\ MessageOK(m)
    BY RegionTypes DEF CallInv, MessagePhase
  <2>2. i \notin ht[c] /\ Holds(c, i)
    BY <1>1, MessageHolds, MessageEntryLive DEF CallInv
  <2> QED
    BY <1>1, <2>1, <2>2 DEF MessageOK, Mr, CallInv, MessagePhase
<1>3. /\ m \notin msgs'
      /\ \A n \in msgs' : n \in msgs \/ n.type = "FREE_RESPONSE"
  <2>1. \/ msgs' = (msgs \ {m}) \cup {FreeResponseTo(m)}
        \/ msgs' = msgs \ {m}
    BY DEF OnFreeRequest
  <2>2. FreeResponseTo(m).type = "FREE_RESPONSE"
    BY DEF FreeResponseTo
  <2> QED
    BY <1>1, <2>1, <2>2
<1>4. areaList' \in {areaList, areaList \ {m.mr.addr}}
  BY DEF OnFreeRequest
<1> HIDE DEF c, i
<1>5. ~Holds(c, i)'
  BY <1>1, <1>2, <1>3 DEF Holds
<1>6. \A d \in Client, j \in Info : Holds(d, j)' => Holds(d, j)
  BY <1>1, <1>3 DEF Holds
<1>7. Answers' \subseteq Answers
  BY <1>3 DEF Answers
<1>8. ASSUME NEW d \in Client, NEW j \in Info, Holds(d, j)'
      PROVE  addrInfo[d][j].addr \in areaList'
  BY <1>2, <1>4, <1>5, <1>6, <1>8 DEF RegionInv
<1>9. ASSUME NEW n \in Answers
      PROVE  n.mr.addr \in areaList'
  BY <1>2, <1>4, <1>9 DEF RegionInv
<1> QED
  BY <1>1, <1>6, <1>7, <1>8, <1>9 DEF RegionInv

LEMMA ServerEpollRegion ==
  ASSUME SizesServed, CallInv, RegionInv, NEW c \in Client, ServerEpoll(c)
  PROVE  RegionInv'
<1> USE DEF clientVars, verbVars, serverVars
<1>1. PICK m \in msgs : OnMallocRequest(m) \/ OnFreeRequest(m)
  BY DEF ServerEpoll
<1>2. CASE OnFreeRequest(m)
  BY <1>2, FreeRegion
<1>3. CASE OnMallocRequest(m)
  <2>1. m.type = "MALLOC_REQUEST" /\ UNCHANGED <<clientVars, verbVars>>
    BY <1>3 DEF OnMallocRequest
  <2>2. CASE Grant(m)
    BY <2>1, <2>2, GrantRegion
  <2>3. CASE Refuse(m)
    <3>1. /\ UNCHANGED <<areaList, areaLen>>
          /\ \A n \in msgs' : n \in msgs \/ n.type = "MALLOC_ERROR"
      BY <2>3 DEF Refuse
    <3>2. Answers' \subseteq Answers
      BY <3>1 DEF Answers
    <3>3. \A d \in Client, i \in Info : Holds(d, i)' => Holds(d, i)
      BY <2>1, <3>1 DEF Holds
    <3> QED
      BY <2>1, <3>1, <3>2, <3>3, RegionStays
  <2>4. ~ReplyGarbage(m)
    <3>1. m.size \in Size
      BY <2>1 DEF CallInv, TypeOK, Messages
    <3>2. m.size \in Nat /\ m.size <= SINGLE_AREA_SIZE
      BY <3>1, PoolAssumption DEF SizesServed
    <3>3. ~(m.size > SINGLE_AREA_SIZE)
      BY <3>2, PoolAssumption
    <3> QED
      BY <3>3 DEF ReplyGarbage
  <2> QED
    BY <1>3, <2>2, <2>3, <2>4 DEF OnMallocRequest
<1> QED
  BY <1>1, <1>2, <1>3

LEMMA NextRegion ==
  ASSUME SizesServed, CallInv, RegionInv, [Next]_vars
  PROVE  RegionInv'
<1>1. ASSUME NEW c \in Client, Adapter(c)
      PROVE  RegionInv'
  <2>1. UNCHANGED <<ht, worker, msgs, addrInfo, areaList, areaLen>>
    BY <1>1 DEF Adapter, PerformWrite, PerformRead, clientVars, serverVars
  <2>2. \A t \in Thread : call'[t].recv = call[t].recv
    <3>1. CASE call' = [call EXCEPT ![worker[c].work].res = mem[Target(c)]]
      BY <3>1, RegionTypes DEF Calls
    <3> QED
      BY <1>1, <3>1 DEF Adapter, PerformWrite, PerformRead, clientVars
  <2>3. \A d \in Client, i \in Info : Holds(d, i)' => Holds(d, i)
    BY <2>1, <2>2, EntryTypes DEF Holds, CallInv
  <2> QED
    BY <2>1, <2>3, RegionStays DEF Answers
<1>2. CASE UNCHANGED vars
  BY <1>2, RegionStays DEF vars, clientVars, serverVars, Holds, Answers
<1> QED
  BY <1>1, <1>2, AppThreadRegion, WorkThreadRegion, ClientEpollRegion, ServerEpollRegion DEF Next

(* The invariant of the regions: as long as no length exceeds                *)
(* SINGLE_AREA_SIZE, each region the clients hold or are about to hold is an *)
(* area of the server, under its recorded length, and nobody else's.         *)
THEOREM RegionsAgree ==
  ASSUME SizesServed
  PROVE  Spec => [](CallInv /\ RegionInv)
<1>1. Init => RegionInv
  BY DEF Init, RegionInv, Holds, Answers, IdleWorker
<1>2. CallInv /\ RegionInv /\ [Next]_vars => RegionInv'
  BY NextRegion
<1> QED
  BY <1>1, <1>2, CallsAgree, PTL DEF Spec

(* What dhmp_malloc returned is the caller's until it is freed: every entry  *)
(* names a live area of its own, for any number of clients and threads.      *)
THEOREM EntriesStayLive ==
  ASSUME SizesServed
  PROVE  Spec => []EntriesNameLiveAreas
<1>1. CallInv /\ RegionInv => EntriesNameLiveAreas
  BY EntryTypes DEF CallInv, RegionInv, Holds, EntriesNameLiveAreas
<1> QED
  BY <1>1, RegionsAgree, PTL

(* No posted READ or WRITE meets an area the server has deregistered, though *)
(* a dhmp_free of the same address may come at any time.                     *)
THEOREM NoVerbFaults ==
  ASSUME SizesServed
  PROVE  Spec => []NoAccessFault
<1>1. Init => NoAccessFault
  BY DEF Init, NoAccessFault
<1>2. ASSUME CallInv, RegionInv, NoAccessFault, [Next]_vars
      PROVE  NoAccessFault'
  <2> USE DEF clientVars, verbVars, serverVars
  <2>0. wr \in [Client -> Verb] /\ rd \in [Client -> Verb]
    BY <1>2 DEF CallInv, TypeOK
  <2>1. ASSUME serverUp' => serverUp,
               \A c \in Client : wr'[c] = "error" => wr[c] = "error",
               \A c \in Client : rd'[c] = "error" => rd[c] = "error"
        PROVE  NoAccessFault'
    BY <1>2, <2>1 DEF NoAccessFault
  <2>2. ASSUME NEW t \in Thread, AppThread(t)
        PROVE  NoAccessFault'
    BY <2>1, <2>2, Zenon DEF AppThread, CallMalloc, CallFree, CallRead, CallWrite, Return
  <2>3. ASSUME NEW c \in Client, WorkThread(c)
        PROVE  NoAccessFault'
    BY <2>0, <2>1, <2>3
       DEF WorkThread, TakeWork, AddrNotFound, MallocSend, MallocFinish, FreeSend,
           FreeFinish, ReadPost, ReadFinish, WritePost, WriteFinish
  <2>4. ASSUME NEW c \in Client, Adapter(c)
        PROVE  NoAccessFault'
    <3> SUFFICES ASSUME serverUp
                 PROVE  NoAccessFault'
      BY <2>4 DEF NoAccessFault, Adapter, PerformWrite, PerformRead
    <3>1. worker[c].pc \in {"read", "write"}
      BY <1>2, <2>4 DEF Adapter, PerformWrite, PerformRead, CallInv, VerbPhase
    <3>2. worker[c].info \in Info /\ Holds(c, worker[c].info)
      BY <1>2, <3>1, EntryTypes DEF CallInv, EntryPhase, WorkerEntry, Holds
    <3>3. Reachable(Target(c))
      BY <1>2, <3>2 DEF RegionInv, Reachable, Target
    <3> QED
      BY <2>0, <2>1, <2>4, <3>3 DEF Adapter, PerformWrite, PerformRead
  <2>5. ASSUME NEW c \in Client, ClientEpoll(c) \/ ServerEpoll(c)
        PROVE  NoAccessFault'
    BY <2>0, <2>1, <2>5, Zenon
       DEF ClientEpoll, CompleteWrite, CompleteRead, OnMallocResponse, OnMallocError,
           OnFreeResponse, ServerEpoll, OnMallocRequest, OnFreeRequest
  <2>6. CASE UNCHANGED vars
    BY <2>1, <2>6 DEF vars
  <2> QED
    BY <1>2, <2>2, <2>3, <2>4, <2>5, <2>6 DEF Next
<1> QED
  BY <1>1, <1>2, RegionsAgree, PTL DEF Spec

(***************************************************************************)
(* Sums.  used_size is added up over the connections and the lengths over  *)
(* the area list: folds, whose value is defined by recursion over finite   *)
(* sets.                                                                   *)
(***************************************************************************)

(* Induction over the numbers, stated of the set of those with the property: *)
(* the least number outside it would have a predecessor inside.              *)
LEMMA NatSetInduction ==
  ASSUME NEW T \in SUBSET Nat, 0 \in T, \A n \in T : n + 1 \in T
  PROVE  T = Nat
<1> DEFINE R == OpToRel(<, Nat)
<1>1. IsWellFoundedOn(R, Nat)
  BY NatLessThanWellFounded, Zenon
<1>2. \A m, n \in Nat : m < n => <<m, n>> \in R
  BY DEF OpToRel
<1> HIDE DEF R
<1>3. SUFFICES ASSUME Nat \ T # {}
               PROVE  FALSE
  OBVIOUS
<1>4. PICK n \in Nat \ T : \A m \in Nat \ T : ~ (<<m, n>> \in R)
  BY <1>1, <1>3, WFMin
<1>5. n # 0 /\ n - 1 \in Nat /\ n - 1 < n /\ (n - 1) + 1 = n
  BY <1>4
<1>6. n - 1 \in T
  BY <1>2, <1>4, <1>5
<1> QED
  BY <1>4, <1>5, <1>6

(* What f adds up to over S, and the function that the fold computes it with.   *)
Total(f, S) == FoldFunctionOnSet(+, 0, f, S)

First(s) == CHOOSE x \in s : TRUE

IsSumOn(g, f, D) ==
  g = [s \in D |-> IF s = {} THEN 0 ELSE f[First(s)] + g[s \ {First(s)}]]

IsSum(g, f, S) == IsSumOn(g, f, SUBSET S)

Sums(f, S) == CHOOSE g : IsSum(g, f, S)

(* The fold, unfolded.                                                         *)
LEMMA TotalIsSum ==
  ASSUME NEW f, NEW S
  PROVE  Total(f, S) = Sums(f, S)[S]
BY DEF Total, FoldFunctionOnSet, MapThenFoldSet, Sums, IsSum, IsSumOn, First

(* Induction over the finite subsets of a set, by how many elements they have. *)
LEMMA FiniteSubsets ==
  ASSUME NEW S, IsFiniteSet(S)
  PROVE  /\ Cardinality(S) \in Nat
         /\ \A T \in SUBSET S : /\ IsFiniteSet(T) /\ Cardinality(T) \in Nat
                                /\ Cardinality(T) <= Cardinality(S)
                                /\ Cardinality(T) = 0 <=> T = {}
                                /\ T # {} =>
                                     /\ First(T) \in T
                                     /\ T \ {First(T)} \in SUBSET S
                                /\ \A x \in T : Cardinality(T \ {x}) = Cardinality(T) - 1
<1>1. Cardinality(S) \in Nat
  BY FS_CardinalityType
<1> SUFFICES ASSUME NEW T \in SUBSET S
             PROVE  /\ IsFiniteSet(T) /\ Cardinality(T) \in Nat
                    /\ Cardinality(T) <= Cardinality(S)
                    /\ Cardinality(T) = 0 <=> T = {}
                    /\ T # {} => First(T) \in T /\ T \ {First(T)} \in SUBSET S
                    /\ \A x \in T : Cardinality(T \ {x}) = Cardinality(T) - 1
  BY <1>1
<1>2. IsFiniteSet(T) /\ Cardinality(T) <= Cardinality(S)
  BY FS_Subset
<1>3. Cardinality(T) \in Nat
  BY <1>2, FS_CardinalityType
<1>4. Cardinality(T) = 0 <=> T = {}
  BY <1>2, FS_EmptySet
<1>5. T # {} => First(T) \in T
  BY DEF First
<1>6. \A x \in T : Cardinality(T \ {x}) = Cardinality(T) - 1
  BY <1>2, FS_RemoveElement
<1> QED
  BY <1>2, <1>3, <1>4, <1>5, <1>6

(* There is such a sum. *)
LEMMA SumsExist ==
  ASSUME NEW f, NEW S, IsFiniteSet(S)
  PROVE  IsSum(Sums(f, S), f, S)
<1> DEFINE D(n) == {s \in SUBSET S : Cardinality(s) <= n}
           T == {n \in Nat : \E g : IsSumOn(g, f, D(n))}
<1>1. 0 \in T
  <2>1. IsSumOn([s \in D(0) |-> 0], f, D(0))
    BY FiniteSubsets DEF IsSumOn
  <2> QED
    BY <2>1
<1>2. ASSUME NEW n \in T
      PROVE  n + 1 \in T
  <2>1. PICK g : IsSumOn(g, f, D(n))
    OBVIOUS
  <2> DEFINE h == [s \in D(n + 1) |-> IF s = {} THEN 0 ELSE f[First(s)] + g[s \ {First(s)}]]
  <2>2. ASSUME NEW s \in D(n + 1), s # {}
        PROVE  g[s \ {First(s)}] = h[s \ {First(s)}]
    <3> DEFINE r == s \ {First(s)}
    <3>1. r \in D(n) /\ r \in D(n + 1)
      BY <2>2, FiniteSubsets
    <3>2. g[r] = IF r = {} THEN 0 ELSE f[First(r)] + g[r \ {First(r)}]
      BY <2>1, <3>1 DEF IsSumOn
    <3>3. h[r] = IF r = {} THEN 0 ELSE f[First(r)] + g[r \ {First(r)}]
      BY <3>1
    <3> QED
      BY <3>2, <3>3
  <2>3. IsSumOn(h, f, D(n + 1))
    BY <2>2 DEF IsSumOn
  <2>4. \E k : IsSumOn(k, f, D(n + 1))
    <3> HIDE DEF h, D
    <3> QED
      BY <2>3
  <2>5. n + 1 \in Nat
    OBVIOUS
  <2> HIDE DEF D
  <2> QED
    BY <2>4, <2>5
<1>3. T = Nat
  BY <1>1, <1>2, NatSetInduction
<1>4. PICK g : IsSumOn(g, f, D(Cardinality(S)))
  <2>1. Cardinality(S) \in T
    BY <1>3, FiniteSubsets
  <2> QED
    BY <2>1
<1>5. D(Cardinality(S)) = SUBSET S
  BY FiniteSubsets
<1>6. IsSum(g, f, S)
  BY <1>4, <1>5 DEF IsSum
<1> QED
  BY <1>6 DEF Sums

(* Sums of functions that agree on a set agree. *)
LEMMA SumsAgree ==
  ASSUME NEW f, NEW S, IsFiniteSet(S), NEW g, IsSum(g, f, S),
         NEW e, NEW R, NEW h, IsSum(h, e, R),
         NEW Q, Q \subseteq S, Q \subseteq R, \A x \in Q : f[x] = e[x]
  PROVE  g[Q] = h[Q]
<1> DEFINE T == {n \in Nat : \A s \in SUBSET Q : Cardinality(s) = n => g[s] = h[s]}
<1>0. /\ \A s \in SUBSET Q : g[s] = IF s = {} THEN 0 ELSE f[First(s)] + g[s \ {First(s)}]
      /\ \A s \in SUBSET Q : h[s] = IF s = {} THEN 0 ELSE e[First(s)] + h[s \ {First(s)}]
  BY DEF IsSum, IsSumOn
<1>f. IsFiniteSet(Q)
  BY FS_Subset
<1>1. 0 \in T
  BY <1>0, <1>f, FiniteSubsets
<1>2. ASSUME NEW n \in T
      PROVE  n + 1 \in T
  <2> SUFFICES ASSUME NEW s \in SUBSET Q, Cardinality(s) = n + 1
               PROVE  g[s] = h[s]
    OBVIOUS
  <2>1. s # {} /\ First(s) \in s /\ s \ {First(s)} \in SUBSET Q
        /\ Cardinality(s \ {First(s)}) = n
    BY <1>f, FiniteSubsets
  <2>2. g[s \ {First(s)}] = h[s \ {First(s)}]
    BY <2>1
  <2> QED
    BY <1>0, <2>1, <2>2
<1>3. T = Nat
  BY <1>1, <1>2, NatSetInduction
<1> QED
  BY <1>3, <1>f, FiniteSubsets

(* The recursion of the fold: the first element, and the sum of the others. *)
LEMMA TotalStep ==
  ASSUME NEW f, NEW S, IsFiniteSet(S), S # {}
  PROVE  First(S) \in S /\ Total(f, S) = f[First(S)] + Total(f, S \ {First(S)})
<1> DEFINE R == S \ {First(S)}
<1>1. First(S) \in S /\ IsFiniteSet(R)
  BY FiniteSubsets
<1>2. IsSum(Sums(f, S), f, S) /\ IsSum(Sums(f, R), f, R)
  BY <1>1, SumsExist
<1>3. Sums(f, S)[S] = f[First(S)] + Sums(f, S)[R]
  BY <1>2 DEF IsSum, IsSumOn
<1>4. R \subseteq S /\ R \subseteq R
  OBVIOUS
<1> HIDE DEF R
<1>5. Sums(f, S)[R] = Sums(f, R)[R]
  BY <1>2, <1>4, SumsAgree
<1> QED
  BY <1>1, <1>3, <1>5, TotalIsSum DEF R

(* Nothing adds up to nothing.                                                 *)
LEMMA TotalEmpty ==
  ASSUME NEW f
  PROVE  Total(f, {}) = 0
<1>1. IsSum(Sums(f, {}), f, {})
  BY SumsExist, FS_EmptySet
<1> QED
  BY <1>1, TotalIsSum DEF IsSum, IsSumOn

(* Functions that agree on a set have one sum over it.                         *)
LEMMA TotalAgrees ==
  ASSUME NEW S, IsFiniteSet(S), NEW f, NEW g, \A x \in S : f[x] = g[x]
  PROVE  Total(f, S) = Total(g, S)
<1>1. IsSum(Sums(f, S), f, S) /\ IsSum(Sums(g, S), g, S) /\ S \subseteq S
  BY SumsExist
<1>2. Sums(f, S)[S] = Sums(g, S)[S]
  BY <1>1, SumsAgree
<1> QED
  BY <1>2, TotalIsSum

(* The order does not matter, because addition commutes. *)
LEMMA TotalSplits ==
  ASSUME NEW S, IsFiniteSet(S), NEW f, \A x \in S : f[x] \in Int
  PROVE  /\ Total(f, S) \in Int
         /\ \A x \in S : Total(f, S) = f[x] + Total(f, S \ {x})
<1> DEFINE Q(s) == /\ Total(f, s) \in Int
                   /\ \A x \in s : Total(f, s) = f[x] + Total(f, s \ {x})
           T == {n \in Nat : \A s \in SUBSET S : Cardinality(s) <= n => Q(s)}
<1>1. 0 \in T
  <2>1. \A s \in SUBSET S : Cardinality(s) <= 0 => s = {}
    BY FiniteSubsets
  <2>2. Q({})
    BY TotalEmpty
  <2> HIDE DEF Q
  <2> QED
    BY <2>1, <2>2
<1>2. ASSUME NEW n \in T
      PROVE  n + 1 \in T
  <2>1. ASSUME NEW s \in SUBSET S, Cardinality(s) = n + 1
        PROVE  Q(s)
    <3> DEFINE y == First(s)
    <3>1. s # {} /\ IsFiniteSet(s) /\ y \in s
      BY <2>1, FiniteSubsets
    <3>2. Total(f, s) = f[y] + Total(f, s \ {y})
      BY <3>1, TotalStep
    <3>3. \A x \in s : s \ {x} \in SUBSET S /\ Cardinality(s \ {x}) <= n
      BY <2>1, FiniteSubsets
    <3>4. \A x \in s : Q(s \ {x})
      BY <3>3
    <3> HIDE DEF y
    <3>5. Total(f, s) \in Int
      BY <3>1, <3>2, <3>4
    <3>6. ASSUME NEW x \in s
          PROVE  Total(f, s) = f[x] + Total(f, s \ {x})
      <4>1. CASE x = y
        BY <3>2, <4>1
      <4>2. CASE x # y
        <5>1. PICK r : r = (s \ {y}) \ {x} /\ r = (s \ {x}) \ {y}
          OBVIOUS
        <5>2. y \in s \ {x} /\ x \in s \ {y}
          BY <3>1, <4>2
        <5>3. Total(f, s \ {y}) = f[x] + Total(f, r)
          <6>1. PICK p : p = s \ {y}
            OBVIOUS
          <6>2. x \in p /\ p \ {x} = r /\ Q(p)
            BY <3>1, <3>4, <5>1, <5>2, <6>1
          <6>3. Total(f, p) = f[x] + Total(f, p \ {x})
            BY <6>2
          <6> QED
            BY <6>1, <6>2, <6>3
        <5>4. Total(f, s \ {x}) = f[y] + Total(f, r)
          <6>1. PICK p : p = s \ {x}
            OBVIOUS
          <6>2. y \in p /\ p \ {y} = r /\ Q(p)
            BY <3>4, <5>1, <5>2, <6>1
          <6>3. Total(f, p) = f[y] + Total(f, p \ {y})
            BY <6>2
          <6> QED
            BY <6>1, <6>2, <6>3
        <5>5. Total(f, r) \in Int
          <6>1. r \in SUBSET S /\ s \ {x} \in SUBSET S
            BY <5>1
          <6>2. Cardinality(r) = Cardinality(s \ {x}) - 1
            BY <5>1, <5>2, <6>1, FiniteSubsets
          <6>3. Cardinality(s \ {x}) <= n /\ Cardinality(s \ {x}) \in Nat
            BY <3>3, <6>1, FiniteSubsets
          <6>4. Cardinality(r) <= n
            BY <6>2, <6>3
          <6>5. Q(r)
            BY <6>1, <6>4
          <6> QED
            BY <6>5
        <5>6. f[x] \in Int /\ f[y] \in Int
          BY <3>1
        <5>7. PICK v \in Int : v = Total(f, r)
          BY <5>5
        <5>8. Total(f, s) = f[y] + (f[x] + v) /\ Total(f, s \ {x}) = f[y] + v
          BY <3>2, <5>3, <5>4, <5>7
        <5> QED
          BY <5>6, <5>8
      <4> QED
        BY <4>1, <4>2
    <3> QED
      BY <3>5, <3>6
  <2>2. ASSUME NEW s \in SUBSET S, Cardinality(s) <= n + 1
        PROVE  Q(s)
    <3>1. CASE Cardinality(s) = n + 1
      BY <2>1, <3>1
    <3>2. CASE Cardinality(s) # n + 1
      <4>1. Cardinality(s) <= n
        BY <2>2, <3>2, FiniteSubsets
      <4> QED
        BY <4>1
    <3> QED
      BY <3>1, <3>2
  <2> HIDE DEF Q
  <2> QED
    BY <2>2
<1>3. T = Nat
  BY <1>1, <1>2, NatSetInduction
<1>4. Cardinality(S) \in T /\ S \in SUBSET S
  BY <1>3, FiniteSubsets
<1>5. Q(S)
  <2> HIDE DEF Q
  <2> QED
    BY <1>4, FiniteSubsets
<1> QED
  BY <1>5

(* What one element that changes makes of a sum. *)
LEMMA TotalChange ==
  ASSUME NEW S, IsFiniteSet(S), NEW f, \A x \in S : f[x] \in Int,
         NEW g, \A x \in S : g[x] \in Int, NEW a \in S, \A x \in S : x # a => g[x] = f[x]
  PROVE  Total(g, S) = Total(f, S) + (g[a] - f[a])
<1>1. IsFiniteSet(S \ {a}) /\ \A x \in S \ {a} : g[x] = f[x]
  BY FS_RemoveElement
<1>2. Total(g, S) = g[a] + Total(g, S \ {a})
  BY TotalSplits
<1>3. Total(f, S) = f[a] + Total(f, S \ {a})
  BY TotalSplits
<1>4. Total(g, S \ {a}) = Total(f, S \ {a})
  BY <1>1, TotalAgrees
<1>5. Total(f, S \ {a}) \in Int /\ f[a] \in Int /\ g[a] \in Int
  <2>1. \A x \in S \ {a} : f[x] \in Int
    OBVIOUS
  <2> QED
    BY <1>1, <2>1, TotalSplits
<1> QED
  BY <1>2, <1>3, <1>4, <1>5

(* Zeros add up to zero.                                                       *)
LEMMA TotalOfZeros ==
  ASSUME NEW S, IsFiniteSet(S), NEW f, \A x \in S : f[x] = 0
  PROVE  Total(f, S) = 0
<1> DEFINE T == {n \in Nat : \A s \in SUBSET S : Cardinality(s) = n => Total(f, s) = 0}
<1>1. 0 \in T
  BY FiniteSubsets, TotalEmpty
<1>2. ASSUME NEW n \in T
      PROVE  n + 1 \in T
  <2> SUFFICES ASSUME NEW s \in SUBSET S, Cardinality(s) = n + 1
               PROVE  Total(f, s) = 0
    OBVIOUS
  <2>1. s # {} /\ IsFiniteSet(s) /\ s \ {First(s)} \in SUBSET S
        /\ First(s) \in s /\ Cardinality(s \ {First(s)}) = n
    BY FiniteSubsets
  <2>2. Total(f, s \ {First(s)}) = 0 /\ f[First(s)] = 0
    BY <2>1
  <2>3. Total(f, s) = f[First(s)] + Total(f, s \ {First(s)})
    BY <2>1, TotalStep
  <2> QED
    BY <2>2, <2>3
<1>3. T = Nat
  BY <1>1, <1>2, NatSetInduction
<1>4. Cardinality(S) \in T
  BY <1>3, FiniteSubsets
<1> QED
  BY <1>4

(* The books: while dhmp_server runs, what it has charged to its connections   *)
(* is what the areas in its list take, and there are finitely many of those.   *)
Balance == Total(used, Client) = Total(areaLen, areaList)

BooksInv == IsFiniteSet(areaList) /\ (serverUp => Balance)

(* Balance is the model's BooksBalance.                                        *)
LEMMA BalanceIsBooks ==
  ASSUME CallInv
  PROVE  BooksBalance <=> Balance
<1>1. DOMAIN used = Client
  BY DEF CallInv, TypeOK
<1> QED
  BY <1>1, Zenon DEF BooksBalance, Balance, Total, FoldFunction

(* A malloc request that is served asks for no more than SINGLE_AREA_SIZE.      *)
LEMMA SizeServed ==
  ASSUME SizesServed, CallInv, NEW m \in msgs, m.type = "MALLOC_REQUEST"
  PROVE  ~ReplyGarbage(m)
<1>1. m.size \in Size
  BY DEF CallInv, TypeOK, Messages
<1>2. m.size \in Nat /\ m.size <= SINGLE_AREA_SIZE
  BY <1>1, PoolAssumption DEF SizesServed
<1>3. ~(m.size > SINGLE_AREA_SIZE)
  BY <1>2, PoolAssumption
<1> QED
  BY <1>3 DEF ReplyGarbage

(* A malloc charges its connection what the new area takes.                    *)
LEMMA GrantBooks ==
  ASSUME IsFiniteSet(Client), CallInv, BooksInv, serverUp, UNCHANGED serverUp,
         NEW m \in msgs, m.type = "MALLOC_REQUEST", Grant(m)
  PROVE  BooksInv'
<1>1. /\ used \in [Client -> Int] /\ m.client \in Client /\ m.size \in Nat
      /\ areaLen \in [Addr -> Nat] /\ areaList \subseteq Addr
  BY PoolAssumption DEF CallInv, TypeOK, Messages
<1>2. PICK a \in Addr \ areaList : /\ areaList' = areaList \cup {a}
                                   /\ areaLen' = [areaLen EXCEPT ![a] = m.size]
                                   /\ used' = [used EXCEPT ![m.client] = used[m.client] + m.size]
  BY DEF Grant
<1>3. PICK c \in Client, n \in Nat : c = m.client /\ n = m.size
  BY <1>1
<1>4. Total(used', Client) = Total(used, Client) + n
  <2>1. /\ \A d \in Client : used[d] \in Int /\ used'[d] \in Int
        /\ \A d \in Client : d # c => used'[d] = used[d]
        /\ used[c] \in Int /\ used'[c] = used[c] + n
    BY <1>1, <1>2, <1>3
  <2>2. Total(used', Client) = Total(used, Client) + (used'[c] - used[c])
    BY <2>1, TotalChange
  <2>3. used'[c] - used[c] = n
    BY <2>1
  <2> QED
    BY <2>2, <2>3
<1>5. IsFiniteSet(areaList') /\ Total(areaLen', areaList') = Total(areaLen, areaList) + n
  <2>1. \A b \in areaList : areaLen[b] \in Int /\ areaLen'[b] = areaLen[b]
    BY <1>1, <1>2
  <2>2. areaLen'[a] = n /\ areaLen'[a] \in Int
    BY <1>1, <1>2, <1>3
  <2>3. IsFiniteSet(areaList) /\ a \notin areaList /\ areaList' = areaList \cup {a}
    BY <1>2 DEF BooksInv
  <2>4. PICK S, R, f, g : S = areaList /\ R = areaList' /\ f = areaLen /\ g = areaLen'
    OBVIOUS
  <2>5. IsFiniteSet(R) /\ a \in R /\ R \ {a} = S /\ IsFiniteSet(S)
    BY <2>3, <2>4, FS_AddElement
  <2>6. /\ \A b \in R : g[b] \in Int
        /\ \A b \in S : f[b] \in Int /\ g[b] = f[b]
    BY <2>1, <2>2, <2>3, <2>4
  <2>7. Total(g, R) = g[a] + Total(g, R \ {a})
    BY <2>5, <2>6, TotalSplits
  <2>8. Total(g, S) = Total(f, S)
    BY <2>5, <2>6, TotalAgrees
  <2>9. Total(f, S) \in Int
    BY <2>5, <2>6, TotalSplits
  <2>10. Total(g, R) = Total(f, S) + n
    <3>1. g[a] = n
      BY <2>2, <2>4
    <3>2. Total(g, R) = n + Total(f, S)
      BY <2>5, <2>7, <2>8, <3>1
    <3> QED
      BY <2>9, <3>2
  <2>11. Total(g, R) = Total(areaLen', areaList') /\ Total(f, S) = Total(areaLen, areaList)
    BY <2>4, Zenon
  <2> QED
    BY <2>4, <2>5, <2>10, <2>11
<1> QED
  BY <1>4, <1>5 DEF BooksInv, Balance

(* A free gives back what the area took when it was allocated: the mr the      *)
(* client sends has the length the server stored with the area.                *)
LEMMA FreeBooks ==
  ASSUME IsFiniteSet(Client), CallInv, RegionInv, BooksInv, NEW m \in msgs, OnFreeRequest(m)
  PROVE  BooksInv'
<1>1. /\ m.type = "FREE_REQUEST" /\ serverUp
      /\ used' = [used EXCEPT ![m.client] = used[m.client] - m.mr.len]
      /\ areaLen' = areaLen
      /\ \/ areaList' = areaList \ {m.mr.addr} /\ UNCHANGED serverUp
         \/ serverUp' = FALSE /\ UNCHANGED areaList
  BY DEF OnFreeRequest
<1>2. /\ used \in [Client -> Int] /\ m.client \in Client
      /\ areaLen \in [Addr -> Nat] /\ areaList \subseteq Addr
  BY DEF CallInv, TypeOK, Messages
<1>3. m.mr.addr \in areaList /\ m.mr.len = areaLen[m.mr.addr]
  <2>1. m.info \in Info /\ Holds(m.client, m.info)
    BY <1>1, <1>2, RegionTypes DEF Holds
  <2>2. m.mr = Mr(m.client, m.info)
    BY <1>1 DEF CallInv, MessagePhase, MessageOK
  <2> QED
    BY <1>2, <2>1, <2>2 DEF RegionInv, Mr
<1>4. PICK c \in Client, a \in areaList, n \in Nat :
        c = m.client /\ a = m.mr.addr /\ n = m.mr.len /\ n = areaLen[a]
  BY <1>2, <1>3
<1>5. Total(used', Client) = Total(used, Client) + (-n)
  <2>1. /\ \A d \in Client : used[d] \in Int /\ used'[d] \in Int
        /\ \A d \in Client : d # c => used'[d] = used[d]
        /\ used[c] \in Int /\ used'[c] = used[c] - n
    BY <1>1, <1>2, <1>4
  <2>2. Total(used', Client) = Total(used, Client) + (used'[c] - used[c])
    BY <2>1, TotalChange
  <2>3. used'[c] - used[c] = -n
    BY <2>1
  <2> QED
    BY <2>2, <2>3
<1>6. /\ Total(areaLen, areaList) = n + Total(areaLen, areaList \ {a})
      /\ Total(areaLen, areaList) \in Int
      /\ Total(areaLen, areaList \ {a}) \in Int
  <2>1. \A b \in areaList : areaLen[b] \in Int
    BY <1>2
  <2>2. IsFiniteSet(areaList) /\ IsFiniteSet(areaList \ {a})
    BY FS_RemoveElement DEF BooksInv
  <2> QED
    BY <1>4, <2>1, <2>2, TotalSplits
<1>7. IsFiniteSet(areaList')
  <2>1. IsFiniteSet(areaList) /\ IsFiniteSet(areaList \ {a})
    BY FS_RemoveElement DEF BooksInv
  <2> QED
    BY <1>1, <1>4, <2>1
<1>8. CASE areaList' = areaList \ {m.mr.addr}
  <2>1. Total(used', Client) = Total(areaLen', areaList')
    <3>1. Total(used, Client) = Total(areaLen, areaList)
      BY <1>1 DEF BooksInv, Balance
    <3>2. Total(areaLen', areaList') = Total(areaLen, areaList \ {a})
      BY <1>1, <1>4, <1>8
    <3> QED
      BY <1>5, <1>6, <3>1, <3>2
  <2> QED
    BY <1>7, <2>1 DEF BooksInv, Balance
<1>9. CASE serverUp' = FALSE
  BY <1>7, <1>9 DEF BooksInv
<1> QED
  BY <1>1, <1>8, <1>9

(* Nothing else touches the list, the lengths or used_size.                    *)
LEMMA NextBooks ==
  ASSUME IsFiniteSet(Client), SizesServed, CallInv, RegionInv, BooksInv, [Next]_vars
  PROVE  BooksInv'
<1>1. ASSUME UNCHANGED <<areaList, areaLen, used, serverUp>>
      PROVE  BooksInv'
  BY <1>1 DEF BooksInv, Balance
<1>2. ASSUME NEW t \in Thread, AppThread(t)
      PROVE  BooksInv'
  BY <1>1, <1>2, Zenon DEF AppThread, CallMalloc, CallFree, CallRead, CallWrite, Return, serverVars
<1>3. ASSUME NEW c \in Client, WorkThread(c)
      PROVE  BooksInv'
  BY <1>1, <1>3 DEF WorkThread, TakeWork, AddrNotFound, MallocSend, MallocFinish, FreeSend,
                    FreeFinish, ReadPost, ReadFinish, WritePost, WriteFinish, serverVars
<1>4. ASSUME NEW c \in Client, Adapter(c)
      PROVE  BooksInv'
  BY <1>1, <1>4 DEF Adapter, PerformWrite, PerformRead, serverVars
<1>5. ASSUME NEW c \in Client, ClientEpoll(c)
      PROVE  BooksInv'
  BY <1>1, <1>5, Zenon DEF ClientEpoll, CompleteWrite, CompleteRead, OnMallocResponse, OnMallocError,
                    OnFreeResponse, serverVars
<1>6. ASSUME NEW c \in Client, ServerEpoll(c)
      PROVE  BooksInv'
  <2>1. PICK m \in msgs : OnMallocRequest(m) \/ OnFreeRequest(m)
    BY <1>6 DEF ServerEpoll
  <2>2. CASE OnFreeRequest(m)
    BY <2>2, FreeBooks
  <2>3. CASE OnMallocRequest(m)
    <3>1. m.type = "MALLOC_REQUEST" /\ serverUp /\ UNCHANGED serverUp
      BY <2>3 DEF OnMallocRequest
    <3>2. CASE Grant(m)
      BY <3>1, <3>2, GrantBooks
    <3>3. CASE Refuse(m)
      BY <1>1, <3>1, <3>3 DEF Refuse
    <3>4. ~ReplyGarbage(m)
      BY <3>1, SizeServed
    <3> QED
      BY <2>3, <3>2, <3>3, <3>4 DEF OnMallocRequest
  <2> QED
    BY <2>1, <2>2, <2>3
<1>7. CASE UNCHANGED vars
  BY <1>1, <1>7 DEF vars, serverVars
<1> QED
  BY <1>2, <1>3, <1>4, <1>5, <1>6, <1>7 DEF Next

(* As long as no length exceeds SINGLE_AREA_SIZE, what the server has on its   *)
(* books for all its connections is what the areas in its list take: mallocs   *)
(* and frees of any number of clients, answered in any order, lose and invent  *)
(* nothing.                                                                    *)
THEOREM UsedSizeStaysExact ==
  ASSUME IsFiniteSet(Client), SizesServed
  PROVE  Spec => []UsedSizeIsExact
<1>1. Init => BooksInv
  <2> SUFFICES ASSUME Init
               PROVE  BooksInv
    OBVIOUS
  <2>1. areaList = {} /\ IsFiniteSet({}) /\ Total(areaLen, {}) = 0
    BY TotalEmpty, FS_EmptySet DEF Init
  <2>2. Total(used, Client) = 0
    <3>1. \A c \in Client : used[c] = 0
      BY DEF Init
    <3> QED
      BY <3>1, TotalOfZeros
  <2> QED
    BY <2>1, <2>2 DEF BooksInv, Balance
<1>2. CallInv /\ RegionInv /\ BooksInv /\ [Next]_vars => BooksInv'
  BY NextBooks
<1>3. CallInv /\ BooksInv => UsedSizeIsExact
  BY BalanceIsBooks DEF BooksInv, UsedSizeIsExact
<1> QED
  BY <1>1, <1>2, <1>3, RegionsAgree, PTL DEF Spec

-------------------------------------------------------------------------------
(***************************************************************************)
(* The pool implements RemotePool: the invariant EffectInv, what each step *)
(* does to the heaps, the requests and the answers that the mapping shows, *)
(* and the action of RemotePool, or the stutter, that this is.             *)
(***************************************************************************)

(* What a pending call asks for does not change.                               *)
LEMMA PendingStays ==
  ASSUME CallInv, [Next]_vars, NEW t \in Thread, Pending(t)
  PROVE  /\ call'[t].op = call[t].op /\ call'[t].addr = call[t].addr
         /\ call'[t].val = call[t].val
<1> USE DEF verbVars, serverVars, clientVars
<1>0. call \in [Thread -> Calls]
  BY DEF CallInv, TypeOK
<1>1. ASSUME NEW u \in Thread, AppThread(u)
      PROVE  call'[t] = call[t]
  BY <1>0, <1>1, Zenon DEF AppThread, CallMalloc, CallFree, CallRead, CallWrite, Return, Submit, Pending
<1>2. ASSUME NEW w \in Thread, NEW r \in Calls, call' = [call EXCEPT ![w] = r],
             r.op = call[w].op, r.addr = call[w].addr, r.val = call[w].val
      PROVE  /\ call'[t].op = call[t].op /\ call'[t].addr = call[t].addr
             /\ call'[t].val = call[t].val
  BY <1>0, <1>2
<1>3. ASSUME NEW c \in Client, NEW res, worker[c].pc # "idle", FinishWork(c, res)
      PROVE  /\ call'[t].op = call[t].op /\ call'[t].addr = call[t].addr
             /\ call'[t].val = call[t].val
  BY <1>0, <1>3, EntryTypes DEF CallInv, FinishWork, Calls
<1>4. ASSUME NEW c \in Client, WorkThread(c), call' # call
      PROVE  worker[c].pc # "idle" /\ \E res : FinishWork(c, res)
  BY <1>4 DEF WorkThread, TakeWork, AddrNotFound, MallocSend, MallocFinish, FreeSend,
              FreeFinish, ReadPost, ReadFinish, WritePost, WriteFinish, Handling
<1>5. ASSUME NEW c \in Client, Adapter(c)
      PROVE  /\ call'[t].op = call[t].op /\ call'[t].addr = call[t].addr
             /\ call'[t].val = call[t].val
  BY <1>0, <1>5 DEF Adapter, PerformWrite, PerformRead, Calls
<1>6. ASSUME NEW c \in Client, ClientEpoll(c)
      PROVE  /\ call'[t].op = call[t].op /\ call'[t].addr = call[t].addr
             /\ call'[t].val = call[t].val
  <2>1. CASE call' = call
    BY <2>1
  <2>2. ASSUME NEW w, call' = [call EXCEPT ![w].recv = TRUE]
        PROVE  /\ call'[t].op = call[t].op /\ call'[t].addr = call[t].addr
               /\ call'[t].val = call[t].val
    <3>1. call'[t] = call[t] \/ call'[t] = [call[t] EXCEPT !.recv = TRUE]
      BY <1>0, <2>2
    <3>2. call[t] \in Calls
      BY <1>0
    <3> QED
      BY <3>1, <3>2 DEF Calls
  <2> QED
    BY <1>6, <2>1, <2>2, Zenon DEF ClientEpoll, CompleteWrite, CompleteRead, OnMallocResponse,
                            OnMallocError, OnFreeResponse
<1>7. ASSUME NEW c \in Client, ServerEpoll(c)
      PROVE  call' = call
  BY <1>7 DEF ServerEpoll, OnMallocRequest, OnFreeRequest
<1> QED
  BY <1>1, <1>3, <1>4, <1>5, <1>6, <1>7 DEF Next, vars

(* An entry keeps its address while it is linked, or about to be.              *)
LEMMA LinkedAddrStays ==
  ASSUME CallInv, [Next]_vars, NEW c \in Client, NEW i \in Info,
         \/ i \in ht[c]
         \/ worker[c].pc = "malloc" /\ worker[c].info = i /\ call[worker[c].work].recv
  PROVE  addrInfo'[c][i].addr = addrInfo[c][i].addr
<1> USE DEF verbVars, serverVars, clientVars
<1>0. addrInfo \in [Client -> [Info -> Entries]]
  BY DEF CallInv, TypeOK
<1>1. ASSUME NEW u \in Thread, AppThread(u)
      PROVE  addrInfo'[c][i].addr = addrInfo[c][i].addr
  <2>1. CASE addrInfo' = addrInfo
    BY <2>1
  <2>2. ASSUME NEW len \in Size, CallMalloc(u, len)
        PROVE  addrInfo'[c][i].addr = addrInfo[c][i].addr
    <3>1. PICK d, j : addrInfo' = [addrInfo EXCEPT ![d][j] = [@ EXCEPT !.live = TRUE, !.len = 0]]
      BY <2>2, Zenon DEF CallMalloc
    <3>2. \/ addrInfo'[c][i] = addrInfo[c][i]
          \/ addrInfo'[c][i] = [addrInfo[c][i] EXCEPT !.live = TRUE, !.len = 0]
      BY <1>0, <3>1
    <3>3. addrInfo[c][i] \in Entries
      BY <1>0
    <3> QED
      BY <3>2, <3>3 DEF Entries
  <2> QED
    BY <1>1, <2>1, <2>2, Zenon DEF AppThread, CallFree, CallRead, CallWrite, Return
<1>2. ASSUME NEW d \in Client, WorkThread(d)
      PROVE  addrInfo'[c][i].addr = addrInfo[c][i].addr
  <2>1. CASE addrInfo' = addrInfo
    BY <2>1
  <2>2. ASSUME NEW j, NEW b, \/ addrInfo' = [addrInfo EXCEPT ![d][j].live = b]
                            \/ addrInfo' = [addrInfo EXCEPT ![d][j].write_flag = b]
        PROVE  addrInfo'[c][i].addr = addrInfo[c][i].addr
    <3>1. \/ addrInfo'[c][i] = addrInfo[c][i]
          \/ addrInfo'[c][i] = [addrInfo[c][i] EXCEPT !.live = b]
          \/ addrInfo'[c][i] = [addrInfo[c][i] EXCEPT !.write_flag = b]
      BY <1>0, <2>2
    <3>2. addrInfo[c][i] \in Entries
      BY <1>0
    <3> QED
      BY <3>1, <3>2 DEF Entries
  <2>3. \/ addrInfo' = addrInfo
        \/ \E j, b : \/ addrInfo' = [addrInfo EXCEPT ![d][j].live = b]
                     \/ addrInfo' = [addrInfo EXCEPT ![d][j].write_flag = b]
    <3>1. CASE MallocFinish(d)
      BY <3>1 DEF MallocFinish
    <3>2. CASE FreeFinish(d)
      BY <3>2 DEF FreeFinish
    <3>3. CASE WritePost(d)
      BY <3>3 DEF WritePost
    <3> QED
      BY <1>2, <3>1, <3>2, <3>3
      DEF WorkThread, TakeWork, AddrNotFound, MallocSend, FreeSend, ReadPost, ReadFinish, WriteFinish
  <2> QED
    BY <2>1, <2>2, <2>3
<1>3. ASSUME NEW d \in Client, Adapter(d)
      PROVE  addrInfo'[c][i].addr = addrInfo[c][i].addr
  BY <1>3 DEF Adapter, PerformWrite, PerformRead
<1>4. ASSUME NEW d \in Client, ClientEpoll(d)
      PROVE  addrInfo'[c][i].addr = addrInfo[c][i].addr
  <2>1. \A m \in msgs : m.client = c => m.info # i
    <3> SUFFICES ASSUME NEW m \in msgs, m.client = c, m.info = i
                 PROVE  FALSE
      OBVIOUS
    <3>1. i \notin ht[c]
      BY MessageEntryLive DEF CallInv
    <3> QED
      BY <3>1, NoMessage DEF CallInv
  <2>2. \A m \in msgs : m.client \in Client /\ m.info \in Info
    BY MessageTypes DEF CallInv
  <2>3. CASE addrInfo' = addrInfo
    BY <2>3
  <2>4. CASE CompleteWrite(d)
    <3>1. \/ addrInfo'[c][i] = addrInfo[c][i]
          \/ addrInfo'[c][i] = [addrInfo[c][i] EXCEPT !.write_flag = FALSE]
      BY <1>0, <2>4 DEF CompleteWrite
    <3>2. addrInfo[c][i] \in Entries
      BY <1>0
    <3> QED
      BY <3>1, <3>2 DEF Entries
  <2>5. ASSUME NEW m \in msgs, NEW e, addrInfo' = [addrInfo EXCEPT ![m.client][m.info] = e]
        PROVE  addrInfo'[c][i].addr = addrInfo[c][i].addr
    BY <1>0, <2>1, <2>2, <2>5
  <2>6. ASSUME NEW m \in msgs, OnMallocResponse(m) \/ OnMallocError(m) \/ OnFreeResponse(m)
        PROVE  \E e : addrInfo' = [addrInfo EXCEPT ![m.client][m.info] = e]
    <3>1. CASE OnMallocResponse(m)
      BY <3>1 DEF OnMallocResponse
    <3>2. CASE OnMallocError(m)
      BY <3>2 DEF OnMallocError
    <3>3. CASE OnFreeResponse(m)
      BY <3>3 DEF OnFreeResponse
    <3> QED
      BY <2>6, <3>1, <3>2, <3>3
  <2> QED
    BY <1>4, <2>3, <2>4, <2>5, <2>6 DEF ClientEpoll, CompleteRead
<1>5. ASSUME NEW d \in Client, ServerEpoll(d)
      PROVE  addrInfo'[c][i].addr = addrInfo[c][i].addr
  BY <1>5 DEF ServerEpoll, OnMallocRequest, OnFreeRequest
<1> QED
  BY <1>1, <1>2, <1>3, <1>4, <1>5 DEF Next, vars

(* Only a WRITE changes what an area of the list holds.                        *)
LEMMA MemStays ==
  ASSUME CallInv, [Next]_vars, NEW a \in areaList
  PROVE  \/ mem'[a] = mem[a]
         \/ \E c \in Client : PerformWrite(c) /\ a = Target(c)
<1> USE DEF verbVars, serverVars, clientVars
<1>0. mem \in [Addr -> Value] /\ areaList \subseteq Addr
  BY DEF CallInv, TypeOK
<1>1. ASSUME NEW u \in Thread, AppThread(u)
      PROVE  mem' = mem
  BY <1>1, Zenon DEF AppThread, CallMalloc, CallFree, CallRead, CallWrite, Return
<1>2. ASSUME NEW d \in Client, WorkThread(d)
      PROVE  mem' = mem
  BY <1>2 DEF WorkThread, TakeWork, AddrNotFound, MallocSend, MallocFinish, FreeSend,
              FreeFinish, ReadPost, ReadFinish, WritePost, WriteFinish
<1>3. ASSUME NEW d \in Client, Adapter(d)
      PROVE  mem'[a] = mem[a] \/ (PerformWrite(d) /\ a = Target(d))
  <2>1. CASE PerformRead(d)
    BY <2>1 DEF PerformRead
  <2>2. CASE PerformWrite(d)
    BY <1>0, <2>2 DEF PerformWrite
  <2> QED
    BY <1>3, <2>1, <2>2 DEF Adapter
<1>4. ASSUME NEW d \in Client, ClientEpoll(d)
      PROVE  mem' = mem
  BY <1>4, Zenon DEF ClientEpoll, CompleteWrite, CompleteRead, OnMallocResponse, OnMallocError,
        OnFreeResponse
<1>5. ASSUME NEW d \in Client, ServerEpoll(d)
      PROVE  mem'[a] = mem[a]
  BY <1>0, <1>5 DEF ServerEpoll, OnMallocRequest, OnFreeRequest, Grant, Refuse, ReplyGarbage
<1> QED
  BY <1>1, <1>2, <1>3, <1>4, <1>5 DEF Next, vars

(* A work is built with no result; what finishes it was pending.              *)
LEMMA NextCallResult ==
  ASSUME CallInv, CallResult, [Next]_vars
  PROVE  CallResult'
<1> USE DEF verbVars, serverVars, clientVars
<1>0. call \in [Thread -> Calls]
  BY DEF CallInv, TypeOK
<1>1. ASSUME NEW u \in Thread, AppThread(u)
      PROVE  CallResult'
  <2>1. PICK w : call' = [call EXCEPT ![u] = w] /\ ~w.done /\ w.res = NULL
    <3>1. ASSUME NEW len \in Size, CallMalloc(u, len)
          PROVE  \E w : call' = [call EXCEPT ![u] = w] /\ ~w.done /\ w.res = NULL
      <4>1. PICK i : Submit(u, [NoCall EXCEPT !.op = "malloc", !.info = i, !.len = len])
        BY <3>1, Zenon DEF CallMalloc
      <4>2. PICK w : w = [NoCall EXCEPT !.op = "malloc", !.info = i, !.len = len]
        OBVIOUS
      <4>3. ~w.done /\ w.res = NULL
        BY <4>2 DEF NoCall
      <4> QED
        BY <4>1, <4>2, <4>3 DEF Submit
    <3>2. ASSUME NEW x \in Addr, NEW op, Submit(u, [NoCall EXCEPT !.op = op, !.addr = x])
          PROVE  \E w : call' = [call EXCEPT ![u] = w] /\ ~w.done /\ w.res = NULL
      <4>2. PICK w : w = [NoCall EXCEPT !.op = op, !.addr = x]
        OBVIOUS
      <4>3. ~w.done /\ w.res = NULL
        BY <4>2 DEF NoCall
      <4> QED
        BY <3>2, <4>2, <4>3 DEF Submit
    <3>3. ASSUME NEW x \in Addr, NEW v \in Value, CallWrite(u, x, v)
          PROVE  \E w : call' = [call EXCEPT ![u] = w] /\ ~w.done /\ w.res = NULL
      <4>2. PICK w : w = [NoCall EXCEPT !.op = "write", !.addr = x, !.val = v]
        OBVIOUS
      <4>3. ~w.done /\ w.res = NULL
        BY <4>2 DEF NoCall
      <4> QED
        BY <3>3, <4>2, <4>3 DEF CallWrite, Submit
    <3>4. ASSUME Return(u)
          PROVE  \E w : call' = [call EXCEPT ![u] = w] /\ ~w.done /\ w.res = NULL
      <4>1. ~NoCall.done /\ NoCall.res = NULL
        BY DEF NoCall
      <4> QED
        BY <3>4, <4>1 DEF Return
    <3> QED
      BY <1>1, <3>1, <3>2, <3>3, <3>4, Zenon DEF AppThread, CallFree, CallRead
  <2> QED
    BY <1>0, <2>1 DEF CallResult
<1>2. ASSUME call' = call
      PROVE  CallResult'
  BY <1>2 DEF CallResult
<1>3. ASSUME NEW c \in Client, NEW res, worker[c].pc # "idle", FinishWork(c, res)
      PROVE  CallResult'
  <2>1. worker[c].work \in Thread /\ call[worker[c].work].op # "none"
    BY <1>3, EntryTypes DEF CallInv, WorkPhase, Pending
  <2> QED
    BY <1>0, <1>3, <2>1 DEF FinishWork, Calls, CallResult
<1>4. ASSUME NEW c \in Client, WorkThread(c), call' # call
      PROVE  worker[c].pc # "idle" /\ \E res : FinishWork(c, res)
  BY <1>4 DEF WorkThread, TakeWork, AddrNotFound, MallocSend, MallocFinish, FreeSend,
              FreeFinish, ReadPost, ReadFinish, WritePost, WriteFinish, Handling
<1>5. ASSUME NEW c \in Client, Adapter(c)
      PROVE  CallResult'
  <2>1. worker[c].pc = "read" => worker[c].work \in Thread /\ call[worker[c].work].op = "read"
    BY EntryTypes DEF CallInv, WorkPhase
  <2>2. CASE worker[c].pc = "read" /\ call' = [call EXCEPT ![worker[c].work].res = mem[Target(c)]]
    BY <1>0, <2>1, <2>2 DEF CallResult, Calls
  <2> QED
    BY <1>2, <1>5, <2>2 DEF Adapter, PerformWrite, PerformRead
<1>6. ASSUME NEW c \in Client, ClientEpoll(c)
      PROVE  CallResult'
  <2>1. ASSUME NEW w, call' = [call EXCEPT ![w].recv = TRUE]
        PROVE  CallResult'
    <3>1. \A t \in Thread : call'[t] = call[t] \/ call'[t] = [call[t] EXCEPT !.recv = TRUE]
      BY <1>0, <2>1
    <3>2. \A t \in Thread : call[t] \in Calls
      BY <1>0
    <3>3. \A t \in Thread : /\ call'[t].op = call[t].op /\ call'[t].done = call[t].done
                            /\ call'[t].res = call[t].res
      BY <3>1, <3>2 DEF Calls
    <3> QED
      BY <3>3 DEF CallResult
  <2> QED
    BY <1>2, <1>6, <2>1, Zenon DEF ClientEpoll, CompleteWrite, CompleteRead, OnMallocResponse,
                            OnMallocError, OnFreeResponse
<1>7. ASSUME NEW c \in Client, ServerEpoll(c)
      PROVE  call' = call
  BY <1>7 DEF ServerEpoll, OnMallocRequest, OnFreeRequest
<1> QED
  BY <1>1, <1>2, <1>3, <1>4, <1>5, <1>6, <1>7 DEF Next, vars

(* The work thread posts to an entry that its lookup has just matched.        *)
LEMMA NextVerbTarget ==
  ASSUME CallInv, VerbTarget, [Next]_vars
  PROVE  VerbTarget'
<1> SUFFICES ASSUME NEW c \in Client, worker'[c].pc \in {"read", "write"}
             PROVE  Target(c)' = call'[worker'[c].work].addr
  BY DEF VerbTarget
<1> USE DEF verbVars, serverVars, clientVars
<1>0. worker \in [Client -> Workers]
  BY DEF CallInv, TypeOK
<1>1. CASE worker'[c] = worker[c]
  <2>1. worker[c].info \in Info /\ worker[c].info \in ht[c]
    BY <1>1, EntryTypes DEF CallInv, EntryPhase, WorkerEntry
  <2>2. worker[c].work \in Thread /\ Pending(worker[c].work)
    BY <1>1, EntryTypes DEF CallInv, WorkPhase
  <2> QED
    BY <1>1, <2>1, <2>2, LinkedAddrStays, PendingStays DEF VerbTarget, Target
<1>2. CASE ReadPost(c) \/ WritePost(c)
  <2>1. /\ worker[c].pc = "start" /\ call' = call
        /\ \E i \in Lookup(c, call[worker[c].work].addr) :
             worker'[c].info = i /\ worker'[c].work = worker[c].work
    <3>1. /\ worker[c].pc = "start" /\ call' = call
          /\ \E i \in Lookup(c, call[worker[c].work].addr) : \E pc : Await(c, pc, i)
      BY <1>2 DEF ReadPost, WritePost, Handling
    <3>2. ASSUME NEW pc, NEW i, Await(c, pc, i)
          PROVE  worker'[c].info = i /\ worker'[c].work = worker[c].work
      BY <1>0, <3>2 DEF Await, Workers
    <3> QED
      BY <3>1, <3>2
  <2>2. PICK i \in ht[c] : /\ addrInfo[c][i].addr = call[worker[c].work].addr
                           /\ worker'[c].info = i /\ worker'[c].work = worker[c].work
    BY <2>1 DEF Lookup
  <2>3. addrInfo'[c][i].addr = addrInfo[c][i].addr
    BY LinkedAddrStays, EntryTypes DEF CallInv
  <2> QED
    BY <2>1, <2>2, <2>3 DEF Target
<1>3. ASSUME NEW d \in Client, WorkThread(d)
      PROVE  worker'[c] = worker[c] \/ ReadPost(c) \/ WritePost(c)
  <2>1. ASSUME NEW w, worker' = [worker EXCEPT ![d] = w], w.pc \notin {"read", "write"}
        PROVE  worker'[c] = worker[c]
    BY <1>0, <2>1
  <2>2. ASSUME NEW pc \in {"malloc", "free"}, NEW i, Await(d, pc, i)
        PROVE  worker'[c] = worker[c]
    <3>1. worker[d] \in Workers => [worker[d] EXCEPT !.pc = pc, !.info = i].pc = pc
      BY DEF Workers
    <3> QED
      BY <1>0, <2>1, <2>2, <3>1 DEF Await
  <2>3. ASSUME NEW r, FinishWork(d, r)
        PROVE  worker'[c] = worker[c]
    BY <2>1, <2>3 DEF FinishWork, IdleWorker
  <2>4. CASE TakeWork(d)
    BY <2>1, <2>4 DEF TakeWork
  <2>5. CASE ReadPost(d) \/ WritePost(d)
    BY <1>0, <2>5, Zenon DEF ReadPost, WritePost, Await
  <2>6. CASE AddrNotFound(d) \/ MallocFinish(d) \/ FreeFinish(d) \/ ReadFinish(d) \/ WriteFinish(d)
    BY <2>3, <2>6 DEF AddrNotFound, MallocFinish, FreeFinish, ReadFinish, WriteFinish
  <2>7. CASE MallocSend(d)
    BY <2>2, <2>7 DEF MallocSend
  <2>8. CASE FreeSend(d)
    BY <2>2, <2>8 DEF FreeSend
  <2> QED
    BY <1>3, <2>4, <2>5, <2>6, <2>7, <2>8 DEF WorkThread
<1>4. ASSUME NEW u \in Thread, AppThread(u)
      PROVE  worker' = worker
  BY <1>4, Zenon DEF AppThread, CallMalloc, CallFree, CallRead, CallWrite, Return
<1>5. ASSUME NEW d \in Client, Adapter(d) \/ ClientEpoll(d) \/ ServerEpoll(d)
      PROVE  worker' = worker
  BY <1>5, Zenon DEF Adapter, PerformWrite, PerformRead, ClientEpoll, CompleteWrite, CompleteRead,
              OnMallocResponse, OnMallocError, OnFreeResponse,
              ServerEpoll, OnMallocRequest, OnFreeRequest
<1> QED
  BY <1>1, <1>2, <1>3, <1>4, <1>5 DEF Next, vars

(* A WRITE is aimed at a region its client holds.                            *)
LEMMA WriterHolds ==
  ASSUME CallInv, NEW c \in Client, wr[c] # "none"
  PROVE  /\ worker[c].pc = "write" /\ worker[c].info \in Info
         /\ worker[c].info \in ht[c] /\ Holds(c, worker[c].info)
         /\ worker[c].work \in Thread
<1>1. worker[c].pc = "write"
  BY DEF CallInv, VerbPhase
<1> QED
  BY <1>1, EntryTypes DEF CallInv, EntryPhase, WorkerEntry, Holds

(* The answer to a malloc names an area that memset has just zeroed.           *)
LEMMA NewAnswer ==
  ASSUME SizesServed, CallInv, [Next]_vars, NEW m \in Answers', m \notin Answers
  PROVE  mem'[m.mr.addr] = Zero
<1> USE DEF verbVars, serverVars, clientVars
<1>0. m \in msgs' /\ m.type = "MALLOC_RESPONSE" /\ m \notin msgs
  BY DEF Answers
<1>1. ASSUME NEW u \in Thread, AppThread(u)
      PROVE  msgs' = msgs
  BY <1>1, Zenon DEF AppThread, CallMalloc, CallFree, CallRead, CallWrite, Return
<1>2. ASSUME NEW d \in Client, WorkThread(d)
      PROVE  FALSE
  <2>1. CASE MallocSend(d)
    BY <1>0, <2>1 DEF MallocSend
  <2>2. CASE FreeSend(d)
    BY <1>0, <2>2 DEF FreeSend, FreeRequestOf
  <2> QED
    BY <1>0, <1>2, <2>1, <2>2
    DEF WorkThread, TakeWork, AddrNotFound, MallocFinish, FreeFinish, ReadPost, ReadFinish,
        WritePost, WriteFinish
<1>3. ASSUME NEW d \in Client, Adapter(d)
      PROVE  msgs' = msgs
  BY <1>3 DEF Adapter, PerformWrite, PerformRead
<1>4. ASSUME NEW d \in Client, ClientEpoll(d)
      PROVE  msgs' \subseteq msgs
  BY <1>4, Zenon DEF ClientEpoll, CompleteWrite, CompleteRead, OnMallocResponse, OnMallocError,
        OnFreeResponse
<1>5. ASSUME NEW d \in Client, ServerEpoll(d)
      PROVE  mem'[m.mr.addr] = Zero
  <2>1. PICK n \in msgs : OnMallocRequest(n) \/ OnFreeRequest(n)
    BY <1>5 DEF ServerEpoll
  <2>2. CASE OnFreeRequest(n)
    <3>1. msgs' \subseteq msgs \cup {FreeResponseTo(n)}
      BY <2>2 DEF OnFreeRequest
    <3>2. FreeResponseTo(n).type = "FREE_RESPONSE"
      BY DEF FreeResponseTo
    <3> QED
      BY <1>0, <3>1, <3>2
  <2>3. CASE OnMallocRequest(n)
    <3>1. n.type = "MALLOC_REQUEST"
      BY <2>3 DEF OnMallocRequest
    <3>2. ~ReplyGarbage(n)
      BY <3>1, SizeServed
    <3>3. CASE Refuse(n)
      BY <1>0, <3>3 DEF Refuse
    <3>4. CASE Grant(n)
      <4>1. PICK a \in Addr \ areaList :
              /\ mem' = [mem EXCEPT ![a] = Zero]
              /\ msgs' = (msgs \ {n}) \cup {Reply(n, [addr |-> a, len |-> n.size])}
        BY <3>4 DEF Grant
      <4>2. m = Reply(n, [addr |-> a, len |-> n.size])
        BY <1>0, <4>1
      <4>3. m.mr.addr = a
        BY <4>2 DEF Reply
      <4>4. mem \in [Addr -> Value]
        BY DEF CallInv, TypeOK
      <4> QED
        BY <4>1, <4>3, <4>4
    <3> QED
      BY <2>3, <3>2, <3>3, <3>4 DEF OnMallocRequest
  <2> QED
    BY <2>1, <2>2, <2>3
<1> QED
  BY <1>0, <1>1, <1>2, <1>3, <1>4, <1>5 DEF Next, vars

(* A malloc that has its answer after a step had it before, or it has just     *)
(* come.                                                                       *)
LEMMA AnswerComes ==
  ASSUME CallInv, [Next]_vars, NEW c \in Client,
         worker'[c].pc = "malloc", call'[worker'[c].work].recv
  PROVE  \/ worker'[c] = worker[c] /\ call[worker[c].work].recv
         \/ \E m \in msgs : /\ OnMallocResponse(m) /\ m.client = c /\ m \in Answers
                            /\ worker' = worker /\ m.info = worker[c].info
<1> USE DEF verbVars, serverVars, clientVars
<1>0. /\ call \in [Thread -> Calls] /\ worker \in [Client -> Workers]
      /\ \A d \in Client : worker[d].pc # "idle" => worker[d].work \in Thread
      /\ \A d \in Client : worker[d].pc = "start" => ~call[worker[d].work].recv
  BY EntryTypes DEF CallInv, TypeOK, WorkPhase
<1>1. ASSUME NEW u \in Thread, AppThread(u)
      PROVE  worker' = worker /\ call'[worker[c].work] = call[worker[c].work]
  <2>1. worker' = worker
    BY <1>1, Zenon DEF AppThread, CallMalloc, CallFree, CallRead, CallWrite, Return
  <2>2. Pending(worker[c].work) /\ worker[c].work \in Thread
    BY <1>0, <2>1 DEF CallInv, WorkPhase
  <2> QED
    BY <1>0, <1>1, <2>1, <2>2, Zenon
    DEF AppThread, CallMalloc, CallFree, CallRead, CallWrite, Return, Submit, Pending
<1>2. ASSUME NEW d \in Client, WorkThread(d)
      PROVE  worker'[c] = worker[c] /\ call[worker[c].work].recv
  <2>1. ASSUME NEW w, NEW r, worker' = [worker EXCEPT ![d] = IdleWorker],
               d # c => w \in Thread /\ w # worker[c].work, call' = [call EXCEPT ![w] = r]
        PROVE  worker'[c] = worker[c] /\ call[worker[c].work].recv
    BY <1>0, <2>1 DEF IdleWorker
  <2>2. ASSUME NEW r, FinishWork(d, r), worker[d].pc # "idle"
        PROVE  worker'[c] = worker[c] /\ call[worker[c].work].recv
    <3>1. d # c => worker'[c] = worker[c]
      BY <1>0, <2>2 DEF FinishWork
    <3>2. d # c => worker[d].work \in Thread /\ worker[d].work # worker[c].work
      BY <2>2, <3>1, WorksDiffer DEF CallInv
    <3> QED
      BY <2>1, <2>2, <3>2 DEF FinishWork
  <2>3. ASSUME call' = call, NEW w, worker' = [worker EXCEPT ![d] = w],
               w.pc # "malloc" \/ (w.work = worker[d].work /\ worker[d].pc = "start")
        PROVE  worker'[c] = worker[c] /\ call[worker[c].work].recv
    BY <1>0, <2>3
  <2>4. ASSUME call' = call, worker[d].pc = "start", NEW pc, NEW i, Await(d, pc, i)
        PROVE  worker'[c] = worker[c] /\ call[worker[c].work].recv
    <3>1. PICK w : w = [worker[d] EXCEPT !.pc = pc, !.info = i]
      OBVIOUS
    <3>2. w.work = worker[d].work
      BY <1>0, <3>1 DEF Workers
    <3> QED
      BY <2>3, <2>4, <3>1, <3>2 DEF Await
  <2>5. CASE TakeWork(d)
    BY <2>3, <2>5 DEF TakeWork
  <2>6. CASE AddrNotFound(d) \/ MallocFinish(d) \/ FreeFinish(d) \/ ReadFinish(d) \/ WriteFinish(d)
    BY <2>2, <2>6 DEF AddrNotFound, MallocFinish, FreeFinish, ReadFinish, WriteFinish, Handling
  <2>7. CASE MallocSend(d) \/ FreeSend(d) \/ ReadPost(d) \/ WritePost(d)
    BY <2>4, <2>7 DEF MallocSend, FreeSend, ReadPost, WritePost, Handling
  <2> QED
    BY <1>2, <2>5, <2>6, <2>7 DEF WorkThread
<1>3. ASSUME NEW d \in Client, Adapter(d)
      PROVE  worker' = worker /\ call[worker[c].work].recv
  <2>1. worker' = worker
    BY <1>3 DEF Adapter, PerformWrite, PerformRead
  <2>2. ASSUME NEW w, NEW x, call' = [call EXCEPT ![w].res = x]
        PROVE  call[worker[c].work].recv
    BY <1>0, <2>1, <2>2 DEF Calls
  <2> QED
    BY <1>3, <2>1, <2>2 DEF Adapter, PerformWrite, PerformRead
<1>4. ASSUME NEW d \in Client, ClientEpoll(d)
      PROVE  \/ worker' = worker /\ call[worker[c].work].recv
             \/ \E m \in msgs : /\ OnMallocResponse(m) /\ m.client = c /\ m \in Answers
                                /\ worker' = worker /\ m.info = worker[c].info
  <2>1. worker' = worker
    BY <1>4, Zenon DEF ClientEpoll, CompleteWrite, CompleteRead, OnMallocResponse, OnMallocError,
                OnFreeResponse
  <2>2. ASSUME NEW m \in msgs, OnMallocResponse(m)
        PROVE  \/ call[worker[c].work].recv
               \/ m.client = c /\ m \in Answers /\ m.info = worker[c].info
    <3>1. /\ m.type = "MALLOC_RESPONSE" /\ m.client \in Client /\ m.task \in Thread
          /\ worker[m.client].work = m.task /\ worker[m.client].pc = "malloc"
          /\ m.info = worker[m.client].info
      BY <2>2, MessageTypes DEF OnMallocResponse, CallInv, MessagePhase, MessageOK
    <3>2. m.client # c => worker[c].work # m.task
      BY <2>1, <3>1, WorksDiffer DEF CallInv
    <3>3. worker[c].work # m.task => call'[worker[c].work] = call[worker[c].work]
      BY <1>0, <2>1, <2>2 DEF OnMallocResponse
    <3> QED
      BY <2>1, <3>1, <3>2, <3>3 DEF Answers
  <2> QED
    BY <1>4, <2>1, <2>2, Zenon DEF ClientEpoll, CompleteWrite, CompleteRead, OnMallocError,
                OnFreeResponse
<1>5. ASSUME NEW d \in Client, ServerEpoll(d)
      PROVE  worker' = worker /\ call' = call
  BY <1>5 DEF ServerEpoll, OnMallocRequest, OnFreeRequest
<1> QED
  BY <1>1, <1>2, <1>3, <1>4, <1>5 DEF Next, vars

(* A WRITE goes to a region held by its own client, so it misses the regions   *)
(* whose malloc has not returned.                                              *)
LEMMA NextFreshRegion ==
  ASSUME SizesServed, CallInv, RegionInv, FreshRegion, [Next]_vars
  PROVE  FreshRegion'
<1>0. mem \in [Addr -> Value] /\ areaList \subseteq Addr
  BY DEF CallInv, TypeOK
<1>1. ASSUME NEW a \in areaList,
             \A c \in Client, i \in Info : wr[c] # "none" /\ Holds(c, i) /\ worker[c].info = i
                                             => addrInfo[c][i].addr # a
      PROVE  mem'[a] = mem[a]
  <2>1. ASSUME NEW c \in Client, PerformWrite(c), a = Target(c)
        PROVE  FALSE
    <3>1. wr[c] # "none"
      BY <2>1 DEF PerformWrite
    <3> QED
      BY <1>1, <2>1, <3>1, WriterHolds DEF Target
  <2> QED
    BY <2>1, MemStays
<1>2. ASSUME NEW m \in Answers'
      PROVE  mem'[m.mr.addr] = Zero
  <2>1. CASE m \in Answers
    <3>1. /\ m.mr.addr \in areaList /\ mem[m.mr.addr] = Zero
          /\ \A d \in Client, j \in Info : Holds(d, j) => addrInfo[d][j].addr # m.mr.addr
      BY <2>1 DEF RegionInv, FreshRegion
    <3> QED
      BY <1>1, <3>1
  <2> QED
    BY <2>1, NewAnswer
<1>3. ASSUME NEW c \in Client, worker'[c].pc = "malloc", call'[worker'[c].work].recv
      PROVE  mem'[Target(c)'] = Zero
  <2>1. CASE worker'[c] = worker[c] /\ call[worker[c].work].recv
    <3>1. PICK i \in Info : i = worker[c].info
      BY <1>3, <2>1, EntryTypes DEF CallInv
    <3>2. Holds(c, i)
      BY <1>3, <2>1, <3>1 DEF Holds
    <3>3. addrInfo'[c][i].addr = addrInfo[c][i].addr
      BY <1>3, <2>1, <3>1, LinkedAddrStays
    <3>4. PICK a : a = addrInfo[c][i].addr
      OBVIOUS
    <3>5. a \in areaList /\ mem[a] = Zero
      BY <1>3, <2>1, <3>1, <3>2, <3>4 DEF RegionInv, FreshRegion, Target
    <3>6. ASSUME NEW d \in Client, NEW j \in Info, wr[d] # "none", Holds(d, j), worker[d].info = j
          PROVE  addrInfo[d][j].addr # a
      <4>1. worker[d].pc = "write"
        BY <3>6, WriterHolds
      <4>2. d # c
        BY <1>3, <2>1, <4>1
      <4> QED
        BY <3>2, <3>4, <3>6, <4>2 DEF RegionInv
    <3>7. mem'[a] = mem[a]
      BY <1>1, <3>5, <3>6
    <3> QED
      BY <2>1, <3>1, <3>3, <3>4, <3>5, <3>7 DEF Target
  <2>2. ASSUME NEW m \in msgs, OnMallocResponse(m), m.client = c, m \in Answers,
               worker' = worker, m.info = worker[c].info
        PROVE  mem'[Target(c)'] = Zero
    <3>1. addrInfo \in [Client -> [Info -> Entries]] /\ m.info \in Info
      BY MessageTypes DEF CallInv, TypeOK
    <3>2. mem' = mem
      BY <2>2 DEF OnMallocResponse, serverVars
    <3>3. addrInfo'[c][m.info] = [addrInfo[c][m.info] EXCEPT !.addr = m.mr.addr, !.len = m.mr.len]
      BY <2>2, <3>1 DEF OnMallocResponse
    <3>4. addrInfo[c][m.info] \in Entries
      BY <3>1
    <3>5. addrInfo'[c][m.info].addr = m.mr.addr
      BY <3>3, <3>4 DEF Entries
    <3> QED
      BY <2>2, <3>2, <3>5 DEF Target, FreshRegion
  <2> QED
    BY <1>3, <2>1, <2>2, AnswerComes
<1> QED
  BY <1>2, <1>3 DEF FreshRegion

(* The three together.                                                         *)
LEMMA NextEffect ==
  ASSUME SizesServed, CallInv, RegionInv, EffectInv, [Next]_vars
  PROVE  EffectInv'
BY NextCallResult, NextVerbTarget, NextFreshRegion DEF EffectInv

-------------------------------------------------------------------------------
(* What a step does to the abstract state, named for the actions of            *)
(* RemotePool. The heap is shared by the threads of a process, so an effect    *)
(* says what becomes of the heap of one client and that the others stay.       *)
Same(t) == RequestOf(t)' = RequestOf(t) /\ AnswerOf(t)' = AnswerOf(t)
SameHeap(d) == HeapOf(d)' = HeapOf(d)

Stutter == (\A t \in Thread : Same(t)) /\ (\A d \in Client : SameHeap(d))

Invokes(t) ==
  /\ RequestOf(t) = NULL /\ RequestOf(t)' \in Abstract!Requests
  /\ AnswerOf(t)' = AnswerOf(t)
  /\ \A u \in Thread \ {t} : Same(u)
  /\ \A d \in Client : SameHeap(d)

Responds(t) ==
  /\ AnswerOf(t) # Abstract!NoAnswer
  /\ RequestOf(t)' = NULL /\ AnswerOf(t)' = Abstract!NoAnswer
  /\ \A u \in Thread \ {t} : Same(u)
  /\ \A d \in Client : SameHeap(d)

Takes(t, op, r) ==
  /\ RequestOf(t) # NULL /\ RequestOf(t).op = op /\ RequestOf(t)' = RequestOf(t)
  /\ AnswerOf(t) = Abstract!NoAnswer /\ AnswerOf(t)' = Abstract!Answer(r)
  /\ \A u \in Thread \ {t} : Same(u)
  /\ \A d \in Client \ {ClientOf[t]} : SameHeap(d)

Mallocs(t) ==
  \E a \in Addr :
    /\ \A d \in Client : a \notin DOMAIN HeapOf(d)
    /\ Takes(t, "malloc", a)
    /\ HeapOf(ClientOf[t])' =
         [b \in DOMAIN HeapOf(ClientOf[t]) \cup {a} |->
            IF b = a THEN Zero ELSE HeapOf(ClientOf[t])[b]]

Frees(t) ==
  /\ Takes(t, "free", NULL)
  /\ HeapOf(ClientOf[t])' =
       [b \in DOMAIN HeapOf(ClientOf[t]) \ {RequestOf(t).addr} |-> HeapOf(ClientOf[t])[b]]

Reads(t) ==
  /\ Takes(t, "read", IF RequestOf(t).addr \in DOMAIN HeapOf(ClientOf[t])
                      THEN HeapOf(ClientOf[t])[RequestOf(t).addr] ELSE NULL)
  /\ SameHeap(ClientOf[t])

Writes(t) ==
  /\ Takes(t, "write", NULL)
  /\ HeapOf(ClientOf[t])' =
       [b \in DOMAIN HeapOf(ClientOf[t]) |->
          IF b = RequestOf(t).addr THEN RequestOf(t).val ELSE HeapOf(ClientOf[t])[b]]

Heap == [c \in Client |-> HeapOf(c)]
Req == [t \in Thread |-> RequestOf(t)]
Ans == [t \in Thread |-> AnswerOf(t)]

(* The abstract state, and that each of these is its action.                   *)
LEMMA HeapIs ==
  /\ Heap' = [c \in Client |-> HeapOf(c)'] /\ Req' = [t \in Thread |-> RequestOf(t)']
  /\ Ans' = [t \in Thread |-> AnswerOf(t)']
BY DEF Heap, Req, Ans

LEMMA StutterMaps == Stutter => UNCHANGED Abstract!poolVars
<1> SUFFICES ASSUME Stutter
             PROVE  UNCHANGED Abstract!poolVars
  OBVIOUS
<1>1. Heap' = Heap /\ Req' = Req /\ Ans' = Ans
  BY HeapIs DEF Stutter, Same, SameHeap, Heap, Req, Ans
<1> QED
  BY <1>1 DEF Heap, Req, Ans, Abstract!poolVars

LEMMA InvokeMaps ==
  ASSUME NEW t \in Thread, Invokes(t)
  PROVE  Abstract!Next
<1>1. PICK q \in Abstract!Requests : RequestOf(t)' = q
  BY DEF Invokes
<1>2. /\ Req' = [Req EXCEPT ![t] = q] /\ Heap' = Heap /\ Ans' = Ans /\ Req[t] = NULL
  BY <1>1, HeapIs DEF Invokes, Same, SameHeap, Heap, Req, Ans
<1>3. Abstract!Invoke(t, q)
  BY <1>2 DEF Abstract!Invoke, Heap, Req, Ans
<1> QED
  BY <1>3 DEF Abstract!Next

LEMMA RespondMaps ==
  ASSUME NEW t \in Thread, Responds(t)
  PROVE  Abstract!Next
<1>2. /\ Req' = [Req EXCEPT ![t] = NULL] /\ Heap' = Heap
      /\ Ans' = [Ans EXCEPT ![t] = Abstract!NoAnswer] /\ Ans[t] # Abstract!NoAnswer
  BY HeapIs DEF Responds, Same, SameHeap, Heap, Req, Ans
<1>3. Abstract!Respond(t)
  BY <1>2 DEF Abstract!Respond, Heap, Req, Ans
<1> QED
  BY <1>3 DEF Abstract!Next

LEMMA EffectMaps ==
  ASSUME NEW t \in Thread, NEW op, NEW r, Takes(t, op, r), NEW h, HeapOf(ClientOf[t])' = h
  PROVE  Abstract!Effect(t, h, r) /\ Req[t] # NULL /\ Req[t].op = op
<1>1. ClientOf[t] \in Client
  BY PoolAssumption
<1>2. /\ Req' = Req /\ Ans' = [Ans EXCEPT ![t] = Abstract!Answer(r)] /\ Ans[t] = Abstract!NoAnswer
      /\ Heap' = [Heap EXCEPT ![ClientOf[t]] = h] /\ Req[t] # NULL /\ Req[t].op = op
  BY <1>1, HeapIs DEF Takes, Same, SameHeap, Heap, Req, Ans
<1> QED
  BY <1>2 DEF Abstract!Effect, Heap, Req, Ans

LEMMA TakeMaps ==
  ASSUME NEW t \in Thread, Mallocs(t) \/ Frees(t) \/ Reads(t) \/ Writes(t)
  PROVE  Abstract!Next
<1>1. ClientOf[t] \in Client
  BY PoolAssumption
<1>2. Heap[ClientOf[t]] = HeapOf(ClientOf[t]) /\ Req[t] = RequestOf(t)
  BY <1>1 DEF Heap, Req
<1>3. CASE Mallocs(t)
  <2>1. PICK a \in Addr :
          /\ \A d \in Client : a \notin DOMAIN HeapOf(d)
          /\ Takes(t, "malloc", a)
          /\ HeapOf(ClientOf[t])' =
               [b \in DOMAIN HeapOf(ClientOf[t]) \cup {a} |->
                  IF b = a THEN Zero ELSE HeapOf(ClientOf[t])[b]]
    BY <1>3 DEF Mallocs
  <2>2. /\ Abstract!Effect(t, [b \in DOMAIN HeapOf(ClientOf[t]) \cup {a} |->
                                 IF b = a THEN Zero ELSE HeapOf(ClientOf[t])[b]], a)
        /\ Req[t] # NULL /\ Req[t].op = "malloc"
    BY <2>1, EffectMaps
  <2>3. \A d \in Client : Heap[d] = HeapOf(d)
    BY DEF Heap
  <2>4. a \in Addr \ UNION {Abstract!Held(d) : d \in Client}
    BY <2>1, <2>3 DEF Abstract!Held, Heap
  <2>5. Abstract!Malloc(t)
    BY <1>2, <2>2, <2>4 DEF Abstract!Malloc, Heap, Req
  <2> QED
    BY <2>5 DEF Abstract!Next
<1>4. CASE Frees(t)
  <2>1. /\ Abstract!Effect(t, [b \in DOMAIN HeapOf(ClientOf[t]) \ {RequestOf(t).addr} |->
                                 HeapOf(ClientOf[t])[b]], NULL)
        /\ Req[t] # NULL /\ Req[t].op = "free"
    BY <1>4, EffectMaps DEF Frees
  <2>2. Abstract!Free(t)
    BY <1>2, <2>1 DEF Abstract!Free, Heap, Req
  <2> QED
    BY <2>2 DEF Abstract!Next
<1>5. CASE Reads(t)
  <2>1. /\ Abstract!Effect(t, HeapOf(ClientOf[t]),
                           IF RequestOf(t).addr \in DOMAIN HeapOf(ClientOf[t])
                           THEN HeapOf(ClientOf[t])[RequestOf(t).addr] ELSE NULL)
        /\ Req[t] # NULL /\ Req[t].op = "read"
    BY <1>5, EffectMaps DEF Reads, SameHeap
  <2>2. Abstract!Read(t)
    BY <1>2, <2>1 DEF Abstract!Read, Heap, Req
  <2> QED
    BY <2>2 DEF Abstract!Next
<1>6. CASE Writes(t)
  <2>1. /\ Abstract!Effect(t, [b \in DOMAIN HeapOf(ClientOf[t]) |->
                                 IF b = RequestOf(t).addr THEN RequestOf(t).val
                                 ELSE HeapOf(ClientOf[t])[b]], NULL)
        /\ Req[t] # NULL /\ Req[t].op = "write"
    BY <1>6, EffectMaps DEF Writes
  <2>2. Abstract!Write(t)
    BY <1>2, <2>1 DEF Abstract!Write, Heap, Req
  <2> QED
    BY <2>2 DEF Abstract!Next
<1> QED
  BY <1>3, <1>4, <1>5, <1>6

-------------------------------------------------------------------------------
(* The heap of a client stays when its table and what it holds do.             *)
LEMMA HeapStays ==
  ASSUME CallInv, [Next]_vars, NEW d \in Client, ht'[d] = ht[d],
         \A i \in ht[d] : mem'[addrInfo[d][i].addr] = mem[addrInfo[d][i].addr]
  PROVE  SameHeap(d)
<1>1. \A i \in ht[d] : i \in Info
  BY EntryTypes DEF CallInv
<1>2. \A i \in ht[d] : addrInfo'[d][i].addr = addrInfo[d][i].addr
  BY <1>1, LinkedAddrStays
<1>3. PICK S : S = {addrInfo[d][i].addr : i \in ht[d]}
  OBVIOUS
<1>4. S = {addrInfo'[d][i].addr : i \in ht'[d]}
  BY <1>2, <1>3
<1>5. \A a \in S : mem'[a] = mem[a]
  BY <1>3
<1>6. HeapOf(d) = [a \in S |-> mem[a]] /\ HeapOf(d)' = [a \in S |-> mem'[a]]
  BY <1>3, <1>4 DEF HeapOf
<1> QED
  BY <1>5, <1>6 DEF SameHeap

(* A call is a request of RemotePool.                                          *)
LEMMA RequestIs ==
  ASSUME TypeOK, NEW t \in Thread, call[t].op # "none"
  PROVE  /\ RequestOf(t) = [op |-> call[t].op, addr |-> call[t].addr, val |-> call[t].val]
         /\ RequestOf(t) # NULL /\ RequestOf(t) \in Abstract!Requests
         /\ RequestOf(t).op = call[t].op /\ RequestOf(t).addr = call[t].addr
         /\ RequestOf(t).val = call[t].val
<1>1. call[t] \in Calls
  BY DEF TypeOK
<1>2. RequestOf(t) = [op |-> call[t].op, addr |-> call[t].addr, val |-> call[t].val]
  BY DEF RequestOf
<1>3. /\ call[t].op \in {"malloc", "free", "read", "write"}
      /\ call[t].addr \in Addr \cup {NULL} /\ call[t].val \in Value
  BY <1>1 DEF Calls
<1>4. RequestOf(t) \in Abstract!Requests
  BY <1>2, <1>3 DEF Abstract!Requests
<1>5. RequestOf(t) # NULL
  BY <1>2, <1>3, PoolAssumption
<1> QED
  BY <1>2, <1>4, <1>5

(* The call being served, and how far it is.                                   *)
LEMMA Served ==
  ASSUME CallInv, NEW c \in Client, worker[c].pc # "idle"
  PROVE  LET w == worker[c].work IN
         /\ w \in Thread /\ ClientOf[w] = c /\ Pending(w)
         /\ TookEffect(w) <=> \/ worker[c].pc = "free"
                              \/ worker[c].pc = "read" /\ rd[c] \in {"performed", "done"}
                              \/ worker[c].pc = "write" /\ wr[c] \in {"performed", "done"}
<1>1. worker[c].work \in Thread /\ ClientOf[worker[c].work] = c /\ Pending(worker[c].work)
  BY EntryTypes DEF CallInv, WorkPhase
<1> QED
  BY <1>1 DEF TookEffect, Pending

(* A step of the process c concerns the call it is serving and no other.       *)
LEMMA OthersKeep ==
  ASSUME CallInv, NEW c \in Client, worker[c].pc # "idle",
         \A u \in Thread : u # worker[c].work =>
            /\ call'[u].op = call[u].op /\ call'[u].addr = call[u].addr
            /\ call'[u].val = call[u].val /\ call'[u].done = call[u].done
            /\ call'[u].res = call[u].res,
         \A d \in Client \ {c} : worker'[d] = worker[d] /\ rd'[d] = rd[d] /\ wr'[d] = wr[d],
         worker'[c].pc = "idle" \/ worker'[c].work = worker[c].work
  PROVE  \A u \in Thread \ {worker[c].work} : Same(u)
<1> SUFFICES ASSUME NEW u \in Thread, u # worker[c].work
             PROVE  Same(u)
  OBVIOUS
<1>1. TookEffect(u)' <=> TookEffect(u)
  <2>1. CASE ClientOf[u] = c
    BY <2>1 DEF TookEffect
  <2>2. CASE ClientOf[u] # c
    <3>1. ClientOf[u] \in Client \ {c}
      BY <2>2, PoolAssumption
    <3> QED
      BY <3>1 DEF TookEffect
  <2> QED
    BY <2>1, <2>2
<1> QED
  BY <1>1 DEF Same, RequestOf, AnswerOf

(* The request of the call being served stays.                                 *)
LEMMA ServedRequest ==
  ASSUME CallInv, [Next]_vars, NEW c \in Client, worker[c].pc # "idle",
         NEW w \in Thread, w = worker[c].work
  PROVE  /\ RequestOf(w) # NULL /\ RequestOf(w)' = RequestOf(w)
         /\ RequestOf(w).op = call[w].op /\ RequestOf(w).addr = call[w].addr
         /\ RequestOf(w).val = call[w].val
<1>1. Pending(w)
  BY Served
<1>2. call'[w].op = call[w].op /\ call'[w].addr = call[w].addr /\ call'[w].val = call[w].val
  BY <1>1, PendingStays
<1>3. RequestOf(w)' = RequestOf(w)
  BY <1>2 DEF RequestOf
<1> QED
  BY <1>1, <1>3, RequestIs DEF Pending, CallInv

(* An application thread invokes a call or takes its answer.                   *)
LEMMA AppThreadMaps ==
  ASSUME CallInv, CallInv', EffectInv, NEW t \in Thread, AppThread(t)
  PROVE  Invokes(t) \/ Responds(t)
<1> USE DEF verbVars, serverVars, clientVars
<1>0. /\ call \in [Thread -> Calls] /\ ClientOf[t] \in Client
      /\ UNCHANGED <<worker, ht, rd, wr, mem>>
      /\ \A u \in Thread : u # t => call'[u] = call[u]
      /\ ~Pending(t) /\ (call[t].op = "none" => ~call[t].done)
  <2>1. call \in [Thread -> Calls] /\ ClientOf[t] \in Client
        /\ (call[t].op = "none" => ~call[t].done)
    BY PoolAssumption DEF CallInv, TypeOK, EffectInv, CallResult
  <2> QED
    BY <2>1, Zenon DEF AppThread, CallMalloc, CallFree, CallRead, CallWrite, Return, Submit, Pending
<1>1. worker[ClientOf[t]].pc # "idle" => worker[ClientOf[t]].work # t
  BY <1>0, Served
<1>2. (TookEffect(t) <=> call[t].done) /\ (TookEffect(t)' <=> call'[t].done)
  BY <1>0, <1>1 DEF TookEffect
<1>3. \A u \in Thread \ {t} : Same(u)
  <2>1. \A u \in Thread \ {t} : TookEffect(u)' <=> TookEffect(u)
    BY <1>0 DEF TookEffect
  <2> QED
    BY <1>0, <2>1 DEF Same, RequestOf, AnswerOf
<1>4. \A d \in Client : SameHeap(d)
  <2>1. Next
    BY DEF Next
  <2> QED
    BY <1>0, <2>1, HeapStays
<1>5. CASE Return(t)
  <2>1. call[t].done /\ call'[t] = NoCall
    BY <1>0, <1>5 DEF Return
  <2>2. AnswerOf(t) # Abstract!NoAnswer /\ AnswerOf(t)' = Abstract!NoAnswer /\ RequestOf(t)' = NULL
    BY <1>2, <2>1 DEF AnswerOf, RequestOf, NoCall, Abstract!NoAnswer
  <2> QED
    BY <1>3, <1>4, <2>2 DEF Responds
<1>6. CASE ~Return(t)
  <2>1. /\ call[t].op = "none" /\ ~call'[t].done /\ call'[t].op # "none"
    <3>1. ASSUME NEW w, ~w.done, w.op # "none", Submit(t, w)
          PROVE  call[t].op = "none" /\ ~call'[t].done /\ call'[t].op # "none"
      BY <1>0, <3>1 DEF Submit
    <3>2. ASSUME NEW len \in Size, CallMalloc(t, len)
          PROVE  call[t].op = "none" /\ ~call'[t].done /\ call'[t].op # "none"
      <4>1. PICK i : Submit(t, [NoCall EXCEPT !.op = "malloc", !.info = i, !.len = len])
        BY <3>2, Zenon DEF CallMalloc
      <4>2. PICK w : w = [NoCall EXCEPT !.op = "malloc", !.info = i, !.len = len]
        OBVIOUS
      <4>3. ~w.done /\ w.op = "malloc"
        BY <4>2 DEF NoCall
      <4> QED
        BY <3>1, <4>1, <4>2, <4>3
    <3>3. ASSUME NEW x \in Addr, NEW op \in {"free", "read"},
                 Submit(t, [NoCall EXCEPT !.op = op, !.addr = x])
          PROVE  call[t].op = "none" /\ ~call'[t].done /\ call'[t].op # "none"
      <4>2. PICK w : w = [NoCall EXCEPT !.op = op, !.addr = x]
        OBVIOUS
      <4>3. ~w.done /\ w.op = op
        BY <4>2 DEF NoCall
      <4> QED
        BY <3>1, <3>3, <4>2, <4>3
    <3>4. ASSUME NEW x \in Addr, NEW v \in Value, CallWrite(t, x, v)
          PROVE  call[t].op = "none" /\ ~call'[t].done /\ call'[t].op # "none"
      <4>2. PICK w : w = [NoCall EXCEPT !.op = "write", !.addr = x, !.val = v]
        OBVIOUS
      <4>3. ~w.done /\ w.op = "write"
        BY <4>2 DEF NoCall
      <4> QED
        BY <3>1, <3>4, <4>2, <4>3 DEF CallWrite
    <3> QED
      BY <1>6, <3>2, <3>3, <3>4, Zenon DEF AppThread, CallFree, CallRead
  <2>2. RequestOf(t) = NULL
    BY <2>1 DEF RequestOf
  <2>3. RequestOf(t)' \in Abstract!Requests
    <3>1. call'[t].op # "none" /\ TypeOK'
      BY <2>1 DEF CallInv
    <3>2. /\ RequestOf(t)' = [op |-> call'[t].op, addr |-> call'[t].addr, val |-> call'[t].val]
          /\ call'[t] \in Calls
      BY <3>1 DEF RequestOf, TypeOK
    <3>3. /\ call'[t].op \in {"malloc", "free", "read", "write"}
          /\ call'[t].addr \in Addr \cup {NULL} /\ call'[t].val \in Value
      BY <3>1, <3>2 DEF Calls
    <3> QED
      BY <3>2, <3>3 DEF Abstract!Requests
  <2>4. AnswerOf(t)' = AnswerOf(t)
    BY <1>0, <1>2, <2>1 DEF AnswerOf
  <2> QED
    BY <1>3, <1>4, <2>2, <2>3, <2>4 DEF Invokes
<1> QED
  BY <1>5, <1>6

(* The work thread finishes its work with a result.                            *)
LEMMA FinishedKeeps ==
  ASSUME CallInv, [Next]_vars, NEW c \in Client, worker[c].pc # "idle",
         NEW w \in Thread, w = worker[c].work, NEW r, FinishWork(c, r),
         \A d \in Client \ {c} : rd'[d] = rd[d] /\ wr'[d] = wr[d]
  PROVE  /\ \A u \in Thread \ {w} : Same(u)
         /\ TookEffect(w)' /\ AnswerOf(w)' = Abstract!Answer(r)
<1>0. call \in [Thread -> Calls] /\ worker \in [Client -> Workers]
  BY DEF CallInv, TypeOK
<1>1. /\ \A u \in Thread : u # w => call'[u] = call[u]
      /\ \A d \in Client \ {c} : worker'[d] = worker[d]
      /\ worker'[c].pc = "idle"
  BY <1>0 DEF FinishWork, IdleWorker
<1>2. \A u \in Thread \ {w} : Same(u)
  BY <1>1, OthersKeep
<1>3. call'[w].done /\ call'[w].res = r
  BY <1>0 DEF FinishWork, Calls
<1>4. TookEffect(w)'
  BY <1>3 DEF TookEffect
<1> QED
  BY <1>2, <1>3, <1>4 DEF AnswerOf, Abstract!Answer

(* A call that has not taken effect is unanswered.                             *)
LEMMA Unanswered ==
  ASSUME NEW w \in Thread, ~TookEffect(w)
  PROVE  AnswerOf(w) = Abstract!NoAnswer
BY DEF AnswerOf, Abstract!NoAnswer

(* The work thread starts to wait: only a free takes effect there.             *)
LEMMA AwaitKeeps ==
  ASSUME CallInv, [Next]_vars, NEW c \in Client, worker[c].pc = "start",
         NEW w \in Thread, w = worker[c].work, NEW pc, NEW i, Await(c, pc, i), call' = call,
         \A d \in Client \ {c} : rd'[d] = rd[d] /\ wr'[d] = wr[d]
  PROVE  /\ \A u \in Thread \ {w} : Same(u)
         /\ worker'[c].pc = pc /\ worker'[c].work = w
         /\ ~TookEffect(w) /\ ClientOf[w] = c /\ Pending(w)
         /\ TookEffect(w)' <=> \/ pc = "free"
                               \/ pc = "read" /\ rd'[c] \in {"performed", "done"}
                               \/ pc = "write" /\ wr'[c] \in {"performed", "done"}
<1>0. worker \in [Client -> Workers]
  BY DEF CallInv, TypeOK
<1>1. /\ \A d \in Client \ {c} : worker'[d] = worker[d]
      /\ worker'[c] = [worker[c] EXCEPT !.pc = pc, !.info = i] /\ worker[c] \in Workers
  BY <1>0 DEF Await
<1>2. worker'[c].pc = pc /\ worker'[c].work = w
  BY <1>1 DEF Workers
<1>3. \A u \in Thread \ {w} : Same(u)
  BY <1>1, <1>2, OthersKeep
<1>4. ~TookEffect(w) /\ ClientOf[w] = c /\ Pending(w)
  BY Served
<1>5. TookEffect(w)' <=> /\ pc # "idle"
                         /\ \/ pc = "free"
                            \/ pc = "read" /\ rd'[c] \in {"performed", "done"}
                            \/ pc = "write" /\ wr'[c] \in {"performed", "done"}
  BY <1>2, <1>4 DEF TookEffect, Pending
<1> QED
  BY <1>2, <1>3, <1>4, <1>5

(* The work thread lets a malloc take effect when it links the entry, a free   *)
(* when it unlinks it, and a call on an unknown address when its lookup fails. *)
LEMMA WorkThreadMaps ==
  ASSUME CallInv, RegionInv, EffectInv, NEW c \in Client, WorkThread(c)
  PROVE  Stutter \/ \E w \in Thread : Mallocs(w) \/ Frees(w) \/ Reads(w) \/ Writes(w)
<1> USE DEF verbVars, serverVars, clientVars
<1>n. Next
  BY DEF Next
<1>0. /\ call \in [Thread -> Calls] /\ worker \in [Client -> Workers] /\ mem' = mem
      /\ ht \in [Client -> SUBSET Info]
      /\ rd \in [Client -> Verb] /\ wr \in [Client -> Verb]
  <2>1. mem' = mem
    BY DEF WorkThread, TakeWork, AddrNotFound, MallocSend, MallocFinish, FreeSend,
           FreeFinish, ReadPost, ReadFinish, WritePost, WriteFinish
  <2> QED
    BY <2>1 DEF CallInv, TypeOK
<1>1. \A d \in Client : ht'[d] = ht[d] => SameHeap(d)
  BY <1>n, <1>0, HeapStays
<1>2. ASSUME worker[c].pc # "idle"
      PROVE  \E w \in Thread : /\ w = worker[c].work /\ ClientOf[w] = c /\ Pending(w)
                               /\ RequestOf(w) # NULL /\ RequestOf(w)' = RequestOf(w)
                               /\ RequestOf(w).op = call[w].op /\ RequestOf(w).addr = call[w].addr
  <2>1. PICK w \in Thread : w = worker[c].work
    BY <1>2, Served
  <2>2. ClientOf[w] = c /\ Pending(w)
    BY <1>2, <2>1, Served
  <2> QED
    BY <1>n, <1>2, <2>1, <2>2, ServedRequest
<1>3. CASE TakeWork(c)
  <2>1. call' = call /\ rd' = rd /\ wr' = wr /\ ht' = ht
    BY <1>3 DEF TakeWork
  <2>2. \A u \in Thread : TookEffect(u)' <=> TookEffect(u)
    <3>1. /\ \A d \in Client : d # c => worker'[d] = worker[d]
          /\ worker[c].pc = "idle" /\ worker'[c].pc = "start"
      BY <1>0, <1>3 DEF TakeWork
    <3> QED
      BY <2>1, <3>1, PoolAssumption DEF TookEffect
  <2> QED
    BY <1>1, <2>1, <2>2 DEF Stutter, Same, RequestOf, AnswerOf
<1>4. ASSUME MallocSend(c) \/ ReadPost(c) \/ WritePost(c)
      PROVE  Stutter
  <2>1. /\ worker[c].pc = "start" /\ call' = call /\ ht' = ht
        /\ \A d \in Client \ {c} : rd'[d] = rd[d] /\ wr'[d] = wr[d]
    BY <1>0, <1>4 DEF MallocSend, ReadPost, WritePost, Handling
  <2>2. PICK pc, i :
          /\ pc \in {"malloc", "read", "write"} /\ Await(c, pc, i)
          /\ pc = "read" => rd'[c] = "posted"
          /\ pc = "write" => wr'[c] = "posted"
    BY <1>0, <1>4 DEF MallocSend, ReadPost, WritePost
  <2>3. PICK w \in Thread : w = worker[c].work /\ RequestOf(w)' = RequestOf(w)
    BY <1>2, <2>1
  <2>4. /\ \A u \in Thread \ {w} : Same(u)
        /\ ~TookEffect(w) /\ ~TookEffect(w)'
    BY <1>n, <2>1, <2>2, <2>3, AwaitKeeps
  <2>5. Same(w)
    BY <2>3, <2>4 DEF Same, AnswerOf
  <2> QED
    BY <1>1, <2>1, <2>4, <2>5 DEF Stutter
<1>5. ASSUME FreeFinish(c) \/ ReadFinish(c) \/ WriteFinish(c)
      PROVE  Stutter
  <2>1. /\ worker[c].pc \in {"free", "read", "write"} /\ ht' = ht
        /\ worker[c].pc = "read" => rd[c] = "done"
        /\ worker[c].pc = "write" => wr[c] = "done"
        /\ \A d \in Client \ {c} : rd'[d] = rd[d] /\ wr'[d] = wr[d]
    BY <1>0, <1>5 DEF FreeFinish, ReadFinish, WriteFinish
  <2>2. PICK w \in Thread : w = worker[c].work /\ RequestOf(w)' = RequestOf(w)
    BY <1>2, <2>1
  <2>3. TookEffect(w) /\ Pending(w)
    BY <2>1, <2>2, Served
  <2>4. FinishWork(c, call[w].res)
    <3>1. worker[c].pc # "read" => call[w].res = NULL
      BY <2>1, <2>2, <2>3 DEF CallInv, WorkPhase, EffectInv, CallResult, Pending
    <3> QED
      BY <1>5, <2>1, <2>2, <3>1 DEF FreeFinish, ReadFinish, WriteFinish
  <2>5. PICK r : r = call[w].res
    OBVIOUS
  <2>6. (\A u \in Thread \ {w} : Same(u)) /\ AnswerOf(w)' = Abstract!Answer(r)
    BY <1>n, <2>1, <2>2, <2>4, <2>5, FinishedKeeps
  <2>7. AnswerOf(w) = Abstract!Answer(r)
    BY <2>3, <2>5 DEF AnswerOf, Abstract!Answer
  <2> QED
    BY <1>1, <2>1, <2>2, <2>6, <2>7 DEF Stutter, Same
<1>6. CASE AddrNotFound(c)
  <2>1. /\ worker[c].pc = "start" /\ FinishWork(c, NULL) /\ ht' = ht /\ rd' = rd /\ wr' = wr
        /\ Lookup(c, call[worker[c].work].addr) = {}
        /\ call[worker[c].work].op \in {"free", "read", "write"}
    BY <1>6 DEF AddrNotFound, Handling
  <2>2. PICK w \in Thread : /\ w = worker[c].work /\ ClientOf[w] = c
                            /\ RequestOf(w) # NULL /\ RequestOf(w)' = RequestOf(w)
                            /\ RequestOf(w).op = call[w].op /\ RequestOf(w).addr = call[w].addr
    BY <1>2, <2>1
  <2>3. (\A u \in Thread \ {w} : Same(u)) /\ AnswerOf(w)' = Abstract!Answer(NULL)
    BY <1>n, <2>1, <2>2, FinishedKeeps
  <2>4. AnswerOf(w) = Abstract!NoAnswer
    BY <2>1, <2>2, Served, Unanswered
  <2>5. Takes(w, call[w].op, NULL)
    BY <1>1, <2>1, <2>2, <2>3, <2>4 DEF Takes
  <2>6. HeapOf(c)' = HeapOf(c)
    BY <1>1, <2>1 DEF SameHeap
  <2>7. RequestOf(w).addr \notin DOMAIN HeapOf(c)
    BY <2>1, <2>2 DEF Lookup, HeapOf
  <2>8. PICK h : h = HeapOf(c) /\ h = [b \in DOMAIN h |-> h[b]]
    BY DEF HeapOf
  <2>9. CASE call[w].op = "free"
    <3>1. h = [b \in DOMAIN h \ {RequestOf(w).addr} |-> h[b]]
      BY <2>7, <2>8
    <3>2. HeapOf(c)' = [b \in DOMAIN HeapOf(c) \ {RequestOf(w).addr} |-> HeapOf(c)[b]]
      BY <2>6, <2>8, <3>1
    <3>3. Takes(w, "free", NULL)
      BY <2>5, <2>9
    <3>4. Frees(w)
      BY <2>2, <3>2, <3>3 DEF Frees
    <3> QED
      BY <3>4
  <2>10. CASE call[w].op = "read"
    BY <2>2, <2>5, <2>6, <2>7, <2>10 DEF Reads, SameHeap
  <2>11. CASE call[w].op = "write"
    <3>1. h = [b \in DOMAIN h |-> IF b = RequestOf(w).addr THEN RequestOf(w).val ELSE h[b]]
      BY <2>7, <2>8
    <3> QED
      BY <2>2, <2>5, <2>6, <2>8, <2>11, <3>1 DEF Writes
  <2> QED
    BY <2>1, <2>2, <2>9, <2>10, <2>11
<1>7. CASE MallocFinish(c)
  <2>1. /\ worker[c].pc = "malloc" /\ call[worker[c].work].recv /\ rd' = rd /\ wr' = wr
        /\ FinishWork(c, Target(c))
    BY <1>7 DEF MallocFinish, Target
  <2>2. PICK w \in Thread : /\ w = worker[c].work /\ ClientOf[w] = c /\ Pending(w)
                            /\ RequestOf(w) # NULL /\ RequestOf(w)' = RequestOf(w)
                            /\ RequestOf(w).op = call[w].op
    BY <1>2, <2>1
  <2>3. PICK i, a : i \in Info /\ i = worker[c].info /\ a = addrInfo[c][i].addr
    BY <2>1, EntryTypes DEF CallInv
  <2>4. Holds(c, i)
    BY <2>1, <2>3 DEF Holds
  <2>5. a \in Addr /\ a # NULL /\ a = Target(c) /\ mem[a] = Zero
    <3>1. a \in areaList
      BY <2>3, <2>4 DEF RegionInv
    <3> QED
      BY <2>1, <2>3, <3>1, PoolAssumption DEF CallInv, TypeOK, EffectInv, FreshRegion, Target
  <2>6. (\A u \in Thread \ {w} : Same(u)) /\ AnswerOf(w)' = Abstract!Answer(a)
    BY <1>n, <2>1, <2>2, <2>5, FinishedKeeps
  <2>7. AnswerOf(w) = Abstract!NoAnswer
    BY <2>1, <2>2, Served, Unanswered
  <2>8. ht' = [ht EXCEPT ![c] = ht[c] \cup {i}]
    BY <1>7, <2>3, <2>5 DEF MallocFinish
  <2>9. call[w].op = "malloc"
    BY <2>1, <2>2 DEF CallInv, WorkPhase
  <2>10. Takes(w, "malloc", a)
    BY <1>0, <1>1, <2>2, <2>6, <2>7, <2>8, <2>9 DEF Takes
  <2>11. \A d \in Client : a \notin DOMAIN HeapOf(d)
    <3> SUFFICES ASSUME NEW d \in Client, NEW j \in ht[d], addrInfo[d][j].addr = a
                 PROVE  FALSE
      BY DEF HeapOf
    <3>1. j \in Info /\ Holds(d, j)
      BY <1>0 DEF Holds
    <3>2. d = c /\ j = i
      BY <2>3, <2>4, <3>1 DEF RegionInv
    <3>3. ~ (i \in ht[c])
      <4>1. PendingMalloc(w) /\ call[w].info = i
        BY <2>1, <2>2, <2>3, <2>9 DEF Pending, PendingMalloc, CallInv, EntryPhase, WorkerEntry
      <4> QED
        BY <2>2, <4>1 DEF CallInv, EntryPhase, MallocsApart
    <3> QED
      BY <3>2, <3>3
  <2>12. HeapOf(c)' = [b \in DOMAIN HeapOf(c) \cup {a} |-> IF b = a THEN Zero ELSE HeapOf(c)[b]]
    <3>1. PICK S : S = {addrInfo[c][j].addr : j \in ht[c]}
      OBVIOUS
    <3>2. \A j \in ht[c] \cup {i} : addrInfo'[c][j].addr = addrInfo[c][j].addr
      BY <1>0, <1>n, <2>1, <2>3, LinkedAddrStays
    <3>3. {addrInfo'[c][j].addr : j \in ht'[c]} = S \cup {a}
      BY <1>0, <2>3, <2>8, <3>1, <3>2
    <3>4. HeapOf(c)' = [b \in S \cup {a} |-> mem[b]] /\ HeapOf(c) = [b \in S |-> mem[b]]
      BY <1>0, <3>1, <3>3 DEF HeapOf
    <3> QED
      BY <2>5, <3>4
  <2>13. Mallocs(w)
    BY <2>2, <2>5, <2>10, <2>11, <2>12 DEF Mallocs
  <2> QED
    BY <2>13
<1>8. CASE FreeSend(c)
  <2>1. /\ worker[c].pc = "start" /\ call' = call /\ rd' = rd /\ wr' = wr
        /\ call[worker[c].work].op = "free"
    BY <1>8 DEF FreeSend, Handling
  <2>2. PICK i \in ht[c] : /\ addrInfo[c][i].addr = call[worker[c].work].addr
                           /\ ht' = [ht EXCEPT ![c] = ht[c] \ {i}]
                           /\ Await(c, "free", i) /\ addrInfo' = addrInfo
    BY <1>8 DEF FreeSend, Lookup
  <2>3. PICK w \in Thread : /\ w = worker[c].work /\ ClientOf[w] = c /\ Pending(w)
                            /\ RequestOf(w) # NULL /\ RequestOf(w)' = RequestOf(w)
                            /\ RequestOf(w).op = call[w].op /\ RequestOf(w).addr = call[w].addr
    BY <1>2, <2>1
  <2>4. /\ \A u \in Thread \ {w} : Same(u)
        /\ ~TookEffect(w) /\ TookEffect(w)'
    BY <1>n, <2>1, <2>2, <2>3, AwaitKeeps
  <2>5. call'[w].res = NULL
    BY <2>1, <2>3 DEF Pending, EffectInv, CallResult
  <2>6. AnswerOf(w) = Abstract!NoAnswer /\ AnswerOf(w)' = Abstract!Answer(NULL)
    BY <2>4, <2>5, Unanswered DEF AnswerOf, Abstract!Answer
  <2>7. Takes(w, "free", NULL)
    BY <1>0, <1>1, <2>1, <2>2, <2>3, <2>4, <2>6 DEF Takes
  <2>8. HeapOf(c)' = [b \in DOMAIN HeapOf(c) \ {RequestOf(w).addr} |-> HeapOf(c)[b]]
    <3>1. PICK S, a : S = {addrInfo[c][j].addr : j \in ht[c]} /\ a = addrInfo[c][i].addr
      OBVIOUS
    <3>2. \A j \in ht[c] : addrInfo[c][j].addr = a => j = i
      <4>1. \A j \in ht[c] : j \in Info /\ Holds(c, j)
        BY <1>0 DEF Holds
      <4> QED
        BY <3>1, <4>1 DEF RegionInv
    <3>3. {addrInfo'[c][j].addr : j \in ht'[c]} = S \ {a}
      BY <1>0, <2>2, <3>1, <3>2
    <3>4. HeapOf(c)' = [b \in S \ {a} |-> mem[b]] /\ HeapOf(c) = [b \in S |-> mem[b]]
      BY <1>0, <3>1, <3>3 DEF HeapOf
    <3>5. RequestOf(w).addr = a
      BY <2>2, <2>3, <3>1
    <3> QED
      BY <3>4, <3>5
  <2>9. Frees(w)
    BY <2>3, <2>7, <2>8 DEF Frees
  <2> QED
    BY <2>9
<1> QED
  BY <1>3, <1>4, <1>5, <1>6, <1>7, <1>8 DEF WorkThread

(* The adapter lets a read or a write take effect when it performs the verb.   *)
LEMMA AdapterMaps ==
  ASSUME CallInv, RegionInv, EffectInv, NEW c \in Client, Adapter(c)
  PROVE  Stutter \/ \E w \in Thread : Mallocs(w) \/ Frees(w) \/ Reads(w) \/ Writes(w)
<1> USE DEF verbVars, serverVars, clientVars
<1>n. Next
  BY DEF Next
<1>0. /\ call \in [Thread -> Calls] /\ worker \in [Client -> Workers]
      /\ ht \in [Client -> SUBSET Info] /\ mem \in [Addr -> Value] /\ areaList \subseteq Addr
      /\ rd \in [Client -> Verb] /\ wr \in [Client -> Verb]
      /\ worker' = worker /\ ht' = ht /\ addrInfo' = addrInfo
  <2>1. worker' = worker /\ ht' = ht /\ addrInfo' = addrInfo
    BY DEF Adapter, PerformWrite, PerformRead
  <2> QED
    BY <2>1 DEF CallInv, TypeOK
<1>1. /\ worker[c].pc \in {"read", "write"} /\ worker[c].info \in Info
      /\ worker[c].info \in ht[c] /\ Target(c) = call[worker[c].work].addr
  <2>1. worker[c].pc \in {"read", "write"}
    BY DEF Adapter, PerformWrite, PerformRead, CallInv, VerbPhase
  <2> QED
    BY <2>1, EntryTypes DEF CallInv, EntryPhase, WorkerEntry, EffectInv, VerbTarget
<1>2. PICK w \in Thread : /\ w = worker[c].work /\ ClientOf[w] = c /\ Pending(w)
                          /\ call[w].op = worker[c].pc
  BY <1>1, Served DEF CallInv, WorkPhase
<1>3. /\ RequestOf(w) # NULL /\ RequestOf(w)' = RequestOf(w) /\ RequestOf(w).op = call[w].op
      /\ RequestOf(w).addr = call[w].addr /\ RequestOf(w).val = call[w].val
  BY <1>n, <1>1, <1>2, ServedRequest
<1>4. PICK a : a = Target(c) /\ a = RequestOf(w).addr /\ a \in DOMAIN HeapOf(c)
  BY <1>1, <1>2, <1>3 DEF HeapOf, Target
<1>5. \A d \in Client : mem' = mem => SameHeap(d)
  BY <1>n, <1>0, HeapStays
<1>6. TookEffect(w)' <=> \/ call'[w].done
                         \/ worker[c].pc = "read" /\ rd'[c] \in {"performed", "done"}
                         \/ worker[c].pc = "write" /\ wr'[c] \in {"performed", "done"}
  BY <1>0, <1>1, <1>2 DEF TookEffect
<1>7. TookEffect(w) <=> \/ worker[c].pc = "read" /\ rd[c] \in {"performed", "done"}
                        \/ worker[c].pc = "write" /\ wr[c] \in {"performed", "done"}
  BY <1>1, <1>2, Served
<1>8. CASE PerformWrite(c)
  <2>1. /\ wr[c] = "posted" /\ worker[c].pc = "write" /\ call' = call /\ rd' = rd
        /\ \A d \in Client \ {c} : wr'[d] = wr[d]
    BY <1>0, <1>8 DEF PerformWrite, CallInv, VerbPhase
  <2>2. \A u \in Thread \ {w} : Same(u)
    BY <1>0, <1>1, <1>2, <2>1, OthersKeep
  <2>3. CASE Reachable(Target(c))
    <3>1. /\ mem' = [mem EXCEPT ![a] = call[w].val] /\ wr'[c] = "performed"
          /\ a \in Addr
      BY <1>0, <1>2, <1>4, <1>8, <2>3 DEF PerformWrite, Reachable
    <3>2. ~TookEffect(w) /\ TookEffect(w)'
      BY <1>6, <1>7, <2>1, <3>1
    <3>3. AnswerOf(w) = Abstract!NoAnswer /\ AnswerOf(w)' = Abstract!Answer(NULL)
      <4>1. call'[w].res = NULL
        BY <1>2, <2>1 DEF Pending, EffectInv, CallResult
      <4> QED
        BY <3>2, <4>1, Unanswered DEF AnswerOf, Abstract!Answer
    <3>4. \A d \in Client \ {c} : SameHeap(d)
      <4>1. PICK i \in Info : i = worker[c].info /\ Holds(c, i) /\ addrInfo[c][i].addr = a
        BY <1>1, <1>4 DEF Holds, Target
      <4>2. ASSUME NEW d \in Client \ {c}, NEW j \in ht[d]
            PROVE  mem'[addrInfo[d][j].addr] = mem[addrInfo[d][j].addr]
        <5>1. j \in Info /\ Holds(d, j)
          BY <1>0 DEF Holds
        <5>2. addrInfo[d][j].addr # a /\ addrInfo[d][j].addr \in Addr
          BY <1>0, <4>1, <5>1 DEF RegionInv
        <5> QED
          BY <1>0, <3>1, <5>2
      <4> QED
        BY <1>n, <1>0, <4>2, HeapStays
    <3>5. HeapOf(c)' = [b \in DOMAIN HeapOf(c) |-> IF b = RequestOf(w).addr THEN RequestOf(w).val
                                                   ELSE HeapOf(c)[b]]
      <4>1. PICK S : S = {addrInfo[c][j].addr : j \in ht[c]}
        OBVIOUS
      <4>2. \A b \in S : b \in Addr
        <5> SUFFICES ASSUME NEW j \in ht[c]
                     PROVE  addrInfo[c][j].addr \in Addr
          BY <4>1
        <5>1. j \in Info /\ Holds(c, j)
          BY <1>0 DEF Holds
        <5> QED
          BY <1>0, <5>1 DEF RegionInv
      <4>3. HeapOf(c) = [b \in S |-> mem[b]] /\ HeapOf(c)' = [b \in S |-> mem'[b]]
        BY <1>0, <4>1 DEF HeapOf
      <4>4. \A b \in S : mem'[b] = IF b = a THEN call[w].val ELSE mem[b]
        BY <1>0, <3>1, <4>2
      <4> QED
        BY <1>3, <1>4, <4>3, <4>4
    <3>6. Takes(w, "write", NULL)
      BY <1>2, <1>3, <2>1, <2>2, <3>3, <3>4 DEF Takes
    <3>7. Writes(w)
      BY <1>2, <3>5, <3>6 DEF Writes
    <3> QED
      BY <3>7
  <2>4. CASE ~Reachable(Target(c))
    <3>1. mem' = mem /\ wr'[c] = "error"
      BY <1>0, <1>8, <2>4 DEF PerformWrite
    <3>2. ~TookEffect(w) /\ ~TookEffect(w)'
      BY <1>2, <1>6, <1>7, <2>1, <3>1 DEF Pending
    <3>3. Same(w)
      BY <1>3, <3>2 DEF Same, AnswerOf
    <3> QED
      BY <1>5, <2>2, <3>1, <3>3 DEF Stutter
  <2> QED
    BY <2>3, <2>4
<1>9. CASE PerformRead(c)
  <2>1. /\ rd[c] = "posted" /\ wr' = wr /\ mem' = mem
        /\ \A d \in Client \ {c} : rd'[d] = rd[d]
    BY <1>0, <1>9 DEF PerformRead
  <2>2. \A u \in Thread \ {w} : Same(u)
    <3>1. \A u \in Thread : u # w => call'[u] = call[u]
      BY <1>0, <1>2, <1>9 DEF PerformRead
    <3> QED
      BY <1>0, <1>1, <1>2, <2>1, <3>1, OthersKeep
  <2>3. CASE Reachable(Target(c)) /\ worker[c].pc = "read"
    <3>1. call' = [call EXCEPT ![w].res = mem[a]] /\ rd'[c] = "performed"
      BY <1>0, <1>2, <1>4, <1>9, <2>3 DEF PerformRead
    <3>2. ~TookEffect(w) /\ TookEffect(w)'
      BY <1>6, <1>7, <2>1, <2>3, <3>1
    <3>3. call'[w].res = mem[a]
      BY <1>0, <3>1 DEF Calls
    <3>4. AnswerOf(w) = Abstract!NoAnswer /\ AnswerOf(w)' = Abstract!Answer(HeapOf(c)[a])
      <4>1. HeapOf(c)[a] = mem[a]
        BY <1>4 DEF HeapOf
      <4>2. PICK v : v = mem[a] /\ v = HeapOf(c)[a]
        BY <4>1
      <4>3. AnswerOf(w)' = Abstract!Answer(v)
        BY <3>2, <3>3, <4>2 DEF AnswerOf, Abstract!Answer
      <4> QED
        BY <3>2, <4>2, <4>3, Unanswered
    <3>5. Takes(w, "read", HeapOf(c)[a])
      BY <1>2, <1>3, <1>5, <2>1, <2>2, <2>3, <3>4 DEF Takes
    <3>6. Reads(w)
      BY <1>2, <1>4, <1>5, <2>1, <3>5 DEF Reads
    <3> QED
      BY <3>6
  <2>4. CASE ~(Reachable(Target(c)) /\ worker[c].pc = "read")
    <3>1. call' = call /\ (worker[c].pc = "read" => rd'[c] = "error")
      BY <1>0, <1>9, <2>4 DEF PerformRead
    <3>2. TookEffect(w)' <=> TookEffect(w)
      BY <1>2, <1>6, <1>7, <2>1, <3>1 DEF Pending
    <3>3. Same(w)
      BY <1>3, <3>1, <3>2 DEF Same, AnswerOf
    <3> QED
      BY <1>5, <2>1, <2>2, <3>3 DEF Stutter
  <2> QED
    BY <2>3, <2>4
<1> QED
  BY <1>8, <1>9 DEF Adapter

(* The completions, the messages and the server change nothing that a caller   *)
(* could see.                                                                  *)
LEMMA EpollMaps ==
  ASSUME CallInv, RegionInv, EffectInv, NEW c \in Client, ClientEpoll(c) \/ ServerEpoll(c)
  PROVE  Stutter
<1> USE DEF verbVars, serverVars, clientVars
<1>n. Next
  BY DEF Next
<1>0. call \in [Thread -> Calls] /\ rd \in [Client -> Verb] /\ wr \in [Client -> Verb]
      /\ ht \in [Client -> SUBSET Info] /\ areaList \subseteq Addr
  BY DEF CallInv, TypeOK
<1>1. worker' = worker /\ ht' = ht
  BY Zenon DEF ClientEpoll, CompleteWrite, CompleteRead, OnMallocResponse, OnMallocError,
         OnFreeResponse, ServerEpoll, OnMallocRequest, OnFreeRequest
<1>2. \A u \in Thread : /\ call'[u].op = call[u].op /\ call'[u].addr = call[u].addr
                        /\ call'[u].val = call[u].val /\ call'[u].done = call[u].done
                        /\ call'[u].res = call[u].res
  <2>1. CASE call' = call
    BY <2>1
  <2>2. ASSUME NEW t, call' = [call EXCEPT ![t].recv = TRUE]
        PROVE  \A u \in Thread : /\ call'[u].op = call[u].op /\ call'[u].addr = call[u].addr
                                 /\ call'[u].val = call[u].val /\ call'[u].done = call[u].done
                                 /\ call'[u].res = call[u].res
    <3>1. \A u \in Thread : call'[u] = call[u] \/ call'[u] = [call[u] EXCEPT !.recv = TRUE]
      BY <1>0, <2>2, Zenon
    <3>2. \A u \in Thread : call[u] \in Calls
      BY <1>0
    <3> QED
      BY <3>1, <3>2, Zenon DEF Calls
  <2>3. call' = call \/ \E t : call' = [call EXCEPT ![t].recv = TRUE]
    BY Zenon DEF ClientEpoll, CompleteWrite, CompleteRead, OnMallocResponse, OnMallocError,
           OnFreeResponse, ServerEpoll, OnMallocRequest, OnFreeRequest
  <2> QED
    BY <2>1, <2>2, <2>3
<1>3. \A d \in Client : /\ wr'[d] \in {"performed", "done"} <=> wr[d] \in {"performed", "done"}
                        /\ rd'[d] \in {"performed", "done"} <=> rd[d] \in {"performed", "done"}
  <2>1. CASE CompleteWrite(c)
    BY <1>0, <2>1 DEF CompleteWrite
  <2>2. CASE CompleteRead(c)
    BY <1>0, <2>2 DEF CompleteRead
  <2>3. (wr' = wr /\ rd' = rd) \/ CompleteWrite(c) \/ CompleteRead(c)
    BY Zenon DEF ClientEpoll, OnMallocResponse, OnMallocError,
           OnFreeResponse, ServerEpoll, OnMallocRequest, OnFreeRequest
  <2> QED
    BY <2>1, <2>2, <2>3
<1>4. \A u \in Thread : TookEffect(u)' <=> TookEffect(u)
  BY <1>1, <1>2, <1>3, PoolAssumption DEF TookEffect
<1>5. \A u \in Thread : Same(u)
  BY <1>2, <1>4 DEF Same, RequestOf, AnswerOf
<1>6. \A d \in Client : SameHeap(d)
  <2> SUFFICES ASSUME NEW d \in Client
               PROVE  SameHeap(d)
    OBVIOUS
  <2>1. ASSUME NEW j \in ht[d]
        PROVE  mem'[addrInfo[d][j].addr] = mem[addrInfo[d][j].addr]
    <3>1. j \in Info /\ Holds(d, j)
      BY <1>0 DEF Holds
    <3>2. addrInfo[d][j].addr \in areaList
      BY <3>1 DEF RegionInv
    <3>3. ~\E e \in Client : PerformWrite(e)
      <4> SUFFICES ASSUME NEW e \in Client, PerformWrite(e)
                   PROVE  FALSE
        OBVIOUS
      <4>1. wr[e] = "posted" /\ wr'[e] # "posted" /\ msgs' = msgs /\ rd' = rd
        BY <1>0 DEF PerformWrite
      <4>2. wr'[e] = "performed" \/ wr'[e] = "error"
        BY <1>0 DEF PerformWrite
      <4>3. CASE CompleteWrite(c)
        BY <1>0, <4>1, <4>2, <4>3 DEF CompleteWrite
      <4> QED
        BY <4>1, <4>3, Zenon DEF ClientEpoll, CompleteRead, OnMallocResponse, OnMallocError,
           OnFreeResponse, ServerEpoll, OnMallocRequest, OnFreeRequest
    <3> QED
      BY <1>n, <3>2, <3>3, MemStays
  <2> QED
    BY <1>n, <1>1, <2>1, HeapStays
<1> QED
  BY <1>5, <1>6 DEF Stutter

(* The initial states.                                                         *)
LEMMA InitMaps == Init => Abstract!Init
<1> SUFFICES ASSUME Init
             PROVE  Abstract!Init
  OBVIOUS
<1>1. \A t \in Thread : RequestOf(t) = NULL /\ AnswerOf(t) = Abstract!NoAnswer
  <2>1. \A t \in Thread : ~TookEffect(t)
    BY PoolAssumption DEF Init, TookEffect, NoCall, IdleWorker
  <2> QED
    BY <2>1 DEF Init, RequestOf, AnswerOf, NoCall, Abstract!NoAnswer
<1>2. \A c \in Client : HeapOf(c) = [a \in {} |-> Zero]
  BY DEF Init, HeapOf
<1> QED
  BY <1>1, <1>2 DEF Abstract!Init

(* As long as no length exceeds SINGLE_AREA_SIZE, the pool implements          *)
(* RemotePool, for any number of clients, threads, entries and areas: every    *)
(* interleaving of the threads, the adapters and the server is one in which    *)
(* each call takes effect at once, between its invocation and its return.      *)
THEOREM PoolImplementsRemotePool ==
  ASSUME SizesServed
  PROVE  Spec => ImplementsRemotePool
<1>1. Init => Abstract!Init /\ EffectInv
  <2>1. Init => EffectInv
    BY DEF Init, EffectInv, CallResult, VerbTarget, FreshRegion, Answers, NoCall, IdleWorker
  <2> QED
    BY <2>1, InitMaps
<1>2. CallInv /\ RegionInv /\ EffectInv /\ [Next]_vars => EffectInv'
  BY NextEffect
<1>3. ASSUME CallInv, CallInv', RegionInv, EffectInv, [Next]_vars
      PROVE  [Abstract!Next]_(Abstract!poolVars)
  <2>1. ASSUME NEW t \in Thread, AppThread(t)
        PROVE  Abstract!Next
    BY <1>3, <2>1, AppThreadMaps, InvokeMaps, RespondMaps
  <2>2. CASE Stutter
    BY <2>2, StutterMaps
  <2>3. ASSUME NEW w \in Thread, Mallocs(w) \/ Frees(w) \/ Reads(w) \/ Writes(w)
        PROVE  Abstract!Next
    BY <2>3, TakeMaps
  <2>4. CASE UNCHANGED vars
    <3>1. Stutter
      BY <2>4 DEF Stutter, Same, SameHeap, vars, clientVars, serverVars, verbVars,
                  RequestOf, AnswerOf, TookEffect, HeapOf
    <3> QED
      BY <3>1, <2>2
  <2>5. ASSUME NEW c \in Client, WorkThread(c) \/ Adapter(c) \/ ClientEpoll(c) \/ ServerEpoll(c)
        PROVE  [Abstract!Next]_(Abstract!poolVars)
    BY <1>3, <2>2, <2>3, <2>5, WorkThreadMaps, AdapterMaps, EpollMaps
  <2> QED
    BY <1>3, <2>1, <2>4, <2>5 DEF Next
<1> QED
  BY <1>1, <1>2, <1>3, RegionsAgree, PTL DEF Spec, ImplementsRemotePool, Abstract!Spec
=================================================================================
