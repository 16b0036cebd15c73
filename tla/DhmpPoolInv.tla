----------------------------- MODULE DhmpPoolInv ------------------------------
(***************************************************************************)
(* The inductive invariant behind the safety properties of DhmpPool. The   *)
(* work thread of a client serves one work at a time and waits for its     *)
(* answer, so its pc decides what may be in flight for the client: this is *)
(* what ties the verbs, the messages, the entries and the areas together.  *)
(***************************************************************************)
EXTENDS DhmpPool

(* A verb is on the queue pair only while the work thread waits for it. *)
VerbPhase ==
  \A c \in Client :
    /\ wr[c] # "none" => worker[c].pc = "write"
    /\ rd[c] # "none" => worker[c].pc \in {"read", "write"}

(* A work in the list is pending, is there once, and is the one the work   *)
(* thread is on for at most one of the two places.                         *)
Pending(t) == call[t].op # "none" /\ ~call[t].done

WorkPhase ==
  \A c \in Client :
    /\ \A k \in 1..Len(workList[c]) :
         /\ ClientOf[workList[c][k]] = c
         /\ Pending(workList[c][k])
         /\ ~call[workList[c][k]].recv
         /\ worker[c].pc # "idle" => worker[c].work # workList[c][k]
         /\ \A l \in 1..Len(workList[c]) : workList[c][k] = workList[c][l] => k = l
    /\ worker[c].pc # "idle" =>
         /\ ClientOf[worker[c].work] = c
         /\ Pending(worker[c].work)
         /\ call[worker[c].work].recv => worker[c].pc = "malloc"
         /\ worker[c].pc # "start" => call[worker[c].work].op = worker[c].pc

(* At most one message is in flight for a client, and it belongs to the    *)
(* work and the entry its work thread waits for.                           *)
MessageOK(m) ==
  LET w == worker[m.client] IN
  /\ w.info = m.info
  /\ m.type \in {"MALLOC_REQUEST", "MALLOC_RESPONSE", "MALLOC_ERROR"} =>
       w.pc = "malloc" /\ ~call[w.work].recv
  /\ m.type \in {"MALLOC_REQUEST", "MALLOC_RESPONSE"} => w.work = m.task
  /\ m.type \in {"FREE_REQUEST", "FREE_RESPONSE"} =>
       w.pc = "free" /\ addrInfo[m.client][m.info].addr # NULL
  /\ m.type = "FREE_REQUEST" => m.mr = Mr(m.client, m.info)

MessagePhase ==
  /\ \A m \in msgs : MessageOK(m)
  /\ \A m, n \in msgs : m.client = n.client => m = n

(* An entry is linked, being allocated by one pending malloc, or being     *)
(* freed, never two of these, and it is allocated in each of them.         *)
PendingMalloc(t) == call[t].op = "malloc" /\ ~call[t].done

LinkedLive == \A c \in Client : \A i \in ht[c] : addrInfo[c][i].live

MallocsApart ==
  \A t \in Thread : PendingMalloc(t) =>
    /\ addrInfo[ClientOf[t]][call[t].info].live
    /\ call[t].info \notin ht[ClientOf[t]]
    /\ \A u \in Thread : PendingMalloc(u) /\ ClientOf[u] = ClientOf[t]
                           /\ call[u].info = call[t].info => u = t

WorkerEntry ==
  \A c \in Client :
    /\ worker[c].pc = "malloc" => worker[c].info = call[worker[c].work].info
    /\ worker[c].pc = "free" =>
         /\ addrInfo[c][worker[c].info].live
         /\ worker[c].info \notin ht[c]
         /\ \A t \in Thread : PendingMalloc(t) /\ ClientOf[t] = c =>
              call[t].info # worker[c].info
    /\ worker[c].pc \in {"read", "write"} => worker[c].info \in ht[c]

EntryPhase == LinkedLive /\ MallocsApart /\ WorkerEntry

CallInv == TypeOK /\ VerbPhase /\ WorkPhase /\ MessagePhase /\ EntryPhase

(* The client's own record of a region stands for the region while it is   *)
(* linked, about to be linked, or on its way to the server to be freed; a  *)
(* MALLOC_RESPONSE stands for it before that.                              *)
Holds(c, i) ==
  \/ i \in ht[c]
  \/ worker[c].pc = "malloc" /\ worker[c].info = i /\ call[worker[c].work].recv
  \/ \E m \in msgs : m.type = "FREE_REQUEST" /\ m.client = c /\ m.info = i

Answers == {m \in msgs : m.type = "MALLOC_RESPONSE"}

RegionInv ==
  /\ \A c \in Client, i \in Info : Holds(c, i) =>
       /\ addrInfo[c][i].addr \in areaList
       /\ areaLen[addrInfo[c][i].addr] = addrInfo[c][i].len
  /\ \A c, d \in Client, i, j \in Info :
       Holds(c, i) /\ Holds(d, j) /\ addrInfo[c][i].addr = addrInfo[d][j].addr
         => c = d /\ i = j
  /\ \A m \in Answers :
       /\ m.mr.addr \in areaList
       /\ areaLen[m.mr.addr] = m.mr.len
       /\ \A d \in Client, j \in Info : Holds(d, j) => addrInfo[d][j].addr # m.mr.addr
  /\ \A m, n \in Answers : m.mr.addr = n.mr.addr => m = n

(* No application asks for more than the server serves.                    *)
SizesServed == \A s \in Size : s <= SINGLE_AREA_SIZE

(* What the mapping to RemotePool rests on: a thread that is in no call has  *)
(* no answer, and only a READ stores a result before its call is over;       *)
CallResult ==
  \A t \in Thread :
    /\ call[t].op = "none" => ~call[t].done
    /\ ~call[t].done /\ call[t].op # "read" => call[t].res = NULL

(* a verb is aimed at the address its caller named;                          *)
VerbTarget ==
  \A c \in Client : worker[c].pc \in {"read", "write"} =>
    Target(c) = call[worker[c].work].addr

(* and nobody writes to a region between the server's memset and the link    *)
(* in the hash table.                                                        *)
FreshRegion ==
  /\ \A m \in Answers : mem[m.mr.addr] = Zero
  /\ \A c \in Client : worker[c].pc = "malloc" /\ call[worker[c].work].recv =>
       mem[Target(c)] = Zero

EffectInv == CallResult /\ VerbTarget /\ FreshRegion
===============================================================================
