# Verification of AMPER / DHMP

AMPER is a distributed memory pool over RDMA (`dhmp_malloc`, `dhmp_free`,
`dhmp_read`, `dhmp_write`) together with a collection of remote-procedure-call
protocols from the literature, all driven by one client library and one server.
This directory models it in TLA+, checks the models with TLC and proves the most
important results about them with TLAPS.

The models are of the coherent snapshot `src/amper_beforeFaRM/`. The newer tree
`src/amper/` is work in progress that does not compile (`size_t length,,int
node_id`) and was read only to see where the code is going. Paths below are
relative to `src/amper_beforeFaRM/`.

A build chooses its protocol by the switches of `include/dhmp.h` (lines 25-50):
each protocol is modelled as the code is with its own switch on. `FLUSH1`, which
the header defines, is on in the models of the pool, L5, DaRPC and `DhmpModels`.
RFP is modelled without it: with `FLUSH1` its handler does not compile
(`src/dhmp_work.c:733` passes an empty argument). `UD` and `DaRPC_SERVER` are off,
as the header leaves them; only `DhmpChannel` has the `DaRPC_SERVER` build as well,
where it makes connections share completion queues.

Contents: [Inventory](#inventory) · [Modules](#modules) · [Runs](#runs) ·
[Fairness](#fairness) · [Proofs](#proofs) · [Findings](#findings) ·
[What is not modelled](#what-is-not-modelled) · [Plan](#plan) ·
[Working with the project](#working-with-the-project)

## Inventory

### Processes and threads

| Process | Thread | Runs | Source |
|---|---|---|---|
| client | application threads | `dhmp_malloc`, `dhmp_free`, `dhmp_read`, `dhmp_write`, `model_*` | `dhmp_client.c` |
| client | one work thread | `dhmp_work_handle_thread` | `dhmp_work.c` |
| client | one epoll thread | `dhmp_context_run`: completions, connection events | `dhmp_context.c`, `dhmp_transport.c` |
| server | one epoll thread | the same loop, with the request handlers | `dhmp_transport.c` |
| server | one L5 poller, one RFP poller per client | `L5_run`, `RFP_run` | `dhmp_server.c` |

An application thread makes a work structure **on its own stack**, puts it into
the work list and spins on its `done_flag`. The work thread turns works into
SENDs and one-sided verbs and spins on the flags of their tasks. The epoll thread
sets those flags, through pointers that have travelled to the server and back.

### Components

For each component: its state, its operations, how it touches the others, what is
hard about it and what makes it correct.

**Pool data plane** (`dhmp_client.c`, `dhmp_work.c`, `dhmp_transport.c`).
State: the work list, the work structures, the entries `dhmp_addr_info` and the
hash table `addr_info_ht`, the verbs in flight. Operations: malloc, free, read,
write. It talks to the server by messages and by verbs that no server thread
sees. Hard: application threads race on one address; a free can meet a read; the
completion of a WRITE does not say that the data are in memory (hence the empty
READ of `FLUSH1`); pointers in messages; error paths that must end the same
spins. Correct when each call takes its effect once, an address stays the
caller's until freed, no verb meets a deregistered area, every call returns.

**Server memory** (`dhmp_server.c`, `dhmp_transport.c`). State: `area_list`, the
registered areas, `nvm_used_size` per connection. Operations: create and free an
area. Hard: the limit `SINGLE_AREA_SIZE`, a registration that fails, lists
indexed by node. Correct when what is handed out is registered and exclusive and
the used size is that of the areas.

**RFP** (remote fetching; `dhmp_work.c`, `dhmp_server.c`). State: a request and a
reply region per client in the server, with a valid byte, a time byte and a
size; a time at each side. Operations: the client writes its request and fetches
the reply until the time is the expected one; `RFP_run` serves it. Hard: the
two sides share bytes without any lock; a WRITE becomes visible in pieces; the
valid byte is cleared *after* the reply is out. Correct when a call takes effect
at most once, a reply is never taken half-written or for another call, calls return.

**L5** (`dhmp_work.c`, `dhmp_server.c`). State: one mailbox with a byte per
client, a message buffer per client, a reply size in the client's memory.
Operations: connect, set up, call (two WRITEs), `L5_run`'s scan. Hard: one poller
for all clients, a `client_num` that grows during the scan, the byte cleared
before the message is read. Correct when only pending calls are handled and no
ring of the mailbox is lost.

**DaRPC** (`dhmp_client.c`, `dhmp_work.c`, `dhmp_transport.c`, `dhmp_task.c`).
State: the window `para_request_num`, the work list, requests and responses in
flight, the server's ring-shaped send region. Operations: enter the window,
queue, send, apply, respond. Hard: a call returns before it is applied; the
window is shared by application threads and the epoll thread; the send region
wraps without asking whether a response has left. Correct when the window is
neither leaked nor overrun, responses are not overwritten, and the server applies
the calls in one order.

**Connections and sessions** (`dhmp_client.c`, `dhmp_context.c`,
`dhmp_transport.c`). State: `trans_state` at both sides, `ctx.stop`, the threads,
`cur_connections`, `client_num`, `client_list`, `connect_trans`, node ids.
Operations: init, call, close and destroy; the connection-manager events; the
death of a process. Hard: states set by two threads, node ids reused after a
client has left, handshakes that fail half-way on either side, events without a
case, messages dropped silently when not CONNECTED. Correct when the
server lists what exists, no side keeps a connection the other has dropped, and
init, close and calls end.

**Messaging** (`dhmp_transport.c`, `dhmp_task.c`): posting, delivery in order and
dispatch of the messages. State: the send region and the receive regions. It is
part of each model; the receive regions are in `DhmpChannel`, the send region in
`DhmpDaRPC`.

**Completion channel** (`dhmp_transport.c`, `dhmp_context.c`). State: the
completion queues and whether they are armed, the events in their channels, the
descriptors epoll watches, the batch `epoll_wait` has returned, the regions that
are posted. Operations: get event, acknowledge, arm, drain, handle, post again;
set-up and destruction of connections by connection events, which the same thread
serves in between. Hard: completions that arrive while the queue is drained, a
connection destroyed between two descriptors of one batch, queues that several
connections share, a queue with room for 100 completions for 512 receives. Correct
when no completion stays behind unseen and messages are handled in order, each
once.

**octopus, clover, send and the models A, B, D** (`dhmp_client.c`,
`dhmp_work.c`, `dhmp_transport.c`). State: the work of each thread, `write_flag`
of each object, the queue pair, `server->tasklist`, of which `getFreeList` always
returns entry 0, and the objects: what is in memory and what is durable.
Operations: GetAddr, WRITE, WRITE with immediate, READ, compare-and-swap, send,
send2. Hard: the address requests of all clients overwrite one entry; the answer
to an immediate goes to whoever the entry names, with a pointer into a stack; a
write with immediate returns before it is performed; send2 flushes what an
earlier WRITE has only been acknowledged for. Correct when an object is read and
written once per call, pointers stay with their process, what a send returns from
is durable, and calls return.

**Tailwind** (`dhmp_work.c`, `dhmp_transport.c`): a log written by RDMA WRITE
between two RPCs. Hard: the client may die anywhere; WRITEs count in slots, the
RPCs in bytes. Correct when what was written can be read.

**The rest**: scaleRPC, models B (write2, writeImm3) and C, FaSST over UD,
configuration, devices, hash, log and timer, the command-line programs,
`src/amper`, `rdma_module`, `tcpudp` and Multicast. `PROJECT.json` lists each
with its sources; [What is not modelled](#what-is-not-modelled) says why.

## Modules

Each component has a module with its state and actions, an `Inv` module with its
properties (the pool and the models have them in the module itself, their `Inv`
modules hold the inductive invariants), an `MC` module with the small instances, and modules with
proofs.

| Component | State and actions | Properties | Abstract specification | Instances | Proofs |
|---|---|---|---|---|---|
| pool and its server memory | `DhmpPool` | `DhmpPool`, `DhmpPoolInv` | `RemotePool` | `DhmpPoolMC` | `DhmpPoolCallProofs`, `DhmpPoolRegionProofs` |
| RFP | `DhmpRfp` | `DhmpRfpInv` | `RemoteFetch` | `DhmpRfpMC` | `DhmpRfpProofs` |
| L5 | `DhmpL5` | `DhmpL5Inv` | `RemoteCell` | `DhmpL5MC` | `DhmpL5Proofs` |
| DaRPC | `DhmpDaRPC` | `DhmpDaRPCInv` | `RemoteLog` | `DhmpDaRPCMC` | `DhmpDaRPCProofs` |
| completion channel | `DhmpChannel` | `DhmpChannelInv` | `RemoteStream` | `DhmpChannelMC` | `DhmpChannelProofs` |
| octopus, clover, Tailwind, send, send2 | `DhmpModels` | `DhmpModels`, `DhmpModelsInv` | `RemoteObjects` | `DhmpModelsMC` | `DhmpModelsProofs` |
| connections and sessions | `DhmpSession` | `DhmpSessionInv` | | `DhmpSessionMC` | `DhmpSessionProofs` |

The models of the protocols take the connections as established; `DhmpSession`
has the connections and knows of the protocols only that a call sends a message
and waits for its answer. What they assume of each other is stated: L5 and RFP
need node ids that are a client's own, which is `SlotsAreOwn` of `DhmpSession`
for as long as no connection has ended; L5 needs besides that its scan reaches
them, which is `ScanReachesNodes` for as long as no `rdma_accept` has failed.

Operators whose comment starts with "Mutant:" are wrong versions of the operator
behind them, made as a plausible mistake in the code would. Nothing uses them in
the specifications. Each property is known to fail when a mutant takes its
operator's place (`PROJECT.json`, "mutants"): a property that no mistake in the
code can break would say nothing about the code.

`PROJECT.json`, "map", gives the lines of the source behind every definition.

### DhmpPool: malloc, free, read and write

*State.* `call[t]` is the work structure on the stack of application thread `t`
(operation, arguments, `recv_flag`, `done_flag`, result); `workList[c]` and
`worker[c]` are the list and the one work thread of process `c`; `addrInfo[c]` are
the `dhmp_addr_info` structures and `ht[c]` those linked in `addr_info_ht`;
`wr[c]` and `rd[c]` follow the posted WRITE and READ (posted, performed by the
adapter, completed); `msgs` are the messages on their way; `areaList`, `areaLen`,
`mem`, `used` are the server's areas, their registered lengths, their contents
and `nvm_used_size`.

*Actions.* `CallMalloc` ... `CallWrite` and `Return` are the application threads,
up to the spin and from its end. `TakeWork`, `MallocSend`, `MallocFinish`,
`FreeSend`, `FreeFinish`, `ReadPost`, `ReadFinish`, `WritePost`, `WriteFinish` and
`AddrNotFound` are the work thread between its spins: a handler is cut exactly
where it waits. `PerformWrite` and `PerformRead` are the adapters (external);
`CompleteWrite`, `CompleteRead`, `OnMallocResponse`, `OnMallocError` and
`OnFreeResponse` are the client's epoll thread; `OnMallocRequest` (`Grant`,
`Refuse`, `ReplyGarbage`) and `OnFreeRequest` the server's.

*Abstractions.* A pointer is the name of the thread or entry it points to. The
content of a region is one value. The hash is left out: a lookup is a search.
A connection has one message on its way at a time (proved: `MessagePhase`), so
messages are a set. `dhmp_malloc` with `is_special` other than 0 is the set-up of
the other protocols and is modelled there.

*Abstract specification.* `RemotePool`: each process has a heap, a function from
addresses to contents; a call takes its whole effect in one step between
invocation and return; malloc gives an address that is in nobody's heap, zeroed.
`ImplementsRemotePool` is the refinement: malloc takes effect when its entry is
linked, free when it is unlinked, read and write when the adapter performs them.

### DhmpRfp: remote fetching

*State.* `req[c]` and `reply[c]` are the two regions of the client in the server
(valid byte, operation, data; time byte, data), `ctime` and `stime` the times of
the two sides, `local[c]` the fetched copy, `unplaced[c]` the parts of the request
that have not landed, `srv[s]` the polling thread made for client `s` with the node
id it finds. `before[c]` remembers what the request region held when the call was
made; no action reads it, the properties do.

*Actions.* `Call`, `PostRead`, `CheckAgain`, `Check`, `Return` are the client;
`RequestFaults`, `Place` (of one part), `FetchReply` the adapter; `StartThread`,
`TakeRequest`, `WriteSize`, `CopyData`, `Publish`, `ClearValid` are `RFP_run`
statement by statement where another side can look.

*What the code does, and the model with it.* (a) Nothing orders the bytes of a
request: valid byte, head (flag, address, size) and data land in any order, and the
thread may take the request up at any moment the valid byte is there. It then works
with the operation or the data of an earlier request, or with the zero head of a new
region. (b) The size is copied over the time byte, so `Length % 256` stands there for
a while. (c) The head is 18 bytes and the region has room for 16 more than was asked
for (`Fits`); a longer request faults. (d) A polling thread reads its argument from a
frame that may be gone: `Init` lets it find any client's node id, and several threads
may poll one region. The properties are about the clients that are polled by their own
thread and no other (`OwnThread`).

*Abstractions.* The fetch of a reply is one step. All calls of an instance have the
same length.

*Abstract specification.* `RemoteFetch`: a call is taken up at most once, in one step
between call and return; what is then done is the call itself or, part by part, what
earlier calls left in the region. That is all the code secures. That a write which
returned has been done is `WritesLand`, which fails (`rfp_torn`). The refinement
leaves out the lengths whose low byte is 1 or 2 (`Kept`): with those the client may
take the size for the time and a reply before it is there. `ReplyIsFresh` and
`ServedIsPending` do speak of them, and name what can then be seen.

### DhmpL5: a mailbox for all

*State.* `msg[c]`, `mailbox[c]`, `reply[c]`, `client_num`, `poller`, and
`serverUp`. *Actions.* `Connect` and `SetUp` while others call already; `Call`,
`Ring`, `TakeReply`, `Return`; `PlaceMessage`, `PlaceMailbox`; `L5_run` as `Pass`,
`Take`, `CopyData`, `PlaceReply`, `Finish`. A client that sets up before the one
with node id 0 crashes the server, as the code does (`dhmp_transport.c:197`).

### DhmpDaRPC: a window of calls

*State.* `para_request_num`, `work_list`, `worker`, the messages in both
directions, and `cur_pos` and `posted`: where the next response goes in the
server's send region and which places are still to be sent. *Actions.*
`EnterWindow`, `Enqueue`, `Return`; `TakeWork`, `PostRequest`, `Done`;
`HandleRequest` with `Place` (`dhmp_send_task_create`); `OnResponse`; the
adapters `DeliverRequest` and `DeliverResponse`.

*Abstractions.* An object is its first word, the only one the work thread copies
(`sizeof(size_t)` bytes). The window is a constant; the code's is 5
(`dhmp_client.c:945`). What a read brings back is left out: the server
computes the size of the answer from a variable it has not set. All responses
take the same room. The connection stays up. The `recv_flag` the response sets
lies in a frame that may be gone, and is read by nobody.

*Abstract specification.* `RemoteLog`: calls are put into one log and applied one
at a time, in order, with no more than a window of them owed.

### DhmpSession: connections

*State.* `app`, `trans`, `stop`, `epoll`, `work` of each client process; the
events that wait for each side; `wire`, the connection as the adapters have it;
`srv`, `node_id`, `client_list`, `connect_trans`, `cur_connections`,
`client_num` of the server. *Actions.* One for each statement of
`dhmp_client_init` and `dhmp_client_destroy` another thread can observe; one for
each connection-manager event at each side; `CheckStop`, the look at `ctx->stop`
behind every wakeup; `Die`, the end of the process anywhere.

*Failures of the handshake.* Address or route are not resolved (`ClientInit`);
`dhmp_qp_create` or `rdma_connect` fails at the client (`OnRouteResolved`); the
transport or its queue pair cannot be made at the server, or `rdma_accept` fails,
which leaves the transport listed, counted and in its slot, with `client_num` as it was
and the state still INIT (`ServerConnectRequest`); the connection managers report
CONNECT_ERROR or an event `dhmp_handle_ec_event` has no case for, REJECTED and
UNREACHABLE among them (`HandshakeFails`, `OnOtherEvent`, `ServerOther`). After an event
without a case, and after a queue pair that could not be made, the client's state stays
CONNECTING and `dhmp_client_init` spins for good (`Stranded`).

*Abstractions.* `ADDR_RESOLVED` is folded into `ROUTE_RESOLVED`. The handshake
ends at both kernels in one step; what each side makes of it is separate. Events
of one connection are a set with a guard for their order. A wakeup handles one
event. A process connects once.

### DhmpChannel: completions and the epoll thread

*State.* For each connection: the state of its queue pair, what the connection
manager has to report (`cm`), how many messages were sent, placed and handled,
the regions and what lies in them (`mem`, `posted`), the operation a thread waits
for (`op`) and its queue (`dcq`). For each queue: its completions, `armed`,
`events`, `watched`, `overrun`. For the epoll thread: where it is, the rest of the
batch `epoll_wait` gave it, the queue it serves, the region it is about to post
again. A message is its number on the connection.

*Actions.* `EpollWait`, `TakeEvent`, `Arm`, `HandleRecv`, `Repost`, `HandleOp`,
`HandleError` and `Emptied` are `dhmp_comp_channel_handler` with a step wherever
the adapter can come in between; `TakeCm`, `Connect`, `ConnectShared`, `Destroy`
and `CmDone` are `dhmp_event_channel_handler`. `Request`, `Send`, `Place`, `Post`,
`Finish`, `Leave`, `FlushRecv` and `FlushOp` are peers, threads and the adapter
(external).

*What the code does, and the model with it.* (a) The queue is armed before it is
drained, which is why an event may find an empty queue and none is lost. (b) A queue
has room for 100 completions (line 642) and the queue pair for 512 receives: the
flush of a broken connection overruns the queue (`overrun`). (c) In the
`DaRPC_SERVER` build the queue of a connection is found through `node_id` before
that is set (line 724): `ConnectShared` takes any place. (d) `dhmp_destroy_source`
lowers the count of the place of `node_id`, which need not be the one that was raised
(`Destroy` takes any); at 0 it takes the
descriptor of a queue others still use away (line 996). (e) A shared queue whose
descriptor is gone stays in `DaRPC_dcq`, so later connections get a queue nobody
watches. (f) `dhmp_wc_error_handler` sets no `done_flag` (line 553): a thread that
waits for a flushed operation spins on. (g) The drain has no end of its own: a
queue that is never seen empty keeps all other descriptors waiting.
`EveryCompletionHandled` ends where (b), (d), (e) or the end of the connection takes
over (`Lost`).

*Abstract specification.* `RemoteStream`: the messages of a connection are handled
one after the other, each once, until the connection ends.

### DhmpModels: the models of remote access

*State.* `call[t]`: the model thread `t` is in, the work it has come to, its flags;
`workList`, `worker` as in the pool; `write_flag`: the objects whose flag is up;
`net[c]`: what process `c` has posted and the adapter has not performed; `recvq`
and `resp`: receives at the server and responses at the client that are not yet
handled; `tasklist`: the one entry; `mem`: what a reader sees of an object; `nvm`: what is left
of each cache line when the power goes, where an object lies on one or more lines of its
own (`ObjectOf`) and one of them is at its address (`FirstLine`); `log`: the bytes of a Tailwind log. `uses` are the
programs of the threads, chosen at the start: a test program is compiled for one
model.

*Actions.* `Call`, `Continue`, `Return` are the functions `model_*`, each a sequence
of works (`Works`). `MessageWork`, `WriteWork`, `BareWriteWork`, `ReadWork`,
`CloverWork`, `TailwindWork`, `Send2Work` and `Finish` are the handlers of the work
thread, cut where they spin. `OnReqAddr1`, `OnWriteImm`, `OnSend`, `OnSend2` and
`OnTailwindRPC` are the server's handlers; `CompleteWrite`, `CompleteRead` and
`OnResponse` the client's. The adapter performs what is posted on one queue pair in
order, but may acknowledge a WRITE before it is performed; only a READ behind it
(`FLUSH1`) waits for that. `Flush` writes back the line at an object's address, which
is all the handlers flush; `Evict` writes any line back at any time.

*What the code does, and the model with it.* The entry of the task list is
overwritten by every address request; an immediate is answered to the client the
entry names and flushes the object the entry names. If that entry was made without a
flag (`model_A_write`, `model_1_octopus`), the store through the NULL in the answer
crashes the process that gets it (`up`). `model_A_writeImm` returns when the write is
acknowledged, before it is placed and flushed; nobody reads its flag, so its frame
may be gone when the flag is set. The compare-and-swap is of 0 by 0 and unlocks
nothing. Handlers flush one cache line whatever the length, at an address malloc does
not align: `SendIsDurable` is about that line, `WholeSendIsDurable`, about all of the
object, fails (`models_flush`). WRITEs of a Tailwind log go to slots, its RPCs to the byte with the slot's
number. The `addr_info` of a Tailwind write is whatever the task's memory held: NULL,
or an entry of an earlier task.

*Abstract specification.* `RemoteObjects`: an object is written or read in one step
between call and return. A write takes effect when it is acknowledged or performed,
whichever comes first. The objects are private to the process that allocated them,
as everywhere in the code, where addresses are found in the process's own hash table.

## Runs

"Pass" runs find no error; a "violation" run has one property, taken from what
the code's comments, documentation or tests say, that the code does not have.

| Run | Instance | States | Shows |
|---|---|---|---|
| `pool_threads` | 1 process, 2 threads, 2 entries, 2 areas, 2 values, liveness, deadlock | 124,813 | In every interleaving of two threads over one work list: entries name live areas, no verb faults, `write_flag` and travelling pointers are right, the used size is exact, the pool implements `RemotePool`, every call returns, every free releases. |
| `pool_clients` | 2 processes, node ids 0 and 1, failing registrations, lengths 1 and 3 with a limit of 2, liveness | 346,582 | Past refused mallocs, garbage answers and the crash of the server on a free by node 1: flags and travelling pointers are right, the steps are those of `RemotePool` while the books balance, an error holds up no process but its own. |
| `rfp` | 1 client, 3 values, length 4, liveness, deadlock | 25,033 | With requests that land in any order a call takes effect at most once and before it returns (`RemoteFetch`); only the late clear can keep a fitting call from returning. |
| `rfp_size` | 2 clients, one of which overruns its region, length 257, any thread on any region | 11,742,087 | A reply the client takes is its own but for the byte of the size, and what is served is the pending request, with the parts of it that have landed. |
| `rfp_torn` | violation | to the first error | A write is served before its flag or data have landed and answered as done. |
| `l5` | 2 clients that connect while calling, liveness | 23,728 | Only pending calls are handled, no ring is lost, `RemoteCell` is implemented, calls return unless the server crashed. |
| `session` | 2 processes that may die anywhere, every failure of the handshake, 3 slots, liveness | 453,013 | Count, list and slots agree, the L5 scan misses no more ids than accepts have failed, no half-open connection, a closing client is dropped, init and calls end outside of the races and dead ends named. |
| `session_destroy` | violation | | `dhmp_client_destroy` can hang in `pthread_join`. |
| `darpc` | 3 threads, window 2, region for 3, liveness, deadlock | 465,645 | The window is kept and opens, work is done for waiting threads only, responses stay apart, `RemoteLog` is implemented, calls return. |
| `channel` | 2 connections, with own queues or one shared, 2 regions, 3 messages, operations, queues with room for 2, liveness | 146,147 | No completion is forgotten, messages are handled in order and once, whatever is sent or waited for is handled unless the connection, its queue or the descriptor is lost. |
| `models` | 2 processes, 3 threads, 2 objects of two lines and of one, 4 programs, liveness | 82,649 | Answers to immediates stay with the process their pointer belongs to, the line at the address of what was sent is durable, a log can be read up to its last write, `RemoteObjects` is implemented, calls return unless their process has crashed. |
| `models_flush` | violation | | A send returns although the second line of its object has not been flushed. |

### The bounds, and why they are enough

* *Two threads or clients.* Every hazard listed is between two actors (two
  callers, a caller and a poller, two connections). DaRPC has three threads so
  that one is kept out by a window of two. The safety properties of the small
  instances are proved for any number of threads, clients, entries and areas,
  except those listed under "only model-checked".
* *Two values* tell a stale value from a fresh one; `rfp` has three, for
  pieces of two requests on top of an older third.
* *One RFP client* in `rfp`: clients share no variable, only a polling thread that
  found the wrong node id joins them. `rfp_size` has two for that, with every
  assignment of threads to regions.
* *Two lines* are the least an object can lie across; the send that loses one needs no
  more.
* *Two areas and two entries* give a free and a malloc that reuse each other's
  area while a third address is alive or gone.
* *Region 3, window 2*: the send region wraps at places that do not line up with
  the window.
* `UsedBound` (in `DhmpPoolMC`) stops following a connection with more than one
  unit on its books, which the garbage lengths of oversize answers add up to. It
  is a constraint under liveness properties: what it cuts off is not followed
  further, nor are the calls in there. The safety part was also checked with a bound
  of two (1.1 million states).
* *Two connections, one place in `DaRPC_dcq`.* The second connection carries the
  operations, the first the messages; both share the place or have queues of their
  own. The safety properties were also checked with two places (2.85 million
  states). A queue with room for 2 overruns as soon as a receive and a flush meet.
* *Programs.* `DhmpModelsMC` chooses four: two threads over one work list with every
  kind of work, two processes that overwrite each other's entry, a Tailwind log beside
  a write with immediate, and plain writes. Crashes by a NULL flag, immediates
  performed after their call has returned and immediates handled while the entry
  belongs to another client are all reached. A log of 2 slots of 2 bytes and 4
  accesses wraps once.
* *RFP's lengths.* 4 is a length whose low byte is neither 1 nor 2; with one of
  those, 257 in `rfp_size`, the byte of the size looks like a time
  (`dhmp_server.c:243`). Liveness is checked with 4 only.
* `CHECK_DEADLOCK FALSE` where the system really stops: a refused malloc, an
  oversize region, a crashed server, a faulting WRITE, processes that are gone.
  `pool_threads`, `rfp` and `darpc` check deadlock.

## Fairness

Weak fairness of each thread and each adapter, and no more: the kernel schedules
every thread, the epoll threads come round to each ready descriptor, a reliable
connection performs what is posted, the connection managers finish a handshake.
Strong fairness is used in one place: `dhmp_comp_channel_handler` and
`dhmp_event_channel_handler` drain what there is, and `DhmpChannel` assumes that new
completions and events do not come so fast that the drain never sees an end
(`SF_vars(Emptied)`, `SF_vars(CmDone)`); the loops have no other end.
In `DhmpModels` fairness is about `steps`, the variables without the programs. Nothing obliges an application to call, close or
connect, nor a process to live. In `DhmpDaRPC` `EnterWindow` is weakly fair per
thread, so a thread that meets other threads taking each place can stay out for
good, as the spin on `mutex_request_num` allows; only `WindowOpens` is claimed.

In `DhmpSession` two properties are conditional because the code's promise is:
`PromptInitReturns` (init may hang when its store of `CONNECTING` comes late, and does
when the handshake ended without an event that has a case),
`ConnectedCallReturns` (a call may hang when the server answers before it has
seen `ESTABLISHED`). Both allow the process to die.

## Proofs

All proofs are checked by tlapm to the last leaf, for any number of clients,
threads, values, entries, areas, connections and queues. Liveness is out of its
reach. Facts by induction are had without the library's induction rules, from the
least element of a set of numbers (`WFMin`): what a sum over the entries does when one
of them changes, that a queue has a last write to an object, and what is left of a
queue when the completions of one connection go. Type correctness is
proved in every component and therefore not among the properties of the runs.

| Module | Theorems |
|---|---|
| `DhmpPoolCallProofs` | `TypeCorrect`, `CallsAgree` (inductive), `PointersStayGood` |
| `DhmpPoolRegionProofs` | `WriteFlagExact`, `RegionsAgree` (inductive), `EntriesStayLive`, `NoVerbFaults`, `UsedSizeStaysExact`, `PoolImplementsRemotePool` (refinement) |
| `DhmpRfpProofs` | `RfpAgrees` (inductive), `RfpTypeCorrect`, `RepliesAreFresh`, `OnlyPendingIsServed`, `RfpImplementsFetch` (refinement) |
| `DhmpL5Proofs` | `L5Agrees` (inductive), `L5TypeCorrect`, `OnlyPendingIsHandled`, `RingsAreKept`, `L5ImplementsCell` (refinement) |
| `DhmpSessionProofs` | `SessionAgrees` (inductive), `SessionTypes`, `CountsTheList`, `OwnSlots`, `ScanFallsShort`, `NoneHalfOpen` |
| `DhmpDaRPCProofs` | `DaRPCHolds` (inductive), `DaRPCTypes`, `KeepsTheWindow`, `WorksForTheWaiting`, `ResponsesStayApart`, `DaRPCImplementsLog` (refinement) |
| `DhmpChannelProofs` | `ChannelHolds` (inductive), `ForgetsNothing`, `ChannelImplementsStream` (refinement) |
| `DhmpModelsProofs` | `ModelsHold` (inductive), `ModelsTypes`, `FlagsAreOwn`, `SendsAreDurable`, `LogsAreReadable`, `ModelsImplementRemoteObjects` (refinement) |

### The arguments

*Pool.* None of the properties is inductive as it stands: that a message's
pointers are good depends on which spin the work thread is in. `CallInv`
(`DhmpPoolInv`) therefore ties everything in flight to the program counter of the
one work thread: a verb is in the queue pair only while it waits for verbs
(`VerbPhase`), each work is in the list once or with the work thread
(`WorkPhase`), a client has at most one message on its way and it is the one the
work thread waits for (`MessagePhase`), an entry is linked, being allocated or
being freed and never two of these (`EntryPhase`). `RegionInv` goes on from
there: a region is *held* by a linked entry, an entry about to be linked, a
MALLOC_RESPONSE or a FREE_REQUEST; each held region is a live area under the
recorded length, and is held once. It needs `SizesServed`, that no length exceeds
`SINGLE_AREA_SIZE`: without it the code really links garbage regions.
`BooksInv` adds that the recorded size of the area is the sum of the lengths the
linked entries, the mallocs and the frees under way account for; as a sum it needs
finitely many clients (`UsedSizeStaysExact`).

The refinement says when each call takes effect: a malloc when the server carves the
region, a free when the entry leaves the client's list, a write or read when its verb
is performed. `EffectInv` has what this needs beyond `RegionInv`: the result a call
carries back belongs to the step it is at (`CallResult`), a verb goes to the region of
the entry its call names (`VerbTarget`), and the region of a malloc that has not been
answered is nobody else's (`FreshRegion`). NULL stands for "no request" on the
abstract side, and `PoolAssumption` says that it is not itself a request.

*RFP.* `RfpInv` (`DhmpRfpProofs`) has two parts. `PlacedIsOwn`, for every client: what
has landed of a request is the call's, the rest is what the region held before.
`InStep`, for every client with a thread of its own: program counter, regions, times
and thread agree on the pending call. The times are equal exactly from the publication
of a reply to its taking, and the reply's byte is the expected one only then or while
the size stands in its place. If the client has taken the size for the time it is a
turn ahead, and is in step again once the thread has published (`Early`). The theorems
assume no more than `RfpAssumption`, that is, the types of the constants: requests land
in any order, threads poll any region, lengths are any. The refinement maps the abstract
step to `CopyData`; a client without a thread of its own, or a length with low byte 1 or
2, is left out of it by `Kept`, which no step changes.

*L5.* `L5Inv` says where the one pending call of a client is: in the message, in
the mailbox, with the poller, or replied to. The poller's index stays below
`client_num` because that only grows. It uses that node ids are distinct and
given in the order of connecting (`L5Assumption`), of which `OwnSlots` proves the
first in `DhmpSession` while no client has left. That every id comes below
`client_num` in the end is `ScanFallsShort` there, while no accept has failed.

*Session.* `SessionInv` lists for each state of the wire what may wait for the
server (`EventsFit`) and what the client may believe (`SidesAgree`), the wire of a
connection the server did not accept included. For `ScanReachesNodes` it counts the
listed connections in state INIT, those whose accept failed: `cur_connections` is at
most `client_num` plus their number (`SlotsGoUp`), and they stay for good. It assumes
no more clients than `DHMP_CLIENT_NODE_NUM` slots; the code has no check.

*DaRPC.* `DaRPCInv`: the places in the window are counted where they are; the
responses still to be sent lie one behind the other, modulo the ring, up to
`cur_pos`, and are never more than the window. From `Ring >= Window`
(`DaRPCAssumption`) follows that the next does not meet them. In the code the
region has room for thousands of responses and the window is 5 (`dhmp_client.c:945`).
The refinement shows that list, work thread and receive queue together are the
log.

*Channel.* That no completion lies in a queue without an event is not inductive: it
holds because the *next* completion will be noticed. `ChannelInv` says that every
queue in use is armed, has an event under way, or is about to be looked into
(`Notices`); a completion uses up the arming and leaves an event, taking the event
leads to arming before the look. Nothing is assumed about queues without room,
descriptors or counts: the events are there even where nobody watches any more.

The refinement of `RemoteStream` comes down to one fact: the receive that the epoll
thread takes out of a queue holds the message after the one its connection handled
last. `StreamInv` says that the receives of a connection in its queue are the messages
that follow that one, each behind the one before (`Orderly`), up to the last that was
placed, unless the queue had no room for it (`Holds`). This needs what each region
holds to stay: a region is posted once or not at all, and neither one whose completion
is in a queue nor one about to be posted again is among the posted (`Fits`,
`RepostInv`), which is where it matters that the code posts a region behind its
handler. Several connections may share a queue; each step that puts in or takes out
what belongs to another keeps the order (`FollowMore`, `TailKeeps`), and so does the
end of another connection (`WithoutKeeps`). `AllStreams` is the conjunction for all
connections; TLC checked it on the instance of `channel` before it was proved.

*Models.* `ModelsInv` follows the one work a process serves. A process has at most
one message under way, it is the last of what is posted, and it is in exactly one of
the queue pair, the server's receives and the responses (`NetInv`, `RecvInv`,
`RespInv`); whatever a queue pair carries names an object and threads of its own
process (`Owned`), and so does the entry of the task list (`EntryInv`), whoever wrote
it. From these `FlagIsOwn` follows without any order between the clients. For the
durability of send2, `Ends` says that the last of the WRITEs to the object that are
posted, or the object itself, has the value of the call; since the message stands
behind all of them (`NetInv`), the server flushes that value although the WRITE was
only acknowledged. What `SendsAreDurable` promises is the line at the object's address,
for any number of lines an object lies on; of the others nothing can be promised.

`LogInv` (`LogsAreReadable`) follows the records of a Tailwind log from the queue pair
to the server: a record on its way names the slot of its access, and a slot whose
access is over is whole until the closing RPC goes out. It is proved under
`OneWriter`: at most one thread of a process calls Tailwind. The code has one log and
no lock for the process, and the closing RPC of a second thread would land in the
slots of the first; the programs of the code call Tailwind from one thread.

`EffectInv` (`ModelsImplementRemoteObjects`) says that what has yet to take effect is
posted in order, on behalf of the call that is served (`InOrder`): a WRITE that is not
acknowledged is the last write on its queue pair, a READ stands behind everything. A
write takes effect when it is acknowledged or performed, whichever comes first, a send
when the server handles it, a read when the adapter performs it, a call that does
neither when it is done. An object stands for the last acknowledged write to it that
is still posted, or else for what is in memory (`StoreOf`): performing a late write
changes nothing on the abstract side, and a READ finds nothing before it. Each step of
each thread is shown to be a stutter or one step of `RemoteObjects`.

`ModelsInv`, `LogInv` and `EffectInv` were checked by TLC on the instance of `models`
before they were proved.

### Only model-checked

* `PoolWhileBooksBalance` (two processes): it is about runs up to the first garbage
  answer and does not hold for all constants, since an answer of length 0 leaves the
  books balanced.
* All liveness: `EveryCallReturns`, `FreeReleasesArea`, `ReturnsOrIsErased`, `EveryL5Returns`, `ClosingLeaves`, `ConnectedCallReturns`,
  `PromptInitReturns`, `WindowOpens`, `CallReturns`, `EveryCompletionHandled`,
  `EveryModelReturns`, `ErrorsAreContained`.

## Findings

1. **An RFP write can be lost and answered** (`rfp_torn`). `RFP_run` handles a
   request as soon as its valid byte, the first of the WRITE, is up
   (`dhmp_server.c:274`); the flag and the data behind it may not be there yet.
2. **A send makes one cache line durable** (`models_flush`). The handlers flush once, at
   the object's address (`dhmp_transport.c:110`, 1776, 2000), whatever its length; their
   comment (line 1774) says copy and flush of the whole.
3. **`dhmp_client_destroy` can hang** (`session_destroy`). `stop` is set after the
   epoll thread may have looked at it for the last time (`dhmp_client.c:991`).

Named as the exceptions of properties that hold otherwise; without its exception each
of these properties fails:

4. **A refused malloc hangs** (`HeldUp` in `ErrorsAreContained`).
   `dhmp_malloc_error_handler` (`dhmp_transport.c:312`) does not set the `recv_flag` the
   work thread spins on (`dhmp_work.c:148`).
5. **An RFP call can be erased** (`Erased` in `ReturnsOrIsErased`). `RFP_run` clears the
   valid byte after the reply is out (`dhmp_server.c:279`), so it may clear the next
   request, whose caller fetches forever.
6. **`dhmp_client_init` can hang** (`Stranded` in `PromptInitReturns`). It spins while the
   state is below CONNECTED (`dhmp_client.c:914`), and REJECTED, UNREACHABLE, ADDR_ERROR,
   ROUTE_ERROR (`dhmp_transport.c:1066`) and a failed `dhmp_qp_create` (line 813) leave it
   at CONNECTING.
7. **A failed `rdma_accept` hides a client from the L5 scan** (`FailedAccepts` in
   `ScanReachesNodes`). It leaves an id, a slot and a list entry taken but `client_num`
   as it was (`dhmp_transport.c:925`), and the entry is never removed.

Met on the way, and without a run because no interleaving has another outcome:
only the first client can free, since areas are linked in `area_list[0]` and freed
from `area_list[node_id]`, which is not initialised for another node, and the server
crashes (`dhmp_transport.c:333`; `pool_clients` goes through it); a malloc above
`SINGLE_AREA_SIZE` is answered with garbage (`dhmp_transport.c:229`; also in
`pool_clients`); a node id of `DHMP_CLIENT_NODE_NUM` or more writes behind
`connect_trans` (`dhmp_transport.c:907`); the server listens before it initialises
`area_list[0]` (`dhmp_server.c:398`); (b) to (f) of `DhmpChannel` above; the NULL that
`dhmp_WriteImm_response_handler` stores through when another client's address request
came in between (`dhmp_transport.c:1792`);
L5 clears the size of a reply before it uses it as the number of bytes to copy, so
a read never reaches the caller (`dhmp_work.c:512`, 520), and takes a reply to a
call of length 0 for none; the answer to a DaRPC read is sized by a variable not
set before (`dhmp_transport.c:2215`); scaleRPC's region is too small for its first
write (`dhmp_server.c:496`); the work thread outlives the client structure
(`dhmp_client.c:997`).

## What is not modelled

* *The start and the end of the server*: in the plan below.
* *scaleRPC*: the client writes 160 bytes to a region registered with 16; the
  first call is an access error and nothing else can happen.
* *write2, writeImm2, writeImm3 and Sread of the models B, C and D*: dead,
  neither the client's region of the ring buffer nor `server->ringbufferAddr` is ever
  set (`dhmp_client.c:934`, `dhmp_server.c:130`), and each handler goes through it.
* *FaSST over UD*: not compiled.
* *Configuration, devices, hash, log, timer, command-line programs*: sequential
  code and input or output. `dhmp_timerfd.c` has no caller.
* *System calls that fail* beyond those named (the failures of the handshake are
  modelled), and memory that runs out at the client: the code exits or carries on with what it has.
* `src/amper` does not compile; `rdma_module` is an unfinished port to the
  kernel; `tcpudp` and Multicast are measurements that share nothing.

## Plan

Done: the pool (the core), then RFP, L5, sessions and DaRPC, in the order of what
the programs use and of what can go wrong; then the completion channel, with the
shared queues of DaRPC_SERVER, and the models octopus, clover, Tailwind, send and
send2. Next, in this order:

1. **Composition**: `DhmpSession` with `DhmpL5`, so that node ids are given out and
   reused while calls are pending.
2. **The end and the start of the server**: `dhmp_server_destroy` against clients
   that still call; listening before `area_list[0]` is initialised.
3. **The window of DaRPC when the connection breaks**: flushed requests whose places
   are never given back, from `DhmpChannel` and `DhmpDaRPC` together.

## Working with the project

```
tlasany DhmpPool.tla                                  parse
tlc -workers 4 -config pool_threads.cfg DhmpPoolMC    model-check one run
tlapm DhmpChannelProofs.tla                           check the proofs of a module
```

`PROJECT.json` lists the components, the runs with their properties, the mutants,
the source lines of every definition, the findings, the hazards of the code with
the properties that cover them, and the theorems. The longest runs take two to
three minutes with two workers, each module's proofs at most a few minutes.
