# TLA+ verification of RCCL

RCCL (`src/`) is a library of collective communication routines for AMD GPUs.
A communicator spans one GPU per rank.  Host code plans a collective and
launches a kernel on every GPU; the kernels exchange data over *connections*;
where a connection crosses nodes or needs a copy engine, host *proxy* threads
move the data between the GPU's FIFO and the network.  This directory models
the concurrent parts of that machinery in TLA+, checks them on small instances
with TLC and proves the central properties for every instance with TLAPS.

All paths below are relative to the repository root.

## 1. The system

### Parts and their state

| Part | Code | State | Operations |
|---|---|---|---|
| Simple primitives | `src/device/prims_simple.h` | per connection end: `step`, `connStepCache`, `conn->step`; shared `head`, `tail`, slots, `connFifo` | load (round up), wait, copy, post, save |
| LL / LL128 primitives | `src/device/prims_ll.h`, `prims_ll128.h` | flagged lines, `sendStep`, `recvStep`, `sendConnHead` | waitSend, readLL, storeLL, postRecv, clean-up of stale flags |
| Ring / tree / chain algorithms | `src/device/all_reduce.h`, `all_gather.h`, `reduce_scatter.h`, `broadcast.h`, `reduce.h`, `sendrecv.h` | chunk offsets | sequences of send / recv / recvReduceSend ... |
| Proxy network transport | `src/transport/net.cc` | per sub-operation `posted`, `transmitted`/`received`, `done`; requests; shared buffers | sendProxyProgress, recvProxyProgress, connect, free |
| CollNet, SHM, P2P-CE transports | `src/transport/coll_net.cc`, `shm.cc`, `p2p.cc` | as above | their proxy progress functions |
| Network plugins | `src/transport/net_ib.cc`, `net_socket.cc` | request pools, FIFO of posted receives, helper threads | isend, irecv, iflush, test, connect state machines |
| Proxy op pool | `src/proxy.cc`, `src/include/proxy.h` | `ncclProxyOpsPool`: op slots, `nextOps`, free lists; progress thread's active list | post, fetch, append, progress, free, stop |
| Proxy RPC service | `src/proxy.cc` | per peer: socket, async operations; per caller: expected responses | call, response, poll, setup/connect progress, close, stop |
| Bootstrap | `src/bootstrap.cc` | listening sockets, unexpected-connection queue | root rendezvous, ring all-gather, send/recv, barrier, close |
| Groups and async jobs | `src/group.cc` | group depth, job lists, abort flags, communicator's async result | start, launch, join, abort |
| Communicator life cycle | `src/init.cc` | `initState`, `asyncResult`, abort flags, intra-process barriers, shared resources' reference counts | init, split, finalize, destroy, abort |
| Planning and launching | `src/enqueue.cc` | task queues, plans, work FIFO (`workFifoSent`, `workFifoAck`), callback queue | prepare, upload, launch, reclaim |
| Transport setup | `src/transport.cc` | per peer connect masks | p2p / collnet setup rounds |
| Topology, search, tuning | `src/graph/*` | topology graph, channels | path search, ring/tree search, model |
| MSCCL interpreter | `src/device/msccl_kernel_impl.h`, `src/misc/msccl/*` | per-thread-block flags, scheduler state | run a program's steps, lifecycle |
| Registration cache | `src/register.cc` | sorted cache of address ranges with reference counts | register, deregister |
| Strong streams | `src/misc/strongstream.cc` | per graph capture state | acquire, release, sync |
| Clique kernels | `src/clique/*` | shared-memory objects, barriers | publish handles, barrier |
| Sockets, shm, parameters, wrappers | `src/misc/*` | socket state machine | connect, accept, progress, close |

### What is hard about it

* **No locks on the data path.**  A connection is one producer and one consumer
  that share two monotone step counters; a proxied connection is a pipeline of
  four actors with six counters.  Correctness rests on the order of single
  stores (size before tail, offset before head, size reset before head).
* **The counters outlive operations.**  Operations with different slice and
  chunk sizes follow each other on a connection; each end rounds its own step
  up on its own, without a message.
* **Aborts break waits.**  Every spin loop has to look at the abort flag, and
  the code after the loop must cope with not having waited.
* **Shared pools with lazy hand-over.**  Proxy operations travel through a pool
  shared by several processes, under one mutex and a compare-and-swap.
* **Retries instead of blocking.**  Proxy, bootstrap and socket code is written
  as state machines that return "in progress" and are called again.

### How the parts interact

A communicator is made in `init.cc`: the ranks meet through **bootstrap**, agree
on the **topology** and its channels, and set up connections through
**transport**, which calls the **proxy service** of the rank that owns the
network device or the peer's memory (**RPC**).  A collective call becomes a task
(`collectives.cc`, `enqueue.cc`), is planned when its **group** ends, and is
launched: the kernel gets its work through the work FIFO and runs a ring or
tree **algorithm** over the **primitives**; the host posts the plan's network
operations to the **proxy op pool**, whose progress thread drives the **network
transport**.  Kernels and proxies meet only in the FIFO of a connection.

### What correct means

* A connection is an ordered channel: what the receiver reads is what the
  sender wrote for that position, once, in order, in slots nobody else writes.
* An operation given to a proxy is run once, after its predecessors on the same
  connection, and its pool slot comes back.
* A call to a proxy service gets its own response, and the service outlives
  its clients.
* Bootstrap messages reach the call that waits for their tag and peer.
* The neighbours that ranks compute for themselves fit together, and every ring
  and tree reaches all ranks.
* All of it ends: operations complete when every rank runs them, and every
  wait ends when the communicator is aborted.

## 2. Modules

| Module | Models | Checked in |
|---|---|---|
| `Align` | `roundUp`, `divUp` | used by others |
| `Channel` | abstract specification: bounded ordered channel | refined by `SimpleConn`, `NetConn`, `CeConn` |
| `PrimsSimple` | one end of a Simple connection (`prims_simple.h`) | instantiated by `SimpleConn`, `NetConn`, `CeConn` |
| `SimpleConn` | two kernels on a direct connection | `MCConn`, proofs |
| `LLConn` | the same with flagged lines (`prims_ll.h`, `prims_ll128.h`) | `MCConn` |
| `NetConn` | kernel, send proxy, network, receive proxy, kernel (`transport/net.cc`) | `MCNetConn` |
| `CeConn` | copy-engine proxies inside a node (`transport/p2p.cc`, `shm.cc`) | `MCNetConn` |
| `CollNet` | proxies of a network that reduces (`transport/coll_net.cc`) | `MCNetConn` |
| `ProxyArgs`, `ProxyProgress` | the op pool, main threads, the progress thread and its lists (`proxy.cc`) | `MCProxyProgress` |
| `ProxyRpc` | the proxy service thread and its clients (`proxy.cc`) | `MCProxyRpc` |
| `Bootstrap` | rendezvous, ring, send/recv, barrier, all-gather, broadcast, split, close (`bootstrap.cc`) | `MCSetup` |
| `TransportSetup` | connecting the ranks (`transport.cc`) | `MCSetup` |
| `DTree`, `TopoConnect` | rings, trees and CollNet links of a communicator (`graph/trees.cc`, `connect.cc`, `rings.cc`, part of `initTransportsRank`) | `MCSetup` |
| `Groups` | group calls, job threads, finalize, destroy, abort (`group.cc`, `init.cc`, `comm.h`) | `MCLaunch` |
| `CollPlan`, `Collectives` | from a group's collectives to plans (`enqueue.cc`), and the collective kernels of all ranks | `MCLaunch` |
| `P2pPlan` | from a group's sends and receives to plans, and the send/receive kernels of all ranks | `MCLaunch` |
| `LaunchStreams` | launching plans on streams, graph capture, reclaiming (`enqueue.cc`, `strongstream.cc`) | `MCLaunch` |
| `WorkFifo` | the work FIFO between host and kernels (`enqueue.cc`, `device/common.h`) | `MCLaunch` |
| `MpscQueue` | the lock-free callback queue (`utils.h`) | `MCLaunch` |
| `BaseFacts`, `SimpleConnLemmas`, `SimpleConnProofs` | proofs about `SimpleConn` | |

An `MC` module that checks several components chooses one of them in its
initial state (the variable `part`); the variables of the others stay 0.  The
components do not share state there, they share a run.

### Correspondence

**PrimsSimple, SimpleConn.**  The record of a kernel holds the registers of the
threads with the Wait and Post roles (`step`, `connStepCache`) and the saved
`conn->step`; an action is one step of the kernel between two accesses to
shared memory: load with round-up, a poll of the counter, the copy of a slice,
the post.  Data are the triples of operation, position and step, so reading a
stale or foreign slot is visible.

**LLConn.**  A line is two halves with a flag each (LL) or a unit with one flag
(LL128).  Flags have `FlagMax` values, as the code's have 2^32.  The sender's
clean-up of a slot is part of its post.

**NetConn.**  The proxies' actions are the branches of `sendProxyProgress` and
`recvProxyProgress`, taken one at a time: post, transmit, test; post a receive,
test it, flush, acknowledge.  The network is external: it delivers messages in
order into posted receives.  In shared mode credits are given out by the proxy
with an offset into the pool.

**CeConn.**  A proxy issues a copy and records an event, finds later that the
event has happened, and raises the tail of the next buffer.  Copies are executed
by the device in stream order at any later time.  One proxy is the P2P transport
or one SHM mode, two proxies are SHM with both modes.

**CollNet.**  A node's two proxies share memory and `reqFifo`; the branches of
`sendProxyProgress` and `recvProxyProgress` are actions over all channels of the
args, with the grouping of channels and the turn flags.  The network combines
the n-th collectives of all nodes.

**ProxyProgress, ProxyArgs.**  Slots, `nextOps`/`nextOpsEnd`, `freeOps` and the
chains are integers, as in the code.  An operation that cannot join the args it
belongs to (too many subs, another kind, args already running) is an error that
the run shows to be out of reach.  The two compare-and-swaps are separate
actions from the reads before them.  Sleeping, waking, `stop` and the abort flag
are modelled.  What an operation's `progress` function does is `OpCompletes`.

**ProxyRpc.**  Sockets are FIFO queues.  The service's loop (poll, accept,
progress of every queued operation, read, close) is one action per branch.

**Bootstrap.**  A rank runs a program of connect, send, accept and receive steps
that the definitions of `bootstrapInit`, `bootstrapBarrier` and so on produce.
Queues of connections and of unexpected messages are explicit.

**TransportSetup.**  A rank's program counter walks through
`ncclTransportP2pSetup`: choose a transport at each end, pack the connection
information of a round of peers, exchange it, connect until all connectors of
the round are connected, exchange the closing flags.  `canConnect` of the
transports is a table; a connector that none of them serves fails the call,
after the connectors before it were set up and before anything is sent.

**TopoConnect, DTree.**  Three actions, one for each phase in which all ranks
compute on their own between two exchanges: `ncclTopoPreset` (before the third
all-gather), `AlignChannels` (after it) and `ncclTopoPostset`.  A configuration
stands for the result of the topology search of each node, for the GPU
architecture and for the parameters that bound the number of channels.

**Groups.**  Between its two ends a group changes state of its own thread only,
so it is one step up to `ncclGroupEnd`; from there every job, barrier arrival,
launch and clean-up is a step of the thread or of the job's thread.  The
intra-process barrier is modelled with its counter and phase.  A group fails when
a job fails, when its tasks cannot be scheduled, or when some of its siblings are
captured and others are not, which is found once all of them are prepared; the
frames of `ncclLaunchPrepare` then stay behind.

**CollPlan, Collectives.**  Ranks plan alike, so the plan is made once:
`taskAppend` sorts, `drainCollQueue` aggregates and divides over the queues, one
action per `add...CollToPlan`.  A kernel is a sequence of primitives per thread
group; a primitive waits for a chunk from every peer it receives from and for
room towards every peer it sends to, and moves element-wise sets of
contributions, so that a result that misses or repeats one is visible.  The
connection of a Simple ring is chosen twice, as in the code, for the kernel and
for its proxy operations.

**P2pPlan.**  Every rank plans alone, one action per round of
`scheduleP2pTasksToPlan` and per pair of chunks; then the kernels of all ranks
run on bounded connections, each step named by message, chunk and size.

**LaunchStreams.**  A stream is the set of nodes that the next node has to wait
for; events copy it.  Graphs are captured, instantiated, launched several times
and destroyed in any order with respect to the communicator, also while a host
task of an earlier group waits on the host stream.

**WorkFifo.**  `uploadWork` is several steps (wait for room, write works, set
`workFifoSent`), blocks find channel and works from the mask as the kernel does,
with warps as wide as a mask word and with warps half as wide, and acknowledge.
A block none of whose threads finds it takes any channel.  Counters are modulo
`Wrap`.

**MpscQueue.**  One action per atomic access of `ncclIntruQueueMpscEnqueue` and
`DequeueAll`, and of the thread signal.

## 3. Runs

| Run | Instance | Shows |
|---|---|---|
| `conn` | Simple: 4 steps, 3 operations of different slice and chunk sizes; LL: 2 slots of 2 lines, flags modulo 8, three protocols in turn; abort of either end at any time | every slot and line is read as written, refinement of `Channel`, completion, return after an abort; also the inductive invariant of the proofs |
| `net_conn` | network with own buffers (4 slots) and with shared ones (3 slots, pool of 6, flush); one and two copy engines; CollNet with two nodes and with grouped channels | no slot is used by two actors, refinement of `Channel` end to end, results combine the same step of all nodes, completion |
| `proxy_progress` | 2 ranks, 3 slots each, 5 operations, abort at any time | lists and slots are consistent, operations start in order, all run unless aborted, the thread exits |
| `proxy_rpc` | 2 clients with 10 calls; 2 clients with 4 calls that may abort | responses match calls, all calls return, the service exits last and never fails |
| `setup` | 4 ranks with 9 bootstrap calls and two splits; 3 and 2 ranks that connect several graphs and connIndexes, also with two ranks that nothing connects; 1 to 11 nodes of 1 to 3 ranks that compute their routes | messages reach their call, barriers separate, both ends of a connection fit, no rank leaves before its peers are connected, routes fit and span all ranks, everything ends |
| `launch` | two threads with three siblings, blocking or not, with failures, and with five ranks of two cliques; single- and multi-stream groups with graphs; two producers and a sleeping consumer; a FIFO of rolling counters; 3 groups of sends and receives, 3 that need several plans, 22 communicators for the peer order; 13 collectives alone, 3 groups of several | order of kernels, uploads and callbacks; plans retired once; frames and siblings balanced; plans of different ranks fit; a collective's division is exact, proxies get the kernels' steps, results are right; everything ends |
| `conn_skip`, `setup_nics`, `launch_capture`, `launch_mixed`, `launch_rounds`, `launch_split` | see Findings | **violations** |

**Bounds.**  The FIFO depth (8 in the code) is 2 to 4: more than the largest
chunk, less than an operation, so that each run goes round the FIFO and meets
both a full and an empty one.  Operations are chosen so that the step of the
next one must be rounded up.  Flags repeat within a run.  Pools are smaller than
what is posted, so that a main thread has to wait for slots.  The batch size of
`ncclProxyGetPostedOps` is 1, so that a chain is cut.  In `TopoConnect`,
`MAXCHANNELS` (128) is 16 and `CHANNEL_LIMIT` (16) is 2; the constant 64 of
`connect.cc` is 4 times `CHANNEL_LIMIT` in both.  Searched channels then lie on
both sides of every limit.  Eleven nodes include numbers just above, just below
and at powers of two, even and odd, for all corrections in `ncclGetBtree`.  In
`TransportSetup` a round has fewer peers than a rank needs, and channels lie in
both words of the masks.  `WorkFifo` has two mask words of two bits and counters
that wrap several times.  Alignments of `CollPlan` are scaled down together; the
counts leave whole, partial and empty last chunks, and one call has chunks of
twice the alignment, so that its last loop has smaller ones.  Connections of `P2pPlan`
buffer one step, those of `Collectives` two chunks, the least the code
guarantees.

**Fairness** is weak fairness of each thread: kernels are resident together,
as the launch guarantees, and host threads are scheduled by the operating
system.  Where a run asks only that everything ends, it assumes less: that
some step is taken as long as one is possible.  Strong fairness is assumed of
one step in two modules: a proxied operation that is tried again and again
completes in the end (`OpCompletes`, `OpDone`), which is what the network and
the remote side owe to the proxy.  Abort runs assume nothing of the peer.

**Deadlock.**  The runs stop when their operations are done, so TLC's deadlock
check is off; each run has a liveness property that says that its actors finish,
which a deadlock would violate.

## 4. Proofs

`SimpleConnProofs` proves, for every FIFO depth, every sequence of operations
whose slices and chunks fit it (`OpsAssumption` of `SimpleConn`), every
interleaving and, except for the last, every moment of abort:

* `ConnInvariant`, `TypeCorrect`: the inductive invariant `ConnInv` and the types;
* `SlicesInBuffer`: a slice never wraps round the end of the buffer;
* `CreditsAreBounded`: the sender is at most `NCCL_STEPS` ahead of the credits;
* `ReceiverReadsExpected`: a granted slice holds the data of its steps;
* `ImplementsChannel`: without aborts, the connection implements `Channel`.

None of these is inductive alone.  That the receiver reads the right slot needs
that the sender has not reused it, which needs that credits were only returned
for what was copied, which needs that both ends are at the same place of the
same operation when they are at the same step, although each rounds up by
itself.  `ConnInv` says this with `Pos(k)`, the datum kernel `k` copies next
(operation, position in it, step).  A copied step moves it to its successor and
nothing else changes it; the successor depends on the operations alone.  The
data in flight are then a run of successors from the receiver's position to the
sender's (`ChanOK`), each still in its slot because the counters are ordered
(`CountersOK`) and every register is that of its position (`KernOK`).
`BaseFacts` has the arithmetic (division, rounding, slots of a slice),
`SimpleConnLemmas` the preservation of the invariant's parts by the actions of a
kernel, `SimpleConnProofs` the actions of the two ends, aborts, the theorems and
the refinement.

Only model-checked: liveness everywhere (it rests on fairness, which the
prover does not handle), and all properties of the other modules.

## 5. Findings

Each is shown by a run whose property TLC finds violated, and quoted in full in
`PROJECT.json`.

* `conn_skip`, `src/device/prims_ll.h:131`: the clean-up that protects LL flags
  from coming round is done when an *LL operation* is at one of a few step
  numbers, but the step counter is shared with the other protocols, whose
  operations can use those steps up.  A receiver then takes a line of the
  previous round of flags (2^32 steps in the code, 8 in the run).
* `setup_nics`, `src/graph/connect.cc:581`: a rank exchanges the rings of odd
  nodes if its own graph has `crossNic`, which is not among the values the ranks
  align (`src/init.cc:1535`).  If two nodes differ in it their ranks disagree on
  who follows whom in every ring.
* `launch_capture`, `src/enqueue.cc:1134`: capturing a plan overwrites
  `workFifoSent` of its channels, so that channels with pending works count as
  quiesced and their slots are given out again.
* `launch_mixed`, `src/enqueue.cc:1345`: groups on one stream are ordered among
  each other by an event, groups on several streams by the device stream, and
  the two kinds are not ordered with each other.
* `launch_rounds`, `src/group.cc:167`: a sibling that has run out of plans gets
  `ncclLaunchFinish` in every remaining round and pops a frame too many.
* `launch_split`, `src/enqueue.cc:1019`: the work budget may end a plan between
  a receive and the send of the same round.  The kernels of a rank run one after
  the other, so ranks that exchange messages wait for each other's second
  kernel.  The same cut makes a matched send to oneself fail.

Smaller observations, none of which a run depends on:

* In `enqueue.cc:884` the number of channels is estimated from all ranks'
  bytes and compared with the budget; a collective that is too small for its
  estimate gets a plan of its own.
* `device/common.h:243` adds the number of bits already counted where the base
  of the mask word is meant.  The two are equal only if all lower words are full,
  which the scripts of `WorkFifo` keep to.  With warps of 32 threads `x` is not
  set back after the first word, so nothing looks at the lower half of the second
  one; the script for narrow warps uses the first word only.
* Uploads of proxy operations (`enqueue.cc:1357`, `1469`): a group that is not
  captured leaves its upload to a host task while a graph refers to the
  communicator.  If the last graph goes before that task has run, the next group
  is uploaded by its thread and overtakes it.  No comment says that uploads keep
  the order of the kernels, so this is not a finding; `UploadsInOrder` states
  exactly what holds, and the scripts reach the case: the uploads by host tasks
  are in order among themselves, and so are those of captured groups and of the
  thread.
* `cliqueComm0` is not moved on with `cliqueHead` (`group.cc:130`), so ranks of a
  clique that is not the first of the list are launched one at a time.  In
  parallel launch mode this changes nothing.  With `NCCL_LAUNCH_MODE=GROUP` the
  first of two such siblings of one thread would wait in the barrier for the
  second; the scripts have two cliques in parallel mode only.
* A group that fails after `ncclLaunchPrepare` leaves one frame per prepared rank
  on its memory stack: `groupCleanup` pops only the one of `ncclGroupCommJoin`.
  `FramesBalanced` says that nothing stays behind otherwise.
* The intra-process barrier has no abort check (`include/comm.h:462`).
* A P2P connector over the network (`NCCL_CONN_IDX_P2P_NET`) is not in the masks
  from which `ncclTransportP2pSetup` picks the peers it synchronises with at the
  end (`transport.cc:279`), so `ReturnsLast` is stated for the other ones.

## 6. Not modelled

`PROJECT.json` lists every component with its status and the reason.  Left out
for good: element arithmetic, symbol loading, logging, XML, tables of known
machines, NVLS (no such hardware).

Within the modelled parts: registered user buffers, MSCCL and direct
scatter-gather variants of the primitives, several sub-operations per proxy args
in `NetConn`, the UDS side channel of the proxy service, the set-up of CollNet
connections, NVLS and collnet-direct kernels, LL messages in `P2pPlan`,
`NCCL_GRAPH_MIXING_SUPPORT`, communicator creation as a job of a group.
