------------------------------ MODULE MCLaunch ------------------------------
(***************************************************************************)
(* From a group call to kernels: small instances of the group calls, of    *)
(* the planning of sends, receives and collectives with the kernels that   *)
(* run them, of the callback queue, of streams and graphs and of the work  *)
(* FIFO.  A behaviour is one of them, named by part; all but WorkFifo use  *)
(* the same variables.                                                     *)
(***************************************************************************)
EXTENDS WorkFifo, TLC

VARIABLES part, v1, v2, v3, v4, v5, v6, v7, v8, v9, v10, v11, v12

Shared == <<v1, v2, v3, v4, v5, v6, v7, v8, v9, v10, v11, v12>>

mcvars == <<part, vars, Shared>>

(***************************************************************************)
(* The FIFO: three channels, masks of two words, eight slots, counters     *)
(* that roll over at 32.  The last word of a mask is used only when the    *)
(* first is full.                                                          *)
(***************************************************************************)

W(a, b, c) == 0 :> a @@ 1 :> b @@ 2 :> c

Launch(w) == [do |-> "launch", works |-> w, of |-> 0]

Captured(w) == [do |-> "capture", works |-> w, of |-> 0]

Again(k) == [do |-> "replay", works |-> <<>>, of |-> k]

\* On a device with narrow warps only the first word is used.
NarrowScript == <<Launch(W(1, 2, 0)), Launch(W(0, 3, 0)), Launch(W(2, 1, 0)),
                  Launch(W(1, 1, 0))>>

WideScript == <<Launch(W(1, 2, 1)), Launch(W(0, 1, 0)), Launch(W(1, 1, 0)),
              Launch(W(1, 1, 2)), Launch(W(2, 1, 1)), Launch(W(0, 3, 0)),
              Launch(W(2, 1, 1)), Launch(W(0, 2, 0)), Captured(W(2, 1, 0)), Again(9)>>

MCScript == 1 :> NarrowScript @@ 2 :> WideScript

\* A plan is captured between launches.
CaptureScript ==
  2 :> <<Launch(W(1, 0, 0)), Launch(W(1, 1, 1)), Launch(W(1, 1, 0)),
         Captured(W(1, 0, 0)), Launch(W(0, 1, 0)), Launch(W(0, 2, 0)),
         Launch(W(0, 1, 0)), Launch(W(0, 1, 0)), Launch(W(0, 1, 0)), Launch(W(0, 1, 0))>>

(***************************************************************************)
(* Streams and graphs.  A script keeps to one stream per group, or to      *)
(* several; the work of a graph has ended before an uncaptured group runs. *)
(* The graph may go between the last groups or after them, so that host    *)
(* tasks and the thread have operations to upload at the same time.        *)
(***************************************************************************)

Group(streams, graph, plans) ==
  [do |-> "group", streams |-> streams, graph |-> graph, plans |-> plans]

Replayed(s, graph) ==
  [do |-> "replay", streams |-> <<s>>, graph |-> graph, plans |-> <<>>]

Sync(s) == [do |-> "sync", streams |-> <<s>>, graph |-> 0, plans |-> <<>>]

SingleScript ==
  <<Group(<<"s">>, 0, <<TRUE, FALSE>>), Group(<<"t">>, 0, <<TRUE>>),
    Group(<<"s">>, 1, <<TRUE>>), Group(<<"s", "t">>, 1, <<FALSE, TRUE>>),
    Replayed("t", 1), Replayed("t", 1), Sync("t"),
    Group(<<"t">>, 0, <<TRUE, FALSE>>), Group(<<"s">>, 0, <<TRUE>>)>>

MultiScript ==
  <<Group(<<"s", "t">>, 0, <<TRUE>>), Group(<<"u", "v">>, 0, <<TRUE>>),
    Group(<<"u", "s">>, 1, <<TRUE>>), Replayed("u", 1), Sync("u"),
    Group(<<"s", "u">>, 2, <<TRUE>>), Replayed("u", 2), Sync("u"),
    Group(<<"u", "s">>, 0, <<TRUE>>)>>

MixedScript == <<Group(<<"s">>, 0, <<FALSE>>), Group(<<"t", "u">>, 0, <<FALSE>>)>>

SingleStreams ==
  INSTANCE LaunchStreams WITH
    Streams <- {"s", "t"}, Script <- SingleScript,
    main <- v1, nodes <- v2, tail <- v3, event <- v4, needs <- v5, graphs <- v6,
    entries <- v7, alive <- v8, freed <- v9, plans <- v10, uploads <- v11,
    callbackQueue <- v12

MultiStreams ==
  INSTANCE LaunchStreams WITH
    Streams <- {"s", "t", "u", "v"}, Script <- MultiScript,
    main <- v1, nodes <- v2, tail <- v3, event <- v4, needs <- v5, graphs <- v6,
    entries <- v7, alive <- v8, freed <- v9, plans <- v10, uploads <- v11,
    callbackQueue <- v12

MixedStreams ==
  INSTANCE LaunchStreams WITH
    Streams <- {"s", "t", "u"}, Script <- MixedScript,
    main <- v1, nodes <- v2, tail <- v3, event <- v4, needs <- v5, graphs <- v6,
    entries <- v7, alive <- v8, freed <- v9, plans <- v10, uploads <- v11,
    callbackQueue <- v12

(***************************************************************************)
(* The callback queue: two producers with one node each.                   *)
(***************************************************************************)

Queue ==
  INSTANCE MpscQueue WITH
    Producers <- 2, Nodes <- 1, Enqueues <- 3, Spurious <- 1,
    head <- v1, tail <- v2, next <- v3, mutex <- v4, prod <- v5, cons <- v6,
    sent <- v7, got <- v8

(***************************************************************************)
(* Groups: one thread with two ranks and one with the third.               *)
(***************************************************************************)

Call(c, plans, connect) ==
  [comm |-> c, plans |-> plans, connect |-> connect, fail |-> FALSE, captured |-> FALSE]

FailingCall(c) == [Call(c, 1, FALSE) EXCEPT !.fail = TRUE]

CapturedCall(c) == [Call(c, 1, FALSE) EXCEPT !.captured = TRUE]

Calls(calls) == [do |-> "group", calls |-> calls, comm |-> 0]

Do(what, c) == [do |-> what, calls |-> <<>>, comm |-> c]

\* Groups, then the end of the communicators.
LifeScript ==
  <<<<Calls(<<Call(2, 1, TRUE), Call(1, 3, TRUE)>>),
      Calls(<<Call(2, 1, FALSE), Call(1, 1, FALSE)>>), Do("destroy", 2), Do("destroy", 1)>>,
    <<Calls(<<Call(3, 3, TRUE)>>), Calls(<<Call(3, 1, FALSE)>>), Do("finalize", 3),
      Do("destroy", 3)>>>>

\* Connecting may fail, the application aborts.
AbortScript ==
  <<<<Calls(<<Call(1, 1, TRUE), Call(2, 1, TRUE)>>), Do("abort", 1), Do("abort", 2)>>,
    <<Calls(<<Call(3, 1, TRUE)>>), Do("abort", 3)>>>>

\* Scheduling fails for the second of two ranks, then only one of the two is
\* captured; a group of ranks of two cliques succeeds.
FailScript ==
  <<<<Calls(<<FailingCall(2), Call(1, 1, FALSE)>>), Calls(<<CapturedCall(1), Call(2, 1, FALSE)>>),
      Calls(<<Call(2, 2, FALSE), Call(3, 2, FALSE), Call(4, 1, FALSE)>>),
      Do("destroy", 1), Do("destroy", 2), Do("destroy", 3), Do("destroy", 4)>>,
    <<Calls(<<Call(5, 2, FALSE)>>), Do("destroy", 5)>>>>

\* The rank that was called last has fewer plans than its sibling.
RoundsScript ==
  <<<<Calls(<<Call(1, 2, FALSE), Call(2, 1, FALSE)>>)>>, <<>>>>

OneClique == [c \in 1 .. 3 |-> 1]

TwoCliques == <<1, 1, 2, 2, 2>>

BlockingLife ==
  INSTANCE Groups WITH
    Threads <- 1 .. 2, Comms <- 1 .. 3, Clique <- OneClique, Nonblocking <- {},
    Script <- LifeScript, Fails <- 0, LaunchModes <- {"group", "parallel"},
    ncclParamLaunchMode <- v1, th <- v2, ex <- v3, cm <- v4, bar <- v5, fails <- v6

NonblockingLife ==
  INSTANCE Groups WITH
    Threads <- 1 .. 2, Comms <- 1 .. 3, Clique <- OneClique, Nonblocking <- 1 .. 3,
    Script <- LifeScript, Fails <- 0, LaunchModes <- {"group", "parallel"},
    ncclParamLaunchMode <- v1, th <- v2, ex <- v3, cm <- v4, bar <- v5, fails <- v6

Aborted ==
  INSTANCE Groups WITH
    Threads <- 1 .. 2, Comms <- 1 .. 3, Clique <- OneClique, Nonblocking <- 1 .. 3,
    Script <- AbortScript, Fails <- 1, LaunchModes <- {"parallel"},
    ncclParamLaunchMode <- v1, th <- v2, ex <- v3, cm <- v4, bar <- v5, fails <- v6

Failing ==
  INSTANCE Groups WITH
    Threads <- 1 .. 2, Comms <- 1 .. 5, Clique <- TwoCliques, Nonblocking <- {},
    Script <- FailScript, Fails <- 0, LaunchModes <- {"parallel"},
    ncclParamLaunchMode <- v1, th <- v2, ex <- v3, cm <- v4, bar <- v5, fails <- v6

Rounds ==
  INSTANCE Groups WITH
    Threads <- 1 .. 2, Comms <- 1 .. 3, Clique <- OneClique, Nonblocking <- {},
    Script <- RoundsScript, Fails <- 0, LaunchModes <- {"parallel"},
    ncclParamLaunchMode <- v1, th <- v2, ex <- v3, cm <- v4, bar <- v5, fails <- v6

(***************************************************************************)
(* Sends and receives.  A connection buffers one step.                     *)
(***************************************************************************)

Msg(from, to, bytes) == [from |-> from, to |-> to, bytes |-> bytes]

Ring3(bytes) == <<Msg(0, 1, bytes), Msg(1, 2, bytes), Msg(2, 0, bytes)>>

P2pCase(nodes, nCh, perPeer, p2pNet, threshold, budget, calls) ==
  [node |-> [r \in 0 .. Len(nodes) - 1 |-> nodes[r + 1]], calls |-> calls, nCh |-> nCh, perPeer |-> perPeer, stepSize |-> 8,
   p2pNet |-> p2pNet, threshold |-> threshold, budget |-> budget]

\* Several nodes and one; messages of several chunks and of none, to oneself,
\* and more than one to a peer; more channels than peers and a single one.
P2pGroups ==
  {P2pCase(<<0, 1, 0>>, 2, 2, TRUE, 6, 100, Ring3(12) \o <<Msg(0, 0, 5), Msg(2, 1, 0)>>),
   P2pCase(<<0, 0, 0>>, 8, 2, FALSE, 10, 100,
           Ring3(9) \o <<Msg(0, 0, 5), Msg(2, 1, 0), Msg(0, 1, 2)>>),
   P2pCase(<<0, 0, 0>>, 1, 1, FALSE, 10, 100,
           Ring3(9) \o <<Msg(0, 0, 5), Msg(2, 1, 20), Msg(1, 0, 9), Msg(0, 1, 2)>>)}

\* Several plans: messages one way only, which both ends cut at the same place,
\* between messages and inside one, and a send to oneself that ends up in the
\* plan after the receive's.
P2pCuts ==
  {P2pCase(<<0, 0>>, 2, 2, FALSE, 10, 3, [i \in 1 .. 4 |-> Msg(0, 1, 9)]),
   P2pCase(<<0, 1>>, 4, 2, FALSE, 10, 3, [i \in 1 .. 2 |-> Msg(0, 1, 20)])}
  \cup {P2pCase(<<0>>, 1, 1, FALSE, 10, 1, <<Msg(0, 0, 5)>>)}

\* Every rank has a message to the next one and one from the one before it in
\* the last work of the first plan.
P2pSplits == {P2pCase(<<0, 0, 0>>, 2, 2, FALSE, 10, 2, Ring3(9) \o Ring3(9))}

\* Nothing to send: only the orders.
P2pShapes ==
  {P2pCase(s, 1, 1, FALSE, 10, 100, <<>>) :
     s \in {[r \in 1 .. k |-> r - 1] : k \in 1 .. 13}
           \cup {[r \in 1 .. 2 * k |-> r % k] : k \in 1 .. 6}
           \cup {<<0, 1, 1, 1>>, <<0, 0, 0, 1, 2, 2>>, <<0, 1, 2, 3, 4, 3, 0>>}}

P2p ==
  INSTANCE P2pPlan WITH
    Cases <- P2pGroups \cup P2pCuts \cup P2pShapes, NCCL_STEPS <- 1,
    cs <- v1, comm <- v2, order <- v3, phase <- v4, queue <- v5, connect <- v6, lp <- v7,
    plans <- v8, at <- v9, done <- v10, fifo <- v11

P2pSplit ==
  INSTANCE P2pPlan WITH
    Cases <- P2pSplits, NCCL_STEPS <- 1,
    cs <- v1, comm <- v2, order <- v3, phase <- v4, queue <- v5, connect <- v6, lp <- v7,
    plans <- v8, at <- v9, done <- v10, fifo <- v11

(***************************************************************************)
(* Collectives of three ranks on two channels, and of four on four.  Sizes *)
(* are scaled down: Simple data are aligned to 4 bytes, LL data to 8.      *)
(***************************************************************************)

Coll(coll, type, count, algo, proto, tuned, nCh, inplace) ==
  [coll |-> coll, type |-> type, op |-> 0, count |-> count, root |-> 1, inplace |-> inplace,
   algo |-> algo, proto |-> proto, tuned |-> tuned, nCh |-> nCh,
   chunkSize |-> IF proto = "LL" THEN 8 ELSE 4]

\* A chain of three and a root with two children.
Trees3 ==
  <<0 :> [up |-> 1, down |-> {2}] @@ 1 :> [up |-> -1, down |-> {0}] @@ 2 :> [up |-> 0, down |-> {}],
    0 :> [up |-> 2, down |-> {}] @@ 1 :> [up |-> 2, down |-> {}] @@ 2 :> [up |-> -1, down |-> {0, 1}]>>

\* Two nodes, one of them with two ranks; 3 is the network.
Chain3 == 0 :> [up |-> 3, down |-> {1}] @@ 1 :> [up |-> 0, down |-> {}]
          @@ 2 :> [up |-> 3, down |-> {}]

Coll3(budget, calls) ==
  [n |-> 3, rings |-> <<<<0, 2, 1>>, <<1, 2, 0>>>>, trees |-> Trees3, chains |-> <<Chain3, Chain3>>,
   collChannels |-> 2, biRings |-> 1, budget |-> budget, calls |-> calls,
   useIntraNet |-> FALSE, IntraNetThreshold |-> 6]

IntraNet(case) == [case EXCEPT !.useIntraNet = TRUE]

\* Two rings each way round.
Coll4(calls) ==
  LET none == [c \in 1 .. 4 |-> [r \in 0 .. 3 |-> [up |-> -1, down |-> {}]]]
  IN  [n |-> 4, rings |-> <<<<0, 2, 1, 3>>, <<3, 1, 2, 0>>, <<0, 2, 1, 3>>, <<3, 1, 2, 0>>>>,
       trees |-> none, chains |-> none, collChannels |-> 4, biRings |-> 1, budget |-> 8,
       calls |-> calls, useIntraNet |-> FALSE, IntraNetThreshold |-> 6]

\* One call each: rings with whole, partial and empty last chunks, one with
\* chunks of twice the alignment.
SingleColls ==
  {Coll3(4, <<Coll("AllReduce", 1, n, "RING", "SIMPLE", FALSE, 2, TRUE)>>) : n \in {1, 14, 21, 30}}
  \cup {Coll3(4, <<Coll("AllReduce", 2, 9, "RING", "LL", FALSE, 1, FALSE)>>),
        Coll3(4, <<Coll("AllReduce", 2, 9, "TREE", "SIMPLE", FALSE, 2, FALSE)>>),
        Coll3(4, <<Coll("AllReduce", 2, 9, "TREE", "LL", FALSE, 2, FALSE)>>),
        Coll3(4, <<Coll("AllReduce", 2, 9, "COLLNET_CHAIN", "SIMPLE", FALSE, 2, TRUE)>>),
        Coll3(4, <<Coll("AllGather", 1, 6, "RING", "SIMPLE", FALSE, 1, TRUE)>>),
        Coll3(4, <<Coll("AllGather", 1, 9, "RING", "SIMPLE", TRUE, 2, FALSE)>>),
        Coll3(4, <<Coll("ReduceScatter", 1, 6, "RING", "SIMPLE", TRUE, 2, TRUE)>>),
        IntraNet(Coll3(4, <<[Coll("AllReduce", 2, 17, "RING", "SIMPLE", FALSE, 1, FALSE)
                               EXCEPT !.chunkSize = 8]>>)),
        Coll4(<<Coll("AllToAllPivot", 1, 6, "RING", "SIMPLE", FALSE, 4, FALSE)>>)}

\* Groups that share channels, and groups that do not fit one plan.
GroupedColls ==
  {Coll3(2, <<Coll("Broadcast", 1, 9, "RING", "LL", FALSE, 1, FALSE),
              Coll("Reduce", 1, 5, "RING", "LL", FALSE, 1, TRUE)>>),
   IntraNet(Coll3(8, <<Coll("AllReduce", 1, 7, "RING", "SIMPLE", FALSE, 1, FALSE),
                       Coll("AllReduce", 1, 2, "RING", "SIMPLE", FALSE, 1, TRUE),
                       Coll("Broadcast", 1, 10, "RING", "SIMPLE", FALSE, 1, TRUE)>>)),
   Coll3(8, <<Coll("Reduce", 1, 5, "RING", "SIMPLE", TRUE, 1, FALSE),
              Coll("AllGather", 1, 3, "RING", "SIMPLE", FALSE, 1, FALSE),
              Coll("AllReduce", 2, 5, "COLLNET_CHAIN", "SIMPLE", FALSE, 1, FALSE)>>)}

CollAligns == [SIMPLE |-> 4, LL |-> 8]

Colls ==
  INSTANCE Collectives WITH
    Cases <- SingleColls \cup GroupedColls, NCCL_STEPS <- 8,
    BytesAlign <- 4, ProtoAlign <- CollAligns,
    cs <- v1, phase <- v2, queues <- v3, tasks <- v4, sched <- v5, plans <- v6,
    chan <- v7, kernels <- v8, pos <- v9, mem <- v10, fifo <- v11

(***************************************************************************)
(* All of them.                                                            *)
(***************************************************************************)

NoFifo == host = 0 /\ heap = 0 /\ done = 0 /\ kernels = 0 /\ blocks = 0

LastUnused == v9 = 0 /\ v10 = 0 /\ v11 = 0 /\ v12 = 0

HalfUnused == v7 = 0 /\ v8 = 0 /\ LastUnused

AllUnused == v1 = 0 /\ v2 = 0 /\ v3 = 0 /\ v4 = 0 /\ v5 = 0 /\ v6 = 0 /\ HalfUnused

MCInit ==
  \/ part = "fifo" /\ Init /\ AllUnused
  \/ part = "single" /\ SingleStreams!Init /\ NoFifo
  \/ part = "multi" /\ MultiStreams!Init /\ NoFifo
  \/ part = "queue" /\ Queue!Init /\ NoFifo /\ LastUnused
  \/ part = "p2p" /\ P2p!Init /\ NoFifo /\ v12 = 0
  \/ part = "coll" /\ Colls!CollInit /\ NoFifo /\ v12 = 0
  \/ /\ NoFifo /\ HalfUnused
     /\ \/ part = "blocking" /\ BlockingLife!Init
        \/ part = "nonblocking" /\ NonblockingLife!Init
        \/ part = "aborted" /\ Aborted!Init
        \/ part = "failing" /\ Failing!Init

FifoNext == part = "fifo" /\ Next /\ UNCHANGED <<part, Shared>>

StreamsNext == /\ \/ part = "single" /\ SingleStreams!Next
                  \/ part = "multi" /\ MultiStreams!Next
               /\ UNCHANGED <<part, vars>>

QueueNext == part = "queue" /\ Queue!Next /\ UNCHANGED <<part, vars, v9, v10, v11, v12>>

GroupsNext == /\ \/ part = "blocking" /\ BlockingLife!Next
                 \/ part = "nonblocking" /\ NonblockingLife!Next
                 \/ part = "aborted" /\ Aborted!Next
                 \/ part = "failing" /\ Failing!Next
              /\ UNCHANGED <<part, vars, v7, v8, v9, v10, v11, v12>>

P2pNext == part = "p2p" /\ P2p!Next /\ UNCHANGED <<part, vars, v12>>

CollNext == part = "coll" /\ Colls!CollNext /\ UNCHANGED <<part, vars, v12>>

MCNext == FifoNext \/ StreamsNext \/ QueueNext \/ GroupsNext \/ P2pNext \/ CollNext

\* Steps that polling loops must not starve.
KernelStep == part = "fifo" /\ ncclKernelMain /\ UNCHANGED <<part, Shared>>

ThreadStep(t) ==
  /\ \/ part = "blocking" /\ (BlockingLife!AppStep(t) \/ BlockingLife!groupLaunch(t))
     \/ part = "nonblocking" /\ (NonblockingLife!AppStep(t) \/ NonblockingLife!groupLaunch(t))
     \/ part = "aborted" /\ (Aborted!AppStep(t) \/ Aborted!groupLaunch(t))
     \/ part = "failing" /\ (Failing!AppStep(t) \/ Failing!groupLaunch(t))
  /\ UNCHANGED <<part, vars, v7, v8, v9, v10, v11, v12>>

JobStep ==
  /\ \E t \in 1 .. 2 :
       \/ part = "blocking" /\ BlockingLife!JobMain(t)
       \/ part = "nonblocking" /\ NonblockingLife!JobMain(t)
       \/ part = "aborted" /\ Aborted!JobMain(t)
  /\ UNCHANGED <<part, vars, v7, v8, v9, v10, v11, v12>>

AppOnly(t) ==
  /\ \/ part = "nonblocking" /\ NonblockingLife!AppStep(t)
     \/ part = "aborted" /\ Aborted!AppStep(t)
  /\ UNCHANGED <<part, vars, v7, v8, v9, v10, v11, v12>>

ConsumerStep ==
  part = "queue" /\ Queue!Consumer /\ UNCHANGED <<part, vars, v9, v10, v11, v12>>

ProducerStep(p) ==
  part = "queue" /\ Queue!Producer(p) /\ UNCHANGED <<part, vars, v9, v10, v11, v12>>

\* Kernels, threads and jobs that can go on do.
MCSpec ==
  /\ MCInit /\ [][MCNext]_mcvars
  /\ WF_mcvars(MCNext) /\ WF_mcvars(KernelStep) /\ WF_mcvars(JobStep)
  /\ WF_mcvars(ConsumerStep)
  /\ \A i \in 1 .. 2 : /\ WF_mcvars(ThreadStep(i)) /\ WF_mcvars(AppOnly(i))
                       /\ WF_mcvars(ProducerStep(i))

\* The scripts on which the code does not do what its comments say.
CaptureSpec ==
  /\ part = "fifo" /\ Init /\ AllUnused /\ [][FifoNext]_mcvars

MixedSpec ==
  /\ part = "mixed" /\ MixedStreams!Init /\ NoFifo
  /\ [][MixedStreams!Next /\ UNCHANGED <<part, vars>>]_mcvars

RoundsSpec ==
  /\ part = "rounds" /\ Rounds!Init /\ NoFifo /\ HalfUnused
  /\ [][Rounds!Next /\ UNCHANGED <<part, vars, v7, v8, v9, v10, v11, v12>>]_mcvars

SplitNext == P2pSplit!Next /\ UNCHANGED <<part, vars, v12>>

SplitSpec ==
  /\ part = "split" /\ P2pSplit!Init /\ NoFifo /\ v12 = 0
  /\ [][SplitNext]_mcvars /\ WF_mcvars(SplitNext)

(***************************************************************************)
(* Properties.                                                             *)
(***************************************************************************)

\* WorkFifo: a block runs the works of its own channel and plan.
FifoWorksOwn == part = "fifo" => WorksOwn

\* LaunchStreams: kernels of a communicator run one by one, in launch order.
KernelsInOrder ==
  /\ part = "single" => SingleStreams!KernelsInOrder
  /\ part = "multi" => MultiStreams!KernelsInOrder

\* LaunchStreams: proxy operations are uploaded in the order of the kernels,
\* but for host tasks of uncaptured groups that outlive the last graph.
UploadsInOrder ==
  /\ part = "single" => SingleStreams!UploadsInOrder
  /\ part = "multi" => MultiStreams!UploadsInOrder

\* LaunchStreams: plans come back once, after their last use, and so do the
\* strong streams' records of graphs.
RetiredOnce ==
  /\ part = "single" => SingleStreams!RetiredOnce
  /\ part = "multi" => MultiStreams!RetiredOnce

\* MpscQueue: callbacks run in the order they were sent, none lost or doubled.
CallbacksInOrder == part = "queue" => Queue!CallbacksInOrder

\* Groups: no frame is popped that was not pushed, no list is followed that
\* names a communicator which has left its group, and no frame stays behind,
\* unless a group fails after ncclLaunchPrepare.
FramesBalanced ==
  /\ part = "blocking" => BlockingLife!FramesBalanced /\ BlockingLife!FramesReturned
  /\ part = "nonblocking" => NonblockingLife!FramesBalanced /\ NonblockingLife!FramesReturned
  /\ part = "aborted" => Aborted!FramesBalanced /\ Aborted!FramesReturned
  /\ part = "failing" => Failing!FramesBalanced

\* Groups: siblings launch in lock step, and are freed when all are done.
SiblingsTogether ==
  /\ part = "blocking" => BlockingLife!LockStep /\ BlockingLife!FreedLast
  /\ part = "nonblocking" => NonblockingLife!LockStep /\ NonblockingLife!FreedLast
  /\ part = "aborted" => Aborted!FreedLast
  /\ part = "failing" => Failing!FreedLast

\* P2pPlan: in every round the peer a rank sends to receives from it, and all
\* pairs of ranks have a round.
P2pOrdersMeet == part = "p2p" => P2p!OrdersMeet

\* P2pPlan: the two ends of a message cut it into the same pieces, on the same
\* connections and in the same order, without knowing of each other's calls.
P2pPlansFit == part = "p2p" => P2p!PlansFit /\ P2p!SelfMatched

\* CollPlan: the elements of a collective are divided over channels and plans
\* without a gap or an overlap, and a plan fits the work FIFO.
CollCovered == part = "coll" => Colls!CollCovered

\* Collectives: proxies are given the steps that the kernels take.
CollProxies == part = "coll" => Colls!CollProxies

\* Collectives: every output element is what the collective defines.
CollResults == part = "coll" => Colls!CollResults

\* KernelsInOrder of an application that uses one stream in one group and two in
\* the next.
MixedKernelsInOrder == MixedStreams!KernelsInOrder

\* FramesBalanced for a group of two siblings, the first with two plans.
RoundsFramesBalanced == Rounds!FramesBalanced

\* Sends and receives fused in a group progress concurrently: they all complete,
\* whatever number of kernels the group takes.
SplitsComplete == <>P2pSplit!Ended

\* Every kernel runs, every callback is called, every plan is reclaimed, every
\* graph and communicator goes away, every call returns.
AllLaunched ==
  <>(/\ part = "fifo" => Launched
     /\ part = "single" => SingleStreams!Retired
     /\ part = "multi" => MultiStreams!Retired
     /\ part = "queue" => Queue!Drained
     /\ part = "blocking" => BlockingLife!GroupsDone
     /\ part = "nonblocking" => NonblockingLife!GroupsDone
     /\ part = "aborted" => Aborted!GroupsDone
     /\ part = "failing" => Failing!GroupsDone
     /\ part = "p2p" => P2p!Ended
     /\ part = "coll" => Colls!CollEnded)
=============================================================================
