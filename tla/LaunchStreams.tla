--------------------------- MODULE LaunchStreams ---------------------------
(***************************************************************************)
(* How the plans of a communicator become work on streams (enqueue.cc,     *)
(* ncclLaunchPrepare to ncclLaunchFinish; misc/strongstream.cc), and how   *)
(* plans come back to it through callbackQueue.                            *)
(*                                                                         *)
(* A stream is known by its tail, the nodes the next node put on it waits  *)
(* for; recording an event copies a tail, waiting for one adds to a tail.  *)
(* A node is a kernel or a host task.  While a graph is captured, nodes go *)
(* to the graph, and every launch of the graph makes nodes of its own.     *)
(* NCCL_GRAPH_MIXING_SUPPORT is off, as it is by default.                  *)
(*                                                                         *)
(* Script is what the application does, one record per call:               *)
(*   "group"   a group with these streams (the head of tasks->streams      *)
(*             first), captured by graph (0: not captured), whose plans    *)
(*             are given by whether they have proxy operations;            *)
(*   "replay"  launch of a graph on a stream;                              *)
(*   "sync"    wait for a stream.                                          *)
(* Once a graph is not used any more it may be destroyed at any time, and  *)
(* the thread ends by destroying the communicator.                         *)
(***************************************************************************)
EXTENDS Integers, Sequences, FiniteSets, SequencesExt

CONSTANTS Streams, Script

VARIABLES main,    \* the application's thread and the communicator
          nodes,   \* the nodes on the device, in the order they were made
          tail,    \* per stream
          event,   \* doneEvent, and serialEvent of the strong streams
          needs,   \* serialEventNeedsRecord of the strong streams
          graphs,  \* per graph
          entries, \* graphHead of the strong streams: lists of graphs
          alive,   \* the entries neither side has let go of
          freed,   \* how often each entry was deleted
          plans,   \* all plans made so far
          uploads, \* plans given to the proxy, in order
          callbackQueue

vars == <<main, nodes, tail, event, needs, graphs, entries, alive, freed, plans,
          uploads, callbackQueue>>

Strong == {"device", "host"}

Graphs == {Script[k].graph : k \in DOMAIN Script} \ {0}

\* A graph: its nodes, the tips of the strong streams, the dependencies of the
\* captured streams, whether it was destroyed, and the destructors to be run.
NoGraph == [nodes |-> <<>>, tips |-> [s \in Strong |-> {}],
            cap |-> [s \in Streams |-> {}], dropped |-> FALSE, destructors |-> {}]

Init ==
  /\ main = [pc |-> "idle", k |-> 1, lastStream |-> "none", persistentRefs |-> 0,
             unlaunched |-> <<>>]
  /\ nodes = <<>>
  /\ tail = [s \in Streams \cup Strong |-> {}]
  /\ event = [e \in Strong \cup {"done"} |-> {}]
  /\ needs = [s \in Strong |-> FALSE]
  /\ graphs = [g \in Graphs |-> NoGraph]
  /\ entries = [s \in Strong |-> <<>>]
  /\ alive = {}
  /\ freed = [e \in Strong \X Graphs |-> 0]
  /\ plans = <<>>
  /\ uploads = <<>>
  /\ callbackQueue = <<>>

\* What the stream calls of one step of the thread work on.
Gpu == [nodes |-> nodes, tail |-> tail, event |-> event, needs |-> needs,
        graphs |-> graphs, entries |-> entries, alive |-> alive, freed |-> freed]

SetGpu(g) ==
  /\ nodes' = g.nodes /\ tail' = g.tail /\ event' = g.event /\ needs' = g.needs
  /\ graphs' = g.graphs /\ entries' = g.entries /\ alive' = g.alive
  /\ freed' = g.freed

(***************************************************************************)
(* Streams.  In each operation, graph 0 means that nothing is captured.    *)
(***************************************************************************)

\* Entries before the one of this graph whose graph is gone are deleted; the
\* graph's own moves to the front, or is made, with a destructor in the graph.
ncclStrongStreamAcquire(g, graph, ss) ==
  IF graph = 0 THEN g
  ELSE LET list == g.entries[ss]
           at == SelectInSeq(list, LAMBDA e : e = graph)
           passed == IF at = 0 THEN ToSet(list) ELSE {list[i] : i \in 1 .. at - 1}
           dead == {e \in passed : <<ss, e>> \notin g.alive}
           rest == SelectSeq(list, LAMBDA e : e \notin dead \cup {graph})
           h == [g EXCEPT !.entries[ss] = <<graph>> \o rest,
                          !.freed = [e \in DOMAIN @ |->
                             IF e[1] = ss /\ e[2] \in dead THEN @[e] + 1 ELSE @[e]]]
       IN  IF at # 0 THEN h
           ELSE [h EXCEPT !.alive = @ \cup {<<ss, graph>>}, !.needs[ss] = FALSE,
                          !.graphs[graph].destructors = @ \cup {<<ss, 0>>}]

\* A strong stream waits for a stream of the application.
StrongWaits(g, graph, a, b, subsumes) ==
  IF graph = 0
  THEN [g EXCEPT !.event[a] = g.tail[b], !.tail[a] = @ \cup g.tail[b],
                 !.needs[a] = TRUE]
  ELSE [g EXCEPT !.graphs[graph].tips[a] =
                    (IF subsumes THEN {} ELSE @) \cup g.graphs[graph].cap[b],
                 !.needs[a] = TRUE]

\* A stream of the application waits for a strong stream.
WaitsStrong_Stale(g, graph, a, b, subsumes) ==
  IF graph = 0
  THEN [g EXCEPT !.tail[a] = @ \cup g.event[b]]
  ELSE [g EXCEPT !.graphs[graph].cap[a] =
                    (IF subsumes THEN {} ELSE @) \cup g.graphs[graph].tips[b]]

WaitsStrong(g, graph, a, b, subsumes) ==
  IF graph = 0
  THEN LET h == IF g.needs[b]
                THEN [g EXCEPT !.needs[b] = FALSE, !.event[b] = g.tail[b]] ELSE g
       IN  [h EXCEPT !.tail[a] = @ \cup h.event[b]]
  ELSE [g EXCEPT !.graphs[graph].cap[a] =
                    (IF subsumes THEN {} ELSE @) \cup g.graphs[graph].tips[b]]

Node(kind, p, deps) == [kind |-> kind, plan |-> p, deps |-> deps, st |-> "queued"]

\* A host task on hostStream.
ncclStrongStreamLaunchHost(g, graph, p) ==
  IF graph = 0
  THEN [g EXCEPT !.nodes = Append(@, Node("host", p, g.tail["host"])),
                 !.tail["host"] = {Len(g.nodes) + 1}, !.needs["host"] = TRUE]
  ELSE LET own == g.graphs[graph]
       IN  [g EXCEPT !.graphs[graph].nodes = Append(@, Node("host", p, own.tips["host"])),
                     !.graphs[graph].tips["host"] = {Len(own.nodes) + 1},
                     !.needs["host"] = TRUE]

\* A kernel on a stream of the application.
LaunchOn(g, graph, s, p) ==
  IF graph = 0
  THEN [g EXCEPT !.nodes = Append(@, Node("kernel", p, g.tail[s])),
                 !.tail[s] = {Len(g.nodes) + 1}]
  ELSE LET own == g.graphs[graph]
       IN  [g EXCEPT !.graphs[graph].nodes = Append(@, Node("kernel", p, own.cap[s])),
                     !.graphs[graph].cap[s] = {Len(own.nodes) + 1}]

(***************************************************************************)
(* The application's thread.                                               *)
(***************************************************************************)

Item == Script[main.k]

\* The plans whose reclaimers wait in callbackQueue come back.
Reclaimed == [p \in DOMAIN plans |->
                [plans[p] EXCEPT !.reclaims = @ + Len(SelectSeq(callbackQueue,
                                                        LAMBDA q : q = p))]]

RefsLeft == main.persistentRefs
            - Len(SelectSeq(callbackQueue, LAMBDA p : plans[p].persistent))

\* What makes launchStream wait for the communicator's work before this.
Join(g, graph, streams) ==
  IF Len(streams) # 1 \/ graph # 0
  THEN WaitsStrong(FoldLeft(LAMBDA h, s : StrongWaits(h, graph, "device", s, FALSE),
                            g, Tail(streams)),
                   graph, Head(streams), "device", FALSE)
  ELSE IF main.lastStream \notin {"none", Head(streams)}
  THEN [g EXCEPT !.tail[Head(streams)] = @ \cup g.event["done"]]
  ELSE g

\* The host tasks of these plans, and launchStream waits for them.
HostTasks(g, graph, s, ps) ==
  IF ps = <<>> THEN g
  ELSE WaitsStrong(FoldLeft(LAMBDA h, p : ncclStrongStreamLaunchHost(h, graph, p),
                            ncclStrongStreamAcquire(g, graph, "host"), ps),
                   graph, s, "host", FALSE)

ncclLaunchPrepare ==
  /\ main.pc = "idle" /\ main.k <= Len(Script) /\ Item.do = "group"
  /\ LET graph == Item.graph
         persistent == graph # 0
         ids == [i \in DOMAIN Item.plans |-> Len(plans) + i]
         ops == SelectSeq(ids, LAMBDA p : Item.plans[p - Len(plans)])
         joined == Join(ncclStrongStreamAcquire(Gpu, graph, "device"), graph, Item.streams)
         hosted == IF persistent \/ RefsLeft # 0
                   THEN HostTasks(joined, graph, Head(Item.streams), ops) ELSE joined
     IN  /\ SetGpu(IF persistent
                   THEN [hosted EXCEPT !.graphs[graph].destructors =
                                          @ \cup {<<"plans", main.k>>}]
                   ELSE hosted)
         /\ plans' = Reclaimed \o [i \in DOMAIN Item.plans |->
                        [persistent |-> persistent, graph |-> graph, group |-> main.k,
                         hasProxyOps |-> Item.plans[i], reclaims |-> 0]]
         /\ main' = [main EXCEPT !.pc = "launch", !.unlaunched = ids,
                                 !.persistentRefs = RefsLeft +
                                    IF persistent THEN Len(ids) ELSE 0]
  /\ callbackQueue' = <<>>
  /\ UNCHANGED uploads

\* The proxy operations of a plan go to the proxy, and unless a graph still
\* needs the plan it comes back through callbackQueue.
hostStreamPlanTask_Always(p) ==
  /\ uploads' = IF plans[p].hasProxyOps THEN Append(uploads, p) ELSE uploads
  /\ callbackQueue' = Append(callbackQueue, p)

hostStreamPlanTask(p) ==
  /\ uploads' = IF plans[p].hasProxyOps THEN Append(uploads, p) ELSE uploads
  /\ callbackQueue' = IF plans[p].persistent THEN callbackQueue
                      ELSE Append(callbackQueue, p)

ncclLaunchKernelAfter_Direct(p) ==
  IF ~plans[p].persistent THEN hostStreamPlanTask(p)
  ELSE UNCHANGED <<uploads, callbackQueue>>

ncclLaunchKernelAfter(p) ==
  IF ~plans[p].persistent /\ main.persistentRefs = 0 THEN hostStreamPlanTask(p)
  ELSE /\ callbackQueue' = IF plans[p].persistent \/ plans[p].hasProxyOps
                           THEN callbackQueue ELSE Append(callbackQueue, p)
       /\ UNCHANGED uploads

ncclLaunchKernel ==
  /\ main.pc = "launch" /\ main.unlaunched # <<>>
  /\ LET p == Head(main.unlaunched)
         s == Head(Item.streams)
         g == LaunchOn(Gpu, Item.graph, s, p)
         single == Len(Item.streams) = 1 /\ ~plans[p].persistent
     IN  /\ SetGpu(IF single THEN [g EXCEPT !.event["done"] = {Len(g.nodes)}] ELSE g)
         /\ main' = [main EXCEPT !.unlaunched = Tail(@),
                                 !.lastStream = IF single THEN s ELSE @]
         /\ ncclLaunchKernelAfter(p)
  /\ UNCHANGED plans

ncclLaunchFinish ==
  /\ main.pc = "launch" /\ main.unlaunched = <<>>
  /\ LET graph == Item.graph
         s == Head(Item.streams)
     IN  IF graph = 0 /\ Len(Item.streams) = 1 THEN SetGpu(Gpu)
         ELSE SetGpu(FoldLeft(LAMBDA h, t : WaitsStrong(h, graph, t, "device", TRUE),
                              StrongWaits(Gpu, graph, "device", s, TRUE),
                              Tail(Item.streams)))
  /\ main' = [main EXCEPT !.pc = "idle", !.k = @ + 1]
  /\ UNCHANGED <<plans, uploads, callbackQueue>>

\* The application launches a graph on a stream.
Replay ==
  /\ main.pc = "idle" /\ main.k <= Len(Script) /\ Item.do = "replay"
  /\ LET s == Head(Item.streams)
         own == graphs[Item.graph].nodes
         base == Len(nodes)
     IN  /\ nodes' = nodes \o [i \in DOMAIN own |->
                       [own[i] EXCEPT !.deps = {d + base : d \in @} \cup tail[s]]]
         /\ tail' = [tail EXCEPT ![s] = {base + i : i \in DOMAIN own}]
  /\ main' = [main EXCEPT !.k = @ + 1]
  /\ UNCHANGED <<event, needs, graphs, entries, alive, freed, plans, uploads,
                 callbackQueue>>

Done(ids) == \A n \in ids : nodes[n].st = "done"

\* The application waits for a stream.
StreamSynchronize ==
  /\ main.pc = "idle" /\ main.k <= Len(Script) /\ Item.do = "sync"
  /\ Done(tail[Head(Item.streams)])
  /\ main' = [main EXCEPT !.k = @ + 1]
  /\ UNCHANGED <<nodes, tail, event, needs, graphs, entries, alive, freed, plans,
                 uploads, callbackQueue>>

\* commDestroySync waits for the strong streams and polls; then it polls for
\* as long as graphs refer to the communicator.
Synchronize ==
  /\ main.pc = "idle" /\ main.k > Len(Script)
  /\ \A ss \in Strong : Done(tail[ss] \cup event[ss])
  /\ needs' = [ss \in Strong |-> FALSE]
  /\ main' = [main EXCEPT !.pc = "polling", !.persistentRefs = RefsLeft]
  /\ plans' = Reclaimed /\ callbackQueue' = <<>>
  /\ UNCHANGED <<nodes, tail, event, graphs, entries, alive, freed, uploads>>

PollCallbacks ==
  /\ main.pc = "polling" /\ main.persistentRefs # 0 /\ callbackQueue # <<>>
  /\ main' = [main EXCEPT !.persistentRefs = RefsLeft]
  /\ plans' = Reclaimed /\ callbackQueue' = <<>>
  /\ UNCHANGED <<nodes, tail, event, needs, graphs, entries, alive, freed, uploads>>

\* The communicator is freed, its strong streams last: whoever comes last, this
\* or the graph's destructor, deletes an entry.
ncclStrongStreamDestruct ==
  /\ main.pc = "polling" /\ main.persistentRefs = 0
  /\ main' = [main EXCEPT !.pc = "freed"]
  /\ LET listed == {e \in Strong \X Graphs : \E i \in DOMAIN entries[e[1]] :
                                               entries[e[1]][i] = e[2]}
     IN  /\ freed' = [e \in DOMAIN freed |->
                        IF e \in listed \ alive THEN freed[e] + 1 ELSE freed[e]]
         /\ alive' = alive \ listed
  /\ UNCHANGED <<nodes, tail, event, needs, graphs, entries, plans, uploads, callbackQueue>>

MainStep == \/ ncclLaunchPrepare \/ ncclLaunchKernel \/ ncclLaunchFinish \/ Replay
            \/ StreamSynchronize \/ Synchronize \/ PollCallbacks \/ ncclStrongStreamDestruct

(***************************************************************************)
(* The device, and the driver that destroys graphs.                        *)
(***************************************************************************)

StartKernel(n) ==
  /\ nodes[n].kind = "kernel" /\ nodes[n].st = "queued" /\ Done(nodes[n].deps)
  /\ nodes' = [nodes EXCEPT ![n].st = "running"]
  /\ UNCHANGED <<main, tail, event, needs, graphs, entries, alive, freed, plans,
                 uploads, callbackQueue>>

\* A kernel that needs the proxy ends only when its operations were uploaded.
EndKernel(n) ==
  /\ nodes[n].st = "running"
  /\ LET p == nodes[n].plan
         ended == {m \in DOMAIN nodes : nodes[m].plan = p /\ nodes[m].kind = "kernel"
                                                          /\ nodes[m].st = "done"}
     IN  plans[p].hasProxyOps =>
           Len(SelectSeq(uploads, LAMBDA q : q = p)) > Cardinality(ended)
  /\ nodes' = [nodes EXCEPT ![n].st = "done"]
  /\ UNCHANGED <<main, tail, event, needs, graphs, entries, alive, freed, plans,
                 uploads, callbackQueue>>

hostStreamPlanCallback(n) ==
  /\ nodes[n].kind = "host" /\ nodes[n].st = "queued" /\ Done(nodes[n].deps)
  /\ hostStreamPlanTask(nodes[n].plan)
  /\ nodes' = [nodes EXCEPT ![n].st = "done"]
  /\ UNCHANGED <<main, tail, event, needs, graphs, entries, alive, freed, plans>>

\* A graph the application has no more use for is destroyed when its launches
\* have ended; its destructors then run one by one.
DropGraph(g) ==
  /\ ~graphs[g].dropped
  /\ \A k \in DOMAIN Script : Script[k].graph = g => k < main.k
  /\ \A n \in DOMAIN nodes : plans[nodes[n].plan].graph = g => nodes[n].st = "done"
  /\ graphs' = [graphs EXCEPT ![g].dropped = TRUE]
  /\ UNCHANGED <<main, nodes, tail, event, needs, entries, alive, freed, plans,
                 uploads, callbackQueue>>

graphDestructor(g, ss) ==
  /\ graphs[g].dropped /\ <<ss, 0>> \in graphs[g].destructors
  /\ graphs' = [graphs EXCEPT ![g].destructors = @ \ {<<ss, 0>>}]
  /\ alive' = alive \ {<<ss, g>>}
  /\ freed' = IF <<ss, g>> \in alive THEN freed
              ELSE [freed EXCEPT ![<<ss, g>>] = @ + 1]
  /\ UNCHANGED <<main, nodes, tail, event, needs, entries, plans, uploads, callbackQueue>>

persistentDestructor(g, k) ==
  /\ graphs[g].dropped /\ <<"plans", k>> \in graphs[g].destructors
  /\ graphs' = [graphs EXCEPT ![g].destructors = @ \ {<<"plans", k>>}]
  /\ callbackQueue' = callbackQueue \o
       SelectSeq([p \in DOMAIN plans |-> p], LAMBDA p : plans[p].group = k)
  /\ UNCHANGED <<main, nodes, tail, event, needs, entries, alive, freed, plans, uploads>>

DeviceStep == \E n \in DOMAIN nodes : StartKernel(n) \/ EndKernel(n) \/ hostStreamPlanCallback(n)

DriverStep == \E g \in Graphs :
                \/ DropGraph(g)
                \/ \E ss \in Strong : graphDestructor(g, ss)
                \/ \E k \in DOMAIN Script : persistentDestructor(g, k)

Next == MainStep \/ DeviceStep \/ DriverStep

Spec == Init /\ [][Next]_vars

(***************************************************************************)
(* Properties.                                                             *)
(***************************************************************************)

Kernels == {n \in DOMAIN nodes : nodes[n].kind = "kernel"}

\* A kernel of the communicator starts only when all kernels launched before
\* it have ended, whatever streams they were launched on: they share the
\* connections, whose steps they take up where the one before left them.
KernelsInOrder ==
  \A n, m \in Kernels : n < m /\ nodes[m].st # "queued" => nodes[n].st = "done"

\* The plans whose host task is or was on hostStream, or is in a graph.
Hosted == {p \in DOMAIN plans : plans[p].persistent
                                \/ \E n \in DOMAIN nodes : nodes[n].kind = "host" /\ nodes[n].plan = p}

\* The proxy is given the operations of plans once per kernel and in the order
\* in which their kernels run, as far as host tasks do it, and as far as the
\* thread and replayed graphs do.  The thread may overtake a host task in one
\* case only: an uncaptured group left it on hostStream, and the last graph is
\* gone before it has run.
UploadsInOrder ==
  LET launched == SelectSeq(nodes, LAMBDA n : n.kind = "kernel")
      order == [i \in DOMAIN launched |-> launched[i].plan]
               \o (IF main.pc = "launch" /\ Item.graph = 0 THEN main.unlaunched ELSE <<>>)
      Of(seq, ps) == SelectSeq(seq, LAMBDA p : p \in ps /\ plans[p].hasProxyOps)
      byThread == DOMAIN plans \ Hosted
      captured == {p \in DOMAIN plans : plans[p].persistent}
  IN  \A ps \in {Hosted, byThread \cup captured} : IsPrefix(Of(uploads, ps), Of(order, ps))

\* A plan comes back once, and only when no host task will read it and, if it
\* is persistent, no kernel reads its works; an entry of a strong stream is
\* deleted once, whether its graph or the communicator goes first.
RetiredOnce ==
  /\ \A p \in DOMAIN plans :
       LET coming == Len(SelectSeq(callbackQueue, LAMBDA q : q = p))
       IN  /\ plans[p].reclaims + coming <= 1
           /\ plans[p].reclaims + coming = 1 =>
                \A n \in DOMAIN nodes :
                  nodes[n].plan = p /\ (plans[p].persistent \/ nodes[n].kind = "host")
                    => nodes[n].st = "done"
  /\ \A e \in DOMAIN freed : freed[e] <= 1
  /\ main.pc = "freed" => callbackQueue = <<>>

\* When the communicator was freed, every issued kernel had ended.
FinalizeFlushes == main.pc \in {"polling", "freed"} => Done(Kernels)

\* All is launched, run and freed, nothing is left.
Retired ==
  /\ main.pc = "freed" /\ Done(DOMAIN nodes)
  /\ \A g \in Graphs : graphs[g].dropped /\ graphs[g].destructors = {}
  /\ \A p \in DOMAIN plans : plans[p].reclaims = 1
  /\ \A e \in DOMAIN freed : freed[e] = 1

=============================================================================
