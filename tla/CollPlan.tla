------------------------------ MODULE CollPlan ------------------------------
(***************************************************************************)
(* How a group's collectives become kernel plans (enqueue.cc): they are    *)
(* queued sorted, given an algorithm per run of alike ones, divided over   *)
(* three queues, and each is cut into one work element per channel until   *)
(* the work budget of a plan is used up, when the next plan starts.        *)
(*                                                                         *)
(* Every rank runs this code on the same calls and the same tables, so one *)
(* run of it stands for all ranks.  A case is                              *)
(*   n             the number of ranks,                                    *)
(*   rings, trees, chains   the topology of each channel,                  *)
(*   collChannels  comm->collChannels,                                     *)
(*   biRings       pivotA2ANumBiRings,                                     *)
(*   budget        workFifoDepth / 2,                                      *)
(*   useIntraNet, IntraNetThreshold   which Simple rings use the network   *)
(*                 inside a node,                                          *)
(*   calls         the calls of the group: coll, type (the size of an      *)
(*                 element; the types used are ordered like their sizes),  *)
(*                 op, count, root, inplace, and what the tuning tables    *)
(*                 answer for it: algo, proto, tuned (a tuner chose its    *)
(*                 channels), nCh and chunkSize.                           *)
(* The calls hold what ncclInfoSetDerived leaves: a copying collective     *)
(* counts bytes.  BytesAlign and ProtoAlign stand for NCCL_BYTES_ALIGNMENT *)
(* and the alignments of computeCollAlignCount, scaled down together.      *)
(***************************************************************************)
EXTENDS Integers, Sequences, FiniteSets, FiniteSetsExt, SequencesExt, Align

CONSTANTS Cases, NCCL_STEPS, BytesAlign, ProtoAlign

VARIABLES
  cs,      \* the case
  phase,   \* where ncclLaunchPrepare is
  queues,  \* tasks->collQueue, collCBDQueue, collnetQueue, collTunedQueue
  tasks,   \* nTasksColl, workBytesTotal, usableChannels
  sched,   \* locals of the plan's scheduling: totalCBDBytes, nWorkBudget
  plans    \* the plans: per channel its works and collBytes

planVars == <<cs, phase, queues, tasks, sched, plans>>

Ranks == 0..cs.n - 1
Chans == 1..cs.collChannels

(***************************************************************************)
(* ncclFunc_t.                                                             *)
(***************************************************************************)
ncclFunc == [Broadcast |-> 0, Reduce |-> 1, AllGather |-> 2,
             ReduceScatter |-> 3, AllReduce |-> 4, AllToAllPivot |-> 8]

(***************************************************************************)
(* collCmp > 0: a is after b, by collective, type, operator and count.     *)
(***************************************************************************)
collCmp(a, b) ==
  LET key(i) == <<ncclFunc[i.coll], i.type, i.op, i.count>>
  IN  \E f \in 1..4 : /\ key(a)[f] > key(b)[f]
                      /\ \A g \in 1..f - 1 : key(a)[g] = key(b)[g]

(***************************************************************************)
(* ncclIntruQueueSortEnqueue: before the first one that is not after x.    *)
(***************************************************************************)
SortEnqueue(q, x) ==
  LET at == Min({i \in 1..Len(q) : ~collCmp(q[i], x)} \cup {Len(q) + 1})
  IN  InsertAt(q, at, x)

(***************************************************************************)
(* The part of ncclInfoSetDerived that the planning reads.                 *)
(***************************************************************************)
workBytes(i) == i.count * i.type

nBytes(i) ==
  workBytes(i) * (IF i.coll \in {"AllGather", "ReduceScatter"} THEN cs.n ELSE 1)

(***************************************************************************)
(* The chunkSteps of computeCollChunkInfo: only Simple rings use several.  *)
(***************************************************************************)
chunkSteps(i) ==
  IF i.proto = "SIMPLE" /\ i.algo = "RING" /\ i.coll \notin {"Broadcast", "Reduce"}
  THEN NCCL_STEPS \div 2 ELSE 1

chunkCount(i) == i.chunkSize \div i.type

computeCollAlignCount(i) == ProtoAlign[i.proto] \div i.type

computeCollSteps(i, count) ==
  chunkSteps(i) *
    CASE i.coll = "AllReduce" /\ i.algo = "RING" ->
           divUp(count, cs.n * chunkCount(i)) * (cs.n - 1) * 2
      [] i.coll \in {"ReduceScatter", "AllGather"} ->
           divUp(count, chunkCount(i)) * (cs.n - 1)
      [] OTHER -> divUp(count, chunkCount(i))

\* Mutant: the last loop's data are divided rounding down.
computeCollLastChunkInfo_Down(i, count) ==
  IF i.coll = "AllReduce" /\ i.algo = "RING"
  THEN roundUp((count % (cs.n * chunkCount(i))) \div cs.n, computeCollAlignCount(i))
  ELSE chunkCount(i)

computeCollLastChunkInfo(i, count) ==
  IF i.coll = "AllReduce" /\ i.algo = "RING"
  THEN roundUp(divUp(count % (cs.n * chunkCount(i)), cs.n),
               computeCollAlignCount(i))
  ELSE chunkCount(i)

(***************************************************************************)
(* The connections of a ring: initCollWorkElem's choice for the kernel and *)
(* initCollProxyOp's for the proxy.                                        *)
(***************************************************************************)
NCCL_CONN_IDX_P2P_NET == 2

workConnIndex(i) ==
  IF i.proto = "SIMPLE" /\ i.algo = "RING" /\ cs.useIntraNet /\ nBytes(i) > cs.IntraNetThreshold
  THEN NCCL_CONN_IDX_P2P_NET ELSE 0

proxyConnIndex(i) ==
  IF i.proto = "SIMPLE" /\ i.algo = "RING" /\ cs.useIntraNet /\ nBytes(i) > cs.IntraNetThreshold
  THEN NCCL_CONN_IDX_P2P_NET ELSE 0

-----------------------------------------------------------------------------

NewPlan == [works |-> [c \in Chans |-> << >>], collBytes |-> [c \in Chans |-> 0]]

StartPlan(total) == [totalCBDBytes |-> total, nWorkBudget |-> cs.budget,
                     maxBytesPerChannel |-> 0]

Init ==
  /\ cs \in Cases
  /\ phase = "append"
  /\ queues = [coll |-> << >>, cbd |-> << >>, net |-> << >>, tuned |-> << >>]
  /\ tasks = [nTasksColl |-> 0, workBytesTotal |-> 0, usableChannels |-> 1]
  /\ sched = StartPlan(0)
  /\ plans = << >>

(***************************************************************************)
(* The calls of the group, in order.  An empty one would leave no task, so *)
(* the calls of a case are not empty.                                      *)
(***************************************************************************)
taskAppend ==
  /\ phase = "append" /\ plans = << >>
  /\ LET i == tasks.nTasksColl + 1
         info == [id |-> i] @@ [aggnBytes |-> 0] @@ cs.calls[i]
     IN  /\ i <= Len(cs.calls)
         /\ queues' = [queues EXCEPT !.coll = SortEnqueue(@, info)]
         /\ tasks' = [tasks EXCEPT !.nTasksColl = i,
                                   !.workBytesTotal = @ + workBytes(info)]
         /\ phase' = IF i = Len(cs.calls) THEN "plan" ELSE phase
  /\ UNCHANGED <<cs, sched, plans>>

(***************************************************************************)
(* Each run of infos with the same collective, operator and type, which    *)
(* the sorting made neighbours, is tuned as one: all get the algorithm and *)
(* protocol found for the first with the bytes of all.                     *)
(***************************************************************************)
Tune(q) ==
  LET run(i) == {j \in DOMAIN q : <<q[j].coll, q[j].op, q[j].type>>
                                  = <<q[i].coll, q[i].op, q[i].type>>}
      head(i) == q[Min(run(i))]
  IN  [i \in DOMAIN q |->
         [q[i] EXCEPT !.algo = head(i).algo, !.proto = head(i).proto,
                      !.aggnBytes = MapThenSumSet(LAMBDA j : nBytes(q[j]), run(i))]]

(***************************************************************************)
(* A plan starts and scheduleCollTasksToPlan drains collQueue, which holds *)
(* something in the first plan only.                                       *)
(***************************************************************************)
drainCollQueue ==
  /\ phase = "plan"
  /\ \E infos \in {Tune(queues.coll)} :
     LET net     == SelectSeq(infos, LAMBDA i : i.algo = "COLLNET_CHAIN")
         tuned   == SelectSeq(infos, LAMBDA i : i.algo # "COLLNET_CHAIN" /\ i.tuned)
         cbd     == SelectSeq(infos, LAMBDA i : i.algo # "COLLNET_CHAIN" /\ ~i.tuned)
         apart   == FoldLeft(LAMBDA s, i : s + workBytes(i), 0, net \o tuned)
         acc     == FoldLeft(LAMBDA s, i : s + i.nCh, 0, infos)
         usable  == IF infos = << >> THEN tasks.usableChannels
                    ELSE Min({cs.collChannels, acc})
         total   == tasks.workBytesTotal - apart
     IN  /\ queues' = [coll |-> << >>, cbd |-> queues.cbd \o cbd,
                       net |-> queues.net \o net, tuned |-> queues.tuned \o tuned]
         /\ tasks' = [tasks EXCEPT !.workBytesTotal = total, !.usableChannels = usable]
         /\ sched' = [StartPlan(total) EXCEPT
                        !.maxBytesPerChannel = roundUp(divUp(total, usable), BytesAlign)]
  /\ plans' = Append(plans, NewPlan)
  /\ phase' = "sched"
  /\ UNCHANGED cs

-----------------------------------------------------------------------------
(***************************************************************************)
(* appendWorkElemColl: a work holds one element (NCCL_MAX_WORK_ELEMENTS),  *)
(* so each of elems, at most one per channel, is a work of its own.        *)
(***************************************************************************)
appendWorks(plan, elems) ==
  [works |-> [c \in Chans |-> IF c \in DOMAIN elems THEN Append(plan.works[c], elems[c])
                              ELSE plan.works[c]],
   collBytes |-> [c \in Chans |-> IF c \in DOMAIN elems
                                  THEN plan.collBytes[c] + elems[c].n * elems[c].info.type
                                  ELSE plan.collBytes[c]]]

Elem(i, c, off, n, bid, nCh, steps) ==
  [id |-> i.id, chan |-> c, off |-> off, n |-> n, last |-> computeCollLastChunkInfo(i, n),
   bid |-> bid, nCh |-> nCh, steps |-> steps, info |-> i,
   conn |-> workConnIndex(i)]

(***************************************************************************)
(* The elements that a channel with have bytes takes of the left ones: up  *)
(* to the plan's maxBytesPerChannel, rounded up to the alignment.          *)
(* AllToAllPivot skips no channel.                                         *)
(***************************************************************************)
enqBytes(i, left, have, maxBytes) ==
  IF have > maxBytes THEN left * i.type ELSE Min({maxBytes - have, left * i.type})

\* Mutant: rounding up may take more than is left.
workCount_Over(i, left, have, maxBytes) ==
  IF i.coll # "AllToAllPivot" /\ (maxBytes <= have \/ left = 0) THEN 0
  ELSE roundUp(divUp(enqBytes(i, left, have, maxBytes), i.type), computeCollAlignCount(i))

workCount(i, left, have, maxBytes) ==
  IF i.coll # "AllToAllPivot" /\ (maxBytes <= have \/ left = 0) THEN 0
  ELSE Min({roundUp(divUp(enqBytes(i, left, have, maxBytes), i.type),
                    computeCollAlignCount(i)), left})

(***************************************************************************)
(* addCBDCollToPlan: the channels in order; end[c] is where the share of   *)
(* channel c ends.  The kernel of AllToAllPivot divides the data by bid.   *)
(***************************************************************************)
addCBDCollToPlan(i, usable, maxBytes, plan) ==
  LET pivot == i.coll = "AllToAllPivot"
      end[c \in 0..usable] ==
        IF c = 0 THEN 0
        ELSE end[c - 1] + workCount(i, i.count - end[c - 1], plan.collBytes[c], maxBytes)
      n(c) == end[c] - end[c - 1]
  IN  [c \in {c \in 1..usable : pivot \/ n(c) > 0} |->
         Elem(i, c, end[c - 1], n(c), c - 1, usable, computeCollSteps(i, n(c)))]

(***************************************************************************)
(* addCollnetCollToPlan: every channel takes part in every loop, its share *)
(* picked by bid.                                                          *)
(***************************************************************************)
addCollnetCollToPlan(i, usable) ==
  LET nCh == Min({i.nCh, usable})
  IN  [c \in 1..nCh |-> Elem(i, c, 0, divUp(i.count, nCh), c - 1, nCh,
                             divUp(nBytes(i), nCh * i.chunkSize))]

(***************************************************************************)
(* The least loaded channels: the first nCh, in which each later channel   *)
(* replaces the first of the most loaded when it has less.                 *)
(***************************************************************************)
LeastLoaded(nCh, usable, collBytes) ==
  LET Fit(least, c) ==
        LET top == Max({collBytes[least[b]] : b \in 1..nCh})
            b0  == Min({b \in 1..nCh : collBytes[least[b]] = top})
        IN  IF collBytes[c] < top THEN [least EXCEPT ![b0] = c] ELSE least
  IN  FoldLeft(Fit, [b \in 1..nCh |-> b], [k \in 1..usable - nCh |-> nCh + k])

(***************************************************************************)
(* addTunedCollToPlan: equal aligned shares on the least loaded channels.  *)
(***************************************************************************)
addTunedCollToPlan(i, usable, plan) ==
  LET share == roundUp(divUp(i.count, Min({i.nCh, usable})), computeCollAlignCount(i))
      nCh   == divUp(i.count, share)
      least == LeastLoaded(nCh, usable, plan.collBytes)
      bidOf(c) == CHOOSE b \in 1..nCh : least[b] = c
      n(b)  == Min({share, i.count - (b - 1) * share})
  IN  [c \in {least[b] : b \in 1..nCh} |->
         Elem(i, c, (bidOf(c) - 1) * share, n(bidOf(c)), 0, 0, computeCollSteps(i, n(bidOf(c))))]

(***************************************************************************)
(* The rest of scheduleCollTasksToPlan, a collective at a time: the CBD    *)
(* queue first, then the collnet and the tuned one.  The first head that   *)
(* the budget does not allow ends the plan.                                *)
(***************************************************************************)
Current == SelectSeq(<<"cbd", "net", "tuned">>, LAMBDA q : queues[q] # << >>)

nTaskChannels(i, which) ==
  IF which = "cbd"
  THEN divUp(i.aggnBytes * tasks.usableChannels, sched.totalCBDBytes)
  ELSE i.nCh

scheduleColl ==
  /\ phase = "sched" /\ Current # << >>
  /\ LET which == Current[1]
         info  == Head(queues[which])
         plan  == Last(plans)
         elems == CASE which = "cbd"   -> addCBDCollToPlan(info, tasks.usableChannels,
                                            sched.maxBytesPerChannel, plan)
                    [] which = "net"   -> addCollnetCollToPlan(info, tasks.usableChannels)
                    [] which = "tuned" -> addTunedCollToPlan(info, tasks.usableChannels, plan)
     IN  /\ sched.nWorkBudget >= nTaskChannels(info, which)
         /\ plans' = [plans EXCEPT ![Len(plans)] = appendWorks(plan, elems)]
         /\ queues' = [queues EXCEPT ![which] = Tail(@)]
         /\ sched' = [sched EXCEPT !.nWorkBudget = @ - Cardinality(DOMAIN elems)]
         /\ tasks' = [tasks EXCEPT !.nTasksColl = @ - 1,
                        !.workBytesTotal = @ - (IF which = "cbd" THEN workBytes(info) ELSE 0)]
  /\ UNCHANGED <<cs, phase>>

(***************************************************************************)
(* The plan ends.  One that took nothing is an error.                      *)
(***************************************************************************)
endPlan ==
  /\ phase = "sched"
  /\ \/ Current = << >>
     \/ /\ Current # << >>
        /\ sched.nWorkBudget < nTaskChannels(Head(queues[Current[1]]), Current[1])
  /\ phase' = CASE sched.nWorkBudget = cs.budget -> "tooSmall"
                [] sched.nWorkBudget # cs.budget /\ tasks.nTasksColl # 0 -> "plan"
                [] OTHER -> "planned"
  /\ UNCHANGED <<cs, queues, tasks, sched, plans>>

PlanNext == taskAppend \/ drainCollQueue \/ scheduleColl \/ endPlan
=============================================================================
