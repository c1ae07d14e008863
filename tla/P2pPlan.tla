------------------------------ MODULE P2pPlan ------------------------------
(***************************************************************************)
(* From the sends and receives of one group to kernels: the order in which *)
(* a rank serves its peers (init.cc), taskAppend, scheduleP2pTasksToPlan   *)
(* and what it calls (enqueue.cc, include/channel.h, proxy.cc), and the    *)
(* kernels' send and receive loops (device/sendrecv.h).                    *)
(*                                                                         *)
(* No rank sees the calls of another one.  That the two ends of a message  *)
(* use the same channel and connection, in the same order and in pieces of *)
(* the same size, and that no rank waits for one that waits for it, has to *)
(* follow from the sizes alone.                                            *)
(*                                                                         *)
(* Cases: the communicators and groups to plan, records of                 *)
(*   node     the node of each rank;                                       *)
(*   calls    the messages, as records from, to, bytes, in program order;  *)
(*   nCh, perPeer      p2pnChannels, p2pnChannelsPerPeer;                  *)
(*   stepSize          p2pChunkSize;                                       *)
(*   p2pNet, threshold p2pNet and P2P_NET_THRESHOLD;                       *)
(*   budget            workFifoDepth / 2.                                  *)
(* NCCL_STEPS is the number of steps a connection buffers.  A work has one *)
(* element of each direction (NCCL_MAX_WORK_ELEMENTS_P2P is 2).  Messages  *)
(* use the Simple protocol (they are above P2P_LL_THRESHOLD) and buffers   *)
(* are not registered.  Planning touches state of the rank only, so the    *)
(* ranks plan one after the other.                                         *)
(***************************************************************************)
EXTENDS Integers, Sequences, FiniteSets, FiniteSetsExt, SequencesExt, Align

CONSTANTS Cases, NCCL_STEPS

VARIABLES cs,       \* the case
          comm,     \* what all ranks know of nodes and ranks
          order,    \* of each rank: p2pSendOrder and p2pRecvOrder
          phase,    \* of each rank: append, plan, run, done or error
          queue,    \* of each rank: its send and receive queues
          connect,  \* of each rank: connectSend and connectRecv
          lp,       \* of each rank: the local state of the planning loops
          plans,    \* of each rank: its kernel plans
          at,       \* of each rank: the kernel, and the work of each channel
          done,     \* of each rank and channel: steps done of the two elements
          fifo      \* of each connection: the steps in its buffer

vars == <<cs, comm, order, phase, queue, connect, lp, plans, at, done, fifo>>

Directions == {"recv", "send"}

Ranks == DOMAIN cs.node

Chans == 0..cs.nCh - 1

(***************************************************************************)
(* The order of the peers.  Nodes are visited at distances d, -d, n/2-d    *)
(* and -(n/2-d); index jumps over a distance that is there already.        *)
(***************************************************************************)

\* Mutant: the fourth distance is compared with the third only.
Deltas_Twice(n, d) ==
  LET x0 == d  x1 == (n - d) % n  x2 == n \div 2 - d  x3 == (n - (n \div 2 - d)) % n
  IN <<x0>> \o (IF x1 = x0 THEN <<>> ELSE <<x1>>)
            \o (IF x2 = x0 THEN <<>> ELSE <<x2>>)
            \o (IF x3 = x2 THEN <<>> ELSE <<x3>>)

Deltas(n, d) ==
  LET x0 == d  x1 == (n - d) % n  x2 == n \div 2 - d  x3 == (n - (n \div 2 - d)) % n
  IN <<x0>> \o (IF x1 = x0 THEN <<>> ELSE <<x1>>)
            \o (IF x2 = x0 THEN <<>> ELSE <<x2>>)
            \o (IF x3 = x2 \/ x3 = x1 THEN <<>> ELSE <<x3>>)

DeltaSeq(n) == FlattenSeq([d \in 1..n \div 4 + 1 |-> Deltas(n, d - 1)])

(***************************************************************************)
(* The fields of the communicator that say where the ranks are.            *)
(***************************************************************************)
CommOf(node) ==
  LET nNodes == Cardinality(Range(node))
      localRanks == [n \in 0..nNodes - 1 |-> Cardinality({r \in DOMAIN node : node[r] = n})]
  IN [rankToNode |-> node,
      rankToLocalRank |-> [r \in DOMAIN node |-> Cardinality({q \in 0..r - 1 : node[q] = node[r]})],
      nNodes |-> nNodes, localRanks |-> localRanks,
      maxLocalRanks |-> Max(Range(localRanks)), deltas |-> DeltaSeq(nNodes)]

PeerAt(k, node, index) ==
  IF index < k.localRanks[node]
  THEN CHOOSE r \in DOMAIN k.rankToNode : k.rankToNode[r] = node /\ k.rankToLocalRank[r] = index
  ELSE -1

Order(k, r, dir) ==
  LET steps == k.maxLocalRanks  sign == IF dir = "send" THEN 1 ELSE -1
  IN [i \in 1..Len(k.deltas) * steps |->
        PeerAt(k, (k.rankToNode[r] + sign * k.deltas[(i - 1) \div steps + 1] + k.nNodes) % k.nNodes,
                  (k.rankToLocalRank[r] + sign * ((i - 1) % steps) + steps) % steps)]

(***************************************************************************)
(* Channels.  p2pChannels spreads the bases by mirroring their bits.       *)
(***************************************************************************)

mirrorBits(val, pow2) ==
  MapThenSumSet(LAMBDA b : IF (val \div 2^b) % 2 = 1 THEN (pow2 \div 2) \div 2^b ELSE 0,
                {b \in 0..7 : 2^b < pow2})

ncclChannelComputeBase(r, peer, dir) ==
  LET sign == IF dir = "send" THEN 1 ELSE -1
      hops == comm.rankToLocalRank[peer] - comm.rankToLocalRank[r]
      nodes == comm.rankToNode[peer] - comm.rankToNode[r]
      step == (comm.maxLocalRanks + sign * hops) % comm.maxLocalRanks
      delta == (comm.nNodes + sign * nodes) % comm.nNodes
  IN IF comm.nNodes > 1 THEN delta + step ELSE step

ncclChannelComputeFromBase(base, inc) == (mirrorBits(base % cs.nCh, cs.nCh) + inc) % cs.nCh

ncclChannelCompute(r, peer, inc, dir) ==
  ncclChannelComputeFromBase(ncclChannelComputeBase(r, peer, dir), inc)

(***************************************************************************)
(* Sizes.                                                                  *)
(***************************************************************************)

RECURSIVE Shrink(_, _, _, _)

Shrink(total, size, nChannels, maxSize) ==
  IF size > maxSize /\ nChannels <= cs.perPeer \div 2
  THEN Shrink(total, divUp(total, nChannels * 2), nChannels * 2, maxSize)
  ELSE size

RECURSIVE Halve(_)

Halve(n) == IF n * Cardinality(Ranks) > cs.nCh /\ n > 1 THEN Halve(n \div 2) ELSE n

nChannelsMin == Halve(cs.perPeer)

calcP2pChunkSize(total) ==
  LET multi == comm.nNodes > 1
      minSize == IF multi THEN cs.stepSize \div 2 ELSE cs.stepSize \div 8
      maxSize == IF multi THEN cs.stepSize ELSE cs.stepSize * 32
      first == Max({minSize, divUp(total, nChannelsMin)})
  IN roundUp(Shrink(total, first, nChannelsMin, maxSize), minSize)

\* ncclProxyComputeP2p: the network gets smaller pieces.
ChunkSize(r, peer, count) ==
  IF comm.rankToNode[r] = comm.rankToNode[peer] THEN cs.stepSize
  ELSE IF count < cs.stepSize THEN cs.stepSize \div 4
  ELSE IF count < 8 * cs.stepSize THEN cs.stepSize \div 2
  ELSE cs.stepSize

nsteps(r, peer, count) == Max({1, divUp(count, ChunkSize(r, peer, count))})

(***************************************************************************)
(* taskAppend: the calls of a rank become tasks in the queue of the peer,  *)
(* and the channels the peer may use are marked for connecting.            *)
(***************************************************************************)

Mine(r, call, dir) == IF dir = "send" THEN call.from = r ELSE call.to = r

PeerOf(call, dir) == IF dir = "send" THEN call.to ELSE call.from

TasksOf(r, peer, dir) ==
  LET ids == SelectSeq([i \in DOMAIN cs.calls |-> i],
                       LAMBDA i : Mine(r, cs.calls[i], dir) /\ PeerOf(cs.calls[i], dir) = peer)
  IN [k \in DOMAIN ids |-> [id |-> ids[k], bytes |-> cs.calls[ids[k]].bytes, chunk |-> 0]]

connIndexes == IF cs.p2pNet THEN {1, 2} ELSE {1}

Marks(r) ==
  UNION {{[dir |-> t[1], peer |-> t[2], channel |-> ncclChannelCompute(r, t[2], c, t[1]), connIndex |-> x] :
            c \in 0..cs.perPeer - 1, x \in connIndexes} :
         t \in {u \in Directions \X (Ranks \ {r}) : TasksOf(r, u[2], u[1]) # <<>>}}

NoElem == [peer |-> -1, id |-> 0, chunk |-> 0, bytes |-> 0, connIndex |-> 0, nsteps |-> 0]

NoWork == [recv |-> NoElem, send |-> NoElem]

NewPlan == [c \in Chans |-> <<>>]

StartLoop == [i |-> 1, fuseOk |-> FALSE, budget |-> cs.budget, open |-> FALSE,
              bytes |-> [recv |-> 0, send |-> 0], connIndex |-> [recv |-> 1, send |-> 1]]

Init ==
  /\ cs \in Cases
  /\ comm = CommOf(cs.node)
  /\ order = [r \in Ranks |-> [dir \in Directions |-> Order(comm, r, dir)]]
  /\ phase = [r \in Ranks |-> "append"]
  /\ queue = [r \in Ranks |-> [recv |-> <<>>, send |-> <<>>]]
  /\ connect = [r \in Ranks |-> {}]
  /\ lp = [r \in Ranks |-> StartLoop]
  /\ plans = [r \in Ranks |-> <<>>]
  /\ at = [r \in Ranks |-> [kernel |-> 1, work |-> [c \in Chans |-> 1]]]
  /\ done = [r \in Ranks |-> [c \in Chans |-> [recv |-> 0, send |-> 0]]]
  /\ fifo = << >>

Turn(r) == \A q \in Ranks : q < r => phase[q] \notin {"append", "plan"}

taskAppend(r) ==
  /\ phase[r] = "append" /\ Turn(r)
  /\ queue' = [queue EXCEPT ![r] = [dir \in Directions |-> [p \in Ranks |-> TasksOf(r, p, dir)]]]
  /\ connect' = [connect EXCEPT ![r] = Marks(r)]
  /\ plans' = [plans EXCEPT ![r] = <<NewPlan>>]
  /\ phase' = [phase EXCEPT ![r] = IF \E call \in Range(cs.calls) : r \in {call.from, call.to}
                                    THEN "plan" ELSE "done"]
  /\ UNCHANGED <<cs, comm, order, lp, at, done, fifo>>

(***************************************************************************)
(* One round of scheduleP2pTasksToPlan: the head of the queue of each of   *)
(* the two peers is looked up and the rest of it computed.                 *)
(***************************************************************************)

Peer(r, dir) == order[r][dir][lp[r].i]

HeadOf(r, dir) ==
  IF Peer(r, dir) = -1 \/ queue[r][dir][Peer(r, dir)] = <<>> THEN <<>>
  ELSE <<Head(queue[r][dir][Peer(r, dir)])>>

nTasksP2p(r) == \E dir \in Directions, p \in Ranks : queue[r][dir][p] # <<>>

\* Mutant: a task that a plan has begun is planned as if none of it had been.
Left_Whole(task) == IF task = <<>> THEN 0
                    ELSE IF task[1].bytes = 0 THEN -1
                    ELSE task[1].bytes

\* Bytes left of a task; a message of no bytes is encoded as -1.
Left(task) == IF task = <<>> THEN 0
              ELSE IF task[1].bytes = 0 THEN -1
              ELSE task[1].bytes - task[1].chunk * calcP2pChunkSize(task[1].bytes)

ConnIndex(bytes) == IF cs.p2pNet /\ bytes > cs.threshold THEN 2 ELSE 1

Round(r) ==
  /\ phase[r] = "plan" /\ Turn(r) /\ ~lp[r].open
  /\ lp[r].i <= Len(order[r].send)
  /\ LET left == [dir \in Directions |-> Left(HeadOf(r, dir))]
         self == Peer(r, "send") = r
         none == [dir \in Directions |-> HeadOf(r, dir) = <<>>]
     IN \/ /\ self /\ (Peer(r, "recv") # r \/ none.recv # none.send)
           /\ phase' = [phase EXCEPT ![r] = "error"]
           /\ UNCHANGED lp
        \/ /\ ~self \/ (Peer(r, "recv") = r /\ none.recv = none.send)
           /\ lp' = [lp EXCEPT ![r] =
                IF none.recv /\ none.send THEN [@ EXCEPT !.i = @ + 1]
                ELSE [@ EXCEPT !.open = TRUE, !.bytes = left,
                               !.connIndex = [dir \in Directions |-> ConnIndex(left[dir])]]]
           /\ UNCHANGED phase
  /\ UNCHANGED <<cs, comm, order, queue, connect, plans, at, done, fifo>>

\* The end of a pass over the peers: another one, or the end of planning.
Pass(r) ==
  /\ phase[r] = "plan" /\ Turn(r) /\ ~lp[r].open
  /\ lp[r].i > Len(order[r].send)
  /\ IF nTasksP2p(r)
     THEN lp' = [lp EXCEPT ![r].i = 1] /\ UNCHANGED phase
     ELSE phase' = [phase EXCEPT ![r] = "run"] /\ UNCHANGED lp
  /\ UNCHANGED <<cs, comm, order, queue, connect, plans, at, done, fifo>>

(***************************************************************************)
(* One chunk of the receive and one of the send.  S is the state of the    *)
(* loop, the queues and the plan being filled.                             *)
(***************************************************************************)

\* appendWorkElemP2p: the last work of the channel, if its slot is free, or a new one.
Append1(works, elem, dir, fuseOk) ==
  IF works # <<>> /\ fuseOk /\ works[Len(works)][dir] = NoElem
  THEN [works EXCEPT ![Len(works)][dir] = elem]
  ELSE Append(works, [NoWork EXCEPT ![dir] = elem])

addP2pToPlan(S, r, dir, bytes) ==
  LET peer == Peer(r, dir)
      task == S.queue[dir][peer][1]
      c == ncclChannelCompute(r, peer, task.chunk % cs.perPeer, dir)
      elem == [peer |-> peer, id |-> task.id, chunk |-> task.chunk, bytes |-> bytes,
               connIndex |-> S.lp.connIndex[dir], nsteps |-> nsteps(r, peer, bytes)]
      works == Append1(S.plan[c], elem, dir, S.lp.fuseOk)
  IN [S EXCEPT !.plan[c] = works,
               !.lp.budget = @ - (Len(works) - Len(S.plan[c])),
               !.lp.fuseOk = TRUE]

Chunk(S, r, dir) ==
  LET peer == Peer(r, dir)
      bytes == Min({S.lp.bytes[dir], calcP2pChunkSize(S.queue[dir][peer][1].bytes)})
      left == S.lp.bytes[dir] - bytes
      added == addP2pToPlan(S, r, dir, Max({bytes, 0}))
  IN IF S.cut \/ S.lp.bytes[dir] = 0 THEN S
     ELSE IF S.lp.budget < 1 THEN [S EXCEPT !.cut = TRUE]
     ELSE [added EXCEPT !.lp.bytes[dir] = Max({left, 0}),
                        !.queue[dir][peer] = IF left <= 0 THEN Tail(@)
                                             ELSE [@ EXCEPT ![1].chunk = @ + 1]]

Chunks(r) ==
  /\ phase[r] = "plan" /\ Turn(r) /\ lp[r].open
  /\ LET n == Len(plans[r])
         S0 == [lp |-> [lp[r] EXCEPT !.fuseOk = FALSE], queue |-> queue[r],
                plan |-> plans[r][n], cut |-> FALSE]
     IN \E S1 \in {Chunk(S0, r, "recv")} : \E S \in {Chunk(S1, r, "send")} :
        LET filled == [plans[r] EXCEPT ![n] = S.plan] IN
        /\ queue' = [queue EXCEPT ![r] = S.queue]
        /\ plans' = [plans EXCEPT ![r] = IF S.cut THEN Append(filled, NewPlan) ELSE filled]
        /\ lp' = [lp EXCEPT ![r] =
             IF S.cut THEN StartLoop
             ELSE IF S.lp.bytes = [recv |-> 0, send |-> 0]
                  THEN [S.lp EXCEPT !.open = FALSE, !.i = @ + 1]
                  ELSE S.lp]
  /\ UNCHANGED <<cs, comm, order, phase, connect, at, done, fifo>>

(***************************************************************************)
(* The kernels.  The kernels of a rank run one after the other, the        *)
(* channels of a kernel side by side, and the two elements of a work side  *)
(* by side in thread groups of their own.  A step of a connection is named *)
(* by the message, the chunk and the step in it, and carries its size.     *)
(***************************************************************************)

Running(r) == phase[r] = "run" /\ Turn(Cardinality(Ranks))

Works(r, c) == plans[r][at[r].kernel][c]

WorkOf(r, c) == Works(r, c)[at[r].work[c]]

Active(r, c) == Running(r) /\ at[r].work[c] <= Len(Works(r, c))

Name(elem, k) == <<elem.id, elem.chunk, k, elem.bytes>>

Conn(from, to, c, elem) == <<from, to, c, elem.connIndex>>

Buffer(conn) == IF conn \in DOMAIN fifo THEN fifo[conn] ELSE <<>>

SetBuffer(conn, s) == [x \in DOMAIN fifo \cup {conn} |-> IF x = conn THEN s ELSE fifo[x]]

\* An element of no peer, and a receive from oneself, are nothing to do.
Todo(r, elem, dir) == IF elem.peer = -1 \/ (dir = "recv" /\ elem.peer = r) THEN 0 ELSE elem.nsteps

\* Steps of an element done; the work ends when both of its elements have.
Did(r, c, dir, n) ==
  LET w == WorkOf(r, c)
      d == [done[r][c] EXCEPT ![dir] = @ + n]
      ends == \A x \in Directions : d[x] = Todo(r, w[x], x)
  IN /\ done' = [done EXCEPT ![r][c] = IF ends THEN [recv |-> 0, send |-> 0] ELSE d]
     /\ at' = [at EXCEPT ![r].work[c] = IF ends THEN @ + 1 ELSE @]
     /\ UNCHANGED <<cs, comm, order, phase, queue, connect, lp, plans>>

runSend(r, c) ==
  /\ Active(r, c)
  /\ LET elem == WorkOf(r, c).send
         conn == Conn(r, elem.peer, c, elem)
     IN /\ done[r][c].send < Todo(r, elem, "send")
        /\ elem.peer # r
        /\ Len(Buffer(conn)) < NCCL_STEPS
        /\ fifo' = SetBuffer(conn, Append(Buffer(conn), Name(elem, done[r][c].send)))
        /\ Did(r, c, "send", 1)

\* A send to oneself copies to the buffer of the element before it.
CopySelf(r, c) ==
  /\ Active(r, c)
  /\ LET elem == WorkOf(r, c).send
     IN /\ elem.peer = r /\ done[r][c].send < elem.nsteps
        /\ Did(r, c, "send", elem.nsteps)
  /\ UNCHANGED fifo

runRecv(r, c) ==
  /\ Active(r, c)
  /\ LET elem == WorkOf(r, c).recv
         conn == Conn(elem.peer, r, c, elem)
     IN /\ done[r][c].recv < Todo(r, elem, "recv")
        /\ Buffer(conn) # <<>>
        /\ fifo' = SetBuffer(conn, Tail(Buffer(conn)))
        /\ Did(r, c, "recv", 1)

\* The kernel is over and the next one of the stream starts.
NextKernel(r) ==
  /\ Running(r)
  /\ \A c \in Chans : at[r].work[c] > Len(Works(r, c))
  /\ IF at[r].kernel < Len(plans[r])
     THEN at' = [at EXCEPT ![r] = [kernel |-> @.kernel + 1, work |-> [c \in Chans |-> 1]]]
          /\ UNCHANGED phase
     ELSE phase' = [phase EXCEPT ![r] = "done"] /\ UNCHANGED at
  /\ UNCHANGED <<cs, comm, order, queue, connect, lp, plans, done, fifo>>

Next ==
  \/ \E r \in Ranks : taskAppend(r) \/ Round(r) \/ Pass(r) \/ Chunks(r) \/ NextKernel(r)
  \/ \E r \in Ranks, c \in Chans : runSend(r, c) \/ CopySelf(r, c) \/ runRecv(r, c)

Spec == Init /\ [][Next]_vars /\ WF_vars(Next)

(***************************************************************************)
(* Properties.                                                             *)
(***************************************************************************)

(***************************************************************************)
(* A pass has a round for every distance between nodes and every step      *)
(* between local ranks (the assertion in init.cc), every rank meets every  *)
(* rank, and the two ends meet in the same round: b is the peer a sends to *)
(* in a round if and only if a is the one b receives from in that round.   *)
(***************************************************************************)
OrdersMeet ==
  (\A r \in Ranks : phase[r] = "append") => \A r \in Ranks :
    /\ Len(order[r].send) = comm.nNodes * comm.maxLocalRanks
    /\ \A q \in Ranks : \E i \in DOMAIN order[r].send : order[r].send[i] = q
    /\ \A i \in DOMAIN order[r].send :
         /\ order[r].send[i] # -1 => order[order[r].send[i]].recv[i] = r
         /\ order[r].recv[i] # -1 => order[order[r].recv[i]].send[i] = r

\* The elements of a rank's plans that carry a message.
Elems(r, id, dir) ==
  UNION {{e \in {plan[c][w][dir] : w \in DOMAIN plan[c]} : e.id = id} : c \in Chans, plan \in Range(plans[r])}

(***************************************************************************)
(* The plans of the two ends of a message fit.  Once a rank has planned,   *)
(* its elements carry each of its messages completely.  The next step a    *)
(* kernel finds in a connection is the one it is to receive.  A copy to    *)
(* oneself has its receive beside it.  Elements use connections that were  *)
(* marked for connecting.                                                  *)
(***************************************************************************)
PlansFit ==
  /\ \A r \in Ranks : phase[r] = "run" => \A i \in DOMAIN cs.calls, dir \in Directions :
       Mine(r, cs.calls[i], dir) =>
         /\ MapThenSumSet(LAMBDA e : e.bytes, Elems(r, i, dir)) = cs.calls[i].bytes
         /\ {e.chunk : e \in Elems(r, i, dir)} = 0..Cardinality(Elems(r, i, dir)) - 1
         /\ Elems(r, i, dir) # {}
  /\ \A r \in Ranks, c \in Chans : Active(r, c) =>
       LET w == WorkOf(r, c)  recv == Buffer(Conn(w.recv.peer, r, c, w.recv))
       IN /\ Todo(r, w.recv, "recv") > done[r][c].recv /\ recv # <<>> =>
               recv[1] = Name(w.recv, done[r][c].recv)
          /\ w.send.peer = r => w.recv.peer = r /\ w.recv.id = w.send.id /\ w.recv.chunk = w.send.chunk
          /\ \A dir \in Directions : w[dir].peer \notin {-1, r} =>
               [dir |-> dir, peer |-> w[dir].peer, channel |-> c, connIndex |-> w[dir].connIndex]
                 \in connect[r]

(***************************************************************************)
(* A group whose messages to oneself come in pairs is refused ("Trying to  *)
(* send to self without a matching recv") only if the end of a plan has    *)
(* separated the two.                                                      *)
(***************************************************************************)
SelfMatched == \A r \in Ranks : phase[r] = "error" => Len(plans[r]) > 1

(***************************************************************************)
(* Every group completes: no rank waits for ever on a connection.          *)
(***************************************************************************)
Ended == \A r \in Ranks : phase[r] \in {"done", "error"}
=============================================================================
