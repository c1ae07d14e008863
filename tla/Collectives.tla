----------------------------- MODULE Collectives -----------------------------
(***************************************************************************)
(* The collective kernels (device/all_reduce.h, all_gather.h,              *)
(* reduce_scatter.h, broadcast.h, reduce.h, alltoall_pivot.h) run by every *)
(* rank on the works CollPlan made.                                        *)
(*                                                                         *)
(* A kernel is a sequence of primitives for each of its thread groups.  A  *)
(* primitive is one step here: it waits for a chunk from each peer it      *)
(* receives from and for room on each connection it sends on, combines     *)
(* what it received with its source, and writes the result to its          *)
(* destination and its connections.  SimpleConn and LLConn have the wait   *)
(* and post protocol inside a primitive.                                   *)
(*                                                                         *)
(* An element of a buffer is the set of the contributions it sums, <<rank, *)
(* index>>, with whether each is in it once and how often postOp was done. *)
(* A call's buffers at a rank are one memory, in which sendbuff and        *)
(* recvbuff start at SendAt and RecvAt and overlap for in-place calls.     *)
(*                                                                         *)
(* Channels share no connection and no element, so they are run one after  *)
(* the other and only ranks and thread groups interleave.                  *)
(***************************************************************************)
EXTENDS CollPlan

VARIABLES
  chan,    \* the channel that runs
  kernels, \* per rank: its works on chan, each the sequences of its groups
  pos,     \* per rank: the work it is in and how far each group is
  mem,     \* per rank and call: the memory of its buffers
  fifo     \* per connection <<sender, receiver, connIndex>>: the chunks in it

vars == <<cs, phase, queues, tasks, sched, plans, chan, kernels, pos, mem, fifo>>

-----------------------------------------------------------------------------
(* The topology of a channel, as setupChannel leaves it. *)

ringAt(c, r) == CHOOSE i \in 1..cs.n : cs.rings[c][i] = r

userRanks(c, r) == [i \in 0..cs.n - 1 |-> cs.rings[c][((ringAt(c, r) - 1 + i) % cs.n) + 1]]

ringIndex(c, r) == (ringAt(c, r) - ringAt(c, 0) + cs.n) % cs.n

RingPrev(c, r, conn) == {<<userRanks(c, r)[cs.n - 1], conn>>}
RingNext(c, r, conn) == {<<userRanks(c, r)[1], conn>>}

(***************************************************************************)
(* A tree is [up, down], with up = -1 at the root and, in a collnet chain, *)
(* up = n where the network is above.                                      *)
(***************************************************************************)
Up(t, conn) == IF t.up = -1 THEN {} ELSE {<<t.up, conn>>}
Down(t, conn) == {<<d, conn>> : d \in t.down}

-----------------------------------------------------------------------------
(* The primitives.  from and to are sets of <<peer, connIndex>>. *)

Op(from, to, src, dst, n, post) ==
  [from |-> from, to |-> to, src |-> src, dst |-> dst,
   n |-> Max({n, 0}), post |-> post]

Input(off)  == <<"in", off>>
Output(off) == <<"out", off>>
NoBuf       == <<"none", 0>>

(***************************************************************************)
(* The chunks of a loop of step chunk over count elements.                 *)
(***************************************************************************)
Offsets(count, chunk) == [i \in 1..divUp(count, chunk) |-> (i - 1) * chunk]

-----------------------------------------------------------------------------
(* all_reduce.h *)

runRingAllReduce(r, e) ==
  LET n    == cs.n
      loop == n * chunkCount(e.info)
      prev == RingPrev(e.chan, r, e.conn)
      next == RingNext(e.chan, r, e.conn)
      Loop(at) ==
        LET rem == e.n - at
            cc  == IF rem < loop THEN e.last ELSE chunkCount(e.info)
            chunk(j) == (ringIndex(e.chan, r) + n - j) % n
            off(j) == e.off + at + chunk(j) * cc
            nelem(j) == Min({cc, rem - chunk(j) * cc})
        IN  <<Op({}, next, Input(off(1)), NoBuf, nelem(1), FALSE)>>
            \o [k \in 1..n - 2 |-> Op(prev, next, Input(off(k + 1)), NoBuf, nelem(k + 1), FALSE)]
            \o <<Op(prev, next, Input(off(0)), Output(off(0)), nelem(0), TRUE)>>
            \o [k \in 1..n - 2 |-> Op(prev, next, NoBuf, Output(off(k)), nelem(k), FALSE)]
            \o <<Op(prev, {}, NoBuf, Output(off(n - 1)), nelem(n - 1), FALSE)>>
      at == Offsets(e.n, loop)
  IN  <<FlattenSeq([i \in 1..Len(at) |-> Loop(at[i])])>>

(***************************************************************************)
(* The two loops of the trees.  A leaf has nothing to receive on the way   *)
(* up and nothing to send on the way down.                                 *)
(***************************************************************************)
TreeReduce(t, e, conn) ==
  LET at == Offsets(e.n, chunkCount(e.info))
      Chunk(i) ==
        LET off == e.off + at[i]
            n   == Min({chunkCount(e.info), e.n - at[i]})
        IN  IF t.up = -1
            THEN Op(Down(t, conn), {}, Input(off), Output(off), n, TRUE)
            ELSE Op(Down(t, conn), Up(t, conn), Input(off), NoBuf, n, FALSE)
  IN  [i \in 1..Len(at) |-> Chunk(i)]

TreeBroadcast(t, e, conn) ==
  LET at == Offsets(e.n, chunkCount(e.info))
      Chunk(i) ==
        LET off == e.off + at[i]
            n   == Min({chunkCount(e.info), e.n - at[i]})
        IN  IF t.up = -1
            THEN Op({}, Down(t, conn), Output(off), NoBuf, n, FALSE)
            ELSE Op(Up(t, conn), Down(t, conn), NoBuf, Output(off), n, FALSE)
  IN  [i \in 1..Len(at) |-> Chunk(i)]

(***************************************************************************)
(* Simple: the whole block reduces everything, then broadcasts.            *)
(***************************************************************************)
runTreeUpDown(r, e) ==
  LET t == cs.trees[e.chan][r]
  IN  <<TreeReduce(t, e, 0) \o TreeBroadcast(t, e, 0)>>

(***************************************************************************)
(* LL and LL128: the block splits in two groups, except at the root, where *)
(* one primitive receives from below, reduces and sends back.              *)
(***************************************************************************)
runTreeSplit(r, e) ==
  LET t == cs.trees[e.chan][r]
      at == Offsets(e.n, chunkCount(e.info))
      Chunk(i) ==
        LET off == e.off + at[i]
        IN  Op(Down(t, 0), Down(t, 0), Input(off), Output(off),
               Min({chunkCount(e.info), e.n - at[i]}), TRUE)
  IN  IF t.up = -1 THEN <<[i \in 1..Len(at) |-> Chunk(i)]>>
      ELSE <<TreeReduce(t, e, 0), TreeBroadcast(t, e, 0)>>

(***************************************************************************)
(* The collnet chain: one group reduces towards the network on connection  *)
(* 1, the other hands the result down on connection 0; the first rank      *)
(* below the network does postOp.                                          *)
(***************************************************************************)
runCollNetChain(r, e) ==
  LET t    == cs.chains[e.chan][r]
      cc   == chunkCount(e.info)
      at   == Offsets(e.info.count, e.nCh * cc)
      off(i) == at[i] + e.bid * cc
      n(i)   == Min({cc, e.info.count - off(i)})
  IN  <<[i \in 1..Len(at) |-> Op(Down(t, 1), Up(t, 1), Input(off(i)), NoBuf, n(i), FALSE)],
        [i \in 1..Len(at) |-> Op(Up(t, 0), Down(t, 0), NoBuf, Output(off(i)), n(i), t.up = cs.n)]>>

-----------------------------------------------------------------------------
(* The addresses of a call's buffers at rank r. *)

Call(id) == cs.calls[id]

SendSize(k) == IF k.coll \in {"ReduceScatter", "AllToAllPivot"} THEN cs.n * k.count ELSE k.count
RecvSize(k) == IF k.coll \in {"AllGather", "AllToAllPivot"} THEN cs.n * k.count ELSE k.count

SendAt(k, r) == IF k.inplace /\ k.coll = "AllGather" THEN r * k.count ELSE 0

RecvAt(k, r) ==
  CASE ~k.inplace -> SendSize(k)
    [] k.inplace /\ k.coll = "ReduceScatter" -> r * k.count
    [] OTHER -> 0

-----------------------------------------------------------------------------
(* The other collectives. *)

runRingAllGather(r, e) ==
  LET n    == cs.n
      k    == Call(e.id)
      at   == Offsets(e.n, chunkCount(e.info))
      Loop(i) ==
        LET cnt   == Min({chunkCount(e.info), e.n - at[i]})
            data  == e.off + at[i]
            off(j) == data + userRanks(e.chan, r)[j % n] * k.count
            inPlace == SendAt(k, r) + data = RecvAt(k, r) + off(0)
        IN  <<Op({}, RingNext(e.chan, r, e.conn), Input(data),
                 IF inPlace THEN NoBuf ELSE Output(off(0)), cnt, FALSE)>>
            \o [j \in 1..n - 2 |-> Op(RingPrev(e.chan, r, e.conn), RingNext(e.chan, r, e.conn), NoBuf, Output(off(n - j)), cnt, FALSE)]
            \o <<Op(RingPrev(e.chan, r, e.conn), {}, NoBuf, Output(off(1)), cnt, FALSE)>>
  IN  <<FlattenSeq([i \in 1..Len(at) |-> Loop(i)])>>

runRingReduceScatter(r, e) ==
  LET n    == cs.n
      k    == Call(e.id)
      at   == Offsets(e.n, chunkCount(e.info))
      Loop(i) ==
        LET cnt   == Min({chunkCount(e.info), e.n - at[i]})
            data  == e.off + at[i]
            off(j) == data + userRanks(e.chan, r)[j % n] * k.count
        IN  <<Op({}, RingNext(e.chan, r, e.conn), Input(off(n - 1)), NoBuf, cnt, FALSE)>>
            \o [j \in 1..n - 2 |-> Op(RingPrev(e.chan, r, e.conn), RingNext(e.chan, r, e.conn), Input(off(n - 1 - j)), NoBuf, cnt, FALSE)]
            \o <<Op(RingPrev(e.chan, r, e.conn), {}, Input(off(0)), Output(data), cnt, TRUE)>>
  IN  <<FlattenSeq([i \in 1..Len(at) |-> Loop(i)])>>

runRingBroadcast(r, e) ==
  LET k  == Call(e.id)
      at == Offsets(e.n, chunkCount(e.info))
      Chunk(i) ==
        LET off == e.off + at[i]
            n   == Min({chunkCount(e.info), e.n - at[i]})
        IN  CASE r = k.root ->
                   Op({}, RingNext(e.chan, r, e.conn), Input(off), IF k.inplace THEN NoBuf ELSE Output(off), n, FALSE)
              [] r # k.root /\ userRanks(e.chan, r)[1] = k.root ->
                   Op(RingPrev(e.chan, r, e.conn), {}, NoBuf, Output(off), n, FALSE)
              [] OTHER -> Op(RingPrev(e.chan, r, e.conn), RingNext(e.chan, r, e.conn), NoBuf, Output(off), n, FALSE)
  IN  <<[i \in 1..Len(at) |-> Chunk(i)]>>

runRingReduce(r, e) ==
  LET k  == Call(e.id)
      at == Offsets(e.n, chunkCount(e.info))
      Chunk(i) ==
        LET off == e.off + at[i]
            n   == Min({chunkCount(e.info), e.n - at[i]})
        IN  CASE userRanks(e.chan, r)[cs.n - 1] = k.root ->
                   Op({}, RingNext(e.chan, r, e.conn), Input(off), NoBuf, n, FALSE)
              [] userRanks(e.chan, r)[cs.n - 1] # k.root /\ r = k.root ->
                   Op(RingPrev(e.chan, r, e.conn), {}, Input(off), Output(off), n, TRUE)
              [] OTHER -> Op(RingPrev(e.chan, r, e.conn), RingNext(e.chan, r, e.conn), Input(off), NoBuf, n, FALSE)
  IN  <<[i \in 1..Len(at) |-> Chunk(i)]>>

(***************************************************************************)
(* Each channel moves one share of every block, half of the channels one   *)
(* way round and half the other, over at most n / 2 hops.  The block that  *)
(* is as far either way, and a rank's own, are halved between the two.     *)
(* The own block of an out-of-place call is copied without the ring.       *)
(***************************************************************************)
LowestBit(x) == Max({y \in {2^b : b \in 0..8} : x % y = 0})

runRingPivot(r, e) ==
  LET n      == cs.n
      k      == Call(e.id)
      uni    == cs.biRings * 2
      chunks == e.nCh \div 2
      id     == (e.bid % cs.biRings) + (e.bid \div uni) * cs.biRings
      elem   == LowestBit(k.count)
      elems  == k.count \div elem
      padded == elems % chunks
      chunkOff  == elem * ((elems \div chunks) * id + Min({id, padded}))
      chunkSize == elem * ((elems \div chunks) + (IF id < padded THEN 1 ELSE 0))
      dir    == (e.bid % uni) \div cs.biRings
      Hop(h) ==
        LET src  == userRanks(e.chan, r)[(n - h) % n]
            dst  == userRanks(e.chan, r)[h]
            skip == IF src = dst THEN (dir * chunkSize) \div 2 ELSE 0
            from == src * k.count + chunkOff + skip
            to   == dst * k.count + chunkOff + skip
            size == CASE src # dst -> chunkSize
                      [] src = dst /\ dir = 0 -> chunkSize \div 2
                      [] OTHER -> chunkSize - chunkSize \div 2
            at   == Offsets(size, chunkCount(e.info))
            Part(i) ==
              LET cnt == Min({chunkCount(e.info), size - at[i]})
              IN  <<Op({}, RingNext(e.chan, r, 0), Input(to + at[i]), NoBuf, cnt, FALSE)>>
                  \o [j \in 1..h - 1 |-> Op(RingPrev(e.chan, r, 0), RingNext(e.chan, r, 0), NoBuf, NoBuf, cnt, FALSE)]
                  \o <<Op(RingPrev(e.chan, r, 0), {}, NoBuf, Output(from + at[i]), cnt, FALSE)>>
        IN  IF h = 0 /\ ~k.inplace
            THEN <<Op({}, {}, Input(to), Output(from), size, FALSE)>>
            ELSE FlattenSeq([i \in 1..Len(at) |-> Part(i)])
  IN  <<FlattenSeq([h \in 1..n \div 2 + 1 |-> Hop(h - 1)])>>

Kernel(r, e) ==
  LET coll == e.info.coll
      algo == e.info.algo
  IN  CASE coll = "AllReduce" /\ algo = "RING" -> runRingAllReduce(r, e)
        [] coll = "AllReduce" /\ algo = "TREE" /\ e.info.proto = "SIMPLE" -> runTreeUpDown(r, e)
        [] coll = "AllReduce" /\ algo = "TREE" /\ e.info.proto = "LL" -> runTreeSplit(r, e)
        [] coll = "AllReduce" /\ algo = "COLLNET_CHAIN" -> runCollNetChain(r, e)
        [] coll = "AllGather" -> runRingAllGather(r, e)
        [] coll = "ReduceScatter" -> runRingReduceScatter(r, e)
        [] coll = "Broadcast" -> runRingBroadcast(r, e)
        [] coll = "Reduce" -> runRingReduce(r, e)
        [] coll = "AllToAllPivot" -> runRingPivot(r, e)

-----------------------------------------------------------------------------
(* Contents of buffers. *)

Garbage == [of |-> {}, once |-> FALSE, post |-> 0]
Own(r, i) == [of |-> {<<r, i>>}, once |-> TRUE, post |-> 0]

(***************************************************************************)
(* The reduction of a set of <<where from, value>>.                        *)
(***************************************************************************)
ReduceAll(vs) ==
  [of   |-> UNION {v[2].of : v \in vs},
   once |-> \A v \in vs : /\ v[2].once
                          /\ \A w \in vs \ {v} : v[2].of \cap w[2].of = {},
   post |-> MapThenSumSet(LAMBDA v : v[2].post, vs)]

FreshMemory(k, r) ==
  LET size == Max({SendAt(k, r) + SendSize(k), RecvAt(k, r) + RecvSize(k)})
  IN  [a \in 0..size - 1 |-> IF a - SendAt(k, r) \in 0..SendSize(k) - 1
                             THEN Own(r, a - SendAt(k, r)) ELSE Garbage]

-----------------------------------------------------------------------------
(* Connections. *)

InFlight(conn) == IF conn \in DOMAIN fifo THEN fifo[conn] ELSE << >>

HasRoom(conn, steps) ==
  FoldLeft(LAMBDA s, m : s + m.steps, steps, InFlight(conn)) <= NCCL_STEPS

(***************************************************************************)
(* fifo after a message was taken from each of ins and m put in outs.      *)
(***************************************************************************)
Moved(ins, outs, m) ==
  [conn \in DOMAIN fifo \cup outs |->
     (IF conn \in ins THEN Tail(fifo[conn]) ELSE InFlight(conn))
     \o (IF conn \in outs THEN <<m>> ELSE << >>)]

-----------------------------------------------------------------------------
(* Running. *)

WorksOn(c) == FlattenSeq([p \in 1..Len(plans) |-> plans[p].works[c]])

AtWork(r, w) == [work |-> w, at |-> IF w > Len(kernels[r]) THEN << >>
                                    ELSE [g \in DOMAIN kernels[r][w].code |-> 0]]

CollInit ==
  /\ Init
  /\ chan = 0 /\ kernels = << >> /\ pos = << >> /\ mem = << >> /\ fifo = << >>

Plan == PlanNext /\ UNCHANGED <<chan, kernels, pos, mem, fifo>>

Finished(r) == pos[r].work > Len(kernels[r])

(***************************************************************************)
(* The launch, and then the next channel once all ranks are through one.   *)
(***************************************************************************)
NextChannel ==
  /\ \/ /\ phase = "planned"
        /\ mem' = [r \in Ranks |-> [id \in DOMAIN cs.calls |-> FreshMemory(cs.calls[id], r)]]
     \/ /\ phase = "run" /\ \A r \in Ranks : Finished(r)
        /\ UNCHANGED mem
  /\ \/ /\ chan = cs.collChannels
        /\ phase' = "done"
        /\ UNCHANGED <<chan, kernels, pos>>
     \/ /\ chan < cs.collChannels
        /\ phase' = "run"
        /\ chan' = chan + 1
        /\ \E works \in {WorksOn(chan + 1)} :
             /\ kernels' = [r \in Ranks |-> [i \in DOMAIN works |->
                              [elem |-> works[i], code |-> Kernel(r, works[i])]]]
             /\ pos' = [r \in Ranks |-> AtWork(r, 1)']
  /\ UNCHANGED <<cs, queues, tasks, sched, plans, fifo>>

(***************************************************************************)
(* genericOp: a primitive of group g of rank r.                            *)
(***************************************************************************)
Primitive(r, g) ==
  /\ phase = "run" /\ ~Finished(r)
  /\ LET work  == kernels[r][pos[r].work]
         e     == work.elem
         op    == work.code[g][pos[r].at[g] + 1]
         k     == Call(e.id)
         ins   == {<<chan, p[1], r, p[2]>> : p \in op.from}
         outs  == {<<chan, r, p[1], p[2]>> : p \in op.to}
         base(buf) == buf[2] + (IF buf[1] = "in" THEN SendAt(k, r) ELSE RecvAt(k, r))
         got(c, i) == IF i <= Len(fifo[c][1].data) THEN fifo[c][1].data[i] ELSE Garbage
         value(i) ==
           LET sum == ReduceAll({<<c, got(c, i)>> : c \in ins}
                        \cup (IF op.src[1] = "none" THEN {}
                              ELSE {<< << >>, mem[r][e.id][base(op.src) + i - 1]>>}))
           IN  IF op.post THEN [sum EXCEPT !.post = @ + 1] ELSE sum
         at    == [pos[r].at EXCEPT ![g] = @ + 1]
         over  == \A h \in DOMAIN at : at[h] = Len(work.code[h])
     IN  /\ g \in DOMAIN work.code
         /\ pos[r].at[g] < Len(work.code[g])
         /\ \A c \in ins : InFlight(c) # << >>
         /\ \A c \in outs : HasRoom(c, chunkSteps(e.info))
         /\ \E data \in {[i \in 1..op.n |-> value(i)]} :
              /\ fifo' = Moved(ins, outs, [steps |-> chunkSteps(e.info), data |-> data])
              /\ mem' = IF op.dst[1] = "none" THEN mem
                        ELSE [mem EXCEPT ![r][e.id] =
                                [a \in DOMAIN @ |-> IF a - base(op.dst) \in 0..op.n - 1
                                                    THEN data[a - base(op.dst) + 1] ELSE @[a]]]
         /\ pos' = [pos EXCEPT ![r] = IF over THEN AtWork(r, pos[r].work + 1)
                                      ELSE [@ EXCEPT !.at = at]]
  /\ UNCHANGED <<cs, phase, queues, tasks, sched, plans, chan, kernels>>

(***************************************************************************)
(* The collnet network reduces a chunk of every rank at the top of a chain *)
(* and answers each of them (external).                                    *)
(***************************************************************************)
NetworkReduce ==
  /\ phase = "run"
  /\ LET heads == {r \in Ranks : cs.chains[chan][r].up = cs.n}
         ins   == {<<chan, h, cs.n, 1>> : h \in heads}
         outs  == {<<chan, cs.n, h, 0>> : h \in heads}
         len   == Max({Len(fifo[c][1].data) : c \in ins})
         data  == [i \in 1..len |-> ReduceAll({<<c, fifo[c][1].data[i]>> : c \in ins})]
     IN  /\ heads # {}
         /\ \A c \in ins : InFlight(c) # << >>
         /\ \A c \in outs : HasRoom(c, 1)
         /\ fifo' = Moved(ins, outs, [steps |-> 1, data |-> data])
  /\ UNCHANGED <<cs, phase, queues, tasks, sched, plans, chan, kernels, pos, mem>>

CollNext ==
  \/ Plan
  \/ NextChannel
  \/ \E r \in Ranks, g \in 1..2 : Primitive(r, g)
  \/ NetworkReduce

-----------------------------------------------------------------------------
(* Properties. *)

(***************************************************************************)
(* Each call is planned once, in one plan, and its elements are divided    *)
(* over the work elements without a gap or an overlap, at most one element *)
(* of it on a channel; and a plan has no more works than the work FIFO     *)
(* (twice the budget) holds, or its upload would wait for itself.          *)
(***************************************************************************)
CollCovered ==
  phase = "planned" =>
    /\ \A p \in DOMAIN plans :
         FoldLeft(LAMBDA s, c : s + Len(plans[p].works[c]), 0, [c \in Chans |-> c]) <= 2 * cs.budget
    /\ \A id \in DOMAIN cs.calls :
         \E p \in DOMAIN plans :
           LET on(q, c) == {i \in DOMAIN plans[q].works[c] : plans[q].works[c][i].id = id}
               elems == {<<c, i>> \in Chans \X (1..Len(cs.calls)) : i \in on(p, c)}
               elem(x) == plans[p].works[x[1]][x[2]]
           IN  /\ \A q \in DOMAIN plans \ {p}, c \in Chans : on(q, c) = {}
               /\ \A c \in Chans : Cardinality(on(p, c)) <= 1
               /\ elems # {}
               /\ cs.calls[id].coll # "AllToAllPivot" /\ cs.calls[id].algo # "COLLNET_CHAIN" =>
                    /\ \A x \in elems : elem(x).off + elem(x).n <= cs.calls[id].count
                    /\ \A a \in 0..cs.calls[id].count - 1 :
                         Cardinality({x \in elems : a - elem(x).off \in 0..elem(x).n - 1}) = 1

\* Mutant: the ends of a broadcast are exchanged with those of a reduction.
NeedProxy_Swapped(type, e, r) ==
  CASE e.info.coll = "Reduce" -> Call(e.id).root # userRanks(e.chan, r)[IF type = "recv" THEN 0 ELSE 1]
    [] e.info.coll = "Broadcast" -> Call(e.id).root # userRanks(e.chan, r)[IF type = "recv" THEN cs.n - 1 ELSE 0]
    [] OTHER -> TRUE

(***************************************************************************)
(* NeedProxy and ncclProxySaveOp: the connections that get a proxy         *)
(* operation for a work, and its number of steps.                          *)
(***************************************************************************)
NeedProxy(type, e, r) ==
  CASE e.info.coll = "Broadcast" -> Call(e.id).root # userRanks(e.chan, r)[IF type = "recv" THEN 0 ELSE 1]
    [] e.info.coll = "Reduce" -> Call(e.id).root # userRanks(e.chan, r)[IF type = "recv" THEN cs.n - 1 ELSE 0]
    [] OTHER -> TRUE

ncclProxySaveOp(r, e) ==
  LET ops(type, peers) == {<<type, p[1], p[2], e.steps>> : p \in peers}
      t == cs.trees[e.chan][r]
      ch == cs.chains[e.chan][r]
      saved(type) == NeedProxy(type, e, r)
  IN  CASE e.info.algo = "RING" ->
             ops("recv", IF saved("recv") THEN RingPrev(e.chan, r, proxyConnIndex(e.info)) ELSE {})
             \cup ops("send", IF saved("send") THEN RingNext(e.chan, r, proxyConnIndex(e.info)) ELSE {})
        [] e.info.algo = "TREE" ->
             ops("recv", Down(t, 0) \cup Up(t, 0)) \cup ops("send", Down(t, 0) \cup Up(t, 0))
        [] e.info.algo = "COLLNET_CHAIN" ->
             ops("send", Up(ch, 1)) \cup ops("recv", Up(ch, 0))

(***************************************************************************)
(* The host's proxy operations and the kernel agree: a work's kernel sends *)
(* and receives, on each connection, exactly the steps that its proxy      *)
(* operation has, on no connection without one, and no chunk is larger     *)
(* than its steps hold.  (The pivot runs on machines without a network,    *)
(* and of a chain only the connections of the network have a proxy.)       *)
(***************************************************************************)
CollProxies ==
  phase = "run" /\ (\A r \in Ranks : pos[r] = AtWork(r, 1)) =>
    \A r \in Ranks : \A w \in DOMAIN kernels[r] :
      LET e    == kernels[r][w].elem
          ops  == FlattenSeq(kernels[r][w].code)
          uses(type, p) == Cardinality({i \in DOMAIN ops :
                             p \in IF type = "send" THEN ops[i].to ELSE ops[i].from})
          kernel == UNION {{<<type, p[1], p[2], uses(type, p) * chunkSteps(e.info)>> :
                              p \in UNION {IF type = "send" THEN ops[i].to ELSE ops[i].from : i \in DOMAIN ops}} :
                             type \in {"send", "recv"}}
          proxied(s) == IF e.info.algo = "COLLNET_CHAIN" THEN {x \in s : x[2] = cs.n} ELSE s
      IN  e.info.coll # "AllToAllPivot" =>
            /\ proxied(kernel) = proxied(ncclProxySaveOp(r, e))
            /\ \A i \in DOMAIN ops : ops[i].n <= chunkCount(e.info)

(***************************************************************************)
(* What a collective computes (nccl.h): element i of the output of rank r. *)
(***************************************************************************)
Result(k, r, i) ==
  CASE k.coll = "AllReduce" -> [of |-> {<<s, i>> : s \in Ranks}, once |-> TRUE, post |-> 1]
    [] k.coll = "Reduce" -> [of |-> {<<s, i>> : s \in Ranks}, once |-> TRUE, post |-> 1]
    [] k.coll = "ReduceScatter" ->
         [of |-> {<<s, r * k.count + i>> : s \in Ranks}, once |-> TRUE, post |-> 1]
    [] k.coll = "AllGather" -> Own(i \div k.count, i % k.count)
    [] k.coll = "Broadcast" -> Own(k.root, i)
    [] k.coll = "AllToAllPivot" -> Own(i \div k.count, (r * k.count) + (i % k.count))

(***************************************************************************)
(* When all kernels have returned, every output element is what its        *)
(* collective defines, with each rank's contribution in it once and postOp *)
(* done once, and nothing is left in a connection for the next kernel.     *)
(***************************************************************************)
CollResults ==
  phase = "done" =>
    /\ \A conn \in DOMAIN fifo : fifo[conn] = << >>
    /\ \A r \in Ranks, id \in DOMAIN cs.calls :
         LET k == cs.calls[id]
         IN  (k.coll = "Reduce" => r = k.root) =>
             \A i \in 0..RecvSize(k) - 1 : mem[r][id][RecvAt(k, r) + i] = Result(k, r, i)

CollEnded == phase = "done"
=============================================================================
