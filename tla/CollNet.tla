------------------------------- MODULE CollNet -------------------------------
(***************************************************************************)
(* All-reduce through a network that reduces (transport/coll_net.cc).  One *)
(* rank per node talks to the network.  It has nsubs channels, each with a *)
(* kernel that feeds data and one that takes results; the progress thread  *)
(* of the node runs a send and a receive proxy over all of them.  Channels *)
(* form groups of COLLNET_GROUP_NSUBS, and the last channel of a group     *)
(* issues one collective for the whole group.  The collectives of all      *)
(* nodes match by the order in which they are issued.                      *)
(*                                                                         *)
(* The two proxies of a node share a region of memory, split in a send and *)
(* a receive half of NCCL_STEPS slots each, and reqFifo, whose flag says   *)
(* whose turn it is in a slot of the receive half.                         *)
(*                                                                         *)
(* Ops is the sequence of operations, [nsteps, chunkSize]; chunkSize is in *)
(* units of the region.  A kernel's wait, copy and post of one step are    *)
(* one action (PrimsSimple has them apart).                                *)
(***************************************************************************)
EXTENDS Integers, Sequences

CONSTANTS Nodes, nsubs, COLLNET_GROUP_NSUBS, NCCL_STEPS, Ops

VARIABLES nd,      \* per node: memory, proxies, issued collectives
          results  \* per collective, in order: what the network computed

Subs == 0 .. nsubs - 1
Slots == 0 .. NCCL_STEPS - 1
Groups == {s \div COLLNET_GROUP_NSUBS : s \in Subs}

\* Room for the largest chunk of every channel.
Units == 0 .. nsubs * 2 - 1

Send == 0
Recv == 1

\* Steps before operation o.
Start[o \in 1 .. Len(Ops) + 1] ==
  IF o = 1 THEN 0 ELSE Start[o - 1] + Ops[o - 1].nsteps

Total == Start[Len(Ops) + 1]

OpAt(step) == CHOOSE o \in 1 .. Len(Ops) : Start[o] <= step /\ step < Start[o + 1]

Empty == {}

SubInit == [posted |-> 0, received |-> 0, flushed |-> 0, transmitted |-> 0,
            done |-> 0]

ProxyInit == [op |-> 0, state |-> "None", base |-> 0, step |-> 0,
              subs |-> [s \in Subs |-> SubInit]]

NodeInit ==
  [filled |-> [s \in Subs |-> 0], drained |-> [s \in Subs |-> 0],  \* kernels
   got    |-> [s \in Subs |-> <<>>],        \* what the kernel took last
   sHead  |-> [s \in Subs |-> -NCCL_STEPS], sTail |-> [s \in Subs |-> 0],
   rHead  |-> [s \in Subs |-> 0], rTail |-> [s \in Subs |-> 0],
   size   |-> [s \in Subs |-> [b \in Slots |-> -1]],
   sOff   |-> [s \in Subs |-> [b \in Slots |-> <<>>]],
   rOff   |-> [s \in Subs |-> [b \in Slots |-> <<>>]],
   region |-> [h \in {Send, Recv} |-> [b \in Slots |-> [u \in Units |-> Empty]]],
   turnIsSend |-> [g \in Groups |-> [b \in Slots |-> FALSE]],
   req    |-> [g \in Groups |-> [b \in Slots |-> 0]],  \* collective, or 0
   issued |-> <<>>, finished |-> 0,
   sp     |-> ProxyInit, rp |-> ProxyInit]

Init == nd = [n \in Nodes |-> NodeInit] /\ results = <<>>

----------------------------------------------------------------------------
(***************************************************************************)
(* The kernels.  An offset is <<half, slot, first unit>>.                  *)
(***************************************************************************)
Cells(off, n) == off[3] .. off[3] + n - 1

Fill(n, s) ==
  LET m == nd[n]
      f == m.filled[s]
      b == f % NCCL_STEPS
      off == m.sOff[s][b]
  IN  /\ f < Total /\ m.sHead[s] + NCCL_STEPS > f
      /\ nd' = [nd EXCEPT
           ![n].region[Send][off[2]] =
              [u \in Units |-> IF u \in Cells(off, Ops[OpAt(f)].chunkSize)
                               THEN {<<n, s, f, u - off[3]>>} ELSE @[u]],
           ![n].size[s][b] = Ops[OpAt(f)].chunkSize,
           ![n].filled[s] = f + 1, ![n].sTail[s] = f + 1]
      /\ UNCHANGED results

Drain(n, s) ==
  LET m == nd[n]
      d == m.drained[s]
      off == m.rOff[s][d % NCCL_STEPS]
  IN  /\ d < Total /\ m.rTail[s] > d
      /\ nd' = [nd EXCEPT
           ![n].got[s] = [j \in 0 .. Ops[OpAt(d)].chunkSize - 1 |->
                            m.region[Recv][off[2]][off[3] + j]],
           ![n].drained[s] = d + 1, ![n].rHead[s] = d + 1]
      /\ UNCHANGED results

----------------------------------------------------------------------------
(***************************************************************************)
(* What both progress functions share.                                     *)
(***************************************************************************)
nsteps(p) == Ops[p.op].nsteps

LAST_OF_GROUP(s) == \/ s % COLLNET_GROUP_NSUBS = COLLNET_GROUP_NSUBS - 1
                    \/ s = nsubs - 1

groupStart(s) == s - (s % COLLNET_GROUP_NSUBS)

group(s) == s \div COLLNET_GROUP_NSUBS

\* calcRegionOffset for an all-reduce, side 0.
calcRegionOffset(p, half, s, step) ==
  <<half, step % NCCL_STEPS, s * Ops[p.op].chunkSize>>

\* ncclProxyOpReady; chunkSteps is 1 outside of rings.
Ready(p) == [p EXCEPT !.op = @ + 1, !.state = "Progress", !.base = p.step,
                      !.step = p.step + Ops[p.op + 1].nsteps,
                      !.subs = [s \in Subs |-> SubInit]]

\* The element of a singleton: each stage of a visit is computed once.
Only(S) == CHOOSE x \in S : TRUE

Slot(p, step) == (p.base + step) % NCCL_STEPS

----------------------------------------------------------------------------
(***************************************************************************)
(* sendProxyProgress, for channel s.  The steps are those of the loop's    *)
(* body: post a buffer to the kernel, take what the kernel has filled,     *)
(* issue the collective of the group, and see whether it is complete.      *)
(***************************************************************************)
SendPost(m, s) ==
  LET u == m.sp.subs[s]
  IN  IF u.posted < nsteps(m.sp) /\ u.posted < u.done + NCCL_STEPS
      THEN [m EXCEPT !.sOff[s][Slot(m.sp, u.posted)] =
                        calcRegionOffset(m.sp, Send, s, u.posted),
                     !.sp.subs[s].posted = @ + 1,
                     !.sHead[s] = m.sp.base + u.posted + 1 - NCCL_STEPS]
      ELSE m

SendReceive(m, s) ==
  LET u == m.sp.subs[s]
      b == Slot(m.sp, u.received)
  IN  IF /\ u.received < u.posted /\ u.received < u.done + NCCL_STEPS
         /\ m.size[s][b] # -1 /\ m.sTail[s] > m.sp.base + u.received
      THEN [m EXCEPT !.size[s][b] = -1, !.sp.subs[s].received = @ + 1]
      ELSE m

\* Mutant: groups issue as soon as they are ready.
ordered_Not(m, s) == TRUE

\* "Enforce collective ordering of collnet ops."
ordered(m, s) ==
  LET t(x) == m.sp.subs[x].transmitted
  IN  IF s = 0 THEN t(nsubs - 1) = t(0) ELSE t(s) < t(s - 1)

SendTurn(m, s, b) == m.turnIsSend[group(s)][b]

CanTransmit(m, s) ==
  ordered(m, s) /\ m.sp.subs[s].transmitted < m.sp.subs[s].received

SendTransmit(m, s) ==
  LET u == m.sp.subs[s]
      b == Slot(m.sp, u.transmitted)
      coll == [send |-> calcRegionOffset(m.sp, Send, groupStart(s), u.transmitted),
               recv |-> calcRegionOffset(m.sp, Recv, groupStart(s), u.transmitted),
               n |-> (s + 1 - groupStart(s)) * Ops[m.sp.op].chunkSize]
  IN  IF ~LAST_OF_GROUP(s) THEN [m EXCEPT !.sp.subs[s].transmitted = @ + 1]
      ELSE IF ~SendTurn(m, s, b) THEN m
      ELSE [m EXCEPT !.issued = Append(@, coll),
                     !.req[group(s)][b] = Len(m.issued) + 1,
                     !.sp.subs[s].transmitted = @ + 1]

SendDone(m, s) ==
  LET u == m.sp.subs[s]
      b == Slot(m.sp, u.done)
      subs == [x \in Subs |-> IF x \in groupStart(s) .. s
                              THEN [m.sp.subs[x] EXCEPT !.done = @ + 1]
                              ELSE m.sp.subs[x]]
  IN  IF /\ LAST_OF_GROUP(s) /\ u.done < u.transmitted
         /\ m.req[group(s)][b] <= m.finished
      THEN [m EXCEPT !.turnIsSend[group(s)][b] = FALSE, !.req[group(s)][b] = 0,
                     !.sp.subs = subs,
                     !.sp.state = IF \A x \in Subs : subs[x].done = nsteps(m.sp)
                                  THEN "None" ELSE @]
      ELSE m

SendSub(m, s) ==
  IF m.sp.state # "Progress" THEN m
  ELSE Only({IF CanTransmit(r, s) THEN SendTransmit(r, s) ELSE SendDone(r, s) :
               r \in {SendReceive(p, s) : p \in {SendPost(m, s)}}})

sendProxyProgress(n) ==
  LET m == nd[n]
      r == IF m.sp.state = "None" /\ m.sp.op < Len(Ops)
           THEN [m EXCEPT !.sp = Ready(@)] ELSE m
      visit[i \in 0 .. nsubs] == IF i = 0 THEN r
                   ELSE Only({SendSub(v, i - 1) : v \in {visit[i - 1]}})
  IN  /\ nd' = [nd EXCEPT ![n] = visit[nsubs]]
      /\ UNCHANGED results

----------------------------------------------------------------------------
(***************************************************************************)
(* recvProxyProgress, for channel s.                                       *)
(***************************************************************************)
MayPost(u, p) == u.posted < u.done + NCCL_STEPS /\ u.posted < nsteps(p)

RecvFlush(m, s) ==
  LET u == m.rp.subs[s]
  IN  IF LAST_OF_GROUP(s) /\ u.flushed < u.received
      THEN [m EXCEPT !.rp.subs = [x \in Subs |-> IF x \in groupStart(s) .. s
                                                 THEN [@[x] EXCEPT !.flushed = @ + 1]
                                                 ELSE @[x]]]
      ELSE m

\* The tail moves to what is flushed, although only the offset of the step
\* at transmitted has been stored.
RecvTransmit(m, s) ==
  LET u == m.rp.subs[s]
  IN  [m EXCEPT !.rOff[s][Slot(m.rp, u.transmitted)] =
                   calcRegionOffset(m.rp, Recv, s, u.transmitted),
                !.rTail[s] = m.rp.base + u.flushed,
                !.rp.subs[s].transmitted = @ + 1]

\* "Enforce sync here to make sure the last sub doesn't increase done before
\* all others in the group have reached the same point."
groupSync(m, s) ==
  LET d(x) == m.rp.subs[x].done
  IN  IF s = 0 THEN d(nsubs - 1) = d(0) ELSE d(s - 1) > d(s)

RecvDone(m, s) ==
  LET u == m.rp.subs[s]
  IN  IF groupSync(m, s) /\ u.done < u.transmitted /\ m.rp.base + u.done < m.rHead[s]
      THEN [m EXCEPT !.rp.subs[s].done = @ + 1,
                     !.rp.state = IF u.done + 1 = nsteps(m.rp) /\ s = nsubs - 1
                                  THEN "None" ELSE @]
      ELSE m

RecvSub(m, s) ==
  LET u == m.rp.subs[s]
  IN  IF m.rp.state # "Progress" THEN m
      ELSE IF LAST_OF_GROUP(s) /\ MayPost(u, m.rp)
      THEN [m EXCEPT !.turnIsSend[group(s)][Slot(m.rp, u.posted)] = TRUE,
                     !.rp.subs[s].posted = @ + 1]
      ELSE IF /\ LAST_OF_GROUP(s) /\ u.received < u.posted
              /\ ~m.turnIsSend[group(s)][Slot(m.rp, u.received)]
      THEN [m EXCEPT !.rp.subs[s].received = @ + 1]
      ELSE Only({IF f.rp.subs[s].transmitted < f.rp.subs[s].flushed
                 THEN RecvTransmit(f, s) ELSE RecvDone(f, s) :
                   f \in {RecvFlush(m, s)}})

recvProxyProgress(n) ==
  LET m == nd[n]
      r == IF m.rp.state = "None" /\ m.rp.op < Len(Ops)
           THEN [m EXCEPT !.rp = Ready(@)] ELSE m
      visit[i \in 0 .. nsubs] == IF i = 0 THEN r
                   ELSE Only({RecvSub(v, i - 1) : v \in {visit[i - 1]}})
  IN  /\ nd' = [nd EXCEPT ![n] = visit[nsubs]]
      /\ UNCHANGED results

----------------------------------------------------------------------------
(***************************************************************************)
(* The network, as the send proxies use it.  A collective is computed once *)
(* every node has issued it, and its result reaches each node some time    *)
(* later; the collective is then complete there.                           *)
(***************************************************************************)
NetReduce ==
  LET k == Len(results) + 1
  IN  /\ \A n \in Nodes : Len(nd[n].issued) >= k
      /\ results' = Append(results,
           LET c(n) == nd[n].issued[k]
           IN  [j \in 0 .. 2 * nsubs - 1 |->
                  UNION {IF j < c(n).n
                         THEN nd[n].region[Send][c(n).send[2]][c(n).send[3] + j]
                         ELSE Empty : n \in Nodes}])
      /\ UNCHANGED nd

NetDeliver(n) ==
  LET k == nd[n].finished + 1
      c == nd[n].issued[k]
  IN  /\ k <= Len(results)
      /\ nd' = [nd EXCEPT
           ![n].finished = k,
           ![n].region[Recv][c.recv[2]] =
              [u \in Units |-> IF u \in Cells(c.recv, c.n)
                               THEN results[k][u - c.recv[3]] ELSE @[u]]]
      /\ UNCHANGED results

Kernel(n, s) == Fill(n, s) \/ Drain(n, s)

Network == NetReduce \/ \E n \in Nodes : NetDeliver(n)

Next == \/ \E n \in Nodes : \/ \E s \in Subs : Kernel(n, s)
                            \/ sendProxyProgress(n)
                            \/ recvProxyProgress(n)
        \/ Network

----------------------------------------------------------------------------
(***************************************************************************)
(* What a kernel takes at a step is the reduction of what the kernels of   *)
(* that channel fed at that very step on all nodes: no buffer is reused    *)
(* too early, no offset is stale, and the collectives of the nodes match.  *)
(***************************************************************************)
ReducesStep ==
  \A n \in Nodes : \A s \in Subs :
    nd[n].drained[s] > 0 =>
      LET d == nd[n].drained[s] - 1
      IN  nd[n].got[s] = [j \in 0 .. Ops[OpAt(d)].chunkSize - 1 |->
                            {<<m, s, d, j>> : m \in Nodes}]

Completed ==
  \A n \in Nodes : /\ \A s \in Subs : nd[n].drained[s] = Total
                   /\ nd[n].sp.state = "None" /\ nd[n].rp.state = "None"
                   /\ nd[n].sp.op = Len(Ops) /\ nd[n].rp.op = Len(Ops)
=============================================================================
