------------------------------ MODULE NetConn ------------------------------
(***************************************************************************)
(* A connection between two GPUs through the network (transport/net.cc,    *)
(* Simple protocol).  It is a pipeline of four actors:                     *)
(*                                                                         *)
(*   sender kernel -> send proxy -> network -> recv proxy -> receiver      *)
(*                                                                         *)
(* The sender kernel and the send proxy share sHead, sTail, sFifo and      *)
(* sBuff; the recv proxy and the receiver kernel share rHead, rTail, rFifo *)
(* and rBuff.  Each proxy runs one ncclProxyArgs per operation, in order,  *)
(* here with one sub.  With Shared, the slots belong to a pool and the     *)
(* proxies tell the kernels through connFifo[].offset which one to use.    *)
(*                                                                         *)
(* The counters are 64-bit and start at 0 (sHead at -NCCL_STEPS when       *)
(* Shared): the model's integers do not wrap.                              *)
(***************************************************************************)
EXTENDS Integers, Sequences, Align

CONSTANTS NCCL_STEPS,         \* slots of a FIFO
          NCCL_SHARED_STEPS,  \* slots of a shared pool
          Ops,                \* operations run on the connection, in order
          Shared,             \* resources->shared
          NeedFlush           \* resources->useGdr && resources->needFlush

VARIABLES sHead, sTail, sFifo, sBuff, snd,  \* memory and kernel, sending GPU
          rHead, rTail, rFifo, rBuff, rcv,  \* memory and kernel, receiving GPU
          sp, rp,                           \* the args of the two proxies
          sReq, rReq,                       \* sub->requests of each proxy
          sendQ, recvQ,                     \* network: posted, not matched
          pend,                             \* network: received, not visible
          chan                              \* history: written, not yet read

Slots == 0 .. NCCL_STEPS - 1

BuffSlots == IF Shared THEN 0 .. NCCL_SHARED_STEPS - 1 ELSE Slots

S == INSTANCE PrimsSimple WITH
       isSend <- TRUE, ConnFifoEnabled <- TRUE, OffsetMode <- Shared,
       waitPtr <- sHead, postPtr <- sTail, fifo <- sFifo, buff <- sBuff,
       abortFlag <- ~TRUE, kern <- snd

R == INSTANCE PrimsSimple WITH
       isSend <- FALSE, ConnFifoEnabled <- TRUE, OffsetMode <- Shared,
       waitPtr <- rTail, postPtr <- rHead, fifo <- rFifo, buff <- rBuff,
       abortFlag <- ~TRUE, kern <- rcv

sMem == <<sHead, sTail, sFifo, sBuff>>
rMem == <<rHead, rTail, rFifo, rBuff>>
net  == <<sendQ, recvQ, pend>>
vars == <<sMem, snd, rMem, rcv, sp, rp, sReq, rReq, net, chan>>

ASSUME StepsAssumption ==
  /\ NCCL_STEPS \in Nat \ {0}
  /\ NCCL_SHARED_STEPS \in Nat \ {0}
  /\ Shared \in BOOLEAN /\ NeedFlush \in BOOLEAN

(***************************************************************************)
(* Chunks divide the FIFO, with room for a slice after the largest         *)
(* rounding.  Shared connections only carry send/recv operations, whose    *)
(* slices are single steps (device/sendrecv.h).                            *)
(***************************************************************************)
ASSUME OpsAssumption ==
  /\ Ops \in Seq([sps : Nat \ {0}, spc : Nat \ {0}, chunks : Nat \ {0}])
  /\ \A o \in 1 .. Len(Ops) :
       /\ NCCL_STEPS % (Ops[o].spc * Ops[o].sps) = 0
       /\ Ops[o].spc * Ops[o].sps + Ops[o].sps <= NCCL_STEPS + 1
       /\ Shared => Ops[o].spc = 1 /\ Ops[o].sps = 1

maxDepth == IF NCCL_STEPS < NCCL_SHARED_STEPS THEN NCCL_STEPS
            ELSE NCCL_SHARED_STEPS

(***************************************************************************)
(* The sub of a proxy's args.  op is the operation whose args come next,   *)
(* or are in progress; step is resources->step.                            *)
(***************************************************************************)
SubInit == [op |-> 1, state |-> "None", pc |-> "run", step |-> 0, base |-> 0,
            posted |-> 0, received |-> 0, transmitted |-> 0, done |-> 0]

Init ==
  /\ sHead = (IF Shared THEN -NCCL_STEPS ELSE 0) /\ sTail = 0
  /\ rHead = 0 /\ rTail = 0
  /\ sFifo = [s \in Slots |-> [size |-> S!NoSize, offset |-> -1]]
  /\ rFifo = [s \in Slots |-> [size |-> S!NoSize, offset |-> -1]]
  /\ sBuff = [s \in BuffSlots |-> S!NoDatum]
  /\ rBuff = [s \in BuffSlots |-> S!NoDatum]
  /\ snd = S!KernInit /\ rcv = R!KernInit
  /\ sp = SubInit /\ rp = SubInit
  /\ sReq = [s \in Slots |-> "none"] /\ rReq = [s \in Slots |-> "none"]
  /\ sendQ = <<>> /\ recvQ = <<>> /\ pend = <<>>
  /\ chan = <<>>

----------------------------------------------------------------------------
(***************************************************************************)
(* The kernels.  chan records what they copy.                              *)
(***************************************************************************)
SendCopy ==
  /\ S!reduceCopy
  /\ chan' = Append(chan, sBuff'[snd.ptr + snd.i])

RecvCopy ==
  /\ R!reduceCopy
  /\ chan' = IF chan = <<>> THEN chan ELSE Tail(chan)

Sender ==
  /\ UNCHANGED <<rMem, rcv, sp, rp, sReq, rReq, net>>
  /\ \/ S!loadConn /\ UNCHANGED chan
     \/ S!waitPeerSpin /\ UNCHANGED chan
     \/ S!waitPeer /\ UNCHANGED chan
     \/ SendCopy
     \/ S!postPeer /\ UNCHANGED chan
     \/ S!saveConn /\ UNCHANGED chan

Receiver ==
  /\ UNCHANGED <<sMem, snd, sp, rp, sReq, rReq, net>>
  /\ \/ R!loadConn /\ UNCHANGED chan
     \/ R!waitPeerSpin /\ UNCHANGED chan
     \/ R!waitPeer /\ UNCHANGED chan
     \/ RecvCopy
     \/ R!postPeer /\ UNCHANGED chan
     \/ R!saveConn /\ UNCHANGED chan

----------------------------------------------------------------------------
(***************************************************************************)
(* What the two progress functions have in common.                         *)
(***************************************************************************)
Sps(p) == S!Sps(p.op)

nsteps(p) == S!OpSteps(p.op)

(***************************************************************************)
(* ncclProxyOpReady: compute the base, and the step of the next operation. *)
(***************************************************************************)
Ready(p) ==
  LET b == roundUp(p.step, S!ChunkSteps(p.op))
  IN  [p EXCEPT !.state = "Progress", !.base = b, !.step = b + nsteps(p),
                !.posted = 0, !.received = 0, !.transmitted = 0, !.done = 0]

CanPost(p) == p.posted < nsteps(p) /\ p.posted < p.done + maxDepth

(***************************************************************************)
(* sharedBuffersGet for the only sub of the args.                          *)
(***************************************************************************)
sharedBuffSlot(p) == p.posted % maxDepth

buffSlot(p, n) == (p.base + n) % NCCL_STEPS

\* done moves to d; the args end with the last step.
Done(p, d) == IF d = nsteps(p)
              THEN [p EXCEPT !.done = d, !.state = "None", !.pc = "run",
                             !.op = @ + 1]
              ELSE [p EXCEPT !.done = d, !.pc = "run"]

----------------------------------------------------------------------------
(***************************************************************************)
(* sendProxyProgress.                                                      *)
(***************************************************************************)
SReady ==
  /\ sp.state = "None" /\ sp.op <= Len(Ops)
  /\ sp' = Ready(sp)
  /\ UNCHANGED <<sMem, sReq, sendQ>>

SRunning == sp.state = "Progress" /\ sp.pc = "run"

\* Shared: connFifo[].offset is stored before the credit that announces it.
SPostOffset ==
  /\ SRunning /\ CanPost(sp) /\ Shared
  /\ sFifo' = [sFifo EXCEPT ![buffSlot(sp, sp.posted)].offset =
                              sharedBuffSlot(sp)]
  /\ sp' = [sp EXCEPT !.pc = "post"]
  /\ UNCHANGED <<sHead, sTail, sBuff, sReq, sendQ>>

SPost ==
  /\ sp.pc = "post" \/ (~Shared /\ SRunning /\ CanPost(sp))
  /\ sp' = [sp EXCEPT !.pc = "run", !.posted = @ + Sps(sp)]
  /\ sHead' = IF Shared THEN sp.base + sp'.posted - NCCL_STEPS ELSE sHead
  /\ UNCHANGED <<sTail, sFifo, sBuff, sReq, sendQ>>

DataReady ==
  /\ sFifo[buffSlot(sp, sp.transmitted)].size # S!NoSize
  /\ sTail > sp.base + sp.transmitted

(***************************************************************************)
(* The kernel has filled the next slice: give it to the network.  isend    *)
(* may also return no request, which changes nothing.                      *)
(***************************************************************************)
STransmit ==
  /\ SRunning /\ ~CanPost(sp)
  /\ sp.transmitted < sp.posted /\ sp.transmitted < sp.done + NCCL_STEPS
  /\ DataReady
  /\ LET b == buffSlot(sp, sp.transmitted)
     IN  /\ sendQ' = Append(sendQ,
                [ptr |-> IF Shared THEN sFifo[b].offset ELSE b,
                 n |-> Sps(sp), req |-> b])
         /\ sReq' = [sReq EXCEPT ![b] = "posted"]
  /\ sp' = [sp EXCEPT !.transmitted = @ + Sps(sp)]
  /\ UNCHANGED sMem

\* Mutant: the slot is given back as soon as the send is posted.
SDoneReset_NoTest ==
  /\ SRunning /\ ~CanPost(sp)
  /\ sp.done < sp.transmitted
  /\ sFifo' = [sFifo EXCEPT ![buffSlot(sp, sp.done)].size = S!NoSize]
  /\ sp' = [sp EXCEPT !.pc = "done"]
  /\ UNCHANGED <<sHead, sTail, sBuff, sReq, sendQ>>

(***************************************************************************)
(* test reports the oldest send complete: reset the size of its slot ...   *)
(***************************************************************************)
SDoneReset ==
  /\ SRunning /\ ~CanPost(sp)
  /\ sp.done < sp.transmitted
  /\ sReq[buffSlot(sp, sp.done)] = "complete"
  /\ sFifo' = [sFifo EXCEPT ![buffSlot(sp, sp.done)].size = S!NoSize]
  /\ sp' = [sp EXCEPT !.pc = "done"]
  /\ UNCHANGED <<sHead, sTail, sBuff, sReq, sendQ>>

(***************************************************************************)
(* ... and then return the credit, unless posting the next buffer does.    *)
(***************************************************************************)
SDone ==
  /\ sp.pc = "done"
  /\ sp' = Done(sp, sp.done + Sps(sp))
  /\ sHead' = IF Shared THEN sHead ELSE sp.base + sp'.done
  /\ UNCHANGED <<sTail, sFifo, sBuff, sReq, sendQ>>

SendProxy ==
  /\ UNCHANGED <<snd, rMem, rcv, rp, rReq, recvQ, pend, chan>>
  /\ SReady \/ SPostOffset \/ SPost \/ STransmit \/ SDoneReset \/ SDone

----------------------------------------------------------------------------
(***************************************************************************)
(* recvProxyProgress.  A call runs the four phases in order and returns    *)
(* after the first one that makes progress; irecv and test may decline.    *)
(***************************************************************************)
RReady ==
  /\ rp.state = "None" /\ rp.op <= Len(Ops)
  /\ rp' = Ready(rp)
  /\ UNCHANGED <<rMem, rReq, recvQ>>

RRunning == rp.state = "Progress"

\* Mutant: buffers are posted whether or not the GPU has emptied them.
RPost_NoDepth ==
  /\ RRunning /\ rp.posted < nsteps(rp)
  /\ LET b == buffSlot(rp, rp.posted)
         ptr == IF Shared THEN sharedBuffSlot(rp) ELSE b
     IN  /\ rFifo' = IF Shared THEN [rFifo EXCEPT ![b].offset = ptr] ELSE rFifo
         /\ recvQ' = Append(recvQ, [ptr |-> ptr, req |-> rp.posted % NCCL_STEPS])
         /\ rReq' = [rReq EXCEPT ![rp.posted % NCCL_STEPS] = "posted"]
         /\ rp' = [rp EXCEPT !.posted = @ + Sps(rp)]
  /\ UNCHANGED <<rHead, rTail, rBuff>>

(***************************************************************************)
(* Post a buffer to the network.                                           *)
(***************************************************************************)
RPost ==
  /\ RRunning /\ CanPost(rp)
  /\ LET b == buffSlot(rp, rp.posted)
         ptr == IF Shared THEN sharedBuffSlot(rp) ELSE b
     IN  /\ rFifo' = IF Shared THEN [rFifo EXCEPT ![b].offset = ptr] ELSE rFifo
         /\ \/ /\ recvQ' = Append(recvQ, [ptr |-> ptr,
                                          req |-> rp.posted % NCCL_STEPS])
               /\ rReq' = [rReq EXCEPT ![rp.posted % NCCL_STEPS] = "posted"]
               /\ rp' = [rp EXCEPT !.posted = @ + Sps(rp)]
            \/ UNCHANGED <<recvQ, rReq, rp>>
  /\ UNCHANGED <<rHead, rTail, rBuff>>

(***************************************************************************)
(* A receive is complete: flush it to the GPU's memory if necessary.       *)
(***************************************************************************)
RReceive ==
  /\ RRunning /\ rp.posted > rp.received
  /\ rReq[rp.received % NCCL_STEPS] = "complete"
  /\ rReq' = [rReq EXCEPT ![rp.received % NCCL_STEPS] =
                            IF NeedFlush THEN "flush" ELSE "none"]
  /\ rp' = [rp EXCEPT !.received = @ + Sps(rp)]
  /\ UNCHANGED <<rMem, recvQ>>

(***************************************************************************)
(* Received and flushed: tell the kernel.                                  *)
(***************************************************************************)
RTransmit ==
  /\ RRunning /\ rp.received > rp.transmitted
  /\ rReq[rp.transmitted % NCCL_STEPS] \in {"none", "flushed"}
  /\ rp' = [rp EXCEPT !.transmitted = @ + Sps(rp)]
  /\ rTail' = rp.base + rp'.transmitted
  /\ UNCHANGED <<rHead, rFifo, rBuff, rReq, recvQ>>

(***************************************************************************)
(* The kernel has returned credits: done follows head, slice by slice, but *)
(* never past what was transmitted.                                        *)
(***************************************************************************)
RDone ==
  /\ RRunning
  /\ ~(rp.received > rp.transmitted
       /\ rReq[rp.transmitted % NCCL_STEPS] = "none")
  /\ \E d \in rp.done + 1 .. rp.transmitted :
       /\ (d - rp.done) % Sps(rp) = 0
       /\ rHead > rp.base + d - Sps(rp)
       /\ d = rp.transmitted \/ rHead <= rp.base + d
       /\ rp' = Done(rp, d)
  /\ UNCHANGED <<rMem, rReq, recvQ>>

RecvProxy ==
  /\ UNCHANGED <<sMem, snd, rcv, sp, sReq, sendQ, pend, chan>>
  /\ RReady \/ RPost \/ RReceive \/ RTransmit \/ RDone

----------------------------------------------------------------------------
(***************************************************************************)
(* The network, as the proxies use it: sends and receives match in order,  *)
(* and the data are copied between the posted buffers at some time before  *)
(* both requests complete.  In GPU memory they may become visible later    *)
(* than that: pend holds such writes, in order, until they settle, at the  *)
(* latest when a flush completes.                                          *)
(***************************************************************************)
Written(b, writes) ==
  [s \in DOMAIN b |->
     LET js == {j \in DOMAIN writes : writes[j].slot = s}
     IN  IF js = {} THEN b[s]
         ELSE writes[CHOOSE j \in js : \A k \in js : k <= j].datum]

NetTransfer ==
  /\ sendQ # <<>> /\ recvQ # <<>>
  /\ LET s == Head(sendQ)
         r == Head(recvQ)
         writes == [i \in 1 .. s.n |-> [slot |-> r.ptr + i - 1,
                                        datum |-> sBuff[s.ptr + i - 1]]]
     IN  /\ IF NeedFlush
            THEN pend' = pend \o writes /\ UNCHANGED rBuff
            ELSE rBuff' = Written(rBuff, writes) /\ UNCHANGED pend
         /\ sReq' = [sReq EXCEPT ![s.req] = "complete"]
         /\ rReq' = [rReq EXCEPT ![r.req] = "complete"]
  /\ sendQ' = Tail(sendQ) /\ recvQ' = Tail(recvQ)
  /\ UNCHANGED <<sMem, snd, rHead, rTail, rFifo, rcv, sp, rp, chan>>

\* Everything pending becomes visible: by itself, or because of a flush.
NetSettle ==
  /\ pend # <<>> \/ \E s \in Slots : rReq[s] = "flush"
  /\ rBuff' = Written(rBuff, pend) /\ pend' = <<>>
  /\ \/ UNCHANGED rReq
     \/ \E s \in Slots : /\ rReq[s] = "flush"
                         /\ rReq' = [rReq EXCEPT ![s] = "flushed"]
  /\ UNCHANGED <<sMem, snd, rHead, rTail, rFifo, rcv, sp, rp, sReq, sendQ,
                 recvQ, chan>>

Network == NetTransfer \/ NetSettle

----------------------------------------------------------------------------
Completed == /\ S!Finished /\ R!Finished
             /\ sp.op > Len(Ops) /\ rp.op > Len(Ops)

Next == Sender \/ Receiver \/ SendProxy \/ RecvProxy \/ Network

Spec == Init /\ [][Next]_vars

----------------------------------------------------------------------------
Data == [op : Nat, off : Int, step : Nat]

Kernels == [op : Nat, pc : {"load", "wait", "copy"}, connStep : Nat,
            step : Nat, post : Nat, cache : Int, left : Nat,
            ptr : BuffSlots, i : Nat, posting : BOOLEAN, aborted : {FALSE},
            got : Data]

Subs == [op : Nat, state : {"None", "Progress"}, pc : {"run", "post", "done"},
         step : Nat, base : Nat, posted : Nat, received : Nat,
         transmitted : Nat, done : Nat]

(***************************************************************************)
(* Types.  A kernel's buffer pointer is always a slot: an offset it reads  *)
(* from connFifo has been stored before.                                   *)
(***************************************************************************)
TypeOK ==
  /\ sHead \in Int /\ sTail \in Nat /\ rHead \in Nat /\ rTail \in Nat
  /\ \A f \in {sFifo, rFifo} :
       f \in [Slots -> [size : Nat \union {-1},
                        offset : BuffSlots \union {-1}]]
  /\ sBuff \in [BuffSlots -> Data] /\ rBuff \in [BuffSlots -> Data]
  /\ snd \in Kernels /\ rcv \in Kernels
  /\ sp \in Subs /\ rp \in Subs
  /\ sReq \in [Slots -> {"none", "posted", "complete"}]
  /\ rReq \in [Slots -> {"none", "posted", "complete", "flush", "flushed"}]
  /\ sendQ \in Seq([ptr : BuffSlots, n : Nat, req : Slots])
  /\ recvQ \in Seq([ptr : BuffSlots, req : Slots])
  /\ pend \in Seq([slot : BuffSlots, datum : Data])
  /\ chan \in Seq(Data)

(***************************************************************************)
(* Every slot the receiver kernel has still to read of the slice waitPeer  *)
(* gave it holds the datum of that step of that operation, and it is       *)
(* visible: the recv proxy moved tail only after data, and flush.          *)
(***************************************************************************)
ReadsExpected ==
  rcv.pc = "copy" =>
    \A j \in rcv.i .. R!Sps(rcv.op) - 1 :
      rBuff[rcv.ptr + j] = S!Datum(rcv.op, R!Copied - rcv.i + j,
                                   rcv.step - R!Sps(rcv.op) + j)

(***************************************************************************)
(* The slice the sender kernel may write is not one the network still has  *)
(* to read: the send proxy returns a credit only after the send completed. *)
(***************************************************************************)
NoWriteUnderSend ==
  snd.pc = "copy" =>
    \A q \in {sendQ[j] : j \in DOMAIN sendQ} :
      q.ptr .. q.ptr + q.n - 1
        \intersect (snd.ptr .. snd.ptr + S!Sps(snd.op) - 1) = {}

(***************************************************************************)
(* No buffer posted to the network, or with a write of the network still   *)
(* on its way, is one the receiver kernel is reading.                      *)
(***************************************************************************)
NoReadUnderRecv ==
  rcv.pc = "copy" =>
    LET reading == rcv.ptr + rcv.i .. rcv.ptr + R!Sps(rcv.op) - 1
    IN  /\ \A j \in DOMAIN recvQ : recvQ[j].ptr \notin reading
        /\ \A j \in DOMAIN pend : pend[j].slot \notin reading

(***************************************************************************)
(* Whenever the send proxy finds a slice ready, the size it reads is the   *)
(* one the kernel stored for that very step: no size of an earlier round   *)
(* of the FIFO survives, and none is reset after the kernel stored it.     *)
(***************************************************************************)
SizeIsFresh ==
  /\ SRunning /\ sp.transmitted < sp.posted /\ DataReady =>
       sFifo[buffSlot(sp, sp.transmitted)].size = sp.base + sp.transmitted
  /\ SRunning /\ sp.transmitted < sp.posted /\ sTail > sp.base + sp.transmitted
       => DataReady

(***************************************************************************)
(* The buffers and the FIFO of sizes are used by one actor at a time, and  *)
(* each finds in them what the one before it left for that step: kernels   *)
(* and proxies agree on who owns a slot by comparing counters alone.       *)
(***************************************************************************)
NetInv == /\ TypeOK
          /\ ReadsExpected
          /\ NoWriteUnderSend
          /\ NoReadUnderRecv
          /\ SizeIsFresh

(***************************************************************************)
(* The pipeline is an ordered channel of 2 * NCCL_STEPS steps between the  *)
(* kernels; proxies and network are invisible.                             *)
(***************************************************************************)
Ch == INSTANCE Channel WITH
        Data <- [op : Nat, off : Nat, step : Nat],
        Capacity <- 2 * NCCL_STEPS, got <- rcv.got, aborted <- ~TRUE

ChannelSpec == Ch!Spec
=============================================================================
