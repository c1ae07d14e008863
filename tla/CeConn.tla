------------------------------- MODULE CeConn -------------------------------
(***************************************************************************)
(* A connection inside a node whose data are moved by copy engines: the    *)
(* kernels do not share a buffer, and a proxy issues an asynchronous copy  *)
(* for every slice (Simple protocol).  Buffers are numbered in the order   *)
(* the data pass them:                                                     *)
(*                                                                         *)
(*   P2P (transport/p2p.cc, NCCL_P2P_USE_CUDA_MEMCPY): ceDevBuff, recvFifo *)
(*   SHM (transport/shm.cc, NCCL_SHM_USE_CUDA_MEMCPY): the sender's        *)
(*     devFifo (mode 1), the shared memory, the receiver's devFifo (2)     *)
(*                                                                         *)
(* so there are two buffers with one proxy between them, or three with     *)
(* two.  Hop h is the proxy that copies buffer h to buffer h + 1.  Credits *)
(* do not pass the proxies: the receiver's kernel writes the head the      *)
(* sender's kernel polls (p2pRecvConnect, shmRecvConnect).                 *)
(***************************************************************************)
EXTENDS Integers, Sequences, Align

CONSTANTS NCCL_STEPS,  \* slots of a FIFO
          Ops,         \* operations run on the connection, in order
          Hops         \* number of proxies, 1 or 2

VARIABLES head,             \* the receiver's credits
          sTail, rTail,     \* tail of the first and of the last buffer
          mTail,            \* tail of the one between them
          sBuff, mBuff, rBuff,
          sFifo, mFifo,     \* connFifo[] beside the first two
          snd, rcv,         \* the kernels
          px,               \* the sub of each proxy
          stream,           \* copies issued and not executed, per proxy
          events,           \* per proxy and slot: whether the event is done
          chan              \* history: written and not yet read

Slots == 0 .. NCCL_STEPS - 1

S == INSTANCE PrimsSimple WITH
       isSend <- TRUE, ConnFifoEnabled <- TRUE, OffsetMode <- FALSE,
       waitPtr <- head, postPtr <- sTail, fifo <- sFifo, buff <- sBuff,
       abortFlag <- ~TRUE, kern <- snd

R == INSTANCE PrimsSimple WITH
       isSend <- FALSE, ConnFifoEnabled <- FALSE, OffsetMode <- FALSE,
       waitPtr <- rTail, postPtr <- head, fifo <- 0, buff <- rBuff,
       abortFlag <- ~TRUE, kern <- rcv

sMem == <<sTail, sBuff, sFifo>>
mMem == <<mTail, mBuff, mFifo>>
rMem == <<rTail, rBuff>>
ce   == <<px, stream, events>>
vars == <<head, sMem, mMem, rMem, snd, rcv, ce, chan>>

SubInit == [op |-> 1, state |-> "None", step |-> 0, base |-> 0,
            transmitted |-> 0, done |-> 0]

Init ==
  /\ head = 0 /\ sTail = 0 /\ mTail = 0 /\ rTail = 0
  /\ \E b \in {[s \in Slots |-> S!NoDatum]} : sBuff = b /\ mBuff = b /\ rBuff = b
  /\ \E f \in {[s \in Slots |-> [size |-> S!NoSize, offset |-> -1]]} :
       sFifo = f /\ mFifo = f
  /\ snd = S!KernInit /\ rcv = R!KernInit
  /\ px = [h \in 1 .. Hops |-> SubInit]
  /\ stream = [h \in 1 .. Hops |-> <<>>]
  /\ events = [h \in 1 .. Hops |-> [s \in Slots |-> FALSE]]
  /\ chan = <<>>

----------------------------------------------------------------------------
SendCopy ==
  /\ S!reduceCopy
  /\ chan' = Append(chan, sBuff'[snd.ptr + snd.i])

RecvCopy ==
  /\ R!reduceCopy
  /\ chan' = IF chan = <<>> THEN chan ELSE Tail(chan)

Sender ==
  /\ UNCHANGED <<mMem, rMem, rcv, ce>>
  /\ \/ S!loadConn /\ UNCHANGED chan
     \/ S!waitPeerSpin /\ UNCHANGED chan
     \/ S!waitPeer /\ UNCHANGED chan
     \/ SendCopy
     \/ S!postPeer /\ UNCHANGED chan
     \/ S!saveConn /\ UNCHANGED chan

Receiver ==
  /\ UNCHANGED <<sMem, mMem, snd, ce>>
  /\ \/ R!loadConn /\ UNCHANGED chan
     \/ R!waitPeerSpin /\ UNCHANGED chan
     \/ R!waitPeer /\ UNCHANGED chan
     \/ RecvCopy
     \/ R!postPeer /\ UNCHANGED chan
     \/ R!saveConn /\ UNCHANGED chan

----------------------------------------------------------------------------
(***************************************************************************)
(* The proxies: p2pSendProxyProgress, shmSendProxyProgress and             *)
(* shmRecvProxyProgress, which only differ in the buffers they stand       *)
(* between.                                                                *)
(***************************************************************************)
nsteps(p) == S!OpSteps(p.op)

sliceSteps(p) == S!Sps(p.op)

ProxyReady(h) ==
  /\ px[h].state = "None" /\ px[h].op <= Len(Ops)
  /\ px' = [px EXCEPT ![h].state = "Progress",
              ![h].base = roundUp(px[h].step, S!ChunkSteps(px[h].op)),
              ![h].transmitted = 0, ![h].done = 0]
  /\ UNCHANGED <<sMem, mMem, rMem, stream, events>>

\* The tail and the sizes of the buffer hop h reads.
TailIn(h) == IF h = 1 THEN sTail ELSE mTail

FifoIn(h) == IF h = 1 THEN sFifo ELSE mFifo

(***************************************************************************)
(* The slice is there: queue its copy and an event behind it, and pass the *)
(* size on if another proxy follows.                                       *)
(***************************************************************************)
ProxyCopy(h) ==
  LET p == px[h]
      b == (p.base + p.transmitted) % NCCL_STEPS
  IN  /\ p.state = "Progress"
      /\ p.transmitted < p.done + NCCL_STEPS /\ p.transmitted < nsteps(p)
      /\ TailIn(h) > p.base + p.transmitted
      /\ stream' = [stream EXCEPT ![h] =
           Append(@, [slot |-> b, n |-> sliceSteps(p), size |-> FifoIn(h)[b].size,
                      step |-> p.base + p.transmitted])]
      /\ events' = [events EXCEPT ![h][b] = FALSE]
      /\ mFifo' = IF h < Hops THEN [mFifo EXCEPT ![b].size = FifoIn(h)[b].size]
                  ELSE mFifo
      /\ px' = [px EXCEPT ![h].transmitted = @ + sliceSteps(p)]
      /\ UNCHANGED <<sMem, mTail, mBuff, rMem>>

\* cudaEventQuery.
Complete(h, b) == events[h][b]

(***************************************************************************)
(* The oldest copy is complete: move the tail of the buffer it went to.    *)
(***************************************************************************)
ProxyDone(h) ==
  LET p == px[h]
      d == p.done + sliceSteps(p)
  IN  /\ p.state = "Progress" /\ p.done < p.transmitted
      /\ Complete(h, (p.base + p.done) % NCCL_STEPS)
      /\ px' = [px EXCEPT ![h] =
           IF d = nsteps(p)
           THEN [p EXCEPT !.done = d, !.step = p.base + d, !.state = "None",
                          !.op = @ + 1]
           ELSE [p EXCEPT !.done = d]]
      /\ mTail' = IF h < Hops THEN p.base + d ELSE mTail
      /\ rTail' = IF h = Hops THEN p.base + d ELSE rTail
      /\ UNCHANGED <<sMem, mBuff, mFifo, rBuff, stream, events>>

(***************************************************************************)
(* The copy engine runs the copies of a stream in order.                   *)
(***************************************************************************)
StreamCopy(h) ==
  /\ stream[h] # <<>>
  /\ LET c == Head(stream[h])
         from == IF h = 1 THEN sBuff ELSE mBuff
         Put(b) == [s \in Slots |-> IF s \in c.slot .. c.slot + c.n - 1
                                    THEN from[s] ELSE b[s]]
     IN  /\ mBuff' = IF h < Hops THEN Put(mBuff) ELSE mBuff
         /\ rBuff' = IF h = Hops THEN Put(rBuff) ELSE rBuff
         /\ events' = [events EXCEPT ![h][c.slot] = TRUE]
  /\ stream' = [stream EXCEPT ![h] = Tail(@)]
  /\ UNCHANGED <<sMem, mTail, mFifo, rTail, px>>

Proxy(h) ==
  /\ UNCHANGED <<head, snd, rcv, chan>>
  /\ ProxyReady(h) \/ ProxyCopy(h) \/ ProxyDone(h)

Engine(h) == UNCHANGED <<head, snd, rcv, chan>> /\ StreamCopy(h)

Next == \/ Sender \/ Receiver
        \/ \E h \in 1 .. Hops : Proxy(h) \/ Engine(h)

Completed == /\ S!Finished /\ R!Finished
             /\ \A h \in 1 .. Hops : px[h].op > Len(Ops)

----------------------------------------------------------------------------
(***************************************************************************)
(* Every copy in a stream has the size the sender's kernel stored for that *)
(* step, and the data of that step are still in the buffer it reads; the   *)
(* slots it writes are not the ones the receiver's kernel is reading.  No  *)
(* more steps are under way than one FIFO holds, however many buffers the  *)
(* data pass: credits only come from the receiver.                         *)
(***************************************************************************)
CopiesOK ==
  /\ Len(chan) <= NCCL_STEPS
  /\ \A h \in 1 .. Hops : \A j \in DOMAIN stream[h] :
       LET c == stream[h][j]
           slots == c.slot .. c.slot + c.n - 1
       IN  /\ c.size = c.step
           /\ h = 1 => \A s \in slots : sBuff[s].step = c.step + (s - c.slot)
           /\ h = Hops /\ rcv.pc = "copy" =>
                slots \intersect (rcv.ptr + rcv.i .. rcv.ptr + R!Sps(rcv.op) - 1) = {}

(***************************************************************************)
(* Every slot the receiver's kernel has still to read of a slice holds the *)
(* datum of that step: tail moved only when the last copy was complete.    *)
(***************************************************************************)
ReadsExpected ==
  rcv.pc = "copy" =>
    \A j \in rcv.i .. R!Sps(rcv.op) - 1 :
      rBuff[rcv.ptr + j] = S!Datum(rcv.op, R!Copied - rcv.i + j,
                                   rcv.step - R!Sps(rcv.op) + j)
=============================================================================
