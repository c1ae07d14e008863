------------------------------ MODULE WorkFifo ------------------------------
(***************************************************************************)
(* How a communicator hands work to its kernels (enqueue.cc, uploadWork    *)
(* and waitWorkFifoAvailable; device/common.h, ncclKernelMain).            *)
(*                                                                         *)
(* The host thread writes the works of a plan to a FIFO of workFifoDepth   *)
(* slots and launches a kernel with one block per channel that has work.   *)
(* A block reads its first work at workHead + blockIdx, follows workNext   *)
(* from there, and acknowledges the FIFO when it has read its last work.   *)
(* Kernels of a communicator run one after the other.                      *)
(*                                                                         *)
(* Counters roll over at Wrap (2^32 in the code).  channelMask is an array *)
(* of words of MaskBits bits (64 in the code).                             *)
(*                                                                         *)
(* Script[w] is what the application does on a device with WARP_SIZE w:    *)
(* "launch" a plan, "capture" one in a graph, or "replay" the plan         *)
(* captured by an earlier item.  A plan is given by works, the number of   *)
(* works of each channel.                                                  *)
(***************************************************************************)
EXTENDS Integers, Sequences, FiniteSets, FiniteSetsExt

CONSTANTS nChannels, MaskBits, workFifoDepth, Wrap, Script

ASSUME FifoAssumption ==
  /\ nChannels \in Nat \ {0} /\ MaskBits \in Nat \ {0}
  /\ workFifoDepth \in Nat \ {0} /\ Wrap \in Nat
  /\ Wrap % workFifoDepth = 0 /\ Wrap >= 4 * workFifoDepth

VARIABLES host,     \* counters of the communicator, progress of uploadWork
          heap,     \* comm->workFifoHeap
          done,     \* comm->workFifoDone, per channel
          kernels,  \* kernels launched and not finished, in stream order
          blocks    \* the blocks of the kernel that runs

vars == <<host, heap, done, kernels, blocks>>

Channels == 0 .. nChannels - 1

Roll(n) == n % Wrap

NoWork == [item |-> 0]

(***************************************************************************)
(* Plans.                                                                  *)
(***************************************************************************)

Items == Script[host.WARP_SIZE]

Works(k) == Items[IF Items[k].do = "replay" THEN Items[k].of ELSE k].works

WithWork(w) == {c \in Channels : w[c] > 0}

nWork(w) == MapThenSumSet(LAMBDA c : w[c], Channels)

\* The place of work i (from 0) of channel c, relative to the first of the
\* plan: first works lie at the index of the block, others after them.
Place(w, c, i) ==
  IF i = 0 THEN Cardinality({d \in WithWork(w) : d < c})
  ELSE Cardinality(WithWork(w)) + i - 1
       + MapThenSumSet(LAMBDA d : w[d] - 1, {d \in WithWork(w) : d < c})

\* The indices of all works of a plan.
Indices(w) == UNION {{c} \X (0 .. w[c] - 1) : c \in Channels}

\* ncclWork with its header, for a plan whose first work is at ixHead.
WorkAt(k, w, c, i, ixHead, inFifo) ==
  [item |-> k, ch |-> c, i |-> i, isLast |-> i = w[c] - 1, inFifo |-> inFifo,
   workNext |-> IF i = w[c] - 1 THEN 0
                ELSE IF inFifo
                THEN (Roll(ixHead + Place(w, c, i + 1)) % workFifoDepth)
                     - (ixHead % workFifoDepth)
                ELSE Place(w, c, i + 1),
   doneAcks |-> Roll(ixHead + Place(w, c, i) + 1)]

(***************************************************************************)
(* The host.                                                               *)
(***************************************************************************)

HostInit(warp) ==
  [WARP_SIZE |-> warp, pc |-> "idle",
   k |-> 1,                             \* item of Script
   workFifoSent |-> 0, workFifoAckdMin |-> 0,
   chSent |-> [c \in Channels |-> 0],   \* channels[c].workFifoSent
   ackd |-> <<>>]                       \* what the poll has read so far

Init ==
  /\ \E warp \in DOMAIN Script : host = HostInit(warp)
  /\ heap = [s \in 0 .. workFifoDepth - 1 |-> NoWork]
  /\ done = [c \in Channels |-> 0]
  /\ kernels = <<>>
  /\ blocks = <<>>

rollingLess32(a, b) == Roll(a - b) > Wrap \div 2 - 1

rollingMin32(a, b) == IF Roll(b - a) <= Wrap \div 2 - 1 THEN a ELSE b

\* What is about to be written does not count.
Full_Sent(h, desired) ==
  rollingLess32(Roll(h.workFifoAckdMin + workFifoDepth), h.workFifoSent)

Full(h, desired) ==
  rollingLess32(Roll(h.workFifoAckdMin + workFifoDepth), desired)

desiredSent(h) == Roll(h.workFifoSent + nWork(Works(h.k)))

\* First works must not cross the end of the FIFO.
RoundUp(sent, count) ==
  IF (sent + count - 1) % workFifoDepth < sent % workFifoDepth
  THEN Roll(((sent + workFifoDepth - 1) \div workFifoDepth) * workFifoDepth)
  ELSE sent

\* uploadWork, up to the wait.
uploadWork ==
  LET w == Works(host.k)
      h == [host EXCEPT !.workFifoSent = RoundUp(@, Cardinality(WithWork(w)))]
  IN  /\ host.pc = "idle" /\ host.k <= Len(Items) /\ Items[host.k].do = "launch"
      /\ host' = [h EXCEPT !.pc = IF Full(h, desiredSent(h)) THEN "poll"
                                  ELSE "write"]
      /\ UNCHANGED <<heap, done, kernels, blocks>>

\* waitWorkFifoAvailable: the load of one channel's counter.
Load ==
  /\ host.pc = "poll" /\ Len(host.ackd) < nChannels
  /\ host' = [host EXCEPT !.ackd = Append(@, done[Len(host.ackd)])]
  /\ UNCHANGED <<heap, done, kernels, blocks>>

\* The minimum over all channels.
ackdAll_NoQuiesced(h) ==
  FoldFunction(rollingMin32, h.workFifoSent, h.ackd)

\* The minimum over the channels that have works to acknowledge.
ackdAll(h) ==
  LET pending == {c \in Channels : h.ackd[c + 1] /= h.chSent[c]}
  IN  FoldFunctionOnSet(rollingMin32, h.workFifoSent,
                        [c \in Channels |-> h.ackd[c + 1]], pending)

\* waitWorkFifoAvailable: the rest of an iteration.
Advance ==
  LET quiesced == {c \in Channels : host.ackd[c + 1] = host.chSent[c]}
      h == [host EXCEPT !.ackd = <<>>, !.workFifoAckdMin = ackdAll(host),
              !.chSent = [c \in Channels |-> IF c \in quiesced THEN ackdAll(host)
                                             ELSE @[c]]]
  IN  /\ host.pc = "poll" /\ Len(host.ackd) = nChannels
      /\ done' = [c \in Channels |-> IF c \in quiesced THEN ackdAll(host)
                                     ELSE done[c]]
      /\ host' = [h EXCEPT !.pc = IF Full(h, desiredSent(h)) THEN "poll"
                                  ELSE "write"]
      /\ UNCHANGED <<heap, kernels, blocks>>

waitWorkFifoAvailable == Load \/ Advance

\* A kernel with its grid, its mask and its works.
Kernel(k, mem, head) ==
  [item |-> k, mask |-> WithWork(Works(k)), mem |-> mem, head |-> head]

\* channels[c].workFifoSent after the works of a plan at ixHead.
Sent(h, w, ixHead) ==
  [c \in Channels |-> IF w[c] > 0 THEN Roll(ixHead + Place(w, c, w[c] - 1) + 1)
                      ELSE h.chSent[c]]

\* uploadWork after the wait, and the launch.
Write ==
  LET w == Works(host.k)
      ixHead == host.workFifoSent
      Slot(x) == Roll(ixHead + Place(w, x[1], x[2])) % workFifoDepth
  IN  /\ host.pc = "write"
      /\ heap' = [s \in DOMAIN heap |->
                     IF \E x \in Indices(w) : Slot(x) = s
                     THEN LET x == CHOOSE x \in Indices(w) : Slot(x) = s
                          IN  WorkAt(host.k, w, x[1], x[2], ixHead, TRUE)
                     ELSE heap[s]]
      /\ kernels' = Append(kernels, Kernel(host.k, "fifo", ixHead % workFifoDepth))
      /\ host' = [host EXCEPT !.pc = "idle", !.k = @ + 1,
                              !.chSent = Sent(host, w, ixHead),
                              !.workFifoSent = desiredSent(host)]
      /\ UNCHANGED <<done, blocks>>

\* uploadWork of a persistent plan: the works get memory of their own.
Capture ==
  /\ host.pc = "idle" /\ host.k <= Len(Items) /\ Items[host.k].do = "capture"
  /\ host' = [host EXCEPT !.k = @ + 1, !.chSent = Sent(host, Works(host.k), 0)]
  /\ UNCHANGED <<heap, done, kernels, blocks>>

\* The application launches the graph with the plan.
Replay ==
  /\ host.pc = "idle" /\ host.k <= Len(Items) /\ Items[host.k].do = "replay"
  /\ kernels' = Append(kernels, Kernel(host.k, "graph", 0))
  /\ host' = [host EXCEPT !.k = @ + 1]
  /\ UNCHANGED <<heap, done, blocks>>

(***************************************************************************)
(* The device.                                                             *)
(***************************************************************************)

\* The words of the mask.
Word(mask, i) == {c \in mask : c \div MaskBits = i}

\* A thread of the first warp stands for bit x of every word.  Where a word has
\* twice as many bits as the warp has threads, it goes on to the upper half, and
\* does not come back to the lower one for the words after the first.
Looked(i) ==
  LET w == host.WARP_SIZE
  IN  IF w >= MaskBits THEN 0 .. MaskBits - 1
      ELSE (IF i = 0 THEN 0 .. w - 1 ELSE {}) \union (w .. 2 * w - 1)

\* The thread that finds the block sets the channel; if none does, it is what
\* shared memory holds.
channelId(mask, b) ==
  LET total(i) == Cardinality({c \in mask : c \div MaskBits < i})
      Hit(i, x) == /\ i * MaskBits + x \in mask
                   /\ b = total(i) + Cardinality({c \in Word(mask, i) :
                                                   c % MaskBits < x})
      found == UNION {{x + total(i) : x \in {y \in Looked(i) : Hit(i, y)}} :
                        i \in 0 .. nChannels \div MaskBits}
  IN  IF found = {} THEN Channels ELSE found

Memory(kern, at) ==
  IF kern.mem = "fifo" THEN heap[at]
  ELSE LET w == Works(kern.item)
           x == CHOOSE x \in Indices(w) : Place(w, x[1], x[2]) = at
       IN  WorkAt(kern.item, w, x[1], x[2], 0, FALSE)

\* The kernel at the head of the stream starts.
StartKernel ==
  LET kern == Head(kernels)
  IN  /\ kernels /= <<>> /\ blocks = <<>>
      /\ \E ch \in [1 .. Cardinality(kern.mask) -> Channels] :
           /\ \A b \in DOMAIN ch : ch[b] \in channelId(kern.mask, b - 1)
           /\ blocks' = [b \in DOMAIN ch |->
                           [channel |-> ch[b], work |-> NoWork,
                            at |-> kern.head + b - 1, n |-> 0, st |-> "load"]]
      /\ UNCHANGED <<host, heap, done, kernels>>

\* A block copies a work to shared memory; after the last it acknowledges.
LoadWork(b) ==
  LET w == Memory(Head(kernels), blocks[b].at)
  IN  /\ blocks[b].st = "load"
      /\ blocks' = [blocks EXCEPT ![b].st = "run", ![b].work = w, ![b].n = @ + 1]
      /\ done' = IF w.isLast /\ w.inFifo
                 THEN [done EXCEPT ![blocks[b].channel] = w.doneAcks] ELSE done
      /\ UNCHANGED <<host, heap, kernels>>

\* It runs the work and goes to the next.
RunWork(b) ==
  /\ blocks[b].st = "run"
  /\ blocks' = [blocks EXCEPT ![b].st = IF blocks[b].work.isLast THEN "end" ELSE "load",
                            ![b].at = Head(kernels).head + blocks[b].work.workNext]
  /\ UNCHANGED <<host, heap, done, kernels>>

\* The kernel ends when all its blocks have.
EndKernel ==
  /\ blocks /= <<>> /\ \A b \in DOMAIN blocks : blocks[b].st = "end"
  /\ blocks' = <<>> /\ kernels' = Tail(kernels)
  /\ UNCHANGED <<host, heap, done>>

ncclKernelMain ==
  StartKernel \/ EndKernel \/ \E b \in DOMAIN blocks : LoadWork(b) \/ RunWork(b)

Next ==
  uploadWork \/ waitWorkFifoAvailable \/ Write \/ Capture \/ Replay
  \/ ncclKernelMain

Spec == Init /\ [][Next]_vars

-----------------------------------------------------------------------------

\* Every block runs the works of its own channel and plan, in order: no slot
\* is overwritten before the block that needs it has read it, and blocks,
\* channels and slots are matched alike by host and device.
WorksOwn ==
  \A b \in DOMAIN blocks :
    blocks[b].st /= "load" =>
      LET w == blocks[b].work
      IN  /\ w.item \in {Head(kernels).item, Items[Head(kernels).item].of}
          /\ w.ch = blocks[b].channel /\ w.i = blocks[b].n - 1

\* The host is done with the script and all kernels have run.
Launched == host.k > Len(Items) /\ kernels = <<>>
=============================================================================
