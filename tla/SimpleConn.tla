----------------------------- MODULE SimpleConn -----------------------------
(***************************************************************************)
(* Two GPU kernels connected directly (P2P transport): both see the same   *)
(* head, tail and slots.  The sender waits on head and posts tail, the     *)
(* receiver waits on tail and posts head (transport/p2p.cc: *SendConnect,  *)
(* *RecvConnect).                                                          *)
(***************************************************************************)
EXTENDS Integers, Sequences, Align

CONSTANTS NCCL_STEPS,  \* slots of the FIFO
          Ops,         \* operations both kernels run, in order
          MayAbort     \* the host may set the abort flags

VARIABLES head, tail, buff,  \* the connection's memory
          snd, rcv,          \* the two kernels
          sAbort, rAbort,    \* comm.abortFlag of each rank
          chan               \* history: data written and not yet read

S == INSTANCE PrimsSimple WITH
       isSend <- TRUE, ConnFifoEnabled <- FALSE, OffsetMode <- FALSE,
       waitPtr <- head, postPtr <- tail, fifo <- 0,
       abortFlag <- sAbort, kern <- snd

R == INSTANCE PrimsSimple WITH
       isSend <- FALSE, ConnFifoEnabled <- FALSE, OffsetMode <- FALSE,
       waitPtr <- tail, postPtr <- head, fifo <- 0,
       abortFlag <- rAbort, kern <- rcv

vars == <<head, tail, buff, snd, rcv, sAbort, rAbort, chan>>

Slots == 0 .. NCCL_STEPS - 1

(***************************************************************************)
(* An operation's steps per chunk divide the FIFO and two slices of slack  *)
(* remain after the largest rounding (collectives.h: CHUNKSTEPS is at most *)
(* NCCL_STEPS / 2 and SLICESTEPS at most NCCL_STEPS / 4).                  *)
(***************************************************************************)
ASSUME StepsAssumption == NCCL_STEPS \in Nat \ {0}

ASSUME OpsAssumption ==
  /\ Ops \in Seq([sps : Nat \ {0}, spc : Nat \ {0}, chunks : Nat \ {0}])
  /\ \A o \in 1 .. Len(Ops) :
       /\ NCCL_STEPS % (Ops[o].spc * Ops[o].sps) = 0
       /\ Ops[o].spc * Ops[o].sps + Ops[o].sps <= NCCL_STEPS + 1

ASSUME MayAbortAssumption == MayAbort \in BOOLEAN

Init ==
  /\ head = 0 /\ tail = 0
  /\ buff = [s \in Slots |-> S!NoDatum]
  /\ snd = S!KernInit /\ rcv = R!KernInit
  /\ sAbort = FALSE /\ rAbort = FALSE
  /\ chan = <<>>

SendCopy ==
  /\ S!reduceCopy
  /\ chan' = IF snd.aborted THEN chan
             ELSE Append(chan, buff'[snd.ptr + snd.i])

RecvCopy ==
  /\ R!reduceCopy
  /\ chan' = IF rcv.aborted \/ chan = <<>> THEN chan ELSE Tail(chan)

Sender ==
  /\ UNCHANGED <<rcv, rAbort>>
  /\ \/ S!loadConn /\ UNCHANGED chan
     \/ S!waitPeerSpin /\ UNCHANGED chan
     \/ S!waitPeer /\ UNCHANGED chan
     \/ SendCopy
     \/ S!postPeer /\ UNCHANGED chan
     \/ S!saveConn /\ UNCHANGED chan

Receiver ==
  /\ UNCHANGED <<snd, sAbort>>
  /\ \/ R!loadConn /\ UNCHANGED chan
     \/ R!waitPeerSpin /\ UNCHANGED chan
     \/ R!waitPeer /\ UNCHANGED chan
     \/ RecvCopy
     \/ R!postPeer /\ UNCHANGED chan
     \/ R!saveConn /\ UNCHANGED chan

(***************************************************************************)
(* The host sets the abort flag of one rank (ncclCommAbort).               *)
(***************************************************************************)
Abort ==
  /\ MayAbort
  /\ \/ ~sAbort /\ sAbort' = TRUE /\ UNCHANGED rAbort
     \/ ~rAbort /\ rAbort' = TRUE /\ UNCHANGED sAbort
  /\ UNCHANGED <<head, tail, buff, snd, rcv, chan>>

Next == Sender \/ Receiver \/ Abort

Spec == Init /\ [][Next]_vars

(***************************************************************************)
(* The kernel of a rank is resident on its GPU and keeps running; that of  *)
(* its peer may never be launched, or be stuck.                            *)
(***************************************************************************)
SenderRuns == WF_vars(Sender)

ReceiverRuns == WF_vars(Receiver)

----------------------------------------------------------------------------
NotAborted == ~sAbort /\ ~rAbort

Kernels == [op : Nat, pc : {"load", "wait", "copy"}, connStep : Nat,
            step : Nat, post : Nat, cache : Nat, left : Nat, ptr : Nat,
            i : Nat, posting : BOOLEAN, aborted : BOOLEAN,
            got : [op : Nat, off : Int, step : Nat]]

TypeOK ==
  /\ head \in Nat /\ tail \in Nat
  /\ buff \in [Slots -> [op : Nat, off : Int, step : Nat]]
  /\ snd \in Kernels /\ rcv \in Kernels
  /\ sAbort \in BOOLEAN /\ rAbort \in BOOLEAN
  /\ chan \in Seq([op : Nat, off : Int, step : Nat])

(***************************************************************************)
(* A slice that waitPeer hands to the workers lies inside the buffer: the  *)
(* copy runs over StepPerSlice contiguous slots starting at                *)
(* (step % NCCL_STEPS) * stepSize and never wraps.                         *)
(***************************************************************************)
SliceInBuffer ==
  /\ snd.pc = "copy" => snd.ptr + S!Sps(snd.op) <= NCCL_STEPS
  /\ rcv.pc = "copy" => rcv.ptr + R!Sps(rcv.op) <= NCCL_STEPS

(***************************************************************************)
(* From the moment waitPeer hands a slice to the receiver until the last   *)
(* step of it is copied, every slot still to be read holds the datum of    *)
(* that step of that operation: the sender has written it, and has not     *)
(* come round to overwrite it.                                             *)
(***************************************************************************)
ReadsExpected ==
  NotAborted /\ rcv.pc = "copy" =>
    \A j \in rcv.i .. R!Sps(rcv.op) - 1 :
      buff[rcv.ptr + j] = S!Datum(rcv.op, R!Copied - rcv.i + j,
                                  rcv.step - R!Sps(rcv.op) + j)

(***************************************************************************)
(* The sender never has more than NCCL_STEPS steps posted that the         *)
(* receiver has not given back: tail is at most head + NCCL_STEPS.         *)
(***************************************************************************)
CreditsBounded == NotAborted => tail <= head + NCCL_STEPS

(***************************************************************************)
(* The connection implements an ordered channel of NCCL_STEPS steps: the   *)
(* copy of a sender is a send, the copy of a receiver a delivery, and all  *)
(* else (polling, posting, loading and saving the step) is invisible.      *)
(* Once either rank is aborted nothing more is promised.                   *)
(***************************************************************************)
Ch == INSTANCE Channel WITH
        Data <- [op : Nat, off : Nat, step : Nat], Capacity <- NCCL_STEPS,
        got <- rcv.got, aborted <- sAbort \/ rAbort

ChannelSpec == Ch!Spec

(***************************************************************************)
(* If both kernels run and neither rank is aborted every operation         *)
(* completes, whatever the mix of slice and chunk sizes: the rounding of   *)
(* the step never leaves the sender short of credits or the receiver short *)
(* of data.                                                                *)
(***************************************************************************)
AllOpsComplete ==
  SenderRuns /\ ReceiverRuns
    => <>(~NotAborted \/ (S!Finished /\ R!Finished))

(***************************************************************************)
(* Once the host aborts a rank its kernel returns, even if the peer never  *)
(* runs, is stuck, or has been aborted before.                             *)
(***************************************************************************)
AbortReturns ==
  /\ SenderRuns => (sAbort ~> S!Finished)
  /\ ReceiverRuns => (rAbort ~> R!Finished)

----------------------------------------------------------------------------
(***************************************************************************)
(* The inductive invariant.  Pos(k) is the datum the kernel k copies next. *)
(* It moves to Succ(Pos(k)) when k copies a step and is left alone by      *)
(* every other action, and it depends on the operations alone: this is why *)
(* the two ends agree without ever exchanging a step number.               *)
(***************************************************************************)
Begin(o, s) ==
  S!Datum(o, 0, IF o <= Len(Ops) THEN roundUp(s, S!ChunkSteps(o)) ELSE s)

Pos(k) ==
  IF k.pc = "load" THEN Begin(k.op, k.connStep)
  ELSE IF k.left = 0 THEN Begin(k.op + 1, k.step)
  ELSE S!Datum(k.op, S!OpSteps(k.op) - k.left * S!Sps(k.op) + k.i,
               k.step - (IF k.pc = "copy" THEN S!Sps(k.op) ELSE 0) + k.i)

Succ(d) == IF d.off + 1 < S!OpSteps(d.op)
           THEN S!Datum(d.op, d.off + 1, d.step + 1)
           ELSE Begin(d.op + 1, d.step + 1)

(***************************************************************************)
(* The registers of one kernel.                                            *)
(***************************************************************************)
KernOK(k) ==
  /\ k.op >= 1
  /\ k.pc # "copy" => k.i = 0
  /\ k.pc = "load" => ~k.posting /\ k.post = k.connStep
  /\ k.pc # "load" =>
       /\ k.op <= Len(Ops)
       /\ k.left <= S!Slices(k.op)
       /\ k.step % S!Sps(k.op) = 0
       /\ k.step = k.post + (IF k.pc = "copy" THEN S!Sps(k.op) ELSE 0)
                          + (IF k.posting THEN S!Sps(k.op) ELSE 0)
  /\ k.pc = "copy" =>
       /\ k.left > 0
       /\ k.i < S!Sps(k.op)
       /\ k.ptr = (k.step - S!Sps(k.op)) % NCCL_STEPS

(***************************************************************************)
(* The counters: who may be ahead of whom, and by how much.                *)
(***************************************************************************)
CountersOK ==
  /\ ~snd.aborted /\ ~rcv.aborted
  /\ head = rcv.post
  /\ snd.cache <= head /\ rcv.cache <= tail
  /\ tail <= snd.post /\ tail <= head + NCCL_STEPS
  /\ snd.pc = "copy" \/ snd.posting => snd.step <= head + NCCL_STEPS
  /\ rcv.pc = "copy" => rcv.step <= tail

(***************************************************************************)
(* The data ch in flight run from the receiver's position to the sender's, *)
(* each the successor of the one before, without a gap inside an operation *)
(* or before its end; h is the first step that holds no credit, and every  *)
(* datum is still in its slot of the buffer b.                             *)
(***************************************************************************)
InFlight(ch, b, h, from, to) ==
  /\ IF ch = <<>> THEN from = to
     ELSE ch[1] = from /\ Succ(ch[Len(ch)]) = to
  /\ \A j \in 1 .. Len(ch) - 1 : ch[j + 1] = Succ(ch[j])
  /\ \A j, l \in 1 .. Len(ch) : j < l =>
       /\ ch[l].step >= ch[j].step + (l - j)
       /\ ch[j].op = ch[l].op =>
            /\ ch[l].off = ch[j].off + (l - j)
            /\ ch[l].step = ch[j].step + (l - j)
       /\ ch[j].op # ch[l].op =>
            /\ ch[j].op < ch[l].op
            /\ l - j >= S!OpSteps(ch[j].op) - ch[j].off
  /\ \A j \in 1 .. Len(ch) :
       /\ ch[j].op \in 1 .. Len(Ops)
       /\ ch[j].off \in 0 .. S!OpSteps(ch[j].op) - 1
       /\ h <= ch[j].step /\ ch[j].step < h + NCCL_STEPS
       /\ ch[j].step < to.step
       /\ b[ch[j].step % NCCL_STEPS] = ch[j]

ChanOK == InFlight(chan, buff, head, Pos(rcv), Pos(snd))

(***************************************************************************)
(* TypeOK, KernOK, CountersOK and ChanOK together are preserved by every   *)
(* step (loadConn to saveConn of both ends, and aborts).                   *)
(***************************************************************************)
ConnInv ==
  /\ TypeOK
  /\ KernOK(snd) /\ KernOK(rcv)
  /\ snd.aborted => sAbort
  /\ rcv.aborted => rAbort
  /\ NotAborted => CountersOK /\ ChanOK
=============================================================================
