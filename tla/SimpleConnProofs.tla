--------------------------- MODULE SimpleConnProofs ---------------------------
(***************************************************************************)
(* The direct connection is correct for every FIFO depth and every         *)
(* sequence of operations that OpsAssumption allows.  ConnInv is shown to  *)
(* be inductive, one lemma per end for what that end's step does to its    *)
(* own registers and one for what it does to the shared state; the safety  *)
(* properties and the refinement of Channel follow from it.                *)
(***************************************************************************)
EXTENDS SimpleConnLemmas

(* The invariant holds initially. *)
LEMMA InitInv == Init => ConnInv
<1> SUFFICES ASSUME Init PROVE ConnInv
  OBVIOUS
<1>0. S!NoDatum \in [op : Nat, off : Int, step : Nat]
      /\ R!NoDatum \in [op : Nat, off : Int, step : Nat]
  BY DEF S!NoDatum, R!NoDatum, S!Datum, R!Datum
<1>1. snd \in Kernels /\ rcv \in Kernels
  BY <1>0 DEF Init, S!KernInit, R!KernInit, Kernels
<1>2. TypeOK
  BY <1>0, <1>1, EmptySeq DEF Init, TypeOK
<1>3. /\ snd.op = 1 /\ snd.pc = "load" /\ snd.i = 0 /\ ~snd.posting
      /\ snd.post = 0 /\ snd.connStep = 0 /\ ~snd.aborted /\ snd.cache = 0
  BY DEF Init, S!KernInit
<1>4. /\ rcv.op = 1 /\ rcv.pc = "load" /\ rcv.i = 0 /\ ~rcv.posting
      /\ rcv.post = 0 /\ rcv.connStep = 0 /\ ~rcv.aborted /\ rcv.cache = 0
  BY DEF Init, R!KernInit
<1>5. KernOK(snd) /\ KernOK(rcv)
  BY <1>3, <1>4 DEF KernOK
<1>6. CountersOK
  BY <1>3, <1>4, StepsAssumption DEF Init, CountersOK
<1>7. Pos(rcv) = Pos(snd) /\ chan = <<>>
  BY <1>3, <1>4 DEF Pos, Init
<1>8. ChanOK
  BY <1>7, EmptySeq DEF ChanOK, InFlight
<1> QED
  BY <1>2, <1>3, <1>4, <1>5, <1>6, <1>8 DEF ConnInv

(* Both kernels stay well formed and the types hold after a sender step.   *)
LEMMA SenderLocal ==
  ASSUME ConnInv, Sender
  PROVE  /\ TypeOK' /\ KernOK(snd') /\ KernOK(rcv')
         /\ snd'.aborted => sAbort'
         /\ rcv'.aborted => rAbort'
<1>0. TypeOK /\ KernOK(snd) /\ KernOK(rcv) /\ snd \in Kernels
      /\ (snd.aborted => sAbort) /\ (rcv.aborted => rAbort)
  BY DEF ConnInv, TypeOK
<1>1. rcv' = rcv /\ rAbort' = rAbort
  BY DEF Sender
<1>2. snd' \in Kernels /\ KernOK(snd')
  BY <1>0, SendRels, LoadLemma, SpinLemma, WaitLemma, CopyLemma, PostLemma,
     SaveLemma DEF Sender, SendCopy
<1>3. sAbort' = sAbort
  BY DEF Sender, SendCopy, S!loadConn, S!waitPeerSpin, S!waitPeer,
         S!reduceCopy, S!postPeer, S!saveConn
<1>4. snd'.aborted => sAbort'
  BY <1>0, <1>3 DEF Sender, SendCopy, S!loadConn, S!waitPeerSpin, S!waitPeer,
         S!reduceCopy, S!postPeer, S!saveConn, Kernels
<1>5. head' = head /\ tail' \in Nat
  <2>1. snd'.post \in Nat
    BY <1>2 DEF Kernels
  <2> QED
    BY <1>0, <2>1 DEF TypeOK, Sender, SendCopy, S!loadConn, S!waitPeerSpin,
         S!waitPeer, S!reduceCopy, S!postPeer, S!saveConn
<1>6. /\ buff' \in [Slots -> [op : Nat, off : Int, step : Nat]]
      /\ chan' \in Seq([op : Nat, off : Int, step : Nat])
  <2>1. CASE SendCopy
    <3>1. CASE snd.aborted
      BY <1>0, <2>1, <3>1 DEF SendCopy, S!reduceCopy, TypeOK
    <3>2. CASE ~snd.aborted
      <4>1. snd.pc = "copy" /\ snd.op \in Nat /\ snd.post \in Nat
            /\ snd.i \in Nat
        BY <1>0, <2>1 DEF SendCopy, S!reduceCopy, Kernels
      <4>2. snd.ptr + snd.i \in Slots
        BY <1>0, <4>1, SlotFacts
      <4>3. S!Copied \in Int
        <5>1. S!OpSteps(snd.op) \in Nat /\ snd.left * S!Sps(snd.op) \in Nat
          BY <1>0, <4>1, PosFacts, OpFacts
        <5> QED
          BY <4>1, <5>1 DEF S!Copied
      <4>4. PICK d \in [op : Nat, off : Int, step : Nat] :
              d = S!Datum(snd.op, S!Copied, snd.post + snd.i)
        <5>1. PICK x \in Int, y \in Nat : x = S!Copied /\ y = snd.post + snd.i
          BY <4>1, <4>3
        <5> QED
          BY <4>1, <5>1 DEF S!Datum
      <4>5. buff' = [buff EXCEPT ![snd.ptr + snd.i] = d]
        BY <2>1, <3>2, <4>4 DEF SendCopy, S!reduceCopy
      <4>6. buff \in [Slots -> [op : Nat, off : Int, step : Nat]]
            /\ chan \in Seq([op : Nat, off : Int, step : Nat])
        BY <1>0 DEF TypeOK
      <4>7. buff'[snd.ptr + snd.i] = d
        BY <4>2, <4>5, <4>6
      <4>8. chan' = Append(chan, d)
        BY <2>1, <3>2, <4>7 DEF SendCopy
      <4> QED
        BY <4>2, <4>5, <4>6, <4>8, AppendProperties
    <3> QED
      BY <3>1, <3>2
  <2>2. CASE ~SendCopy
    BY <1>0, <2>2 DEF TypeOK, Sender, S!loadConn, S!waitPeerSpin, S!waitPeer,
       S!postPeer, S!saveConn
  <2> QED
    BY <2>1, <2>2
<1>7. TypeOK'
  BY <1>0, <1>1, <1>2, <1>3, <1>5, <1>6 DEF TypeOK
<1> QED
  BY <1>0, <1>1, <1>2, <1>4, <1>7

(* Both kernels stay well formed and the types hold after a receiver step. *)
LEMMA ReceiverLocal ==
  ASSUME ConnInv, Receiver
  PROVE  /\ TypeOK' /\ KernOK(snd') /\ KernOK(rcv')
         /\ snd'.aborted => sAbort'
         /\ rcv'.aborted => rAbort'
<1>0. TypeOK /\ KernOK(snd) /\ KernOK(rcv) /\ rcv \in Kernels
      /\ (snd.aborted => sAbort) /\ (rcv.aborted => rAbort)
  BY DEF ConnInv, TypeOK
<1>1. snd' = snd /\ sAbort' = sAbort
  BY DEF Receiver
<1>2. rcv' \in Kernels /\ KernOK(rcv')
  BY <1>0, RecvRels, LoadLemma, SpinLemma, WaitLemma, CopyLemma, PostLemma,
     SaveLemma DEF Receiver, RecvCopy
<1>3. rAbort' = rAbort
  BY DEF Receiver, RecvCopy, R!loadConn, R!waitPeerSpin, R!waitPeer,
         R!reduceCopy, R!postPeer, R!saveConn
<1>4. rcv'.aborted => rAbort'
  <2>1. CASE R!loadConn
    BY <1>0, <1>3, <2>1 DEF R!loadConn, Kernels
  <2>2. CASE R!waitPeerSpin
    BY <1>0, <1>3, <2>2 DEF R!waitPeerSpin, Kernels
  <2>3. CASE R!waitPeer
    BY <1>0, <1>3, <2>3 DEF R!waitPeer, Kernels
  <2>4. CASE R!reduceCopy
    BY <1>0, <1>3, <2>4 DEF R!reduceCopy, Kernels
  <2>5. CASE R!postPeer
    BY <1>0, <1>3, <2>5 DEF R!postPeer, Kernels
  <2>6. CASE R!saveConn
    BY <1>0, <1>3, <2>6 DEF R!saveConn, Kernels
  <2> QED
    BY <2>1, <2>2, <2>3, <2>4, <2>5, <2>6 DEF Receiver, RecvCopy
<1>5. tail' = tail /\ head' \in Nat /\ buff' = buff
  <2>1. rcv'.post \in Nat
    BY <1>2 DEF Kernels
  <2>2. R!loadConn => head' = rcv'.post
    BY <1>0 DEF R!loadConn, Kernels
  <2> QED
    BY <1>0, <2>1, <2>2 DEF TypeOK, Receiver, RecvCopy, R!loadConn,
         R!waitPeerSpin, R!waitPeer, R!reduceCopy, R!postPeer, R!saveConn
<1>6. chan' \in Seq([op : Nat, off : Int, step : Nat])
  <2>1. chan \in Seq([op : Nat, off : Int, step : Nat])
    BY <1>0 DEF TypeOK
  <2>2. chan' = chan \/ (chan # <<>> /\ chan' = Tail(chan))
    BY DEF Receiver, RecvCopy
  <2> QED
    BY <2>1, <2>2, HeadTailProperties
<1>7. TypeOK'
  BY <1>0, <1>1, <1>2, <1>3, <1>5, <1>6 DEF TypeOK
<1> QED
  BY <1>0, <1>1, <1>2, <1>4, <1>7

(* What the counters and the data in flight need of a sender step.         *)
LEMMA SenderShared ==
  ASSUME ConnInv, Sender, NotAborted'
  PROVE  CountersOK' /\ InFlight(chan', buff', head', Pos(rcv'), Pos(snd'))
<1>0. /\ TypeOK /\ KernOK(snd) /\ KernOK(rcv)
      /\ snd \in Kernels /\ rcv \in Kernels /\ head \in Nat /\ tail \in Nat
      /\ buff \in [Slots -> Data] /\ chan \in Seq(Data)
      /\ NCCL_STEPS \in Nat
  BY StepsAssumption DEF ConnInv, TypeOK, Data
<1>1. rcv' = rcv /\ rAbort' = rAbort /\ sAbort' = sAbort /\ head' = head
  BY DEF Sender, SendCopy, S!loadConn, S!waitPeerSpin, S!waitPeer,
         S!reduceCopy, S!postPeer, S!saveConn
<1>2. CountersOK /\ ChanOK /\ ~snd.aborted /\ ~sAbort
  BY <1>1 DEF ConnInv, NotAborted, CountersOK
<1>3. InFlight(chan, buff, head, Pos(rcv), Pos(snd))
  BY <1>2 DEF ChanOK
<1>4. /\ snd.post \in Nat /\ snd.step \in Nat /\ rcv.post \in Nat
      /\ rcv.step \in Nat /\ snd.cache \in Nat /\ rcv.cache \in Nat
      /\ snd.connStep \in Nat /\ snd.op \in Nat /\ snd.i \in Nat
      /\ head \in Nat /\ tail \in Nat /\ NCCL_STEPS \in Nat
  BY <1>0 DEF Kernels
<1>5. ASSUME S!loadConn, UNCHANGED chan
      PROVE  CountersOK' /\ InFlight(chan', buff', head', Pos(rcv'), Pos(snd'))
  <2>1. LoadRel(snd, snd') /\ snd' \in Kernels
    BY <1>0, <1>5, SendRels
  <2>2. Pos(snd') = Pos(snd)
    BY <1>0, <2>1, LoadLemma
  <2>3. tail' = tail /\ buff' = buff /\ snd'.cache = head
    BY <1>0, <1>5 DEF S!loadConn, Kernels
  <2>4. snd'.post \in Nat /\ snd'.post >= snd.post
    <3>1. snd.op \in 1 .. Len(Ops) /\ snd.post = snd.connStep
      <4>1. Len(Ops) \in Nat
        BY OpsAssumption
      <4> QED
        BY <1>0, <1>4, <2>1, <4>1 DEF LoadRel, KernOK
    <3>2. snd'.post = roundUp(snd.connStep, S!ChunkSteps(snd.op))
      BY <2>1 DEF LoadRel
    <3> QED
      BY <1>4, <3>1, <3>2, OpFacts, RoundUpProps
  <2>5. snd'.pc = "wait" /\ ~snd'.posting /\ ~snd'.aborted
    BY <1>0, <1>2, <2>1 DEF LoadRel, KernOK
  <2>6. CountersOK'
    <3>1. tail <= snd'.post
      BY <1>2, <1>4, <2>4 DEF CountersOK
    <3> QED
      BY <1>1, <1>2, <1>4, <2>3, <2>5, <3>1 DEF CountersOK
  <2> QED
    BY <1>1, <1>3, <1>5, <2>2, <2>3, <2>6
<1>6. ASSUME S!waitPeerSpin, UNCHANGED chan
      PROVE  CountersOK' /\ InFlight(chan', buff', head', Pos(rcv'), Pos(snd'))
  <2>1. SpinRel(snd, snd') /\ snd' \in Kernels
    BY <1>0, <1>6, SendRels
  <2>2. Pos(snd') = Pos(snd)
    BY <1>0, <2>1, SpinLemma
  <2>3. tail' = tail /\ buff' = buff /\ snd'.cache = head
    BY <1>0, <1>6 DEF S!waitPeerSpin, Kernels
  <2>4. CountersOK'
    BY <1>0, <1>1, <1>2, <2>1, <2>3 DEF CountersOK, SpinRel
  <2> QED
    BY <1>1, <1>3, <1>6, <2>2, <2>3, <2>4
<1>7. ASSUME S!waitPeer, UNCHANGED chan
      PROVE  CountersOK' /\ InFlight(chan', buff', head', Pos(rcv'), Pos(snd'))
  <2>1. WaitRel(snd, snd') /\ snd' \in Kernels
    BY <1>0, <1>7, SendRels
  <2>2. Pos(snd') = Pos(snd)
    BY <1>0, <2>1, WaitLemma
  <2>3. S!Granted(snd.cache)
    BY <1>2, <1>7 DEF S!waitPeer
  <2>4. tail' = tail /\ buff' = buff /\ snd'.cache = snd.cache /\ ~snd'.aborted
    BY <1>0, <1>2, <1>7, <2>3 DEF S!waitPeer, Kernels
  <2>5. snd.cache + NCCL_STEPS >= snd.step + S!Sps(snd.op)
    BY <2>3 DEF S!Granted
  <2>6. snd'.step = snd.step + S!Sps(snd.op) /\ S!Sps(snd.op) \in Nat
    <3>1. snd.op \in 1 .. Len(Ops)
      BY <1>0, <2>1, OpsAssumption DEF WaitRel, KernOK, Kernels
    <3> QED
      BY <2>1, <3>1, OpFacts DEF WaitRel
  <2>7. snd'.step <= head + NCCL_STEPS
    <3>1. snd.cache <= head
      BY <1>2 DEF CountersOK
    <3> QED
      BY <1>4, <2>5, <2>6, <3>1
  <2>8. CountersOK'
    BY <1>0, <1>1, <1>2, <2>1, <2>4, <2>7 DEF CountersOK, WaitRel
  <2> QED
    BY <1>1, <1>3, <1>7, <2>2, <2>4, <2>8
<1>8. ASSUME SendCopy
      PROVE  CountersOK' /\ InFlight(chan', buff', head', Pos(rcv'), Pos(snd'))
  <2>1. CopyRel(snd, snd') /\ snd' \in Kernels /\ snd.pc = "copy"
        /\ ~snd.posting
    BY <1>0, <1>8, SendRels DEF SendCopy, CopyRel
  <2>2. Pos(snd') = Succ(Pos(snd))
    BY <1>0, <1>2, <2>1, CopyLemma
  <2>3. tail' = tail
    BY <1>8 DEF SendCopy, S!reduceCopy
  <2>4. snd.step <= head + NCCL_STEPS
    BY <1>2, <2>1 DEF CountersOK
  <2>5. CountersOK'
    BY <1>0, <1>1, <1>2, <2>1, <2>3, <2>4 DEF CountersOK, CopyRel
  <2>6. PICK s \in Nat \ {0}, t \in Nat, x \in Nat, a \in Nat, i \in Nat :
          /\ s = S!Sps(snd.op) /\ t = S!OpSteps(snd.op)
          /\ x = snd.left * s /\ x >= s /\ x <= t
          /\ a = snd.step - s /\ i = snd.i /\ i < s
          /\ snd.step = a + s /\ snd.post = a
          /\ t - x + i \in 0 .. t - 1 /\ a + i < snd.step
          /\ i \in 0 .. S!Sps(snd.op) - 1
          /\ Pos(snd) = S!Datum(snd.op, t - x + i, a + i)
          /\ snd.op \in 1 .. Len(Ops)
    <3>1. /\ snd.op \in 1 .. Len(Ops)
          /\ Pos(snd) = S!Datum(snd.op,
               S!OpSteps(snd.op) - snd.left * S!Sps(snd.op) + snd.i,
               snd.step - S!Sps(snd.op) + snd.i)
          /\ snd.left * S!Sps(snd.op) \in Nat
          /\ snd.left * S!Sps(snd.op) >= S!Sps(snd.op)
          /\ snd.left * S!Sps(snd.op) <= S!OpSteps(snd.op)
          /\ snd.step - S!Sps(snd.op) \in Nat
      BY <1>0, <2>1, PosFacts
    <3>2. S!Sps(snd.op) \in Nat \ {0} /\ S!OpSteps(snd.op) \in Nat
      BY <3>1, OpFacts
    <3>3. snd.step = snd.post + S!Sps(snd.op) + 0 /\ snd.i < S!Sps(snd.op)
      BY <1>0, <2>1 DEF KernOK
    <3>4. snd.post = snd.step - S!Sps(snd.op)
          /\ snd.step = (snd.step - S!Sps(snd.op)) + S!Sps(snd.op)
          /\ snd.step - S!Sps(snd.op) + snd.i < snd.step
          /\ snd.i \in 0 .. S!Sps(snd.op) - 1
      BY <1>4, <3>2, <3>3
    <3>5. PICK x \in Nat : x = snd.left * S!Sps(snd.op)
      BY <3>1
    <3>6. S!OpSteps(snd.op) - x + snd.i \in 0 .. S!OpSteps(snd.op) - 1
      <4>1. x >= S!Sps(snd.op) /\ x <= S!OpSteps(snd.op)
        BY <3>1, <3>5
      <4> QED
        BY <1>4, <3>2, <3>3, <4>1
    <3> QED
      BY <1>4, <3>1, <3>2, <3>3, <3>4, <3>5, <3>6
  <2>7. PICK d \in Data : d = Pos(snd) /\ d = S!Datum(snd.op, t - x + i, a + i)
    <3>1. PICK u \in Int, v \in Nat : u = t - x + i /\ v = a + i
      OBVIOUS
    <3> QED
      BY <1>4, <2>6, <3>1 DEF Data, S!Datum
  <2>8. d.op = snd.op /\ d.off = t - x + i /\ d.step = a + i
    BY <2>7 DEF S!Datum
  <2>9. d.off \in 0 .. S!OpSteps(d.op) - 1 /\ d.step < head + NCCL_STEPS
    <3>1. t - x + i \in 0 .. S!OpSteps(snd.op) - 1 /\ a + i < snd.step
      BY <2>6
    <3>2. a + i < head + NCCL_STEPS
      BY <1>4, <2>4, <3>1
    <3> QED
      BY <2>8, <3>1, <3>2
  <2>10. snd.ptr + snd.i = d.step % NCCL_STEPS /\ snd.ptr + snd.i \in Slots
    <3>1. i \in 0 .. S!Sps(snd.op) - 1
      BY <2>6
    <3>2. snd.ptr + i = (snd.step - S!Sps(snd.op) + i) % NCCL_STEPS
          /\ snd.ptr + snd.i \in Slots
      BY <1>0, <2>1, <3>1, SlotFacts
    <3> QED
      BY <2>6, <2>8, <3>2
  <2>11. buff' = [buff EXCEPT ![d.step % NCCL_STEPS] = d]
    <3>1. S!Copied = t - x + i /\ snd.post + snd.i = a + i
      BY <2>6 DEF S!Copied
    <3>2. buff' = [buff EXCEPT ![snd.ptr + snd.i] =
                     S!Datum(snd.op, S!Copied, snd.post + snd.i)]
      BY <1>2, <1>8 DEF SendCopy, S!reduceCopy
    <3> QED
      BY <2>7, <2>10, <3>1, <3>2
  <2>12. chan' = Append(chan, d)
    <3>1. buff'[snd.ptr + snd.i] = d
      BY <1>0, <2>10, <2>11
    <3> QED
      BY <1>2, <1>8, <3>1 DEF SendCopy
  <2>13. Pos(rcv).step \in Nat /\ head <= Pos(rcv).step
    BY <1>0, <1>2, PosFacts DEF CountersOK
  <2>14. InFlight(chan, buff, head, Pos(rcv), d) /\ d.op \in 1 .. Len(Ops)
    BY <1>3, <2>6, <2>7, <2>8
  <2>15. InFlight(Append(chan, d), [buff EXCEPT ![d.step % NCCL_STEPS] = d],
                  head, Pos(rcv), Succ(d))
    BY <1>0, <2>9, <2>13, <2>14, InFlightSend
  <2> QED
    BY <1>1, <2>2, <2>5, <2>7, <2>11, <2>12, <2>15
<1>9. ASSUME S!postPeer, UNCHANGED chan
      PROVE  CountersOK' /\ InFlight(chan', buff', head', Pos(rcv'), Pos(snd'))
  <2>1. PostRel(snd, snd') /\ snd' \in Kernels
    BY <1>0, <1>9, SendRels
  <2>2. Pos(snd') = Pos(snd)
    BY <1>0, <2>1, PostLemma
  <2>3. tail' = snd'.post /\ buff' = buff
    BY <1>9 DEF S!postPeer
  <2>4. snd.op \in 1 .. Len(Ops) /\ snd.posting /\ snd.pc # "load"
    BY <1>0, <2>1, OpsAssumption DEF PostRel, KernOK, Kernels
  <2>5. PICK s \in Nat : s = S!Sps(snd.op)
    BY <2>4, OpFacts
  <2>6. snd.step = snd.post + (IF snd.pc = "copy" THEN s ELSE 0) + s
    BY <1>0, <2>4, <2>5 DEF KernOK
  <2>7. snd.step <= head + NCCL_STEPS
    BY <1>2, <2>4 DEF CountersOK
  <2>8. snd'.post = snd.post + s
    BY <2>1, <2>5 DEF PostRel
  <2>9. /\ tail' = snd.post + s /\ tail' <= head + NCCL_STEPS
        /\ tail <= tail'
    <3>1. tail <= snd.post
      BY <1>2 DEF CountersOK
    <3> QED
      BY <1>4, <2>3, <2>6, <2>7, <2>8, <3>1
  <2>10. tail' \in Nat
    BY <1>4, <2>9
  <2>11. rcv.cache <= tail' /\ (rcv.pc = "copy" => rcv.step <= tail')
    <3>1. rcv.cache <= tail /\ (rcv.pc = "copy" => rcv.step <= tail)
      BY <1>2 DEF CountersOK
    <3> QED
      BY <1>4, <2>9, <2>10, <3>1
  <2>12. CountersOK'
    BY <1>0, <1>1, <1>2, <2>1, <2>3, <2>7, <2>9, <2>10, <2>11
       DEF CountersOK, PostRel
  <2> QED
    BY <1>1, <1>3, <1>9, <2>2, <2>3, <2>12
<1>10. ASSUME S!saveConn, UNCHANGED chan
       PROVE  CountersOK' /\ InFlight(chan', buff', head', Pos(rcv'), Pos(snd'))
  <2>1. SaveRel(snd, snd') /\ snd' \in Kernels
    BY <1>0, <1>10, SendRels
  <2>2. Pos(snd') = Pos(snd)
    BY <1>0, <2>1, SaveLemma
  <2>3. tail' = tail /\ buff' = buff
    BY <1>10 DEF S!saveConn
  <2>4. CountersOK'
    BY <1>0, <1>1, <1>2, <2>1, <2>3 DEF CountersOK, SaveRel
  <2> QED
    BY <1>1, <1>3, <1>10, <2>2, <2>3, <2>4
<1> QED
  BY <1>5, <1>6, <1>7, <1>8, <1>9, <1>10 DEF Sender

(* What the counters and the data in flight need of a receiver step.       *)
LEMMA ReceiverShared ==
  ASSUME ConnInv, Receiver, NotAborted'
  PROVE  CountersOK' /\ InFlight(chan', buff', head', Pos(rcv'), Pos(snd'))
<1>0. /\ TypeOK /\ KernOK(snd) /\ KernOK(rcv)
      /\ snd \in Kernels /\ rcv \in Kernels /\ chan \in Seq(Data)
  BY DEF ConnInv, TypeOK, Data
<1>1. /\ snd' = snd /\ rAbort' = rAbort /\ sAbort' = sAbort /\ tail' = tail
      /\ buff' = buff
  BY DEF Receiver, RecvCopy, R!loadConn, R!waitPeerSpin, R!waitPeer,
         R!reduceCopy, R!postPeer, R!saveConn
<1>2. CountersOK /\ ChanOK /\ ~rcv.aborted /\ ~rAbort
  BY <1>1 DEF ConnInv, NotAborted, CountersOK
<1>3. InFlight(chan, buff, head, Pos(rcv), Pos(snd))
  BY <1>2 DEF ChanOK
<1>4. /\ snd.post \in Nat /\ snd.step \in Nat /\ rcv.post \in Nat
      /\ rcv.step \in Nat /\ snd.cache \in Nat /\ rcv.cache \in Nat
      /\ rcv.connStep \in Nat /\ rcv.op \in Nat /\ rcv.i \in Nat
      /\ head \in Nat /\ tail \in Nat /\ NCCL_STEPS \in Nat
  BY <1>0, StepsAssumption DEF Kernels, TypeOK
<1>5. ASSUME head' \in Nat, head <= head', head' = rcv'.post,
             rcv' \in Kernels, KernOK(rcv'), Pos(rcv') = Pos(rcv),
             ~rcv'.aborted, rcv'.cache <= tail,
             rcv'.pc = "copy" => rcv'.step <= tail, chan' = chan
      PROVE  CountersOK' /\ InFlight(chan', buff', head', Pos(rcv'), Pos(snd'))
  <2>1. Pos(rcv).step \in Nat /\ head' <= Pos(rcv).step
    BY <1>5, PosFacts
  <2>2. InFlight(chan, buff, head', Pos(rcv), Pos(snd))
    BY <1>0, <1>3, <1>4, <1>5, <2>1, InFlightHead
  <2>3. snd.cache <= head' /\ tail <= head' + NCCL_STEPS
        /\ (snd.pc = "copy" \/ snd.posting => snd.step <= head' + NCCL_STEPS)
    <3>1. snd.cache <= head /\ tail <= head + NCCL_STEPS
          /\ (snd.pc = "copy" \/ snd.posting => snd.step <= head + NCCL_STEPS)
      BY <1>2 DEF CountersOK
    <3>2. snd.cache <= head' /\ tail <= head' + NCCL_STEPS
      BY <1>4, <1>5, <3>1
    <3>3. ASSUME snd.pc = "copy" \/ snd.posting
          PROVE  snd.step <= head' + NCCL_STEPS
      <4>1. snd.step <= head + NCCL_STEPS
        BY <3>1, <3>3
      <4> QED
        BY <1>4, <1>5, <4>1
    <3> QED
      BY <3>2, <3>3
  <2>4. CountersOK'
    BY <1>1, <1>2, <1>5, <2>3 DEF CountersOK
  <2> QED
    BY <1>1, <1>5, <2>2, <2>4
<1>6. ASSUME R!loadConn, UNCHANGED chan
      PROVE  CountersOK' /\ InFlight(chan', buff', head', Pos(rcv'), Pos(snd'))
  <2>1. LoadRel(rcv, rcv') /\ rcv' \in Kernels
    BY <1>0, <1>6, RecvRels
  <2>2. KernOK(rcv') /\ Pos(rcv') = Pos(rcv)
    BY <1>0, <2>1, LoadLemma
  <2>3. head' = rcv'.post /\ rcv'.cache = tail
    BY <1>0, <1>6 DEF R!loadConn, Kernels
  <2>4. rcv'.post \in Nat /\ rcv'.post >= rcv.post
    <3>1. rcv.op \in 1 .. Len(Ops) /\ rcv.post = rcv.connStep
      <4>1. Len(Ops) \in Nat
        BY OpsAssumption
      <4> QED
        BY <1>0, <1>4, <2>1, <4>1 DEF LoadRel, KernOK
    <3>2. rcv'.post = roundUp(rcv.connStep, S!ChunkSteps(rcv.op))
      BY <2>1 DEF LoadRel
    <3> QED
      BY <1>4, <3>1, <3>2, OpFacts, RoundUpProps
  <2>5. head = rcv.post
    BY <1>2 DEF CountersOK
  <2>6. head' \in Nat /\ head <= head' /\ rcv'.cache <= tail
    BY <1>4, <2>3, <2>4, <2>5
  <2>7. rcv'.pc = "wait" /\ ~rcv'.aborted
    BY <1>2, <2>1 DEF LoadRel
  <2> QED
    BY <1>5, <1>6, <2>1, <2>2, <2>3, <2>6, <2>7
<1>7. ASSUME R!waitPeerSpin, UNCHANGED chan
      PROVE  CountersOK' /\ InFlight(chan', buff', head', Pos(rcv'), Pos(snd'))
  <2>1. SpinRel(rcv, rcv') /\ rcv' \in Kernels
    BY <1>0, <1>7, RecvRels
  <2>2. KernOK(rcv') /\ Pos(rcv') = Pos(rcv)
    BY <1>0, <2>1, SpinLemma
  <2>3. head' = head /\ rcv'.cache = tail
    BY <1>0, <1>7 DEF R!waitPeerSpin, Kernels
  <2>4. head' \in Nat /\ head <= head' /\ rcv'.cache <= tail
    BY <1>4, <2>3
  <2>5. head = rcv.post
    BY <1>2 DEF CountersOK
  <2>6. rcv'.pc = "wait" /\ ~rcv'.aborted /\ head' = rcv'.post
    BY <1>2, <2>1, <2>3, <2>5 DEF SpinRel
  <2> QED
    BY <1>5, <1>7, <2>1, <2>2, <2>4, <2>6
<1>8. ASSUME R!waitPeer, UNCHANGED chan
      PROVE  CountersOK' /\ InFlight(chan', buff', head', Pos(rcv'), Pos(snd'))
  <2>1. WaitRel(rcv, rcv') /\ rcv' \in Kernels
    BY <1>0, <1>8, RecvRels
  <2>2. KernOK(rcv') /\ Pos(rcv') = Pos(rcv)
    BY <1>0, <2>1, WaitLemma
  <2>3. R!Granted(rcv.cache)
    BY <1>2, <1>8 DEF R!waitPeer
  <2>4. head' = head /\ rcv'.cache = rcv.cache /\ ~rcv'.aborted
    BY <1>0, <1>2, <1>8, <2>3 DEF R!waitPeer, Kernels
  <2>5. rcv.cache + 0 >= rcv.step + S!Sps(rcv.op)
    BY <2>3, SameOps DEF R!Granted
  <2>6. rcv'.step = rcv.step + S!Sps(rcv.op) /\ S!Sps(rcv.op) \in Nat
    <3>1. rcv.op \in 1 .. Len(Ops)
      BY <1>0, <2>1, OpsAssumption DEF WaitRel, KernOK, Kernels
    <3> QED
      BY <2>1, <3>1, OpFacts DEF WaitRel
  <2>7. head = rcv.post /\ rcv.cache <= tail
    BY <1>2 DEF CountersOK
  <2>8. rcv'.step <= tail /\ head <= head' /\ head' \in Nat
    BY <1>4, <2>4, <2>5, <2>6, <2>7
  <2>9. head' = rcv'.post
    BY <2>1, <2>4, <2>7 DEF WaitRel
  <2> QED
    BY <1>5, <1>8, <2>1, <2>2, <2>4, <2>7, <2>8, <2>9
<1>9. ASSUME RecvCopy
      PROVE  CountersOK' /\ InFlight(chan', buff', head', Pos(rcv'), Pos(snd'))
  <2>1. CopyRel(rcv, rcv') /\ rcv' \in Kernels /\ rcv.pc = "copy"
        /\ ~rcv.posting
    BY <1>0, <1>9, RecvRels DEF RecvCopy, CopyRel
  <2>2. Pos(rcv') = Succ(Pos(rcv))
    BY <1>0, <1>2, <2>1, CopyLemma
  <2>3. head' = head
    BY <1>9 DEF RecvCopy, R!reduceCopy
  <2>4. CountersOK'
    BY <1>1, <1>2, <2>1, <2>3 DEF CountersOK, CopyRel
  <2>5. Pos(rcv).step < rcv.step
    <3>1. Pos(rcv).step = rcv.step - S!Sps(rcv.op) + rcv.i
          /\ rcv.op \in 1 .. Len(Ops)
      BY <1>0, <2>1, PosFacts DEF S!Datum
    <3>2. rcv.i < S!Sps(rcv.op)
      BY <1>0, <2>1 DEF KernOK
    <3>3. S!Sps(rcv.op) \in Nat
      BY <3>1, OpFacts
    <3> QED
      BY <1>4, <3>1, <3>2, <3>3
  <2>6. Pos(rcv).step < Pos(snd).step
    <3>1. Pos(snd).step \in Nat /\ Pos(snd).step >= snd.post
          /\ Pos(rcv).step \in Nat
      BY <1>0, PosFacts
    <3>2. rcv.step <= tail /\ tail <= snd.post
      BY <1>2, <2>1 DEF CountersOK
    <3> QED
      BY <1>4, <2>5, <3>1, <3>2
  <2>7. chan # <<>>
    <3>1. SUFFICES ASSUME chan = <<>> PROVE FALSE
      OBVIOUS
    <3>2. Pos(rcv) = Pos(snd)
      BY <1>3, <3>1 DEF InFlight
    <3>3. Pos(snd).step \in Nat
      BY <1>0, PosFacts
    <3> QED
      BY <2>6, <3>2, <3>3
  <2>8. chan' = Tail(chan)
    BY <1>2, <1>9, <2>7 DEF RecvCopy
  <2>9. InFlight(Tail(chan), buff, head, Succ(Pos(rcv)), Pos(snd))
    BY <1>0, <1>3, <2>7, InFlightRecv
  <2> QED
    BY <1>1, <2>2, <2>3, <2>4, <2>8, <2>9
<1>10. ASSUME R!postPeer, UNCHANGED chan
       PROVE  CountersOK' /\ InFlight(chan', buff', head', Pos(rcv'), Pos(snd'))
  <2>1. PostRel(rcv, rcv') /\ rcv' \in Kernels
    BY <1>0, <1>10, RecvRels
  <2>2. KernOK(rcv') /\ Pos(rcv') = Pos(rcv)
    BY <1>0, <2>1, PostLemma
  <2>3. head' = rcv'.post
    BY <1>10 DEF R!postPeer
  <2>4. rcv.op \in 1 .. Len(Ops)
    BY <1>0, <2>1, OpsAssumption DEF PostRel, KernOK, Kernels
  <2>5. S!Sps(rcv.op) \in Nat
    BY <2>4, OpFacts
  <2>6. rcv'.post = rcv.post + S!Sps(rcv.op)
    BY <2>1 DEF PostRel
  <2>7. head = rcv.post /\ rcv.cache <= tail
        /\ (rcv.pc = "copy" => rcv.step <= tail)
    BY <1>2 DEF CountersOK
  <2>8. head' \in Nat /\ head <= head'
    BY <1>4, <2>3, <2>5, <2>6, <2>7
  <2>9. ~rcv'.aborted /\ rcv'.cache <= tail
        /\ (rcv'.pc = "copy" => rcv'.step <= tail)
    BY <1>2, <2>1, <2>7 DEF PostRel
  <2> QED
    BY <1>5, <1>10, <2>1, <2>2, <2>3, <2>8, <2>9
<1>11. ASSUME R!saveConn, UNCHANGED chan
       PROVE  CountersOK' /\ InFlight(chan', buff', head', Pos(rcv'), Pos(snd'))
  <2>1. SaveRel(rcv, rcv') /\ rcv' \in Kernels
    BY <1>0, <1>11, RecvRels
  <2>2. KernOK(rcv') /\ Pos(rcv') = Pos(rcv)
    BY <1>0, <2>1, SaveLemma
  <2>3. head' = head
    BY <1>11 DEF R!saveConn
  <2>4. head = rcv.post /\ rcv.cache <= tail
    BY <1>2 DEF CountersOK
  <2>5. head' \in Nat /\ head <= head'
    BY <1>4, <2>3
  <2>6. ~rcv'.aborted /\ rcv'.cache <= tail /\ rcv'.pc = "load"
        /\ head' = rcv'.post
    BY <1>2, <2>1, <2>3, <2>4 DEF SaveRel
  <2> QED
    BY <1>5, <1>11, <2>1, <2>2, <2>5, <2>6
<1> QED
  BY <1>6, <1>7, <1>8, <1>9, <1>10, <1>11 DEF Receiver

(* ConnInv is inductive. *)
LEMMA NextInv == ConnInv /\ [Next]_vars => ConnInv'
<1> SUFFICES ASSUME ConnInv, [Next]_vars PROVE ConnInv'
  OBVIOUS
<1>1. CASE Sender
  <2>1. /\ TypeOK' /\ KernOK(snd') /\ KernOK(rcv')
        /\ snd'.aborted => sAbort'
        /\ rcv'.aborted => rAbort'
    BY <1>1, SenderLocal
  <2>2. NotAborted' => CountersOK' /\ ChanOK'
    BY <1>1, SenderShared DEF ChanOK
  <2> QED
    BY <2>1, <2>2 DEF ConnInv
<1>2. CASE Receiver
  <2>1. /\ TypeOK' /\ KernOK(snd') /\ KernOK(rcv')
        /\ snd'.aborted => sAbort'
        /\ rcv'.aborted => rAbort'
    BY <1>2, ReceiverLocal
  <2>2. NotAborted' => CountersOK' /\ ChanOK'
    BY <1>2, ReceiverShared DEF ChanOK
  <2> QED
    BY <2>1, <2>2 DEF ConnInv
<1>3. CASE Abort
  <2>1. ~NotAborted'
    BY <1>3 DEF Abort, NotAborted
  <2>2. /\ snd' = snd /\ rcv' = rcv /\ head' = head /\ tail' = tail
        /\ buff' = buff /\ chan' = chan
        /\ sAbort' \in BOOLEAN /\ rAbort' \in BOOLEAN
        /\ (sAbort => sAbort') /\ (rAbort => rAbort')
    <3>1. TypeOK
      BY DEF ConnInv
    <3>2. sAbort \in BOOLEAN /\ rAbort \in BOOLEAN
      BY <3>1 DEF TypeOK
    <3> QED
      BY <1>3, <3>2 DEF Abort
  <2>3. TypeOK'
    BY <2>2 DEF ConnInv, TypeOK
  <2> QED
    BY <2>1, <2>2, <2>3 DEF ConnInv
<1>4. CASE UNCHANGED vars
  <2>1. /\ TypeOK' /\ (NotAborted' => NotAborted)
        /\ snd' = snd /\ rcv' = rcv /\ sAbort' = sAbort /\ rAbort' = rAbort
        /\ (CountersOK => CountersOK') /\ (ChanOK => ChanOK')
    BY <1>4 DEF vars, ConnInv, TypeOK, NotAborted, CountersOK, ChanOK
  <2> QED
    BY <2>1 DEF ConnInv
<1> QED
  BY <1>1, <1>2, <1>3, <1>4 DEF Next

(* The registers, counters, slots and the data in flight are consistent in *)
(* every reachable state: for any FIFO depth, any mix of operations and    *)
(* any interleaving of the two kernels and of aborts.                      *)
THEOREM ConnInvariant == Spec => []ConnInv
<1>1. Init => ConnInv
  BY InitInv
<1>2. ConnInv /\ [Next]_vars => ConnInv'
  BY NextInv
<1> QED
  BY <1>1, <1>2, PTL DEF Spec

(* Type correctness. *)
THEOREM TypeCorrect == Spec => []TypeOK
<1>1. ConnInv => TypeOK
  BY DEF ConnInv
<1> QED
  BY <1>1, ConnInvariant, PTL

(* No slice handed out by waitPeer wraps round the end of the buffer, even *)
(* in kernels that were aborted.                                           *)
THEOREM SlicesInBuffer == Spec => []SliceInBuffer
<1>1. ConnInv => SliceInBuffer
  <2> SUFFICES ASSUME ConnInv PROVE SliceInBuffer
    OBVIOUS
  <2>1. snd \in Kernels /\ rcv \in Kernels /\ KernOK(snd) /\ KernOK(rcv)
    BY DEF ConnInv, TypeOK
  <2> QED
    BY <2>1, SlotFacts, SameOps DEF SliceInBuffer
<1> QED
  BY <1>1, ConnInvariant, PTL

(* The sender is never more than NCCL_STEPS steps ahead of the credits.    *)
THEOREM CreditsAreBounded == Spec => []CreditsBounded
<1>1. ConnInv => CreditsBounded
  BY DEF ConnInv, CountersOK, CreditsBounded
<1> QED
  BY <1>1, ConnInvariant, PTL

(* Every slot of the slice the receiver was granted holds the datum of its *)
(* step until it is copied.                                                *)
THEOREM ReceiverReadsExpected == Spec => []ReadsExpected
<1>1. ConnInv => ReadsExpected
  <2> SUFFICES ASSUME ConnInv, NotAborted, rcv.pc = "copy",
                      NEW j \in rcv.i .. R!Sps(rcv.op) - 1
               PROVE  buff[rcv.ptr + j] =
                        S!Datum(rcv.op, R!Copied - rcv.i + j,
                                rcv.step - R!Sps(rcv.op) + j)
    BY DEF ReadsExpected
  <2>1. /\ snd \in Kernels /\ rcv \in Kernels /\ KernOK(snd) /\ KernOK(rcv)
        /\ chan \in Seq(Data) /\ CountersOK
        /\ InFlight(chan, buff, head, Pos(rcv), Pos(snd))
    BY DEF ConnInv, TypeOK, Data, ChanOK
  <2>2. /\ rcv.op \in 1 .. Len(Ops)
        /\ Pos(rcv) = S!Datum(rcv.op,
             S!OpSteps(rcv.op) - rcv.left * S!Sps(rcv.op) + rcv.i,
             rcv.step - S!Sps(rcv.op) + rcv.i)
        /\ rcv.left * S!Sps(rcv.op) \in Nat
        /\ rcv.left * S!Sps(rcv.op) >= S!Sps(rcv.op)
        /\ rcv.left * S!Sps(rcv.op) <= S!OpSteps(rcv.op)
        /\ rcv.step - S!Sps(rcv.op) \in Nat
    BY <2>1, PosFacts
  <2>3. PICK s \in Nat \ {0}, t \in Nat :
          s = S!Sps(rcv.op) /\ t = S!OpSteps(rcv.op)
    BY <2>2, OpFacts
  <2>4x. PICK x \in Nat : x = rcv.left * s
    BY <2>2, <2>3
  <2>4. x >= s /\ x <= t
    BY <2>2, <2>3, <2>4x
  <2>5. PICK a \in Nat, i \in Nat, o \in Nat :
          /\ a = rcv.step - s /\ i = rcv.i /\ o = rcv.op /\ i < s
          /\ rcv.step = a + s
    <3>1. rcv.i \in Nat /\ rcv.step \in Nat /\ rcv.i < s /\ rcv.op \in Nat
      BY <2>1, <2>3 DEF Kernels, KernOK
    <3>2. rcv.step - s \in Nat
      BY <2>2, <2>3
    <3> QED
      BY <3>1, <3>2
  <2>6. PICK y \in Nat, z \in Nat : y = t - x + i /\ z = a + i
    BY <2>4
  <2>7. PICK d \in Data : d = Pos(rcv) /\ d = S!Datum(o, y, z)
    <3>1. Pos(rcv) = S!Datum(o, y, z)
      BY <2>2, <2>3, <2>4x, <2>5, <2>6
    <3>2. S!Datum(o, y, z) \in Data
      BY DEF S!Datum, Data
    <3> QED
      BY <3>1, <3>2
  <2>8. d.op = o /\ d.off = y /\ d.step = z
    BY <2>7 DEF S!Datum
  <2>9. PICK m \in Nat : m = s - i
    BY <2>5
  <2>10. d.op \in 1 .. Len(Ops) /\ d.off \in Nat
         /\ d.off + m <= S!OpSteps(d.op)
    <3>1. y + m <= t
      BY <2>4, <2>5, <2>6, <2>9
    <3> QED
      BY <2>2, <2>3, <2>5, <2>8, <3>1
  <2>11. Pos(snd).step \in Nat /\ d.step + m <= Pos(snd).step
    <3>1. Pos(snd).step \in Nat /\ Pos(snd).step >= snd.post
      BY <2>1, PosFacts
    <3>2. rcv.step <= tail /\ tail <= snd.post
      BY <2>1 DEF CountersOK
    <3>3. tail \in Nat /\ snd.post \in Nat
      <4>1. TypeOK
        BY DEF ConnInv
      <4> QED
        BY <2>1, <4>1 DEF TypeOK, Kernels
    <3>4. z + m = a + s
      <4>1. z = a + i /\ m = s - i
        BY <2>6, <2>9
      <4> QED
        BY <4>1
    <3> QED
      BY <2>5, <2>8, <3>1, <3>2, <3>3, <3>4
  <2>12. InFlight(chan, buff, head, d, Pos(snd))
    BY <2>1, <2>7
  <2>13. \A l \in 0 .. m - 1 : buff[(d.step + l) % NCCL_STEPS] =
                                 S!Datum(d.op, d.off + l, d.step + l)
    BY <2>1, <2>10, <2>11, <2>12, InFlightSlice
  <2>14. PICK l \in 0 .. m - 1 : l = j - i /\ z + l = a + j /\ y + l = t - x + j
         /\ j \in 0 .. s - 1
    <3>1. j \in i .. s - 1
      BY <2>3, <2>5, SameOps
    <3> QED
      <4>1. z = a + i /\ m = s - i /\ y = t - x + i
        BY <2>6, <2>9
      <4>2. j - i \in 0 .. m - 1 /\ z + (j - i) = a + j
            /\ y + (j - i) = t - x + j /\ j \in 0 .. s - 1
        BY <3>1, <4>1
      <4> QED
        BY <4>2
  <2>15. rcv.ptr + j = (a + j) % NCCL_STEPS
    BY <2>1, <2>3, <2>5, <2>14, SlotFacts
  <2>16. buff[rcv.ptr + j] = S!Datum(o, t - x + j, a + j)
    BY <2>8, <2>13, <2>14, <2>15
  <2>17. R!Copied - rcv.i + j = t - x + j
    <3>1. R!Copied = t - x + i
      BY <2>3, <2>4x, <2>5, SameOps DEF R!Copied
    <3>2. (t - x + i) - i + j = t - x + j
      BY <2>14
    <3> QED
      BY <2>5, <3>1, <3>2
  <2> QED
    BY <2>3, <2>5, <2>16, <2>17, SameOps
<1> QED
  BY <1>1, ConnInvariant, PTL

(* A sender that copies a step has room for it in the channel.             *)
LEMMA RoomForStep ==
  ASSUME NEW ch \in Seq(Data), NEW b, NEW h \in Nat, NEW from, NEW d \in Data,
         InFlight(ch, b, h, from, d), d.step < h + NCCL_STEPS
  PROVE  Len(ch) < NCCL_STEPS
<1>0. NCCL_STEPS \in Nat \ {0} /\ Len(ch) \in Nat /\ d.step \in Nat
  BY StepsAssumption DEF Data
<1>1. CASE Len(ch) = 0
  BY <1>0, <1>1
<1>2. CASE Len(ch) # 0
  <2>1. PICK n \in Nat : n = Len(ch) /\ n >= 1
    BY <1>0, <1>2
  <2>2. 1 \in 1 .. Len(ch) /\ n \in 1 .. Len(ch)
    BY <2>1
  <2>3. ch[1].step \in Nat /\ ch[n].step \in Nat
    BY <2>2, DataOfSeq
  <2>4. h <= ch[1].step /\ ch[n].step < d.step
    BY <2>2 DEF InFlight
  <2>5. ch[n].step >= ch[1].step + (n - 1)
    <3>1. CASE n = 1
      BY <2>3, <3>1
    <3>2. CASE n # 1
      <4>1. 1 < n
        BY <2>1, <3>2
      <4> QED
        BY <2>2, <4>1 DEF InFlight
    <3> QED
      BY <3>1, <3>2
  <2> QED
    BY <1>0, <2>1, <2>3, <2>4, <2>5
<1> QED
  BY <1>1, <1>2

(* The position of a sender that is about to copy, as a datum, and the     *)
(* write it does.                                                          *)
LEMMA SendsPosition ==
  ASSUME ConnInv, NotAborted, SendCopy
  PROVE  /\ Pos(snd) \in [op : Nat, off : Nat, step : Nat]
         /\ Pos(snd).step < head + NCCL_STEPS
         /\ chan' = Append(chan, Pos(snd))
<1>0. /\ TypeOK /\ KernOK(snd) /\ snd \in Kernels /\ head \in Nat
      /\ buff \in [Slots -> Data] /\ chan \in Seq(Data) /\ CountersOK
      /\ NCCL_STEPS \in Nat /\ ~snd.aborted
  BY StepsAssumption DEF ConnInv, TypeOK, Data, NotAborted
<1>1. snd.pc = "copy" /\ ~snd.posting
  BY DEF SendCopy, S!reduceCopy
<1>2. /\ snd.op \in 1 .. Len(Ops)
      /\ Pos(snd) = S!Datum(snd.op,
           S!OpSteps(snd.op) - snd.left * S!Sps(snd.op) + snd.i,
           snd.step - S!Sps(snd.op) + snd.i)
      /\ snd.left * S!Sps(snd.op) \in Nat
      /\ snd.left * S!Sps(snd.op) <= S!OpSteps(snd.op)
      /\ snd.step - S!Sps(snd.op) \in Nat
  BY <1>0, <1>1, PosFacts
<1>3. PICK s \in Nat \ {0}, t \in Nat, x \in Nat :
        s = S!Sps(snd.op) /\ t = S!OpSteps(snd.op)
        /\ x = snd.left * S!Sps(snd.op)
  BY <1>2, OpFacts
<1>4. PICK a \in Nat, i \in Nat, o \in Nat :
        /\ a = snd.step - s /\ i = snd.i /\ o = snd.op /\ i < s
        /\ snd.post = a /\ snd.step = a + s
  <2>1. snd.i \in Nat /\ snd.op \in Nat /\ snd.step \in Nat /\ snd.post \in Nat
    BY <1>0 DEF Kernels
  <2>2. snd.i < s /\ snd.step = snd.post + s + 0
    BY <1>0, <1>1, <1>3 DEF KernOK
  <2>3. snd.step - s \in Nat
    BY <1>2, <1>3
  <2> QED
    BY <2>1, <2>2, <2>3
<1>5. PICK y \in Nat, z \in Nat : y = t - x + i /\ z = a + i
  BY <1>2, <1>3
<1>6. Pos(snd) = S!Datum(o, y, z)
  BY <1>2, <1>3, <1>4, <1>5
<1>7. Pos(snd) \in [op : Nat, off : Nat, step : Nat] /\ Pos(snd).step = z
      /\ Pos(snd).op = o
  BY <1>6 DEF S!Datum
<1>8. z < head + NCCL_STEPS
  <2>1. snd.step <= head + NCCL_STEPS
    BY <1>0, <1>1 DEF CountersOK
  <2>2. a + s <= head + NCCL_STEPS /\ i < s /\ z = a + i
    BY <1>4, <1>5, <2>1
  <2> QED
    BY <1>0, <2>2
<1>9. chan' = Append(chan, Pos(snd))
  <2>1. S!Copied = y /\ snd.post + snd.i = z
    BY <1>3, <1>4, <1>5 DEF S!Copied
  <2>2. buff' = [buff EXCEPT ![snd.ptr + snd.i] = Pos(snd)]
    BY <1>0, <1>4, <1>6, <2>1 DEF SendCopy, S!reduceCopy
  <2>3. snd.ptr + snd.i \in Slots
    BY <1>0, <1>1, SlotFacts
  <2>4. buff'[snd.ptr + snd.i] = Pos(snd)
    BY <1>0, <2>2, <2>3
  <2> QED
    BY <1>0, <2>4 DEF SendCopy
<1> QED
  BY <1>7, <1>8, <1>9

(* What a receiver reads is the datum at the front of the channel.         *)
LEMMA ReceivesFirst ==
  ASSUME ConnInv, NotAborted, NotAborted', Receiver, RecvCopy
  PROVE  chan # <<>> /\ rcv'.got = Head(chan) /\ chan' = Tail(chan)
<1>0. /\ TypeOK /\ KernOK(rcv) /\ rcv \in Kernels /\ KernOK(snd)
      /\ snd \in Kernels /\ chan \in Seq(Data) /\ CountersOK /\ ~rcv.aborted
      /\ InFlight(chan, buff, head, Pos(rcv), Pos(snd))
      /\ tail \in Nat
  BY DEF ConnInv, TypeOK, Data, NotAborted, ChanOK
<1>1. rcv.pc = "copy" /\ rcv' \in Kernels
  BY <1>0, RecvRels DEF RecvCopy, R!reduceCopy
<1>2. /\ rcv.op \in 1 .. Len(Ops)
      /\ Pos(rcv).step = rcv.step - S!Sps(rcv.op) + rcv.i
      /\ rcv.step - S!Sps(rcv.op) \in Nat
  BY <1>0, <1>1, PosFacts DEF S!Datum
<1>3. /\ rcv.step \in Nat /\ rcv.i \in Nat /\ rcv.i < S!Sps(rcv.op)
      /\ S!Sps(rcv.op) \in Nat \ {0} /\ snd.post \in Nat
  <2>1. rcv.i < S!Sps(rcv.op)
    BY <1>0, <1>1 DEF KernOK
  <2> QED
    BY <1>0, <1>2, <2>1, OpFacts DEF Kernels
<1>4. chan # <<>>
  <2>1. SUFFICES ASSUME chan = <<>> PROVE FALSE
    OBVIOUS
  <2>2. Pos(rcv) = Pos(snd)
    BY <1>0, <2>1 DEF InFlight
  <2>3. Pos(snd).step \in Nat /\ Pos(snd).step >= snd.post
    BY <1>0, PosFacts
  <2>4. rcv.step <= tail /\ tail <= snd.post
    BY <1>0, <1>1 DEF CountersOK
  <2> QED
    BY <1>0, <1>2, <1>3, <2>2, <2>3, <2>4
<1>5. chan' = Tail(chan)
  BY <1>0, <1>4 DEF RecvCopy
<1>6. rcv'.got = buff[rcv.ptr + rcv.i]
  BY <1>0, <1>1 DEF RecvCopy, R!reduceCopy, Kernels
<1>7. rcv.ptr + rcv.i = Pos(rcv).step % NCCL_STEPS
  <2>1. rcv.i \in 0 .. S!Sps(rcv.op) - 1
    BY <1>3
  <2> QED
    BY <1>0, <1>1, <1>2, <2>1, SlotFacts
<1>8. 1 \in 1 .. Len(chan) /\ Head(chan) = chan[1]
  <2>1. Len(chan) \in Nat \ {0}
    BY <1>0, <1>4, EmptySeq
  <2> QED
    BY <1>0, <1>4, <2>1
<1>9. chan[1] = Pos(rcv) /\ buff[chan[1].step % NCCL_STEPS] = chan[1]
  BY <1>0, <1>4, <1>8 DEF InFlight
<1> QED
  BY <1>4, <1>5, <1>6, <1>7, <1>8, <1>9

(* Until a rank is aborted the connection implements an ordered channel:   *)
(* each datum the sender copies is delivered once, in order, whatever the  *)
(* slice and chunk sizes of the operations and however the kernels         *)
(* interleave.                                                             *)
THEOREM ImplementsChannel == Spec => ChannelSpec
<1>1. Init => Ch!Init /\ ConnInv
  BY InitInv DEF Init, Ch!Init
<1>2. ConnInv /\ [Next]_vars => (NotAborted' => NotAborted)
  <2> SUFFICES ASSUME ConnInv, [Next]_vars, NotAborted' PROVE NotAborted
    OBVIOUS
  <2>1. CASE Abort
    BY <2>1 DEF Abort, NotAborted
  <2>2. CASE ~Abort
    <3>1. sAbort' = sAbort /\ rAbort' = rAbort
      BY <2>2 DEF Next, vars, Sender, SendCopy, S!loadConn,
           S!waitPeerSpin, S!waitPeer, S!reduceCopy, S!postPeer, S!saveConn,
           Receiver, RecvCopy, R!loadConn, R!waitPeerSpin, R!waitPeer,
           R!reduceCopy, R!postPeer, R!saveConn
    <3> QED
      BY <3>1 DEF NotAborted
  <2> QED
    BY <2>1, <2>2
<1>4. ConnInv /\ [Next]_vars => [Ch!Next]_<<chan, rcv.got>>
  <2> SUFFICES ASSUME ConnInv, [Next]_vars, NotAborted'
               PROVE  [Ch!Next]_<<chan, rcv.got>>
    BY DEF Ch!Next, NotAborted
  <2>0. NotAborted /\ NotAborted' /\ chan \in Seq(Data) /\ snd \in Kernels
        /\ rcv \in Kernels /\ KernOK(rcv) /\ head \in Nat /\ TypeOK
        /\ KernOK(snd) /\ InFlight(chan, buff, head, Pos(rcv), Pos(snd))
    BY <1>2 DEF ConnInv, TypeOK, Data, ChanOK
  <2>1. CASE Sender
    <3>1. CASE SendCopy
      <4>1. PICK d \in [op : Nat, off : Nat, step : Nat] :
              d = Pos(snd) /\ chan' = Append(chan, d)
              /\ d.step < head + NCCL_STEPS
        BY <2>0, <3>1, SendsPosition
      <4>2. d \in Data
        BY <4>1 DEF Data
      <4>3. Len(chan) < NCCL_STEPS
        BY <2>0, <4>1, <4>2, RoomForStep
      <4>4. chan' # <<>> /\ chan'[Len(chan')] = d
        <5>1. Len(chan') = Len(chan) + 1 /\ chan'[Len(chan) + 1] = d
          BY <2>0, <4>1, <4>2, AppendProperties
        <5>2. Len(chan) \in Nat
          BY <2>0
        <5> QED
          BY <2>0, <4>1, <5>1, <5>2
      <4>5. rcv'.got = rcv.got
        BY <2>1 DEF Sender
      <4> QED
        BY <4>1, <4>3, <4>4, <4>5 DEF Ch!Next, Ch!Send
    <3>2. CASE ~SendCopy
      BY <2>1, <3>2 DEF Sender
    <3> QED
      BY <3>1, <3>2
  <2>2. CASE Receiver
    <3>1. CASE RecvCopy
      <4>1. chan # <<>> /\ rcv'.got = Head(chan) /\ chan' = Tail(chan)
        BY <2>0, <2>2, <3>1, ReceivesFirst
      <4> QED
        BY <4>1 DEF Ch!Next, Ch!Deliver
    <3>2. CASE ~RecvCopy
      <4>1. chan' = chan
        BY <2>2, <3>2 DEF Receiver
      <4>2. rcv'.got = rcv.got
        BY <2>0, <2>2, <3>2 DEF Receiver, R!loadConn, R!waitPeerSpin,
           R!waitPeer, R!postPeer, R!saveConn, Kernels
      <4> QED
        BY <4>1, <4>2
    <3> QED
      BY <3>1, <3>2
  <2>3. CASE Abort \/ UNCHANGED vars
    BY <2>3 DEF Abort, vars
  <2> QED
    BY <2>1, <2>2, <2>3 DEF Next
<1> QED
  BY <1>1, <1>4, NextInv, PTL DEF Spec, ChannelSpec, Ch!Spec
=============================================================================
