--------------------------- MODULE SimpleConnLemmas ---------------------------
(***************************************************************************)
(* Lemmas about SimpleConn: what each action does to the registers of a    *)
(* kernel and to its position, and how the data in flight change when a    *)
(* step is written, read or given back.                                    *)
(***************************************************************************)
EXTENDS SimpleConn, BaseFacts

(* Sizes of an operation: positive, and a slice divides chunk and FIFO. *)
LEMMA OpFacts ==
  ASSUME NEW o \in 1 .. Len(Ops)
  PROVE  /\ S!Sps(o) \in Nat \ {0}
         /\ S!ChunkSteps(o) \in Nat \ {0}
         /\ S!Slices(o) \in Nat \ {0}
         /\ S!OpSteps(o) = S!Slices(o) * S!Sps(o)
         /\ S!OpSteps(o) \in Nat \ {0}
         /\ NCCL_STEPS % S!Sps(o) = 0
         /\ S!ChunkSteps(o) <= NCCL_STEPS
         /\ \A a \in Int : a % S!ChunkSteps(o) = 0 => a % S!Sps(o) = 0
<1>0. Ops[o] \in [sps : Nat \ {0}, spc : Nat \ {0}, chunks : Nat \ {0}]
  BY OpsAssumption, ElementOfSeq
<1>1. /\ Ops[o].sps \in Nat \ {0}
      /\ Ops[o].spc \in Nat \ {0}
      /\ Ops[o].chunks \in Nat \ {0}
      /\ NCCL_STEPS % (Ops[o].spc * Ops[o].sps) = 0
      /\ Ops[o].spc * Ops[o].sps + Ops[o].sps <= NCCL_STEPS + 1
  BY <1>0, OpsAssumption
<1>2. PICK s \in Nat \ {0}, c \in Nat \ {0}, n \in Nat \ {0} :
        s = Ops[o].sps /\ c = Ops[o].spc /\ n = Ops[o].chunks
  BY <1>1
<1>3. S!Sps(o) = s /\ S!ChunkSteps(o) = c * s /\ S!Slices(o) = n * c
        /\ S!OpSteps(o) = n * (c * s)
  BY <1>2 DEF S!Sps, S!ChunkSteps, S!Slices, S!OpSteps
<1>4. c * s \in Nat \ {0} /\ n * c \in Nat \ {0}
  OBVIOUS
<1>5. n * (c * s) = (n * c) * s /\ n * (c * s) \in Nat \ {0}
  BY <1>4
<1>6. NCCL_STEPS % (c * s) = 0 /\ c * s + s <= NCCL_STEPS + 1
  BY <1>1, <1>2
<1>7. c * s <= NCCL_STEPS
  BY <1>4, <1>6, StepsAssumption
<1>9. NCCL_STEPS \in Int
  BY StepsAssumption
<1>10. NCCL_STEPS % s = 0
  BY <1>6, <1>9, ModMultiple
<1>8. \A a \in Int : a % (c * s) = 0 => a % s = 0
  BY ModMultiple
<1> QED
  BY <1>3, <1>4, <1>5, <1>7, <1>8, <1>10

(* The two instances of PrimsSimple use the same operations. *)
LEMMA SameOps ==
  ASSUME NEW o
  PROVE  /\ R!Sps(o) = S!Sps(o) /\ R!ChunkSteps(o) = S!ChunkSteps(o)
         /\ R!Slices(o) = S!Slices(o) /\ R!OpSteps(o) = S!OpSteps(o)
  BY DEF S!Sps, S!ChunkSteps, S!Slices, S!OpSteps,
         R!Sps, R!ChunkSteps, R!Slices, R!OpSteps

(* Both instances round in the same way. *)
LEMMA SameRound ==
  ASSUME NEW x, NEW y
  PROVE  S!roundUp(x, y) = roundUp(x, y) /\ R!roundUp(x, y) = roundUp(x, y)
  BY DEF roundUp, S!roundUp, R!roundUp

----------------------------------------------------------------------------
(* What each action does to the registers, whichever end takes it. *)
LoadRel(k, l) ==
  /\ k.pc = "load" /\ k.op <= Len(Ops)
  /\ l.op = k.op /\ l.pc = "wait" /\ l.connStep = k.connStep
  /\ l.step = roundUp(k.connStep, S!ChunkSteps(k.op)) /\ l.post = l.step
  /\ l.left = S!Slices(k.op) /\ l.i = k.i /\ l.posting = k.posting
  /\ l.aborted = k.aborted /\ l.got = k.got

SpinRel(k, l) ==
  /\ k.pc = "wait" /\ k.left > 0
  /\ l.op = k.op /\ l.pc = k.pc /\ l.connStep = k.connStep
  /\ l.step = k.step /\ l.post = k.post /\ l.left = k.left
  /\ l.ptr = k.ptr /\ l.i = k.i /\ l.posting = k.posting
  /\ l.aborted = k.aborted /\ l.got = k.got

WaitRel(k, l) ==
  /\ k.pc = "wait" /\ k.left > 0
  /\ l.op = k.op /\ l.pc = "copy" /\ l.connStep = k.connStep
  /\ l.step = k.step + S!Sps(k.op) /\ l.post = k.post /\ l.left = k.left
  /\ l.ptr = k.step % NCCL_STEPS /\ l.i = 0 /\ l.posting = k.posting
  /\ l.got = k.got

LastStep(k) == k.aborted \/ k.i + 1 = S!Sps(k.op)

CopyRel(k, l) ==
  /\ k.pc = "copy" /\ ~k.posting
  /\ l.op = k.op /\ l.connStep = k.connStep /\ l.step = k.step
  /\ l.post = k.post /\ l.cache = k.cache /\ l.ptr = k.ptr
  /\ l.aborted = k.aborted
  /\ LastStep(k) => l.pc = "wait" /\ l.i = 0 /\ l.left = k.left - 1
                    /\ l.posting = TRUE
  /\ ~LastStep(k) => l.pc = "copy" /\ l.i = k.i + 1 /\ l.left = k.left
                     /\ l.posting = FALSE

PostRel(k, l) ==
  /\ k.posting
  /\ l.op = k.op /\ l.pc = k.pc /\ l.connStep = k.connStep
  /\ l.step = k.step /\ l.post = k.post + S!Sps(k.op) /\ l.cache = k.cache
  /\ l.left = k.left /\ l.ptr = k.ptr /\ l.i = k.i /\ l.posting = FALSE
  /\ l.aborted = k.aborted /\ l.got = k.got

SaveRel(k, l) ==
  /\ k.pc = "wait" /\ k.left = 0 /\ ~k.posting
  /\ l.op = k.op + 1 /\ l.pc = "load" /\ l.connStep = k.post
  /\ l.step = k.step /\ l.post = k.post /\ l.cache = k.cache
  /\ l.i = k.i /\ l.posting = FALSE
  /\ l.aborted = k.aborted /\ l.got = k.got

----------------------------------------------------------------------------
(* Begin is a datum, at or after the step it is given. *)
LEMMA BeginFacts ==
  ASSUME NEW o \in Nat \ {0}, NEW s \in Nat
  PROVE  /\ Begin(o, s).op = o /\ Begin(o, s).off = 0
         /\ Begin(o, s).step \in Nat /\ Begin(o, s).step >= s
         /\ Begin(o, s) = S!Datum(o, 0, Begin(o, s).step)
<1>1. CASE o <= Len(Ops)
  <2>1. Len(Ops) \in Nat
    BY OpsAssumption
  <2>2. o \in 1 .. Len(Ops)
    BY <1>1, <2>1
  <2>3. S!ChunkSteps(o) \in Nat \ {0}
    BY <2>2, OpFacts
  <2>4. roundUp(s, S!ChunkSteps(o)) \in Nat /\ s <= roundUp(s, S!ChunkSteps(o))
    BY <2>3, RoundUpProps
  <2> QED
    BY <1>1, <2>4 DEF Begin, S!Datum
<1>2. CASE ~(o <= Len(Ops))
  BY <1>2 DEF Begin, S!Datum
<1> QED
  BY <1>1, <1>2

(* loadConn keeps the registers consistent and the position. *)
LEMMA LoadLemma ==
  ASSUME NEW k \in Kernels, NEW l \in Kernels, KernOK(k), LoadRel(k, l)
  PROVE  KernOK(l) /\ Pos(l) = Pos(k)
<1>1. k.op \in 1 .. Len(Ops) /\ k.connStep \in Nat /\ k.i = 0 /\ ~k.posting
  <2>1. Len(Ops) \in Nat /\ k.op \in Nat /\ k.connStep \in Nat
    BY OpsAssumption DEF Kernels
  <2> QED
    BY <2>1 DEF LoadRel, KernOK
<1>2. PICK b \in Nat : b = roundUp(k.connStep, S!ChunkSteps(k.op))
                       /\ b % S!ChunkSteps(k.op) = 0
  BY <1>1, OpFacts, RoundUpProps
<1>3. b % S!Sps(k.op) = 0
  BY <1>1, <1>2, OpFacts
<1>4. /\ l.op = k.op /\ l.pc = "wait" /\ l.step = b /\ l.post = b
      /\ l.left = S!Slices(k.op) /\ l.i = 0 /\ ~l.posting
  BY <1>1, <1>2 DEF LoadRel
<1>5. S!Slices(k.op) \in Nat \ {0} /\ S!Sps(k.op) \in Nat \ {0}
      /\ S!OpSteps(k.op) = S!Slices(k.op) * S!Sps(k.op)
      /\ S!OpSteps(k.op) \in Nat
  BY <1>1, OpFacts
<1>6. KernOK(l)
  BY <1>1, <1>3, <1>4, <1>5 DEF KernOK
<1>7. Pos(k) = S!Datum(k.op, 0, b)
  BY <1>1, <1>2 DEF Pos, Begin, LoadRel
<1>8. Pos(l) = S!Datum(k.op, 0, b)
  BY <1>4, <1>5 DEF Pos
<1> QED
  BY <1>6, <1>7, <1>8

(* Polling changes nothing but the cached counter. *)
LEMMA SpinLemma ==
  ASSUME NEW k \in Kernels, NEW l \in Kernels, KernOK(k), SpinRel(k, l)
  PROVE  KernOK(l) /\ Pos(l) = Pos(k)
  BY DEF KernOK, SpinRel, Pos

(* waitPeer hands over the next slice. *)
LEMMA WaitLemma ==
  ASSUME NEW k \in Kernels, NEW l \in Kernels, KernOK(k), WaitRel(k, l)
  PROVE  KernOK(l) /\ Pos(l) = Pos(k)
<1>1. k.op \in 1 .. Len(Ops) /\ k.step \in Nat /\ k.post \in Nat
      /\ k.left \in Nat /\ k.left > 0 /\ k.i = 0 /\ l.left = k.left
      /\ k.pc = "wait"
  <2>1. Len(Ops) \in Nat /\ k.op \in Nat
    BY OpsAssumption DEF Kernels
  <2> QED
    BY <2>1 DEF WaitRel, KernOK, Kernels
<1>2. PICK s \in Nat \ {0} : s = S!Sps(k.op)
  BY <1>1, OpFacts
<1>3. k.step % s = 0 /\ k.left <= S!Slices(k.op)
      /\ k.step = k.post + (IF k.posting THEN s ELSE 0)
  BY <1>1, <1>2 DEF KernOK
<1>4. (k.step + s) % s = 0
  BY <1>1, <1>3, ModAdd
<1>5. /\ l.op = k.op /\ l.pc = "copy" /\ l.step = k.step + s
      /\ l.post = k.post /\ l.ptr = k.step % NCCL_STEPS /\ l.i = 0
      /\ l.posting = k.posting
  BY <1>2 DEF WaitRel
<1>6. l.step - s = k.step
  BY <1>1, <1>5
<1>7. KernOK(l)
  <2>1. l.step = l.post + s + (IF l.posting THEN s ELSE 0)
    BY <1>1, <1>3, <1>5
  <2>2. l.step % s = 0
    BY <1>4, <1>5
  <2>3. l.ptr = (l.step - s) % NCCL_STEPS
    BY <1>5, <1>6
  <2>4. l.op >= 1 /\ l.op <= Len(Ops)
    <3>1. Len(Ops) \in Nat
      BY OpsAssumption
    <3> QED
      BY <1>1, <1>5, <3>1
  <2>5. S!Sps(l.op) = s /\ S!Slices(l.op) = S!Slices(k.op)
    BY <1>2, <1>5
  <2> QED
    BY <1>1, <1>3, <1>5, <2>1, <2>2, <2>3, <2>4, <2>5 DEF KernOK
<1>8. Pos(l) = Pos(k)
  BY <1>1, <1>2, <1>5, <1>6 DEF Pos
<1> QED
  BY <1>7, <1>8

(* postPeer catches up with the copy. *)
LEMMA PostLemma ==
  ASSUME NEW k \in Kernels, NEW l \in Kernels, KernOK(k), PostRel(k, l)
  PROVE  KernOK(l) /\ Pos(l) = Pos(k)
<1>1. k.op \in 1 .. Len(Ops) /\ k.step \in Nat /\ k.post \in Nat
      /\ k.pc # "load"
  <2>1. Len(Ops) \in Nat /\ k.op \in Nat
    BY OpsAssumption DEF Kernels
  <2> QED
    BY <2>1 DEF PostRel, KernOK, Kernels
<1>2. PICK s \in Nat \ {0} : s = S!Sps(k.op)
  BY <1>1, OpFacts
<1>3. KernOK(l)
  BY <1>1, <1>2 DEF PostRel, KernOK
<1>4. Pos(l) = Pos(k)
  BY DEF PostRel, Pos
<1> QED
  BY <1>3, <1>4

(* The step saved is the one the next operation begins from. *)
LEMMA SaveLemma ==
  ASSUME NEW k \in Kernels, NEW l \in Kernels, KernOK(k), SaveRel(k, l)
  PROVE  KernOK(l) /\ Pos(l) = Pos(k)
<1>1. k.op \in Nat /\ k.op >= 1 /\ k.step \in Nat /\ k.post \in Nat
  BY DEF Kernels, KernOK
<1>2. k.step = k.post
  BY <1>1 DEF SaveRel, KernOK
<1>3. KernOK(l)
  BY <1>1, <1>2 DEF SaveRel, KernOK
<1>4. Pos(l) = Pos(k)
  BY <1>1, <1>2 DEF SaveRel, Pos
<1> QED
  BY <1>3, <1>4

(* The position of a kernel: a datum of its operation or the next one, not *)
(* before what it has posted; inside the operation while it copies.        *)
LEMMA PosFacts ==
  ASSUME NEW k \in Kernels, KernOK(k)
  PROVE  /\ Pos(k).op \in Nat \ {0} /\ Pos(k).off \in Int
         /\ Pos(k).step \in Nat
         /\ Pos(k).step >= k.post
         /\ k.pc = "copy" =>
              /\ k.op \in 1 .. Len(Ops)
              /\ Pos(k) = S!Datum(k.op,
                            S!OpSteps(k.op) - k.left * S!Sps(k.op) + k.i,
                            k.step - S!Sps(k.op) + k.i)
              /\ k.left * S!Sps(k.op) \in Nat
              /\ k.left * S!Sps(k.op) >= S!Sps(k.op)
              /\ k.left * S!Sps(k.op) <= S!OpSteps(k.op)
              /\ k.step - S!Sps(k.op) \in Nat
              /\ k.step - S!Sps(k.op) >= k.post
<1>0. k.op \in Nat \ {0} /\ Len(Ops) \in Nat
  BY OpsAssumption DEF Kernels, KernOK
<1>1. CASE k.pc = "load"
  <2>1. k.connStep \in Nat /\ k.post = k.connStep
    BY <1>1 DEF Kernels, KernOK
  <2> QED
    BY <1>0, <1>1, <2>1, BeginFacts DEF Pos
<1>2. CASE k.pc # "load"
  <2>1. k.op \in 1 .. Len(Ops)
    BY <1>0, <1>2 DEF KernOK
  <2>2. PICK s \in Nat \ {0}, n \in Nat \ {0}, t \in Nat \ {0} :
          s = S!Sps(k.op) /\ n = S!Slices(k.op) /\ t = S!OpSteps(k.op)
          /\ t = n * s
    BY <2>1, OpFacts
  <2>3. PICK f \in Nat, p \in Nat, c \in Nat :
          f = k.left /\ p = k.post /\ c = k.step /\ f <= n
          /\ c = p + (IF k.pc = "copy" THEN s ELSE 0)
                   + (IF k.posting THEN s ELSE 0)
    BY <1>2, <2>2 DEF Kernels, KernOK
  <2>4. f * s \in Nat /\ f * s <= t
    <3>1. n - f \in Nat /\ n - f \in Int
      BY <2>3
    <3>2. s * (n - f) = s * n - s * f
      BY <3>1, MulDist
    <3>3. s * (n - f) >= 0 /\ s * f \in Nat
      BY <3>1
    <3>4. s * f = f * s /\ s * n = n * s /\ s * n \in Int
      OBVIOUS
    <3> QED
      BY <2>2, <3>2, <3>3, <3>4
  <2>5. CASE f = 0
    <3>1. k.pc # "copy"
      BY <2>3, <2>5 DEF KernOK
    <3>2. Pos(k) = Begin(k.op + 1, c)
      BY <1>2, <2>3, <2>5 DEF Pos
    <3>3. k.op + 1 \in Nat \ {0} /\ c >= p
      <4>1. c >= p
        BY <2>3
      <4> QED
        BY <1>0, <4>1
    <3> QED
      BY <2>3, <3>1, <3>2, <3>3, BeginFacts, SMTT(30)
  <2>6. CASE f # 0 /\ k.pc = "copy"
    <3>1. PICK x \in Nat : x = f * s /\ x >= s /\ x <= t
      BY <2>4, <2>6, MulSign
    <3>2. PICK j \in Nat : j = k.i
      BY DEF Kernels
    <3>3. Pos(k) = S!Datum(k.op, t - x + j, c - s + j)
      BY <1>2, <2>2, <2>3, <2>6, <3>1, <3>2 DEF Pos
    <3>4. c - s \in Nat /\ c - s >= p
      BY <2>3, <2>6
    <3>5. Pos(k).op = k.op /\ Pos(k).off = t - x + j
          /\ Pos(k).step = (c - s) + j
      BY <3>3 DEF S!Datum
    <3>6. Pos(k).off \in Int /\ Pos(k).step \in Nat /\ Pos(k).step >= p
      BY <3>4, <3>5
    <3> QED
      BY <1>0, <2>1, <2>2, <2>3, <3>1, <3>2, <3>3, <3>4, <3>5, <3>6
  <2>7. CASE f # 0 /\ k.pc # "copy"
    <3>1. k.i = 0
      BY <2>7 DEF KernOK
    <3>2. Pos(k) = S!Datum(k.op, t - f * s + 0, c - 0 + 0)
      BY <1>2, <2>2, <2>3, <2>7, <3>1 DEF Pos
    <3>3. c >= p
      BY <2>3
    <3>4. PICK x \in Nat : x = f * s
      BY <2>4
    <3>5. Pos(k).op = k.op /\ Pos(k).off = t - x + 0
          /\ Pos(k).step = c - 0 + 0
      BY <3>2, <3>4 DEF S!Datum
    <3>6. Pos(k).off \in Int /\ Pos(k).step \in Nat /\ Pos(k).step >= p
      BY <3>3, <3>5
    <3> QED
      BY <1>0, <2>3, <2>7, <3>5, <3>6
  <2> QED
    BY <2>5, <2>6, <2>7
<1> QED
  BY <1>1, <1>2

(* A successor has a later step. *)
LEMMA SuccFacts ==
  ASSUME NEW d, d.op \in 1 .. Len(Ops), d.off \in Nat, d.step \in Nat
  PROVE  /\ Succ(d).op \in Nat /\ Succ(d).op >= d.op
         /\ Succ(d).step \in Nat /\ Succ(d).step > d.step
         /\ Succ(d).op = d.op =>
              /\ d.off + 1 < S!OpSteps(d.op)
              /\ Succ(d).off = d.off + 1 /\ Succ(d).step = d.step + 1
         /\ Succ(d).op # d.op =>
              Succ(d).op > d.op /\ d.off + 1 >= S!OpSteps(d.op)
<1>0. Len(Ops) \in Nat
  BY OpsAssumption
<1>1. d.op \in Nat /\ d.op + 1 \in Nat \ {0} /\ d.step + 1 \in Nat
      /\ S!OpSteps(d.op) \in Nat
  BY <1>0, OpFacts, SMTT(30)
<1>2. CASE d.off + 1 < S!OpSteps(d.op)
  BY <1>1, <1>2 DEF Succ, S!Datum
<1>3. CASE ~(d.off + 1 < S!OpSteps(d.op))
  <2>1. Succ(d) = Begin(d.op + 1, d.step + 1)
    BY <1>3 DEF Succ
  <2>2. Succ(d).op = d.op + 1 /\ Succ(d).step \in Nat
        /\ Succ(d).step >= d.step + 1
    BY <1>1, <2>1, BeginFacts
  <2> QED
    BY <1>1, <1>3, <2>2
<1> QED
  BY <1>2, <1>3

(* A copied step moves the position to its successor. *)
LEMMA CopyLemma ==
  ASSUME NEW k \in Kernels, NEW l \in Kernels, KernOK(k), CopyRel(k, l)
  PROVE  KernOK(l) /\ (~k.aborted => Pos(l) = Succ(Pos(k)))
<1>1. k.pc = "copy" /\ ~k.posting
  BY DEF CopyRel
<1>2. k.op \in 1 .. Len(Ops) /\ Len(Ops) \in Nat
  BY <1>1, PosFacts, OpsAssumption
<1>3. PICK s \in Nat \ {0}, n \in Nat \ {0}, t \in Nat \ {0} :
        s = S!Sps(k.op) /\ n = S!Slices(k.op) /\ t = S!OpSteps(k.op)
  BY <1>2, OpFacts
<1>4. PICK f \in Nat \ {0}, p \in Nat, c \in Nat, i \in Nat :
        /\ f = k.left /\ p = k.post /\ c = k.step /\ i = k.i
        /\ f <= n /\ c = p + s /\ i < s
  <2>1. k.left \in Nat /\ k.post \in Nat /\ k.step \in Nat /\ k.i \in Nat
    BY DEF Kernels
  <2>2. /\ k.left > 0 /\ k.left <= n /\ k.i < s
        /\ k.step = k.post + s + 0
    BY <1>1, <1>3 DEF KernOK
  <2>3. k.step = k.post + s
    BY <2>1, <2>2
  <2> QED
    BY <2>1, <2>2, <2>3
<1>5. /\ l.op = k.op /\ l.step = c /\ l.post = p /\ l.ptr = k.ptr
      /\ l.aborted = k.aborted
  BY <1>4 DEF CopyRel
<1>8. c % s = 0 /\ k.ptr = (c - s) % NCCL_STEPS
  BY <1>1, <1>3, <1>4 DEF KernOK
<1>6. CASE LastStep(k)
  <2>1. l.pc = "wait" /\ l.i = 0 /\ l.left = f - 1 /\ l.posting = TRUE
    BY <1>4, <1>6 DEF CopyRel
  <2>2. KernOK(l)
    <3>1. l.step = l.post + 0 + s /\ f - 1 <= n
      BY <1>4, <1>5
    <3>2. l.op >= 1 /\ l.op <= Len(Ops)
      BY <1>2, <1>5
    <3>3. l.step % s = 0 /\ S!Sps(l.op) = s /\ S!Slices(l.op) = n
      BY <1>3, <1>5, <1>8
    <3> QED
      BY <2>1, <3>1, <3>2, <3>3 DEF KernOK
  <2>3. ASSUME ~k.aborted PROVE Pos(l) = Succ(Pos(k))
    <3>1. i + 1 = s
      BY <1>3, <1>4, <1>6, <2>3 DEF LastStep
    <3>2. PICK x \in Nat : x = f * s /\ x >= s /\ x <= t
      BY <1>1, <1>3, <1>4, PosFacts
    <3>3. Pos(k) = S!Datum(k.op, t - x + i, c - s + i)
      BY <1>1, <1>3, <1>4, <3>2, PosFacts
    <3>4. Pos(k).op = k.op /\ Pos(k).off + 1 = t - x + s /\ Pos(k).step + 1 = c
      <4>1. Pos(k).op = k.op /\ Pos(k).off = t - x + i
            /\ Pos(k).step = c - s + i
        BY <3>3 DEF S!Datum
      <4> QED
        BY <1>4, <3>1, <4>1
    <3>5. CASE f = 1
      <4>1. x = s
        BY <3>2, <3>5
      <4>2. Succ(Pos(k)) = Begin(k.op + 1, c)
        <5>1. ~(Pos(k).off + 1 < S!OpSteps(Pos(k).op))
          BY <1>3, <3>4, <4>1
        <5> QED
          BY <3>4, <5>1 DEF Succ
      <4>3. Pos(l) = Begin(k.op + 1, c)
        BY <1>5, <2>1, <3>5 DEF Pos
      <4> QED
        BY <4>2, <4>3
    <3>6. CASE f # 1
      <4>1. PICK g \in Nat \ {0} : g = f - 1
        BY <3>6
      <4>2. PICK y \in Nat : y = g * s /\ y >= s
        BY MulSign
      <4>3. x = y + s
        <5>1. s * (g + 1) = s * g + s * 1 /\ s * 1 = s
          BY MulDist
        <5>2. f = g + 1 /\ s * f = f * s /\ s * g = g * s
          BY <4>1
        <5> QED
          BY <3>2, <4>2, <5>1, <5>2
      <4>4. Succ(Pos(k)) = S!Datum(k.op, t - x + s, c)
        BY <1>3, <3>2, <3>4, <4>2, <4>3 DEF Succ
      <4>5. Pos(l) = S!Datum(k.op, t - y + 0, c - 0 + 0)
        BY <1>3, <1>5, <2>1, <4>1, <4>2 DEF Pos
      <4>6. t - y + 0 = t - x + s /\ c - 0 + 0 = c
        BY <4>3
      <4> QED
        BY <4>4, <4>5, <4>6
    <3> QED
      BY <3>5, <3>6
  <2> QED
    BY <2>2, <2>3
<1>7. CASE ~LastStep(k)
  <2>1. l.pc = "copy" /\ l.i = i + 1 /\ l.left = f /\ l.posting = FALSE
    BY <1>4, <1>7 DEF CopyRel
  <2>2. i + 1 < s
    BY <1>3, <1>4, <1>7 DEF LastStep
  <2>3. KernOK(l)
    <3>1. l.step = l.post + s + 0
      BY <1>4, <1>5
    <3>2. l.op >= 1 /\ l.op <= Len(Ops)
      BY <1>2, <1>5
    <3>3. l.step % s = 0 /\ S!Sps(l.op) = s /\ S!Slices(l.op) = n
          /\ l.ptr = (l.step - s) % NCCL_STEPS
      BY <1>3, <1>5, <1>8
    <3> QED
      BY <1>4, <2>1, <2>2, <3>1, <3>2, <3>3 DEF KernOK
  <2>4. PICK x \in Nat : x = f * s /\ x >= s /\ x <= t
    BY <1>1, <1>3, <1>4, PosFacts
  <2>5. Pos(k) = S!Datum(k.op, t - x + i, c - s + i)
    BY <1>1, <1>3, <1>4, <2>4, PosFacts
  <2>6. Succ(Pos(k)) = S!Datum(k.op, (t - x + i) + 1, (c - s + i) + 1)
    BY <1>3, <1>4, <2>2, <2>4, <2>5 DEF Succ, S!Datum
  <2>7. Pos(l) = S!Datum(k.op, t - x + (i + 1), c - s + (i + 1))
    BY <1>3, <1>5, <2>1, <2>4 DEF Pos
  <2>8. (t - x + i) + 1 = t - x + (i + 1) /\ (c - s + i) + 1 = c - s + (i + 1)
    BY <1>4
  <2> QED
    BY <2>3, <2>6, <2>7, <2>8
<1> QED
  BY <1>6, <1>7

(* The slice being copied lies inside the buffer, and its i-th slot is     *)
(* that of the i-th step.                                                  *)
LEMMA SlotFacts ==
  ASSUME NEW k \in Kernels, KernOK(k), k.pc = "copy"
  PROVE  /\ k.ptr + S!Sps(k.op) <= NCCL_STEPS
         /\ k.ptr + k.i \in Slots
         /\ \A j \in 0 .. S!Sps(k.op) - 1 :
              k.ptr + j = (k.step - S!Sps(k.op) + j) % NCCL_STEPS
<1>1. k.op \in 1 .. Len(Ops) /\ k.step - S!Sps(k.op) \in Nat
  BY PosFacts
<1>2. PICK s \in Nat \ {0}, n \in Nat \ {0} :
        s = S!Sps(k.op) /\ n = NCCL_STEPS /\ n % s = 0
  BY <1>1, OpFacts, StepsAssumption
<1>3. PICK a \in Nat : a = k.step - s
  BY <1>1, <1>2
<1>4. k.step \in Nat /\ k.i \in Nat /\ k.i < s
  BY <1>2 DEF Kernels, KernOK
<1>5. k.ptr = a % n /\ k.step % s = 0
  BY <1>2, <1>3 DEF KernOK
<1>6. a % s = 0
  <2>1. PICK q \in Int : k.step = s * q
    <3>1. k.step \in Int
      BY <1>4
    <3> QED
      BY <1>5, <3>1, ZeroMod
  <2>2. a = s * (q - 1) /\ q - 1 \in Int
    BY <1>3, <1>4, <2>1, MulDist
  <2> QED
    BY <2>2, ModZero
<1>7. PICK m \in Nat : m = a % n /\ m + s <= n
  <2>1. a \in Int
    OBVIOUS
  <2>2. a % n \in Nat
    BY <2>1, DivMod
  <2> QED
    BY <1>2, <1>6, <2>2, SliceFits
<1>8. \A j \in 0 .. s - 1 : (a + j) % n = m + j
  <2> TAKE j \in 0 .. s - 1
  <2>1. j \in Nat /\ m + j < n
    BY <1>7
  <2> QED
    BY <1>7, <2>1, ModShift
<1>9. k.ptr = m
  BY <1>5, <1>7
<1>10. m + k.i \in 0 .. n - 1
  BY <1>4, <1>7
<1> QED
  BY <1>2, <1>3, <1>7, <1>8, <1>9, <1>10 DEF Slots

(* What the actions of the sender's kernel do to its registers. *)
LEMMA SendRels ==
  ASSUME TypeOK, KernOK(snd)
  PROVE  /\ S!loadConn => snd' \in Kernels /\ LoadRel(snd, snd')
         /\ S!waitPeerSpin => snd' \in Kernels /\ SpinRel(snd, snd')
         /\ S!waitPeer => snd' \in Kernels /\ WaitRel(snd, snd')
         /\ S!reduceCopy => snd' \in Kernels /\ CopyRel(snd, snd')
         /\ S!postPeer => snd' \in Kernels /\ PostRel(snd, snd')
         /\ S!saveConn => snd' \in Kernels /\ SaveRel(snd, snd')
<1>0. snd \in Kernels /\ Len(Ops) \in Nat /\ head \in Nat /\ tail \in Nat
      /\ snd.op \in Nat \ {0}
  <2>1. snd \in Kernels /\ head \in Nat /\ tail \in Nat
    BY DEF TypeOK
  <2>2. snd.op \in Nat /\ snd.op >= 1
    BY <2>1 DEF KernOK, Kernels
  <2> QED
    BY <2>1, <2>2, OpsAssumption
<1>1. ASSUME S!loadConn PROVE snd' \in Kernels /\ LoadRel(snd, snd')
  <2>1. snd.op \in 1 .. Len(Ops) /\ snd.pc = "load"
    BY <1>0, <1>1 DEF S!loadConn, S!Finished
  <2>2. S!ChunkSteps(snd.op) = S!ChunkSteps(snd.op)
        /\ S!Slices(snd.op) = S!Slices(snd.op)
    BY SameOps
  <2>3. PICK r \in Nat : r = roundUp(snd.connStep, S!ChunkSteps(snd.op))
    BY <1>0, <2>1, OpFacts, RoundUpProps DEF Kernels
  <2>4. S!Slices(snd.op) \in Nat
    BY <2>1, OpFacts
  <2>5. snd' = [snd EXCEPT !.pc = "wait", !.step = r, !.post = r,
                          !.cache = head,
                          !.left = S!Slices(snd.op)]
    BY <1>1, <2>2, <2>3, SameRound DEF S!loadConn
  <2>6. snd' \in Kernels
    BY <1>0, <2>4, <2>5 DEF Kernels
  <2>7. LoadRel(snd, snd')
    BY <1>0, <2>1, <2>3, <2>5 DEF LoadRel, Kernels
  <2> QED
    BY <2>6, <2>7
<1>2. ASSUME S!waitPeerSpin PROVE snd' \in Kernels /\ SpinRel(snd, snd')
  BY <1>0, <1>2 DEF S!waitPeerSpin, SpinRel, Kernels
<1>3. ASSUME S!waitPeer PROVE snd' \in Kernels /\ WaitRel(snd, snd')
  <2>1. snd.op \in 1 .. Len(Ops)
    BY <1>0, <1>3 DEF S!waitPeer, KernOK
  <2>2. snd.step + S!Sps(snd.op) \in Nat
    <3>1. snd.step \in Nat
      BY <1>0 DEF Kernels
    <3>2. S!Sps(snd.op) \in Nat
      BY <2>1, OpFacts
    <3> QED
      BY <3>1, <3>2
  <2>3. snd.step % NCCL_STEPS \in Nat
    <3>1. snd.step \in Int
      BY <1>0 DEF Kernels
    <3>2. snd.step % NCCL_STEPS \in 0 .. NCCL_STEPS - 1
      BY <3>1, StepsAssumption, DivMod
    <3> QED
      BY <3>2, StepsAssumption
  <2>4. PICK c \in Nat, a \in BOOLEAN :
          snd' = [snd EXCEPT !.pc = "copy", !.i = 0,
                    !.step = snd.step + S!Sps(snd.op), !.cache = c,
                    !.aborted = a, !.ptr = snd.step % NCCL_STEPS]
    BY <1>0, <1>3, SameOps DEF S!waitPeer, Kernels
  <2>5. snd' \in Kernels
    BY <1>0, <2>2, <2>3, <2>4 DEF Kernels
  <2>6. snd.pc = "wait" /\ snd.left > 0
    BY <1>3 DEF S!waitPeer
  <2>7. WaitRel(snd, snd')
    BY <1>0, <2>4, <2>6 DEF WaitRel, Kernels
  <2> QED
    BY <2>5, <2>7
<1>4. ASSUME S!reduceCopy PROVE snd' \in Kernels /\ CopyRel(snd, snd')
  <2>1. snd.pc = "copy" /\ ~snd.posting /\ snd.left \in Nat \ {0}
        /\ snd.i \in Nat
    BY <1>0, <1>4 DEF S!reduceCopy, KernOK, Kernels
  <2>2. PICK g \in [op : Nat, off : Int, step : Nat] :
          snd' = IF LastStep(snd)
                 THEN [snd EXCEPT !.pc = "wait", !.i = 0,
                         !.left = snd.left - 1, !.posting = TRUE, !.got = g]
                 ELSE [snd EXCEPT !.i = snd.i + 1, !.got = g]
    BY <1>0, <1>4, SameOps DEF S!reduceCopy, LastStep, Kernels
  <2>3. snd' \in Kernels
    <3>1. PICK f \in Nat, j \in Nat : f = snd.left - 1 /\ j = snd.i + 1
      BY <2>1
    <3>2. CASE LastStep(snd)
      <4>1. snd' = [snd EXCEPT !.pc = "wait", !.i = 0, !.left = f,
                              !.posting = TRUE, !.got = g]
        BY <2>2, <3>1, <3>2
      <4> QED
        BY <1>0, <4>1 DEF Kernels
    <3>3. CASE ~LastStep(snd)
      <4>1. snd' = [snd EXCEPT !.i = j, !.got = g]
        BY <2>2, <3>1, <3>3
      <4> QED
        BY <1>0, <4>1 DEF Kernels
    <3> QED
      BY <3>2, <3>3
  <2>4. CopyRel(snd, snd')
    BY <1>0, <2>1, <2>2 DEF CopyRel, Kernels
  <2> QED
    BY <2>3, <2>4
<1>5. ASSUME S!postPeer PROVE snd' \in Kernels /\ PostRel(snd, snd')
  <2>1. snd.op \in 1 .. Len(Ops)
    BY <1>0, <1>5 DEF S!postPeer, KernOK
  <2>2. snd.post + S!Sps(snd.op) \in Nat
    <3>1. snd.post \in Nat
      BY <1>0 DEF Kernels
    <3>2. S!Sps(snd.op) \in Nat
      BY <2>1, OpFacts
    <3> QED
      BY <3>1, <3>2
  <2>3. snd' = [snd EXCEPT !.posting = FALSE,
                          !.post = snd.post + S!Sps(snd.op)]
    BY <1>0, <1>5, SameOps DEF S!postPeer, Kernels
  <2>4. snd' \in Kernels
    BY <1>0, <2>2, <2>3 DEF Kernels
  <2>5. snd.posting
    BY <1>5 DEF S!postPeer
  <2>6. PostRel(snd, snd')
    BY <1>0, <2>3, <2>5 DEF PostRel, Kernels
  <2> QED
    BY <2>4, <2>6
<1>6. ASSUME S!saveConn PROVE snd' \in Kernels /\ SaveRel(snd, snd')
  <2>1. PICK o \in Nat : o = snd.op + 1
    BY <1>0
  <2>2. snd' = [snd EXCEPT !.pc = "load", !.op = o, !.connStep = snd.post]
    BY <1>6, <2>1 DEF S!saveConn
  <2>3. snd' \in Kernels
    BY <1>0, <2>2 DEF Kernels
  <2>4. snd.pc = "wait" /\ snd.left = 0 /\ snd.posting = FALSE
    BY <1>0, <1>6 DEF S!saveConn, Kernels
  <2>5. SaveRel(snd, snd')
    BY <1>0, <2>1, <2>2, <2>4 DEF SaveRel, Kernels
  <2> QED
    BY <2>3, <2>5
<1> QED
  BY <1>1, <1>2, <1>3, <1>4, <1>5, <1>6

(* What the actions of the receiver's kernel do to its registers. *)
LEMMA RecvRels ==
  ASSUME TypeOK, KernOK(rcv)
  PROVE  /\ R!loadConn => rcv' \in Kernels /\ LoadRel(rcv, rcv')
         /\ R!waitPeerSpin => rcv' \in Kernels /\ SpinRel(rcv, rcv')
         /\ R!waitPeer => rcv' \in Kernels /\ WaitRel(rcv, rcv')
         /\ R!reduceCopy => rcv' \in Kernels /\ CopyRel(rcv, rcv')
         /\ R!postPeer => rcv' \in Kernels /\ PostRel(rcv, rcv')
         /\ R!saveConn => rcv' \in Kernels /\ SaveRel(rcv, rcv')
<1>0. rcv \in Kernels /\ Len(Ops) \in Nat /\ head \in Nat /\ tail \in Nat
      /\ rcv.op \in Nat \ {0}
  <2>1. rcv \in Kernels /\ head \in Nat /\ tail \in Nat
    BY DEF TypeOK
  <2>2. rcv.op \in Nat /\ rcv.op >= 1
    BY <2>1 DEF KernOK, Kernels
  <2> QED
    BY <2>1, <2>2, OpsAssumption
<1>1. ASSUME R!loadConn PROVE rcv' \in Kernels /\ LoadRel(rcv, rcv')
  <2>1. rcv.op \in 1 .. Len(Ops) /\ rcv.pc = "load"
    BY <1>0, <1>1 DEF R!loadConn, R!Finished
  <2>2. R!ChunkSteps(rcv.op) = S!ChunkSteps(rcv.op)
        /\ R!Slices(rcv.op) = S!Slices(rcv.op)
    BY SameOps
  <2>3. PICK r \in Nat : r = roundUp(rcv.connStep, S!ChunkSteps(rcv.op))
    BY <1>0, <2>1, OpFacts, RoundUpProps DEF Kernels
  <2>4. S!Slices(rcv.op) \in Nat
    BY <2>1, OpFacts
  <2>5. rcv' = [rcv EXCEPT !.pc = "wait", !.step = r, !.post = r,
                          !.cache = tail,
                          !.left = S!Slices(rcv.op)]
    BY <1>1, <2>2, <2>3, SameRound DEF R!loadConn
  <2>6. rcv' \in Kernels
    BY <1>0, <2>4, <2>5 DEF Kernels
  <2>7. LoadRel(rcv, rcv')
    BY <1>0, <2>1, <2>3, <2>5 DEF LoadRel, Kernels
  <2> QED
    BY <2>6, <2>7
<1>2. ASSUME R!waitPeerSpin PROVE rcv' \in Kernels /\ SpinRel(rcv, rcv')
  BY <1>0, <1>2 DEF R!waitPeerSpin, SpinRel, Kernels
<1>3. ASSUME R!waitPeer PROVE rcv' \in Kernels /\ WaitRel(rcv, rcv')
  <2>1. rcv.op \in 1 .. Len(Ops)
    BY <1>0, <1>3 DEF R!waitPeer, KernOK
  <2>2. rcv.step + S!Sps(rcv.op) \in Nat
    <3>1. rcv.step \in Nat
      BY <1>0 DEF Kernels
    <3>2. S!Sps(rcv.op) \in Nat
      BY <2>1, OpFacts
    <3> QED
      BY <3>1, <3>2
  <2>3. rcv.step % NCCL_STEPS \in Nat
    <3>1. rcv.step \in Int
      BY <1>0 DEF Kernels
    <3>2. rcv.step % NCCL_STEPS \in 0 .. NCCL_STEPS - 1
      BY <3>1, StepsAssumption, DivMod
    <3> QED
      BY <3>2, StepsAssumption
  <2>4. PICK c \in Nat, a \in BOOLEAN :
          rcv' = [rcv EXCEPT !.pc = "copy", !.i = 0,
                    !.step = rcv.step + S!Sps(rcv.op), !.cache = c,
                    !.aborted = a, !.ptr = rcv.step % NCCL_STEPS]
    BY <1>0, <1>3, SameOps DEF R!waitPeer, Kernels
  <2>5. rcv' \in Kernels
    BY <1>0, <2>2, <2>3, <2>4 DEF Kernels
  <2>6. rcv.pc = "wait" /\ rcv.left > 0
    BY <1>3 DEF R!waitPeer
  <2>7. WaitRel(rcv, rcv')
    BY <1>0, <2>4, <2>6 DEF WaitRel, Kernels
  <2> QED
    BY <2>5, <2>7
<1>4. ASSUME R!reduceCopy PROVE rcv' \in Kernels /\ CopyRel(rcv, rcv')
  <2>1. rcv.pc = "copy" /\ ~rcv.posting /\ rcv.left \in Nat \ {0}
        /\ rcv.i \in Nat
    BY <1>0, <1>4 DEF R!reduceCopy, KernOK, Kernels
  <2>2. PICK g \in [op : Nat, off : Int, step : Nat] :
          rcv' = IF LastStep(rcv)
                 THEN [rcv EXCEPT !.pc = "wait", !.i = 0,
                         !.left = rcv.left - 1, !.posting = TRUE, !.got = g]
                 ELSE [rcv EXCEPT !.i = rcv.i + 1, !.got = g]
    <3>1. \A x \in Slots : buff[x] \in [op : Nat, off : Int, step : Nat]
      BY DEF TypeOK
    <3>2. rcv.ptr + rcv.i \in Slots
      BY <1>0, <2>1, SlotFacts
    <3> QED
      BY <1>0, <1>4, <3>1, <3>2, SameOps DEF R!reduceCopy, LastStep, Kernels
  <2>3. rcv' \in Kernels
    <3>1. PICK f \in Nat, j \in Nat : f = rcv.left - 1 /\ j = rcv.i + 1
      BY <2>1
    <3>2. CASE LastStep(rcv)
      <4>1. rcv' = [rcv EXCEPT !.pc = "wait", !.i = 0, !.left = f,
                              !.posting = TRUE, !.got = g]
        BY <2>2, <3>1, <3>2
      <4> QED
        BY <1>0, <4>1 DEF Kernels
    <3>3. CASE ~LastStep(rcv)
      <4>1. rcv' = [rcv EXCEPT !.i = j, !.got = g]
        BY <2>2, <3>1, <3>3
      <4> QED
        BY <1>0, <4>1 DEF Kernels
    <3> QED
      BY <3>2, <3>3
  <2>4. CopyRel(rcv, rcv')
    BY <1>0, <2>1, <2>2 DEF CopyRel, Kernels
  <2> QED
    BY <2>3, <2>4
<1>5. ASSUME R!postPeer PROVE rcv' \in Kernels /\ PostRel(rcv, rcv')
  <2>1. rcv.op \in 1 .. Len(Ops)
    BY <1>0, <1>5 DEF R!postPeer, KernOK
  <2>2. rcv.post + S!Sps(rcv.op) \in Nat
    <3>1. rcv.post \in Nat
      BY <1>0 DEF Kernels
    <3>2. S!Sps(rcv.op) \in Nat
      BY <2>1, OpFacts
    <3> QED
      BY <3>1, <3>2
  <2>3. rcv' = [rcv EXCEPT !.posting = FALSE,
                          !.post = rcv.post + S!Sps(rcv.op)]
    BY <1>0, <1>5, SameOps DEF R!postPeer, Kernels
  <2>4. rcv' \in Kernels
    BY <1>0, <2>2, <2>3 DEF Kernels
  <2>5. rcv.posting
    BY <1>5 DEF R!postPeer
  <2>6. PostRel(rcv, rcv')
    BY <1>0, <2>3, <2>5 DEF PostRel, Kernels
  <2> QED
    BY <2>4, <2>6
<1>6. ASSUME R!saveConn PROVE rcv' \in Kernels /\ SaveRel(rcv, rcv')
  <2>1. PICK o \in Nat : o = rcv.op + 1
    BY <1>0
  <2>2. rcv' = [rcv EXCEPT !.pc = "load", !.op = o, !.connStep = rcv.post]
    BY <1>6, <2>1 DEF R!saveConn
  <2>3. rcv' \in Kernels
    BY <1>0, <2>2 DEF Kernels
  <2>4. rcv.pc = "wait" /\ rcv.left = 0 /\ rcv.posting = FALSE
    BY <1>0, <1>6 DEF R!saveConn, Kernels
  <2>5. SaveRel(rcv, rcv')
    BY <1>0, <2>1, <2>2, <2>4 DEF SaveRel, Kernels
  <2> QED
    BY <2>3, <2>5
<1> QED
  BY <1>1, <1>2, <1>3, <1>4, <1>5, <1>6

----------------------------------------------------------------------------
Data == [op : Nat, off : Int, step : Nat]

(* The fields of a datum of a sequence. *)
LEMMA DataOfSeq ==
  ASSUME NEW ch \in Seq(Data), NEW j \in 1 .. Len(ch)
  PROVE  ch[j].op \in Nat /\ ch[j].off \in Int /\ ch[j].step \in Nat
<1>1. ch[j] \in Data
  BY ElementOfSeq
<1> QED
  BY <1>1 DEF Data

(* Credits the receiver returns below its position leave the data alone.   *)
LEMMA InFlightHead ==
  ASSUME NEW ch \in Seq(Data), NEW b, NEW h \in Nat, NEW g \in Nat,
         NEW from, NEW to, InFlight(ch, b, h, from, to),
         from.step \in Nat, h <= g, g <= from.step
  PROVE  InFlight(ch, b, g, from, to)
<1>0. NCCL_STEPS \in Nat /\ Len(ch) \in Nat
  BY StepsAssumption
<1>1. \A j \in 1 .. Len(ch) : ch[j].step \in Nat
  BY DataOfSeq
<1>2. \A j \in 1 .. Len(ch) : g <= ch[j].step
  <2> TAKE j \in 1 .. Len(ch)
  <2>1. ch # <<>> /\ 1 \in 1 .. Len(ch) /\ 1 <= j
    BY <1>0
  <2>2. ch[1] = from
    BY <2>1 DEF InFlight
  <2>3. CASE j = 1
    BY <2>2, <2>3
  <2>4. CASE j # 1
    <3>1. 1 < j
      BY <1>0, <2>4
    <3>2. ch[j].step >= ch[1].step + (j - 1)
      BY <2>1, <3>1 DEF InFlight
    <3> QED
      BY <1>1, <2>1, <2>2, <3>2
  <2> QED
    BY <2>3, <2>4
<1>3. \A j \in 1 .. Len(ch) : ch[j].step < g + NCCL_STEPS
  <2> TAKE j \in 1 .. Len(ch)
  <2>1. ch[j].step < h + NCCL_STEPS
    BY DEF InFlight
  <2> QED
    BY <1>0, <1>1, <2>1
<1> QED
  BY <1>2, <1>3 DEF InFlight

(* The distance from one datum to the last, and from there to the next.    *)
LEMMA SpanArith ==
  ASSUME NEW m \in Nat,
         NEW p \in Nat, NEW u \in Nat, NEW x \in Nat, NEW t \in Nat,
         NEW q \in Nat, NEW v \in Nat, NEW y \in Nat, NEW r \in Nat,
         NEW o \in Nat, NEW w \in Nat, NEW z \in Nat,
         p = q => v = u + m /\ y = x + m /\ r = t,
         p # q => p < q /\ m >= t - u,
         o >= q, z > y, y >= x + m,
         o = q => w = v + 1 /\ z = y + 1,
         o # q => o > q /\ v + 1 >= r
  PROVE  /\ p = o => w = u + (m + 1) /\ z = x + (m + 1)
         /\ p # o => p < o /\ m + 1 >= t - u
         /\ z >= x + (m + 1)
  OBVIOUS

(* Writing the datum at the sender's position, into the slot of its step,  *)
(* appends it to the data in flight and disturbs none of them.             *)
LEMMA InFlightSend ==
  ASSUME NEW ch \in Seq(Data), NEW b \in [Slots -> Data], NEW h \in Nat,
         NEW from, NEW d \in Data, InFlight(ch, b, h, from, d),
         h <= from.step, from.step \in Nat,
         d.op \in 1 .. Len(Ops), d.off \in 0 .. S!OpSteps(d.op) - 1,
         d.step < h + NCCL_STEPS
  PROVE  InFlight(Append(ch, d), [b EXCEPT ![d.step % NCCL_STEPS] = d],
                  h, from, Succ(d))
<1> DEFINE c2 == Append(ch, d)
           b2 == [b EXCEPT ![d.step % NCCL_STEPS] = d]
<1>n. PICK n \in Nat : n = Len(ch)
  OBVIOUS
<1>0. /\ NCCL_STEPS \in Nat \ {0} /\ Len(Ops) \in Nat
      /\ d.op \in Nat /\ d.off \in Nat /\ d.step \in Nat
      /\ S!OpSteps(d.op) \in Nat
  <2>1. S!OpSteps(d.op) \in Nat
    BY OpFacts
  <2>2. d.op \in Nat /\ d.step \in Nat
    BY DEF Data
  <2> QED
    BY <2>1, <2>2, StepsAssumption, OpsAssumption
<1>1. /\ Len(c2) = n + 1 /\ c2[n + 1] = d /\ c2 # <<>>
      /\ \A j \in 1 .. n : c2[j] = ch[j]
  BY <1>n, AppendProperties
<1>b. b2[d.step % NCCL_STEPS] = d
      /\ \A x \in Slots : x # d.step % NCCL_STEPS => b2[x] = b[x]
  <2>1. d.step \in Int /\ NCCL_STEPS \in Nat \ {0}
    BY <1>0
  <2>2. d.step % NCCL_STEPS \in Slots
    BY <2>1, DivMod DEF Slots
  <2> QED
    BY <2>2
<1> HIDE DEF c2, b2
<1>2. \A j \in 1 .. n : ch[j] \in Data /\ ch[j].op \in Nat
                        /\ ch[j].off \in Nat /\ ch[j].step \in Nat
                        /\ S!OpSteps(ch[j].op) \in Nat
  <2> TAKE j \in 1 .. n
  <2>1. ch[j] \in Data /\ ch[j].op \in Nat /\ ch[j].step \in Nat
    BY <1>n, ElementOfSeq, DataOfSeq
  <2>2. ch[j].op \in 1 .. Len(Ops) /\ ch[j].off \in 0 .. S!OpSteps(ch[j].op) - 1
    BY <1>n DEF InFlight
  <2>3. S!OpSteps(ch[j].op) \in Nat
    BY <2>2, OpFacts
  <2> QED
    BY <2>1, <2>2, <2>3
<1>3. /\ Succ(d).step \in Nat /\ Succ(d).step > d.step
  BY <1>0, SuccFacts
<1>4. \A j \in 1 .. n : ch[j].step < d.step
  BY <1>n DEF InFlight
<1>5. ASSUME n # 0 PROVE n \in 1 .. n /\ ch # <<>> /\ d = Succ(ch[n])
  <2>1. n \in 1 .. n /\ ch # <<>>
    BY <1>n, <1>5
  <2> QED
    BY <1>n, <2>1 DEF InFlight
<1>6. h <= d.step
  <2>1. CASE n = 0
    <3>1. ch = <<>>
      BY <1>n, <2>1, EmptySeq
    <3> QED
      BY <3>1 DEF InFlight
  <2>2. CASE n # 0
    <3>1. n \in 1 .. n
      BY <1>5, <2>2
    <3>2. h <= ch[n].step
      BY <1>n, <3>1 DEF InFlight
    <3>3. ch[n].step \in Nat /\ ch[n].step < d.step
      BY <1>2, <1>4, <3>1
    <3> QED
      BY <1>0, <3>2, <3>3
  <2> QED
    BY <2>1, <2>2
<1>7. c2[1] = from /\ Succ(c2[Len(c2)]) = Succ(d)
  <2>1. CASE n = 0
    <3>1. ch = <<>>
      BY <1>n, <2>1, EmptySeq
    <3>2. from = d
      BY <3>1 DEF InFlight
    <3> QED
      BY <1>1, <2>1, <3>2
  <2>2. CASE n # 0
    <3>1. ch # <<>> /\ 1 \in 1 .. n
      BY <1>5, <2>2
    <3>2. ch[1] = from
      BY <3>1 DEF InFlight
    <3> QED
      BY <1>1, <3>1, <3>2
  <2> QED
    BY <2>1, <2>2
<1>8. \A j \in 1 .. Len(c2) - 1 : c2[j + 1] = Succ(c2[j])
  <2> TAKE j \in 1 .. Len(c2) - 1
  <2>1. j \in 1 .. n /\ c2[j] = ch[j]
    BY <1>0, <1>1
  <2>2. CASE j = n
    <3>1. n # 0
      BY <1>0, <2>1, <2>2
    <3> QED
      BY <1>1, <1>5, <2>1, <2>2, <3>1
  <2>3. CASE j # n
    <3>1. j \in 1 .. n - 1 /\ j + 1 \in 1 .. n
      BY <1>0, <2>1, <2>3
    <3>2. ch[j + 1] = Succ(ch[j])
      BY <1>n, <3>1 DEF InFlight
    <3> QED
      BY <1>1, <2>1, <3>1, <3>2
  <2> QED
    BY <2>2, <2>3
<1>9. ASSUME NEW j \in 1 .. n
      PROVE  /\ d.step >= ch[j].step + (n + 1 - j)
             /\ ch[j].op = d.op => /\ d.off = ch[j].off + (n + 1 - j)
                                   /\ d.step = ch[j].step + (n + 1 - j)
             /\ ch[j].op # d.op =>
                  /\ ch[j].op < d.op
                  /\ n + 1 - j >= S!OpSteps(ch[j].op) - ch[j].off
  <2>1. n # 0 /\ n \in 1 .. n /\ d = Succ(ch[n])
    BY <1>0, <1>5
  <2>2. ch[n].op \in 1 .. Len(Ops)
    BY <1>n, <2>1 DEF InFlight
  <2>3. /\ d.op >= ch[n].op
        /\ d.op = ch[n].op => d.off = ch[n].off + 1 /\ d.step = ch[n].step + 1
        /\ d.op # ch[n].op => /\ d.op > ch[n].op
                              /\ ch[n].off + 1 >= S!OpSteps(ch[n].op)
    BY <1>2, <2>1, <2>2, SuccFacts
  <2>4. PICK m \in Nat : m = n - j
    OBVIOUS
  <2>5. /\ ch[n].step >= ch[j].step + m
        /\ ch[j].op = ch[n].op => /\ ch[n].off = ch[j].off + m
                                  /\ ch[n].step = ch[j].step + m
        /\ ch[j].op # ch[n].op =>
             /\ ch[j].op < ch[n].op
             /\ m >= S!OpSteps(ch[j].op) - ch[j].off
    <3>1. CASE j = n
      <4>1. m = 0 /\ ch[n] = ch[j]
        BY <2>4, <3>1
      <4>2. ch[j].off \in Nat /\ ch[j].step \in Nat
        BY <1>2
      <4> QED
        BY <4>1, <4>2
    <3>2. CASE j # n
      <4>1. j < n
        BY <3>2
      <4> QED
        BY <1>n, <2>1, <2>4, <4>1 DEF InFlight
    <3> QED
      BY <3>1, <3>2
  <2>6. ch[j].op \in Nat /\ ch[j].off \in Nat /\ ch[j].step \in Nat
        /\ S!OpSteps(ch[j].op) \in Nat
        /\ ch[n].op \in Nat /\ ch[n].off \in Nat /\ ch[n].step \in Nat
        /\ S!OpSteps(ch[n].op) \in Nat
    BY <1>2, <2>1
  <2>7. /\ d.step >= ch[j].step + (m + 1)
        /\ ch[j].op = d.op => /\ d.off = ch[j].off + (m + 1)
                              /\ d.step = ch[j].step + (m + 1)
        /\ ch[j].op # d.op =>
             /\ ch[j].op < d.op
             /\ m + 1 >= S!OpSteps(ch[j].op) - ch[j].off
    <3>1. PICK p \in Nat, u \in Nat, x \in Nat, t \in Nat,
               q \in Nat, v \in Nat, y \in Nat, r \in Nat,
               o \in Nat, w \in Nat, z \in Nat :
            /\ p = ch[j].op /\ u = ch[j].off /\ x = ch[j].step
            /\ t = S!OpSteps(ch[j].op)
            /\ q = ch[n].op /\ v = ch[n].off /\ y = ch[n].step
            /\ r = S!OpSteps(ch[n].op)
            /\ o = d.op /\ w = d.off /\ z = d.step
      BY <1>0, <2>6
    <3>2. /\ p = q => v = u + m /\ y = x + m /\ r = t
          /\ p # q => p < q /\ m >= t - u
          /\ y >= x + m
      BY <2>5, <3>1
    <3>3. /\ o >= q
          /\ o = q => w = v + 1 /\ z = y + 1
          /\ o # q => o > q /\ v + 1 >= r
          /\ z > y
      BY <1>4, <2>1, <2>3, <3>1
    <3>4. /\ p = o => w = u + (m + 1) /\ z = x + (m + 1)
          /\ p # o => p < o /\ m + 1 >= t - u
          /\ z >= x + (m + 1)
      BY <3>2, <3>3, SpanArith
    <3> QED
      BY <3>1, <3>4
  <2>8. m + 1 = n + 1 - j
    BY <2>4
  <2> QED
    BY <2>7, <2>8
<1>10. ASSUME NEW j \in 1 .. Len(c2), NEW l \in 1 .. Len(c2), j < l
       PROVE  /\ c2[l].step >= c2[j].step + (l - j)
              /\ c2[j].op = c2[l].op =>
                   /\ c2[l].off = c2[j].off + (l - j)
                   /\ c2[l].step = c2[j].step + (l - j)
              /\ c2[j].op # c2[l].op =>
                   /\ c2[j].op < c2[l].op
                   /\ l - j >= S!OpSteps(c2[j].op) - c2[j].off
  <2>1. j \in 1 .. n /\ c2[j] = ch[j]
    BY <1>0, <1>1, <1>10
  <2>2. CASE l = n + 1
    BY <1>1, <1>4, <1>9, <2>1, <2>2
  <2>3. CASE l # n + 1
    <3>1. l \in 1 .. n /\ c2[l] = ch[l]
      BY <1>0, <1>1, <2>3
    <3> QED
      BY <1>n, <1>10, <2>1, <3>1 DEF InFlight
  <2> QED
    BY <2>2, <2>3
<1>11. ASSUME NEW j \in 1 .. Len(c2)
       PROVE  /\ c2[j].op \in 1 .. Len(Ops)
              /\ c2[j].off \in 0 .. S!OpSteps(c2[j].op) - 1
              /\ h <= c2[j].step /\ c2[j].step < h + NCCL_STEPS
              /\ c2[j].step < Succ(d).step
              /\ b2[c2[j].step % NCCL_STEPS] = c2[j]
  <2>1. CASE j = n + 1
    BY <1>0, <1>1, <1>3, <1>6, <1>b, <2>1
  <2>2. CASE j # n + 1
    <3>1. j \in 1 .. n /\ c2[j] = ch[j]
      BY <1>0, <1>1, <2>2
    <3>2. /\ ch[j].op \in 1 .. Len(Ops)
          /\ ch[j].off \in 0 .. S!OpSteps(ch[j].op) - 1
          /\ h <= ch[j].step /\ ch[j].step < h + NCCL_STEPS
          /\ ch[j].step < d.step
          /\ b[ch[j].step % NCCL_STEPS] = ch[j]
      BY <1>n, <3>1 DEF InFlight
    <3>3. PICK x \in Nat : x = ch[j].step /\ x < d.step
                           /\ d.step < x + NCCL_STEPS
      <4>1. ch[j].step \in Nat /\ h <= ch[j].step /\ ch[j].step < d.step
        BY <1>2, <3>1, <3>2
      <4> QED
        BY <1>0, <4>1, SMTT(30)
    <3>4. x % NCCL_STEPS # d.step % NCCL_STEPS
      BY <1>0, <3>3, ModDistinct
    <3>5. x % NCCL_STEPS \in Slots
      <4>1. x \in Int
        OBVIOUS
      <4> QED
        BY <1>0, <4>1, DivMod DEF Slots
    <3>6. b2[ch[j].step % NCCL_STEPS] = ch[j]
      BY <1>b, <3>2, <3>3, <3>4, <3>5
    <3>7. ch[j].step < Succ(d).step
      BY <1>0, <1>3, <3>3, SMTT(30)
    <3> QED
      BY <3>1, <3>2, <3>6, <3>7
  <2> QED
    BY <2>1, <2>2
<1> HIDE DEF c2, b2
<1>12. InFlight(c2, b2, h, from, Succ(d))
  BY <1>1, <1>7, <1>8, <1>10, <1>11 DEF InFlight
<1> QED
  BY <1>12 DEF c2, b2

(* Reading the first datum moves the receiver's position to the next one.  *)
LEMMA InFlightRecv ==
  ASSUME NEW ch \in Seq(Data), NEW b, NEW h, NEW from, NEW to,
         InFlight(ch, b, h, from, to), ch # <<>>
  PROVE  InFlight(Tail(ch), b, h, Succ(from), to)
<1> DEFINE c2 == Tail(ch)
<1>1. PICK n \in Nat : n + 1 = Len(ch)
  <2>1. Len(ch) \in Nat \ {0}
    BY EmptySeq
  <2> QED
    BY <2>1
<1>2. Len(c2) = n /\ c2 \in Seq(Data) /\ \A j \in 1 .. n : c2[j] = ch[j + 1]
  <2>1. c2 \in Seq(Data) /\ Len(c2) = Len(ch) - 1
        /\ \A j \in 1 .. Len(c2) : c2[j] = ch[j + 1]
    BY HeadTailProperties
  <2>2. Len(c2) = n
    BY <1>1, <2>1
  <2> QED
    BY <2>1, <2>2
<1> HIDE DEF c2
<1>3. ch[1] = from /\ Succ(ch[n + 1]) = to
  BY <1>1 DEF InFlight
<1>4. \A j \in 1 .. n : j \in 1 .. Len(ch) - 1 /\ j + 1 \in 1 .. Len(ch)
  BY <1>1
<1>5. IF c2 = <<>> THEN Succ(from) = to
      ELSE c2[1] = Succ(from) /\ Succ(c2[Len(c2)]) = to
  <2>1. CASE c2 = <<>>
    <3>1. n = 0
      BY <1>2, <2>1
    <3> QED
      BY <1>3, <2>1, <3>1
  <2>2. CASE c2 # <<>>
    <3>1. n \in Nat \ {0}
      BY <1>2, <2>2, EmptySeq
    <3>2. 1 \in 1 .. n /\ n \in 1 .. n
      BY <3>1
    <3>3. ch[1 + 1] = Succ(ch[1])
      BY <1>4, <3>2 DEF InFlight
    <3> QED
      BY <1>2, <1>3, <2>2, <3>2, <3>3
  <2> QED
    BY <2>1, <2>2
<1>6. ASSUME NEW j \in 1 .. Len(c2) - 1 PROVE c2[j + 1] = Succ(c2[j])
  <2>1. j \in 1 .. n /\ j + 1 \in 1 .. n /\ j + 1 \in 1 .. Len(ch) - 1
    BY <1>1, <1>2
  <2>2. ch[(j + 1) + 1] = Succ(ch[j + 1])
    BY <2>1 DEF InFlight
  <2> QED
    BY <1>2, <2>1, <2>2
<1>7. ASSUME NEW j \in 1 .. Len(c2), NEW l \in 1 .. Len(c2), j < l
      PROVE  /\ c2[l].step >= c2[j].step + (l - j)
             /\ c2[j].op = c2[l].op =>
                  /\ c2[l].off = c2[j].off + (l - j)
                  /\ c2[l].step = c2[j].step + (l - j)
             /\ c2[j].op # c2[l].op =>
                  /\ c2[j].op < c2[l].op
                  /\ l - j >= S!OpSteps(c2[j].op) - c2[j].off
  <2>1. PICK p \in 1 .. Len(ch), q \in 1 .. Len(ch) :
          p = j + 1 /\ q = l + 1 /\ p < q /\ q - p = l - j
    BY <1>1, <1>2, <1>7
  <2>2. c2[j] = ch[p] /\ c2[l] = ch[q]
    BY <1>2, <2>1
  <2>3. /\ ch[q].step >= ch[p].step + (q - p)
        /\ ch[p].op = ch[q].op =>
             /\ ch[q].off = ch[p].off + (q - p)
             /\ ch[q].step = ch[p].step + (q - p)
        /\ ch[p].op # ch[q].op =>
             /\ ch[p].op < ch[q].op
             /\ q - p >= S!OpSteps(ch[p].op) - ch[p].off
    BY <2>1 DEF InFlight
  <2> QED
    BY <2>1, <2>2, <2>3
<1>8. ASSUME NEW j \in 1 .. Len(c2)
      PROVE  /\ c2[j].op \in 1 .. Len(Ops)
             /\ c2[j].off \in 0 .. S!OpSteps(c2[j].op) - 1
             /\ h <= c2[j].step /\ c2[j].step < h + NCCL_STEPS
             /\ c2[j].step < to.step
             /\ b[c2[j].step % NCCL_STEPS] = c2[j]
  <2>1. c2[j] = ch[j + 1] /\ j + 1 \in 1 .. Len(ch)
    BY <1>2, <1>4
  <2> QED
    BY <2>1 DEF InFlight
<1>9. InFlight(c2, b, h, Succ(from), to)
  BY <1>5, <1>6, <1>7, <1>8 DEF InFlight
<1> QED
  BY <1>9 DEF c2

(* If the sender is m steps past the receiver and m steps remain in the    *)
(* receiver's operation, the next m steps of it are in flight.             *)
LEMMA InFlightSlice ==
  ASSUME NEW ch \in Seq(Data), NEW b, NEW h, NEW from \in Data, NEW to,
         InFlight(ch, b, h, from, to),
         from.op \in 1 .. Len(Ops), from.off \in Nat, to.step \in Nat,
         NEW m \in Nat, from.off + m <= S!OpSteps(from.op),
         from.step + m <= to.step
  PROVE  \A j \in 0 .. m - 1 :
           b[(from.step + j) % NCCL_STEPS] =
             S!Datum(from.op, from.off + j, from.step + j)
<1> SUFFICES ASSUME NEW j \in 0 .. m - 1
             PROVE  b[(from.step + j) % NCCL_STEPS] =
                      S!Datum(from.op, from.off + j, from.step + j)
  OBVIOUS
<1>0. from.step \in Nat /\ from.op \in Nat /\ S!OpSteps(from.op) \in Nat
  BY OpFacts DEF Data
<1>1. PICK n \in Nat : n = Len(ch)
  OBVIOUS
<1>2. ch # <<>>
  <2>1. SUFFICES ASSUME ch = <<>> PROVE FALSE
    OBVIOUS
  <2>2. from = to
    BY <2>1 DEF InFlight
  <2> QED
    BY <1>0, <2>2
<1>3. n >= 1 /\ ch[1] = from /\ Succ(ch[n]) = to
  <2>1. Len(ch) \in Nat \ {0}
    BY <1>2, EmptySeq
  <2> QED
    BY <1>1, <1>2, <2>1 DEF InFlight
<1>4. ASSUME NEW l \in 1 .. n, l <= m
      PROVE  /\ ch[l].op = from.op
             /\ ch[l].off = from.off + (l - 1)
             /\ ch[l].step = from.step + (l - 1)
  <2>1. CASE l = 1
    BY <1>0, <1>3, <2>1
  <2>2. CASE l # 1
    <3>1. 1 < l /\ 1 \in 1 .. Len(ch) /\ l \in 1 .. Len(ch)
      BY <1>1, <1>3, <2>2
    <3>2. /\ ch[1].op = ch[l].op =>
               /\ ch[l].off = ch[1].off + (l - 1)
               /\ ch[l].step = ch[1].step + (l - 1)
          /\ ch[1].op # ch[l].op =>
               l - 1 >= S!OpSteps(ch[1].op) - ch[1].off
      BY <3>1 DEF InFlight
    <3>3. l - 1 < S!OpSteps(from.op) - from.off
      BY <1>0, <1>4
    <3>4. ~(l - 1 >= S!OpSteps(ch[1].op) - ch[1].off)
      BY <1>0, <1>3, <3>3, SMTT(30)
    <3> QED
      BY <1>3, <3>2, <3>4
  <2> QED
    BY <2>1, <2>2
<1>5. j + 1 \in 1 .. n
  <2>1. SUFFICES ASSUME n <= j PROVE FALSE
    BY <1>1
  <2>2. n \in 1 .. n /\ n <= m /\ n < m
    BY <1>3, <2>1
  <2>3. /\ ch[n].op = from.op /\ ch[n].off = from.off + (n - 1)
        /\ ch[n].step = from.step + (n - 1)
    BY <1>4, <2>2
  <2>4. ch[n].off + 1 < S!OpSteps(ch[n].op)
    <3>1. PICK f \in Nat, t \in Nat :
            f = from.off /\ t = S!OpSteps(from.op) /\ f + m <= t
      BY <1>0
    <3>2. (f + (n - 1)) + 1 < t
      BY <2>2, <3>1
    <3> QED
      BY <2>3, <3>1, <3>2
  <2>5. to.step = ch[n].step + 1
    BY <1>3, <2>4 DEF Succ, S!Datum
  <2> QED
    BY <1>0, <2>2, <2>3, <2>5
<1>6. /\ ch[j + 1].op = from.op
      /\ ch[j + 1].off = from.off + j /\ ch[j + 1].step = from.step + j
  <2>1. j + 1 <= m /\ (j + 1) - 1 = j
    OBVIOUS
  <2> QED
    BY <1>4, <1>5, <2>1
<1>7. b[ch[j + 1].step % NCCL_STEPS] = ch[j + 1]
  BY <1>1, <1>5 DEF InFlight
<1>8. ch[j + 1] = S!Datum(from.op, from.off + j, from.step + j)
  <2>1. ch[j + 1] \in Data
    BY <1>1, <1>5, ElementOfSeq
  <2> QED
    BY <1>6, <2>1 DEF Data, S!Datum
<1> QED
  BY <1>6, <1>7, <1>8
===============================================================================
