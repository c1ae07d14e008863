------------------------------- MODULE LLConn -------------------------------
(***************************************************************************)
(* Two GPU kernels connected directly that use the LL and LL128 protocols  *)
(* (device/prims_ll.h, prims_ll128.h).  There is no tail to wait for: each *)
(* line of the buffer carries a flag made from its step, and the receiver  *)
(* spins until it sees the flag.  An LL line is two 8-byte halves, each    *)
(* with its own flag of limited width; so flags come round again, and at   *)
(* certain steps the sender rewrites every line of the slot ("LL Cleanup").*)
(* An LL128 line has one 64-bit flag.                                      *)
(*                                                                         *)
(* Both kernels run the operations of Ops.  Lines is a sequence: the lines *)
(* used by each step (each LLGenericOp or GenericOp).  The protocols have  *)
(* buffers of their own but share conn->step, head and tail; operations of *)
(* the Simple protocol (modelled in SimpleConn) take part with their steps *)
(* only: chunk is what they round the step up to.                          *)
(***************************************************************************)
EXTENDS Integers, Sequences, Align

CONSTANTS NCCL_STEPS,   \* slots of each buffer
          StepLines,    \* lines of a slot
          FlagMax,      \* 2^(bits of an LL flag)
          Ops,
          MayAbort

\* What the constants must satisfy.
SizesOK == /\ NCCL_STEPS \in Nat \ {0} /\ StepLines \in Nat \ {0}
           /\ FlagMax \in Nat \ {0} /\ FlagMax % (2 * NCCL_STEPS) = 0

OpsOK == \A o \in DOMAIN Ops : /\ Ops[o].proto \in {"LL", "LL128", "Simple"}
                               /\ Ops[o].lines \in Seq(0 .. StepLines)
                               /\ Ops[o].chunk \in Nat \ {0}

VARIABLES head, tail,   \* *conn->head, *conn->tail
          line,         \* line[p][slot][l][h]: flag and data in memory
          snd, rcv,     \* the kernels
          sAbort, rAbort

vars == <<head, tail, line, snd, rcv, sAbort, rAbort>>

Slots == 0 .. NCCL_STEPS - 1

Halves(p) == IF p = "LL" THEN {1, 2} ELSE {1}

\* The datum of a step is the step; clean-up stores none.
NoData == -1

Kern == [op |-> 1, pc |-> "load", connStep |-> 0, step |-> 0, i |-> 1,
         cache |-> 0, pend |-> {}, aborted |-> FALSE]

Init ==
  /\ head = 0 /\ tail = 0
  /\ line = [p \in {"LL", "LL128"} |-> [s \in Slots |->
               [l \in 1 .. StepLines |-> [h \in Halves(p) |->
                  [flag |-> 0, data |-> NoData]]]]]
  /\ snd = Kern /\ rcv = Kern
  /\ sAbort = FALSE /\ rAbort = FALSE

Finished(k) == k.op > Len(Ops)

Op(k) == Ops[k.op]

Proto(k) == Op(k).proto

\* The lines of the current step.
Used(k) == 1 .. Op(k).lines[k.i]

Cells(p, L) == L \X Halves(p)

\* NCCL_LL_FLAG(step + 1); an LL128 flag is as wide as the step.
Flag(p, step) == IF p = "LL" THEN (step + 1) % FlagMax ELSE step + 1

\* Mutant: there is no clean-up.
Clean_Never(p, step) == FALSE

\* (step & NCCL_LL_CLEAN_MASK) == NCCL_LL_CLEAN_MASK: the mask is the flag's
\* bits but the highest and those of NCCL_STEPS.
Clean(p, step) == /\ p = "LL"
                  /\ step % (FlagMax \div 2) >= FlagMax \div 2 - NCCL_STEPS

\* The constructor's step: Simple rounds it up to a whole chunk.
LoadStep(k) == IF Proto(k) = "Simple" THEN roundUp(k.connStep, Op(k).chunk)
               ELSE k.connStep

\* The destructor saves the step when the operation is through.
Advance(k) ==
  IF k.i < Len(Op(k).lines)
  THEN [k EXCEPT !.pc = "wait", !.step = @ + 1, !.i = @ + 1]
  ELSE [k EXCEPT !.pc = "load", !.step = @ + 1, !.i = 1, !.op = @ + 1,
                 !.connStep = k.step + 1]

----------------------------------------------------------------------------
(***************************************************************************)
(* The sender.                                                             *)
(***************************************************************************)
loadSendConn ==
  /\ snd.pc = "load" /\ ~Finished(snd)
  /\ snd' = [snd EXCEPT !.pc = "wait", !.step = LoadStep(snd), !.cache = head]
  /\ UNCHANGED <<head, tail, line, rcv, sAbort, rAbort>>

HasCredit(cache) == cache + NCCL_STEPS >= snd.step + 1

\* The spin loop of waitSend reads head again.
waitSendSpin ==
  /\ snd.pc = "wait" /\ ~HasCredit(snd.cache) /\ ~snd.aborted
  /\ snd.cache # head
  /\ snd' = [snd EXCEPT !.cache = head]
  /\ UNCHANGED <<head, tail, line, rcv, sAbort, rAbort>>

\* What is to be stored at a step: its lines, and all others to clean up.
ToStore(k) == IF Proto(k) = "Simple" THEN {}
              ELSE Cells(Proto(k), IF Clean(Proto(k), k.step)
                                   THEN 1 .. StepLines ELSE Used(k))

waitSend ==
  /\ snd.pc = "wait"
  /\ HasCredit(snd.cache) \/ snd.aborted \/ sAbort
  /\ snd' = [snd EXCEPT !.pc = "store", !.pend = ToStore(snd),
                        !.aborted = @ \/ ~HasCredit(snd.cache)]
  /\ UNCHANGED <<head, tail, line, rcv, sAbort, rAbort>>

\* The threads of the kernel store the lines in any order.
storeLL ==
  /\ snd.pc = "store"
  /\ \E c \in snd.pend :
       /\ line' = [line EXCEPT ![Proto(snd)][snd.step % NCCL_STEPS][c[1]][c[2]] =
                     [flag |-> Flag(Proto(snd), snd.step),
                      data |-> IF c[1] \in Used(snd) THEN snd.step ELSE NoData]]
       /\ snd' = [snd EXCEPT !.pend = @ \ {c}]
  /\ UNCHANGED <<head, tail, rcv, sAbort, rAbort>>

\* incSend, and the tail that Simple posts (LL128 does for a proxy only).
incSend ==
  /\ snd.pc = "store" /\ snd.pend = {}
  /\ tail' = IF Proto(snd) = "Simple" THEN snd.step + 1 ELSE tail
  /\ snd' = Advance(snd)
  /\ UNCHANGED <<head, line, rcv, sAbort, rAbort>>

----------------------------------------------------------------------------
(***************************************************************************)
(* The receiver.  Simple gives back the steps it skips.                    *)
(***************************************************************************)
loadRecvConn ==
  /\ rcv.pc = "load" /\ ~Finished(rcv)
  /\ rcv' = [rcv EXCEPT !.pc = "wait", !.step = LoadStep(rcv)]
  /\ head' = IF Proto(rcv) = "Simple" THEN LoadStep(rcv) ELSE head
  /\ UNCHANGED <<tail, line, snd, sAbort, rAbort>>

RecvBegin ==
  /\ rcv.pc = "wait"
  /\ rcv' = [rcv EXCEPT !.pc = "read",
                        !.pend = IF Proto(rcv) = "Simple" THEN {}
                                 ELSE Cells(Proto(rcv), Used(rcv))]
  /\ UNCHANGED <<head, tail, line, snd, sAbort, rAbort>>

CellOf(c) == line[Proto(rcv)][rcv.step % NCCL_STEPS][c[1]][c[2]]

Arrived(c) == CellOf(c).flag = Flag(Proto(rcv), rcv.step)

\* readLL of one half: its flag has come, or the spin loop sees an abort.
readLL ==
  /\ rcv.pc = "read"
  /\ \E c \in rcv.pend :
       /\ Arrived(c) \/ rcv.aborted \/ rAbort
       /\ rcv' = [rcv EXCEPT !.pend = @ \ {c}, !.aborted = @ \/ ~Arrived(c)]
  /\ UNCHANGED <<head, tail, line, snd, sAbort, rAbort>>

postRecv ==
  /\ rcv.pc = "read" /\ rcv.pend = {}
  /\ Proto(rcv) = "Simple" => tail > rcv.step \/ rcv.aborted \/ rAbort
  /\ head' = rcv.step + 1
  /\ rcv' = Advance(rcv)
  /\ UNCHANGED <<tail, line, snd, sAbort, rAbort>>

Sender == loadSendConn \/ waitSendSpin \/ waitSend \/ storeLL \/ incSend

Receiver == loadRecvConn \/ RecvBegin \/ readLL \/ postRecv

Abort ==
  /\ MayAbort
  /\ \/ ~sAbort /\ sAbort' = TRUE /\ UNCHANGED rAbort
     \/ ~rAbort /\ rAbort' = TRUE /\ UNCHANGED sAbort
  /\ UNCHANGED <<head, tail, line, snd, rcv>>

Next == Sender \/ Receiver \/ Abort

Spec == Init /\ [][Next]_vars

\* Both kernels are resident and run.
FairSpec == Spec /\ WF_vars(Sender) /\ WF_vars(Receiver)

----------------------------------------------------------------------------
KernOK(k) ==
  /\ k.op \in 1 .. Len(Ops) + 1
  /\ k.pc \in {"load", "wait", "store", "read"}
  /\ {k.step, k.connStep, k.cache} \subseteq Nat
  /\ k.pend \subseteq (1 .. StepLines) \X {1, 2}

TypeOK ==
  /\ head \in Nat /\ tail \in Nat
  /\ KernOK(snd) /\ KernOK(rcv)
  /\ \A p \in DOMAIN line : \A s \in Slots : \A l \in 1 .. StepLines :
       \A h \in Halves(p) : /\ line[p][s][l][h].flag \in Nat
                            /\ p = "LL" => line[p][s][l][h].flag < FlagMax
                            /\ line[p][s][l][h].data \in Nat \union {NoData}

NotAborted == ~sAbort /\ ~rAbort

(***************************************************************************)
(* The receiver takes the datum of its own step from every line: a line    *)
(* whose flag matches was stored for this step, and is not left over from  *)
(* the last time the flag had this value or from a clean-up.               *)
(***************************************************************************)
ReadsExpected ==
  NotAborted /\ rcv.pc = "read" =>
    \A c \in rcv.pend : Arrived(c) => CellOf(c).data = rcv.step

(***************************************************************************)
(* The sender never overwrites a line that the receiver has still to read, *)
(* though a receiver may run ahead of it through steps without lines.      *)
(***************************************************************************)
NoOverrun ==
  NotAborted /\ snd.pc = "store" =>
    \A c \in snd.pend :
      line[Proto(snd)][snd.step % NCCL_STEPS][c[1]][c[2]].data < rcv.step

(***************************************************************************)
(* The lines are well formed (LL flags have their width) and are not       *)
(* overwritten before they are read.                                       *)
(***************************************************************************)
LinesOK == TypeOK /\ NoOverrun

(***************************************************************************)
(* Unless a rank is aborted both kernels get through all operations,       *)
(* whatever the protocols, the rounding of the step and the lines used.    *)
(***************************************************************************)
AllOpsComplete == <>(~NotAborted \/ (Finished(snd) /\ Finished(rcv)))

(***************************************************************************)
(* Once a rank is aborted its kernel gets through, whatever the other one  *)
(* does.                                                                   *)
(***************************************************************************)
AbortReturns == /\ sAbort ~> Finished(snd)
                /\ rAbort ~> Finished(rcv)
=============================================================================
