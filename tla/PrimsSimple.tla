---------------------------- MODULE PrimsSimple ----------------------------
(***************************************************************************)
(* One end of a Simple-protocol connection, as a GPU kernel drives it      *)
(* (src/src/device/prims_simple.h).  The same code serves both ends: the   *)
(* thread with the Wait role polls one step counter, the workers copy a    *)
(* slice, and the thread with the Post role publishes the other counter.   *)
(* A sender waits on head (credits) and posts tail (data); a receiver      *)
(* waits on tail and posts head.  The module is instantiated once per end. *)
(*                                                                         *)
(* The kernel runs the operations of Ops in order, one Primitives object   *)
(* per operation.  An operation is a record                                *)
(*   [sps    |-> StepPerSlice, spc |-> SlicePerChunk,                      *)
(*    chunks |-> number of genericOp calls].                               *)
(* The datum a sender writes for a step is [op, off, step]: the operation, *)
(* the position in that operation's buffer and the step it was written at. *)
(***************************************************************************)
EXTENDS Integers, Sequences, Align

CONSTANTS NCCL_STEPS,       \* slots of the FIFO
          Ops,              \* the operations run on this connection
          isSend,           \* TRUE: sender end; FALSE: receiver end
          ConnFifoEnabled,  \* conn->connFifo is set (a proxy is involved)
          OffsetMode        \* connFifo[].mode = NCCL_MODE_OFFSET

VARIABLES waitPtr,    \* *connStepPtr of the Wait role
          postPtr,    \* *connStepPtr of the Post role
          buff,       \* the FIFO's slots
          fifo,       \* connFifo[]: [size, offset] per slot
          abortFlag,  \* comm.abortFlag of this rank
          kern        \* registers of the kernel at this end

NoSize == -1

Sps(o) == Ops[o].sps

ChunkSteps(o) == Ops[o].spc * Ops[o].sps

Slices(o) == Ops[o].chunks * Ops[o].spc

OpSteps(o) == Ops[o].chunks * ChunkSteps(o)

Datum(o, off, step) == [op |-> o, off |-> off, step |-> step]

NoDatum == Datum(0, 0, 0)

KernInit == [op       |-> 1,        \* operation being run
             pc       |-> "load",   \* load, wait, copy
             connStep |-> 0,        \* conn->step, kept between operations
             step     |-> 0,        \* step of the Wait role
             post     |-> 0,        \* step of the Post role
             cache    |-> 0,        \* connStepCache
             left     |-> 0,        \* slices still to be copied
             ptr      |-> 0,        \* slot where the granted slice begins
             i        |-> 0,        \* steps of the slice already copied
             posting  |-> FALSE,    \* a copied slice is not posted yet
             aborted  |-> FALSE,    \* flags & Aborted
             got      |-> NoDatum]  \* last datum read by a receiver

Finished == kern.op > Len(Ops)

\* Mutant: the saved step is used as it is.
loadConn_NoRound ==
  /\ kern.pc = "load"
  /\ ~Finished
  /\ kern' = [kern EXCEPT !.pc = "wait", !.step = kern.connStep,
                          !.post = kern.connStep, !.cache = waitPtr,
                          !.left = Slices(kern.op)]
  /\ postPtr' = IF isSend THEN postPtr ELSE kern.connStep
  /\ UNCHANGED <<waitPtr, buff, fifo, abortFlag>>

(***************************************************************************)
(* loadSendConn / loadRecvConn and the constructor: round the saved step   *)
(* up to a whole chunk; the receiver returns the credits it skipped.       *)
(***************************************************************************)
loadConn ==
  /\ kern.pc = "load"
  /\ ~Finished
  /\ LET s == roundUp(kern.connStep, ChunkSteps(kern.op))
     IN  /\ kern' = [kern EXCEPT !.pc = "wait", !.step = s, !.post = s,
                                 !.cache = waitPtr,
                                 !.left = Slices(kern.op)]
         /\ postPtr' = IF isSend THEN postPtr ELSE s
  /\ UNCHANGED <<waitPtr, buff, fifo, abortFlag>>

\* Mutant: the size of the slice is forgotten.
Granted_Step(cache) ==
  cache + (IF isSend THEN NCCL_STEPS ELSE 0) >= kern.step

\* Mutant: one step more than the slice has.
Granted_More(cache) ==
  cache + (IF isSend THEN NCCL_STEPS ELSE 0) > kern.step + Sps(kern.op)

(***************************************************************************)
(* The condition that ends the spin loop of waitPeer.                      *)
(***************************************************************************)
Granted(cache) ==
  cache + (IF isSend THEN NCCL_STEPS ELSE 0) >= kern.step + Sps(kern.op)

(***************************************************************************)
(* One turn of the spin loop that neither finds the slice nor an abort.    *)
(***************************************************************************)
waitPeerSpin ==
  /\ kern.pc = "wait" /\ kern.left > 0
  /\ ~Granted(kern.cache) /\ ~kern.aborted
  /\ kern.cache # waitPtr
  /\ kern' = [kern EXCEPT !.cache = waitPtr]
  /\ UNCHANGED <<waitPtr, postPtr, buff, fifo, abortFlag>>

\* Mutant: the spin loop does not look at the abort flag.
waitPeer_NoAbort ==
  /\ kern.pc = "wait" /\ kern.left > 0
  /\ Granted(kern.cache)
  /\ kern' = [kern EXCEPT !.pc = "copy", !.i = 0,
                          !.step = @ + Sps(kern.op),
                          !.ptr = kern.step % NCCL_STEPS]
  /\ UNCHANGED <<waitPtr, postPtr, buff, fifo, abortFlag>>

(***************************************************************************)
(* waitPeer returns: the cached counter covers the slice, or the loop was  *)
(* left because of an abort.  It publishes the size, picks the slot and    *)
(* advances the step of the Wait role.                                     *)
(***************************************************************************)
waitPeer ==
  /\ kern.pc = "wait" /\ kern.left > 0
  /\ Granted(kern.cache) \/ kern.aborted \/ abortFlag
  /\ LET slot == kern.step % NCCL_STEPS
     IN  /\ fifo' = IF ConnFifoEnabled
                    THEN [fifo EXCEPT ![slot].size = kern.step] ELSE fifo
         /\ kern' = [kern EXCEPT
              !.pc = "copy", !.i = 0, !.step = @ + Sps(kern.op),
              !.cache = IF Granted(@) THEN @ ELSE waitPtr,
              !.aborted = @ \/ ~Granted(kern.cache),
              !.ptr = IF ConnFifoEnabled /\ OffsetMode
                      THEN fifo[slot].offset ELSE slot]
  /\ UNCHANGED <<waitPtr, postPtr, buff, abortFlag>>

(***************************************************************************)
(* The workers copy the slice one step at a time.  They start after the    *)
(* subBarrier, which the Post thread only reaches once it has posted the   *)
(* previous slice; the barrier after the copy releases the Post thread and *)
(* lets the Wait thread go on to the next slice.  An aborted kernel copies *)
(* nothing (workSize = 0).                                                 *)
(***************************************************************************)
Copied == OpSteps(kern.op) - kern.left * Sps(kern.op) + kern.i

reduceCopy ==
  /\ kern.pc = "copy" /\ ~kern.posting
  /\ LET slot == kern.ptr + kern.i
         last == kern.aborted \/ kern.i + 1 = Sps(kern.op)
         src  == IF isSend \/ kern.aborted THEN kern.got ELSE buff[slot]
     IN  /\ buff' = IF isSend /\ ~kern.aborted
                    THEN [buff EXCEPT ![slot] =
                            Datum(kern.op, Copied, kern.post + kern.i)]
                    ELSE buff
         /\ kern' = IF last
                    THEN [kern EXCEPT !.pc = "wait", !.i = 0, !.left = @ - 1,
                                      !.posting = TRUE, !.got = src]
                    ELSE [kern EXCEPT !.i = @ + 1, !.got = src]
  /\ UNCHANGED <<waitPtr, postPtr, fifo, abortFlag>>

\* Mutant: the receiver does not return its credits.
postPeer_NoCredit ==
  /\ kern.posting
  /\ kern' = [kern EXCEPT !.posting = FALSE, !.post = @ + Sps(kern.op)]
  /\ postPtr' = IF isSend THEN kern'.post ELSE postPtr
  /\ UNCHANGED <<waitPtr, buff, fifo, abortFlag>>

postPeer ==
  /\ kern.posting
  /\ kern' = [kern EXCEPT !.posting = FALSE, !.post = @ + Sps(kern.op)]
  /\ postPtr' = kern'.post
  /\ UNCHANGED <<waitPtr, buff, fifo, abortFlag>>

(***************************************************************************)
(* ~Primitives: the Post role saves its step for the next operation.       *)
(***************************************************************************)
saveConn ==
  /\ kern.pc = "wait" /\ kern.left = 0 /\ ~kern.posting
  /\ kern' = [kern EXCEPT !.pc = "load", !.op = @ + 1,
                          !.connStep = kern.post]
  /\ UNCHANGED <<waitPtr, postPtr, buff, fifo, abortFlag>>

KernNext == \/ loadConn
            \/ waitPeerSpin
            \/ waitPeer
            \/ reduceCopy
            \/ postPeer
            \/ saveConn
=============================================================================
