------------------------------- MODULE MCConn -------------------------------
(***************************************************************************)
(* Two kernels connected directly, one part per behaviour: the Simple      *)
(* protocol alone, or all protocols taking turns, without aborts and with  *)
(* them.  In the last two SimpleConn stays at its first state.             *)
(***************************************************************************)
EXTENDS SimpleConn

VARIABLES part, llHead, llTail, line, llSnd, llRcv, llsAbort, llrAbort

O(sps, spc, chunks) == [sps |-> sps, spc |-> spc, chunks |-> chunks]

\* A single step, slices of two steps that go round the FIFO, and chunks of
\* two slices: each operation begins with the steps rounded up.
MixedOps == <<O(1, 1, 1), O(2, 1, 3), O(1, 2, 2)>>

(***************************************************************************)
(* Two slots and three-bit flags: flags repeat every eight steps, and the  *)
(* clean-up is due at steps 2, 3, 6, 7, 10, 11, ...                        *)
(***************************************************************************)

P(proto, lines, chunk) == [proto |-> proto, lines |-> lines, chunk |-> chunk]

\* A full slot, then short messages until its flag comes round; the other
\* protocols take turns, the Simple one with its step rounded up.
LLOps == <<P("LL", <<2, 0, 0, 1>>, 1), P("LL128", <<1>>, 1),
           P("Simple", <<0>>, 2), P("LL", <<1, 2>>, 1)>>

\* Short enough for aborts at any time.
AbortOps == <<P("LL", <<1, 2>>, 1), P("Simple", <<0>>, 2), P("LL128", <<1>>, 1)>>

\* The Simple protocol has the steps where clean-up is due.
SkipOps == <<P("LL", <<2, 1>>, 1), P("Simple", <<0, 0>>, 2),
             P("LL", <<1, 1>>, 1), P("Simple", <<0, 0>>, 2), P("LL", <<2, 1>>, 1)>>

LL == INSTANCE LLConn WITH
  NCCL_STEPS <- 2, StepLines <- 2, FlagMax <- 8, Ops <- LLOps, MayAbort <- FALSE,
  head <- llHead, tail <- llTail, snd <- llSnd, rcv <- llRcv,
  sAbort <- llsAbort, rAbort <- llrAbort

Aborts == INSTANCE LLConn WITH
  NCCL_STEPS <- 2, StepLines <- 2, FlagMax <- 8, Ops <- AbortOps, MayAbort <- TRUE,
  head <- llHead, tail <- llTail, snd <- llSnd, rcv <- llRcv,
  sAbort <- llsAbort, rAbort <- llrAbort

Skip == INSTANCE LLConn WITH
  NCCL_STEPS <- 2, StepLines <- 2, FlagMax <- 8, Ops <- SkipOps, MayAbort <- FALSE,
  head <- llHead, tail <- llTail, snd <- llSnd, rcv <- llRcv,
  sAbort <- llsAbort, rAbort <- llrAbort

ASSUME LLAssumption == LL!SizesOK /\ LL!OpsOK /\ Aborts!OpsOK /\ Skip!OpsOK

llVars == <<llHead, llTail, line, llSnd, llRcv, llsAbort, llrAbort>>

mcvars == <<vars, llVars, part>>

MCInit ==
  /\ Init
  /\ \/ /\ part = "simple"
        /\ llHead = 0 /\ llTail = 0 /\ line = 0 /\ llSnd = 0 /\ llRcv = 0
        /\ llsAbort = 0 /\ llrAbort = 0
     \/ part = "ll" /\ LL!Init
     \/ part = "aborts" /\ Aborts!Init

MCNext ==
  /\ UNCHANGED part
  /\ \/ part = "simple" /\ Next /\ UNCHANGED llVars
     \/ part = "ll" /\ LL!Next /\ UNCHANGED vars
     \/ part = "aborts" /\ Aborts!Next /\ UNCHANGED vars

\* Kernels that use LL are resident and run; what SimpleConn says of progress
\* names the kernels that have to.
LLSender == /\ \/ part = "ll" /\ LL!Sender
               \/ part = "aborts" /\ Aborts!Sender
            /\ UNCHANGED <<part, vars>>

LLReceiver == /\ \/ part = "ll" /\ LL!Receiver
                 \/ part = "aborts" /\ Aborts!Receiver
              /\ UNCHANGED <<part, vars>>

MCSpec == MCInit /\ [][MCNext]_mcvars /\ WF_mcvars(LLSender) /\ WF_mcvars(LLReceiver)

SkipSpec ==
  /\ part = "skip" /\ Init /\ Skip!Init
  /\ [][Skip!Next /\ UNCHANGED <<part, vars>>]_mcvars

(***************************************************************************)
(* An LL receiver takes a line only if it was stored for its step, and no  *)
(* line is overwritten before it is read.                                  *)
(***************************************************************************)
LinesExpected == /\ part = "ll" => LL!LinesOK /\ LL!ReadsExpected
                 /\ part = "aborts" => Aborts!LinesOK /\ Aborts!ReadsExpected

(***************************************************************************)
(* The same when other protocols use the steps at which clean-up is due.   *)
(***************************************************************************)
SkipExpected == Skip!ReadsExpected

(***************************************************************************)
(* Without an abort all operations complete on both sides, with the Simple *)
(* protocol and with all of them in turn.                                  *)
(***************************************************************************)
AllComplete ==
  /\ AllOpsComplete
  /\ <>(/\ part = "ll" => LL!Finished(llSnd) /\ LL!Finished(llRcv)
       /\ part = "aborts" => \/ ~Aborts!NotAborted
                             \/ Aborts!Finished(llSnd) /\ Aborts!Finished(llRcv))

(***************************************************************************)
(* The kernel of an aborted rank returns, whatever protocol it waits in.   *)
(***************************************************************************)
AbortedReturn ==
  /\ AbortReturns
  /\ (part = "aborts" /\ llsAbort = TRUE) ~> (part = "aborts" /\ Aborts!Finished(llSnd))
  /\ (part = "aborts" /\ llrAbort = TRUE) ~> (part = "aborts" /\ Aborts!Finished(llRcv))
=============================================================================
