----------------------------- MODULE MCNetConn -----------------------------
(***************************************************************************)
(* The transports with proxies, one per behaviour: between the same two    *)
(* kernels, the network with dedicated and with shared buffers, and copy   *)
(* engines with one and with two proxies; and the network that reduces,    *)
(* with two nodes and with channels in groups.                             *)
(***************************************************************************)
EXTENDS NetConn

VARIABLES transport,                     \* the transport of this behaviour
          head, mTail, mBuff, mFifo,     \* what only copy engines use
          px, stream, events,
          nd, results                    \* what only CollNet uses

O(sps, spc, chunks) == [sps |-> sps, spc |-> spc, chunks |-> chunks]

\* A slice of two steps after a single step: both ends round up.
MixedOps == <<O(1, 1, 1), O(2, 1, 3), O(1, 2, 2)>>

\* Two send/recv operations; the first goes once round the FIFO.
SharedOps == <<O(1, 1, 5), O(1, 1, 2)>>

\* A step, and slices of two steps that go round the FIFO.
CeOps == <<O(1, 1, 1), O(2, 1, 3)>>

SharedNet == INSTANCE NetConn WITH
  NCCL_STEPS <- 3, NCCL_SHARED_STEPS <- 6, Ops <- SharedOps,
  Shared <- TRUE, NeedFlush <- TRUE

Ce1 == INSTANCE CeConn WITH NCCL_STEPS <- 4, Ops <- MixedOps, Hops <- 1

Ce2 == INSTANCE CeConn WITH NCCL_STEPS <- 4, Ops <- CeOps, Hops <- 2

\* The chunks of the second operation lie in those of the first.
CollOps == <<[nsteps |-> 1, chunkSize |-> 2], [nsteps |-> 1, chunkSize |-> 1]>>

\* Goes round the slots; the second operation does not start at slot 0.
GroupOps == <<[nsteps |-> 1, chunkSize |-> 2], [nsteps |-> 3, chunkSize |-> 1]>>

Coll == INSTANCE CollNet WITH
  Nodes <- {1, 2}, nsubs <- 2, COLLNET_GROUP_NSUBS <- 1, NCCL_STEPS <- 1,
  Ops <- CollOps

CollGroup == INSTANCE CollNet WITH
  Nodes <- {1}, nsubs <- 2, COLLNET_GROUP_NSUBS <- 2, NCCL_STEPS <- 2,
  Ops <- GroupOps

ceVars == <<head, mTail, mBuff, mFifo, px, stream, events>>

netVars == <<sHead, rHead, rFifo, sp, rp, sReq, rReq, net>>

collVars == <<nd, results>>

pairVars == <<sTail, rTail, sFifo, sBuff, rBuff, snd, rcv, chan>>

NoCe == /\ head = 0 /\ mTail = 0 /\ mBuff = 0 /\ mFifo = 0
        /\ px = 0 /\ stream = 0 /\ events = 0

NoNet == /\ sHead = 0 /\ rHead = 0 /\ rFifo = 0 /\ sp = 0 /\ rp = 0
         /\ sReq = 0 /\ rReq = 0 /\ sendQ = 0 /\ recvQ = 0 /\ pend = 0

NoColl == nd = 0 /\ results = 0

NoPair == /\ sTail = 0 /\ rTail = 0 /\ sFifo = 0 /\ sBuff = 0 /\ rBuff = 0
          /\ snd = 0 /\ rcv = R!KernInit /\ chan = <<>>

MCInit ==
  \/ transport = "net" /\ Init /\ NoCe /\ NoColl
  \/ transport = "shared" /\ SharedNet!Init /\ NoCe /\ NoColl
  \/ transport = "ce1" /\ Ce1!Init /\ NoNet /\ NoColl
  \/ transport = "ce2" /\ Ce2!Init /\ NoNet /\ NoColl
  \/ transport = "coll" /\ Coll!Init /\ NoNet /\ NoCe /\ NoPair
  \/ transport = "group" /\ CollGroup!Init /\ NoNet /\ NoCe /\ NoPair

On(t) == transport = t /\ UNCHANGED transport

\* A step of one transport leaves the state of the others alone.
OnNet(t)  == On(t) /\ UNCHANGED <<ceVars, collVars>>

OnCe(t)   == On(t) /\ UNCHANGED <<netVars, collVars>>

OnColl(t) == On(t) /\ UNCHANGED <<netVars, ceVars, pairVars>>

MCNext ==
  \/ OnNet("net") /\ Next
  \/ OnNet("shared") /\ SharedNet!Next
  \/ OnCe("ce1") /\ Ce1!Next
  \/ OnCe("ce2") /\ Ce2!Next
  \/ OnColl("coll") /\ Coll!Next
  \/ OnColl("group") /\ CollGroup!Next

MCVars == <<vars, ceVars, collVars, transport>>

\* Something moves as long as something can.  This is less than what the
\* resident kernels, the polling progress threads and the hardware give.
MCSpec == MCInit /\ [][MCNext]_MCVars /\ WF_MCVars(MCNext)

----------------------------------------------------------------------------
(***************************************************************************)
(* Whatever the transport, each slot and each size is used by one actor at *)
(* a time (kernels, proxies, network, copy engine), and each finds in it   *)
(* what the one before it left for that very step.                         *)
(***************************************************************************)
SlotsOK ==
  CASE transport = "net" -> NetInv
    [] transport = "shared" -> SharedNet!NetInv
    [] transport = "ce1" -> Ce1!ReadsExpected /\ Ce1!CopiesOK
    [] transport = "ce2" -> Ce2!ReadsExpected /\ Ce2!CopiesOK
    [] transport \in {"coll", "group"} -> TRUE

(***************************************************************************)
(* What a CollNet kernel takes at a step is the reduction of what was fed  *)
(* at that step on all nodes.                                              *)
(***************************************************************************)
ReducesStep ==
  /\ transport = "coll" => Coll!ReducesStep
  /\ transport = "group" => CollGroup!ReducesStep

(***************************************************************************)
(* All operations complete in both kernels and in all proxies.             *)
(***************************************************************************)
TransfersComplete ==
  <>(CASE transport = "net" -> Completed
       [] transport = "shared" -> SharedNet!Completed
       [] transport = "ce1" -> Ce1!Completed
       [] transport = "ce2" -> Ce2!Completed
       [] transport = "coll" -> Coll!Completed
       [] transport = "group" -> CollGroup!Completed)
=============================================================================
