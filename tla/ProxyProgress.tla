--------------------------- MODULE ProxyProgress ---------------------------
(***************************************************************************)
(* How operations reach a progress thread (proxy.cc).  The ranks of a node *)
(* (Peers) share an ncclProxyOpsPool with the thread, possibly across      *)
(* processes.  Each rank owns MAX_OPS_PER_PEER slots of it.  Its main      *)
(* thread fills slots, chains them and posts the chain; the progress       *)
(* thread takes all that is posted, appends it to its args (ProxyArgs) a   *)
(* batch at a time, and gives the slots back.  Posting and taking hold the *)
(* pool's mutex; the lists of free slots are exchanged by compare-and-swap *)
(* alone.                                                                  *)
(*                                                                         *)
(* Program[p] is the sequence of plans rank p launches, each the sequence  *)
(* of its operations [key, shared, opCount, kind, n] (n numbers them).     *)
(***************************************************************************)
EXTENDS ProxyArgs

CONSTANTS Peers,             \* local ranks, 0 .. tpLocalnRanks - 1
          MAX_OPS_PER_PEER,
          ProxyAppendBatchSize,
          Program,
          MayAbort           \* whether the communicator may be aborted

VARIABLES ops,         \* pool->ops: operation and next, per slot
          nextOps,     \* pool->nextOps
          nextOpsEnd,  \* pool->nextOpsEnd
          freeOps,     \* pool->freeOps
          main,        \* main thread of each rank, with its ncclProxyOps
          th,          \* the progress thread
          stop,        \* state->stop
          abortFlag,   \* *proxyState->abortFlag
          ran          \* history: operations started, per key

pool == <<ops, nextOps, nextOpsEnd, freeOps>>
lists == <<args, active, argPool, appendPtr>>
vars == <<pool, lists, main, th, stop, abortFlag, ran>>

ASSUME PeersAssumption == Peers = 0 .. Cardinality(Peers) - 1

ASSUME SizesAssumption == /\ MAX_OPS_PER_PEER \in Nat \ {0}
                          /\ ProxyAppendBatchSize \in Nat \ {0}

(***************************************************************************)
(* Operations that share args come one after the other in a plan, are of   *)
(* one kind, fewer than a rank has slots and no more than args have subs   *)
(* (enqueue.cc numbers them so).                                           *)
(***************************************************************************)
Grouped(plan) ==
  \A i, j \in DOMAIN plan :
    /\ i < j
    /\ plan[i].key = plan[j].key /\ plan[i].opCount = plan[j].opCount
    => /\ \A k \in i .. j : plan[k].opCount = plan[i].opCount
       /\ j - i + 1 < MAX_OPS_PER_PEER /\ j - i + 1 <= NCCL_PROXY_MAX_SUBS
       /\ plan[i].kind = plan[j].kind

ASSUME ProgramAssumption ==
  /\ \A p \in Peers : \A l \in DOMAIN Program[p] : Grouped(Program[p][l])
  /\ \A p, q \in Peers : p # q =>
       \A l \in DOMAIN Program[p], m \in DOMAIN Program[q] :
         {o.key : o \in Range(Program[p][l])}
           \intersect {o.key : o \in Range(Program[q][m])} = {}

Slots == 0 .. MAX_OPS_PER_PEER * Cardinality(Peers) - 1

Index == Slots \union {-1}

PeerOf(slot) == slot \div MAX_OPS_PER_PEER

NoOp == [key |-> CHOOSE k \in Keys : TRUE, shared |-> FALSE,
         opCount |-> 0, kind |-> "none", n |-> 0]

Empty == [head |-> -1, end |-> -1]

(***************************************************************************)
(* The slots reached from slot, in order, up to end.                       *)
(***************************************************************************)
Links(slot, end) ==
  LET N    == Cardinality(Slots)
      succ == [x \in Index |-> IF x \in {-1, end} THEN -1 ELSE ops[x].next]
      nth[n \in 1 .. N] == IF n = 1 THEN slot ELSE succ[nth[n - 1]]
  IN  SelectSeq([n \in 1 .. N |-> nth[n]], LAMBDA x : x # -1)

(***************************************************************************)
(* proxyProgressInit chains the slots of every rank in its free list; a    *)
(* rank that connects starts with empty lists of its own.                  *)
(***************************************************************************)
Init ==
  /\ ops = [s \in Slots |->
              [op |-> NoOp,
               next |-> IF (s + 1) % MAX_OPS_PER_PEER = 0 THEN -1 ELSE s + 1]]
  /\ nextOps = -1 /\ nextOpsEnd = -1
  /\ freeOps = [p \in Peers |-> p * MAX_OPS_PER_PEER]
  /\ main = [p \in Peers |-> [pc |-> "append", plan |-> 1, i |-> 1,
                              freeOp |-> -1, nextOps |-> -1, nextOpsEnd |-> -1,
                              count |-> 0, reg |-> -1, err |-> FALSE]]
  /\ th = [pc |-> "loop", nextOps |-> -1, op |-> NULL, prev |-> NULL,
           idle |-> TRUE, freed |-> [p \in Peers |-> Empty], peer |-> 0,
           oldFree |-> -1, count |-> 0, lastOpCount |-> 0, lastPeer |-> -1,
           err |-> FALSE]
  /\ stop = FALSE /\ abortFlag = FALSE
  /\ ran = [k \in Keys |-> <<>>]
  /\ ArgsInit

----------------------------------------------------------------------------
(***************************************************************************)
(* Main threads.                                                           *)
(***************************************************************************)
\* Mutant: the signal is not sent.
Woken_Never == th

Woken == IF th.pc = "sleep" THEN [th EXCEPT !.pc = "take"] ELSE th

\* Mutant: a chain is posted in front of those that wait.
ncclProxyPost_Front(o, first, last) ==
  /\ IF nextOps = -1
     THEN ops' = o /\ nextOpsEnd' = last /\ th' = Woken
     ELSE /\ ops' = [o EXCEPT ![last].next = nextOps]
          /\ UNCHANGED <<nextOpsEnd, th>>
  /\ nextOps' = first

(***************************************************************************)
(* ncclProxyPost of the chain first .. last of the slots o.                *)
(***************************************************************************)
ncclProxyPost(o, first, last) ==
  /\ IF nextOps = -1
     THEN nextOps' = first /\ ops' = o /\ th' = Woken
     ELSE /\ ops' = [o EXCEPT ![nextOpsEnd].next = first]
          /\ UNCHANGED <<nextOps, th>>
  /\ nextOpsEnd' = last

Running(p) == main[p].plan <= Len(Program[p]) /\ ~main[p].err /\ ~stop

Plan(p) == Program[p][main[p].plan]

(***************************************************************************)
(* How many operations of a full chain can be posted: up to the last one   *)
(* whose opCount differs from that of the end of the chain; more           *)
(* operations with the latter may still come.                              *)
(***************************************************************************)
CutAt(o, chain) ==
  LET differ == {j \in DOMAIN chain :
                   o[chain[j]].op.opCount # o[chain[Len(chain)]].op.opCount}
  IN  IF differ = {} THEN 0 ELSE CHOOSE j \in differ : \A k \in differ : k <= j

\* Operations chained and not posted, once cut of them are.
CountAfter(m, cut) == m.count + 1 - cut

(***************************************************************************)
(* The rest of ncclLocalOpAppend, once slot is free for the taking: fill   *)
(* it, chain it, and post if the rank has no slot left.                    *)
(***************************************************************************)
Put(p, slot) ==
  LET m     == main[p]
      o1    == [ops EXCEPT ![slot] = [op |-> Plan(p)[m.i], next |-> -1]]
      o2    == IF m.nextOps = -1 THEN o1
               ELSE [o1 EXCEPT ![m.nextOpsEnd].next = slot]
      mine  == IF m.nextOps = -1 THEN <<slot>>
               ELSE Append(Links(m.nextOps, m.nextOpsEnd), slot)
      cut   == CutAt(o2, mine)
      full  == m.count + 1 = MAX_OPS_PER_PEER
      m1    == [m EXCEPT !.pc = "append", !.i = @ + 1, !.reg = -1,
                         !.freeOp = ops[slot].next, !.nextOpsEnd = slot,
                         !.count = CountAfter(m, 0), !.nextOps = mine[1]]
  IN  /\ IF ~full
         THEN ops' = o2 /\ UNCHANGED <<nextOps, nextOpsEnd, th>>
         ELSE IF cut = 0
         THEN ops' = o2 /\ UNCHANGED <<nextOps, nextOpsEnd, th>>
         ELSE ncclProxyPost([o2 EXCEPT ![mine[cut]].next = -1],
                            mine[1], mine[cut])
      /\ main' = [main EXCEPT ![p] =
                    IF ~full THEN m1
                    ELSE IF cut = 0 THEN [m1 EXCEPT !.err = TRUE]
                    ELSE [m1 EXCEPT !.nextOps = mine[cut + 1],
                                    !.count = CountAfter(m, cut)]]

ncclLocalOpAppend(p) ==
  /\ Running(p) /\ main[p].pc = "append" /\ main[p].i <= Len(Plan(p))
  /\ main[p].freeOp # -1
  /\ Put(p, main[p].freeOp)
  /\ UNCHANGED <<freeOps, lists, stop, abortFlag, ran>>

\* The rank's own list is empty: spin until the progress thread frees some.
ReadFreeOps(p) ==
  /\ Running(p) /\ main[p].pc = "append" /\ main[p].i <= Len(Plan(p))
  /\ main[p].freeOp = -1 /\ freeOps[p] # -1
  /\ main' = [main EXCEPT ![p].pc = "swap", ![p].reg = freeOps[p]]
  /\ UNCHANGED <<pool, lists, th, stop, abortFlag, ran>>

\* Mutant: the list is taken without a compare-and-swap.
SwapFreeOps_Store(p) ==
  /\ main[p].pc = "swap"
  /\ freeOps' = [freeOps EXCEPT ![p] = -1]
  /\ Put(p, main[p].reg)
  /\ UNCHANGED <<lists, stop, abortFlag, ran>>

SwapFreeOps(p) ==
  /\ main[p].pc = "swap"
  /\ IF freeOps[p] = main[p].reg
     THEN freeOps' = [freeOps EXCEPT ![p] = -1] /\ Put(p, main[p].reg)
     ELSE /\ main' = [main EXCEPT ![p].reg = freeOps[p]]
          /\ UNCHANGED <<pool, th>>
  /\ UNCHANGED <<lists, stop, abortFlag, ran>>

(***************************************************************************)
(* The plan is complete: post what is left.                                *)
(***************************************************************************)
ncclProxyStart(p) ==
  /\ Running(p) /\ main[p].pc = "append" /\ main[p].i > Len(Plan(p))
  /\ IF main[p].nextOps = -1
     THEN UNCHANGED <<ops, nextOps, nextOpsEnd, th>>
     ELSE ncclProxyPost(ops, main[p].nextOps, main[p].nextOpsEnd)
  /\ main' = [main EXCEPT ![p].plan = @ + 1, ![p].i = 1, ![p].count = 0,
                          ![p].nextOps = -1, ![p].nextOpsEnd = -1]
  /\ UNCHANGED <<freeOps, lists, stop, abortFlag, ran>>

Main(p) == \/ ncclLocalOpAppend(p)
           \/ ReadFreeOps(p)
           \/ SwapFreeOps(p)
           \/ ncclProxyStart(p)

----------------------------------------------------------------------------
(***************************************************************************)
(* The progress thread: ncclProxyProgress, with progressOps unrolled.      *)
(***************************************************************************)
LoopTest ==
  /\ th.pc = "loop" /\ ~th.err
  /\ th' = IF (stop /\ active = NULL) \/ abortFlag
           THEN [th EXCEPT !.pc = "exit"]
           ELSE [th EXCEPT !.pc = "progress", !.op = active, !.prev = NULL,
                           !.idle = TRUE]
  /\ UNCHANGED <<pool, lists, main, stop, abortFlag, ran>>

\* The progress function starts the operations of the args ...
OpStarts ==
  /\ th.pc = "progress" /\ th.op # NULL
  /\ args[th.op].state = "Ready"
  /\ args' = [args EXCEPT ![th.op].state = "Progress"]
  /\ ran' = [ran EXCEPT ![args[th.op].key] = @ \o args[th.op].subs]
  /\ th' = [th EXCEPT !.prev = th.op, !.op = args[th.op].next, !.idle = FALSE]
  /\ UNCHANGED <<pool, active, argPool, appendPtr, main, stop, abortFlag>>

\* ... finds nothing to do for them ...
OpIdles ==
  /\ th.pc = "progress" /\ th.op # NULL
  /\ args[th.op].state = "Progress"
  /\ th' = [th EXCEPT !.prev = th.op, !.op = args[th.op].next]
  /\ UNCHANGED <<pool, lists, main, stop, abortFlag, ran>>

\* ... or completes them.
OpCompletes ==
  /\ th.pc = "progress" /\ th.op # NULL
  /\ args[th.op].state = "Progress"
  /\ removeOp(th.op, th.prev)
  /\ th' = [th EXCEPT !.op = args[th.op].next, !.idle = FALSE,
                      !.prev = IF args[th.op].nextPeer # NULL
                               THEN args[th.op].nextPeer ELSE @]
  /\ UNCHANGED <<pool, main, stop, abortFlag, ran>>

(***************************************************************************)
(* The pass is over.  If nothing moved, or every so many passes, look for  *)
(* posted operations, unless told to stop.                                 *)
(***************************************************************************)
PassEnds ==
  /\ th.pc = "progress" /\ th.op = NULL
  /\ \E look \in {TRUE, th.idle} :
       th' = [th EXCEPT !.pc = IF look /\ ~stop THEN "get" ELSE "loop"]
  /\ UNCHANGED <<pool, lists, main, stop, abortFlag, ran>>

\* State of ncclProxyGetPostedOps when it starts to append.
Appending(t) == [t EXCEPT !.pc = "append", !.count = 0, !.lastOpCount = 0,
                          !.lastPeer = -1, !.peer = 0,
                          !.freed = [p \in Peers |-> Empty]]

(***************************************************************************)
(* ncclProxyGetPostedOps up to the lock: go on with what was taken before; *)
(* or, with operations running, come back later if nothing is posted or    *)
(* the mutex is taken.                                                     *)
(***************************************************************************)
GetPostedOps ==
  /\ th.pc = "get"
  /\ \/ th.nextOps # -1 /\ th' = Appending(th)
     \/ th.nextOps = -1 /\ active # NULL /\ th' = [th EXCEPT !.pc = "loop"]
     \/ th.nextOps = -1 /\ active # NULL /\ nextOps # -1
         /\ th' = [th EXCEPT !.pc = "take"]
     \/ th.nextOps = -1 /\ active = NULL /\ th' = [th EXCEPT !.pc = "take"]
  /\ UNCHANGED <<pool, lists, main, stop, abortFlag, ran>>

Sleeps == active = NULL /\ nextOps = -1 /\ ~stop

(***************************************************************************)
(* With the mutex held: sleep, or take everything that is posted.          *)
(***************************************************************************)
TakePosted ==
  /\ th.pc = "take"
  /\ IF Sleeps
     THEN th' = [th EXCEPT !.pc = "sleep"] /\ UNCHANGED <<nextOps, nextOpsEnd>>
     ELSE IF active = NULL /\ stop
     THEN th' = [th EXCEPT !.pc = "loop"] /\ UNCHANGED <<nextOps, nextOpsEnd>>
     ELSE /\ th' = IF nextOps = -1 THEN [th EXCEPT !.err = TRUE]
                   ELSE Appending([th EXCEPT !.nextOps = nextOps])
          /\ nextOps' = -1 /\ nextOpsEnd' = -1
  /\ UNCHANGED <<ops, freeOps, lists, main, stop, abortFlag, ran>>

(***************************************************************************)
(* The batches counted so far: a new one starts where opCount or the rank  *)
(* changes.                                                                *)
(***************************************************************************)
BatchCount(slot) ==
  IF \/ th.lastOpCount # 0 /\ ops[slot].op.opCount # th.lastOpCount
     \/ th.lastPeer # -1 /\ PeerOf(slot) # th.lastPeer
  THEN th.count + 1 ELSE th.count

AppendPosted ==
  /\ th.pc = "append" /\ th.nextOps # -1 /\ ~th.err
  /\ LET slot == th.nextOps
         p    == PeerOf(slot)
         f    == th.freed[p]
     IN  IF BatchCount(slot) = ProxyAppendBatchSize + 1
         THEN th' = [th EXCEPT !.pc = "free"] /\ UNCHANGED <<ops, lists>>
         ELSE IF AppendFails(ops[slot].op)
         THEN th' = [th EXCEPT !.err = TRUE] /\ UNCHANGED <<ops, lists>>
         ELSE /\ ProxyAppend(ops[slot].op)
              /\ th' = [th EXCEPT
                   !.count = BatchCount(slot), !.nextOps = ops[slot].next,
                   !.lastOpCount = ops[slot].op.opCount, !.lastPeer = p,
                   !.freed[p] = [head |-> slot,
                                 end  |-> IF f.head = -1 THEN slot ELSE f.end]]
              /\ ops' = IF f.head = -1 THEN ops
                        ELSE [ops EXCEPT ![slot].next = f.head]
  /\ UNCHANGED <<nextOps, nextOpsEnd, freeOps, main, stop, abortFlag, ran>>

AppendEnds ==
  /\ th.pc = "append" /\ th.nextOps = -1
  /\ th' = [th EXCEPT !.pc = "free"]
  /\ UNCHANGED <<pool, lists, main, stop, abortFlag, ran>>

NextPeer(t) == [t EXCEPT !.pc = "free", !.peer = @ + 1]

(***************************************************************************)
(* Give the slots back, rank by rank.                                      *)
(***************************************************************************)
FreeSlots ==
  /\ th.pc = "free"
  /\ LET p == th.peer
     IN  IF p \notin Peers
         THEN th' = [th EXCEPT !.pc = "loop"] /\ UNCHANGED <<ops, freeOps>>
         ELSE IF th.freed[p].head = -1
         THEN th' = NextPeer(th) /\ UNCHANGED <<ops, freeOps>>
         ELSE /\ ops' = [ops EXCEPT ![th.freed[p].end].next = freeOps[p]]
              /\ IF freeOps[p] = -1
                 THEN /\ freeOps' = [freeOps EXCEPT ![p] = th.freed[p].head]
                      /\ th' = [NextPeer(th) EXCEPT !.freed[p] = Empty]
                 ELSE /\ th' = [th EXCEPT !.pc = "swap",
                                          !.oldFree = freeOps[p]]
                      /\ UNCHANGED freeOps
  /\ UNCHANGED <<nextOps, nextOpsEnd, lists, main, stop, abortFlag, ran>>

(***************************************************************************)
(* Replace the list that was read, unless the main thread has taken it.    *)
(***************************************************************************)
SwapFreed ==
  /\ th.pc = "swap"
  /\ LET p == th.peer
     IN  IF freeOps[p] \notin {th.oldFree, -1}
         THEN th' = [th EXCEPT !.err = TRUE] /\ UNCHANGED <<ops, freeOps>>
         ELSE /\ freeOps' = [freeOps EXCEPT ![p] = th.freed[p].head]
              /\ ops' = IF freeOps[p] = th.oldFree THEN ops
                        ELSE [ops EXCEPT ![th.freed[p].end].next = -1]
              /\ th' = [NextPeer(th) EXCEPT !.freed[p] = Empty]
  /\ UNCHANGED <<nextOps, nextOpsEnd, lists, main, stop, abortFlag, ran>>

Thread == \/ LoopTest \/ OpStarts \/ OpIdles \/ OpCompletes \/ PassEnds
          \/ GetPostedOps \/ TakePosted \/ AppendPosted \/ AppendEnds
          \/ FreeSlots \/ SwapFreed

----------------------------------------------------------------------------
\* Mutant: the thread is not woken to stop.
Destroy_Quiet ==
  /\ ~stop
  /\ \/ (\A p \in Peers : ~Running(p)) /\ nextOps = -1 /\ th.nextOps = -1
     \/ abortFlag /\ \A p \in Peers : main[p].pc = "append" /\ main[p].i = 1
  /\ stop' = TRUE
  /\ UNCHANGED <<pool, lists, main, th, abortFlag, ran>>

(***************************************************************************)
(* ncclProxyProgressDestroy, when the last rank has disconnected.  The     *)
(* thread fetches nothing once told to stop, so unless they abort the      *)
(* callers must not stop it before it has taken the last operations they   *)
(* posted.                                                                 *)
(***************************************************************************)
Destroy ==
  /\ ~stop
  /\ \/ (\A p \in Peers : ~Running(p)) /\ nextOps = -1 /\ th.nextOps = -1
     \/ abortFlag /\ \A p \in Peers : main[p].pc = "append" /\ main[p].i = 1
  /\ stop' = TRUE
  /\ th' = Woken
  /\ UNCHANGED <<pool, lists, main, abortFlag, ran>>

\* ncclCommAbort, by any rank and at any time.
Abort ==
  /\ MayAbort /\ ~abortFlag
  /\ abortFlag' = TRUE
  /\ UNCHANGED <<pool, lists, main, th, stop, ran>>

Next == (\E p \in Peers : Main(p)) \/ Thread \/ Destroy \/ Abort

Spec == Init /\ [][Next]_vars

(***************************************************************************)
(* The scheduler runs every thread.  An operation that is polled over and  *)
(* over completes at last: its kernel and its peers are running too.       *)
(***************************************************************************)
FairSpec == /\ Spec
            /\ \A p \in Peers : WF_vars(Main(p))
            /\ WF_vars(Thread) /\ SF_vars(OpCompletes) /\ WF_vars(Destroy)

----------------------------------------------------------------------------
OpSet == {NoOp} \union
  UNION {UNION {Range(Program[p][l]) : l \in DOMAIN Program[p]} : p \in Peers}

TypeOK ==
  /\ ops \in [Slots -> [op : OpSet, next : Index]]
  /\ nextOps \in Index /\ nextOpsEnd \in Index
  /\ freeOps \in [Peers -> Index]
  /\ main \in [Peers -> [pc : {"append", "swap"}, plan : Nat, i : Nat,
                         freeOp : Index, nextOps : Index, nextOpsEnd : Index,
                         count : 0 .. MAX_OPS_PER_PEER - 1, reg : Index,
                         err : BOOLEAN]]
  /\ th.pc \in {"loop", "progress", "get", "take", "sleep", "append", "free",
                "swap", "exit"}
  /\ th.nextOps \in Index /\ th.oldFree \in Index
  /\ th.op \in Ids \union {NULL} /\ th.prev \in Ids \union {NULL}
  /\ active \in Ids \union {NULL} /\ argPool \in Ids \union {NULL}
  /\ appendPtr \in [Keys -> Ids \union {NULL}]
  /\ stop \in BOOLEAN /\ abortFlag \in BOOLEAN

(***************************************************************************)
(* Every slot is in exactly one place: the free list of its rank or the    *)
(* shared one, the chain its rank builds, the posted chain, the chain the  *)
(* thread has taken or the one it is about to give back.  No slot is lost, *)
(* and none is refilled while its operation waits to be appended, though   *)
(* the free lists change hands without a lock.                             *)
(***************************************************************************)
SlotsPartition ==
  \A p \in Peers :
    LET ofRank(s) == SelectSeq(s, LAMBDA x : PeerOf(x) = p)
        all == Links(main[p].freeOp, -1) \o Links(freeOps[p], -1)
               \o Links(main[p].nextOps, main[p].nextOpsEnd)
               \o Links(th.freed[p].head, th.freed[p].end)
               \o ofRank(Links(nextOps, nextOpsEnd))
               \o ofRank(Links(th.nextOps, -1))
    IN  /\ Len(all) = MAX_OPS_PER_PEER
        /\ Range(all) = {s \in Slots : PeerOf(s) = p}

(***************************************************************************)
(* The internal errors of the progress thread and of the main threads are  *)
(* unreachable: no sub is appended to args that are already running        *)
(* ("Proxy append on running operation"), of another kind or full, the     *)
(* compare-and-swap never meets a list it did not write, and a full chain  *)
(* can always be cut.                                                      *)
(***************************************************************************)
NoInternalError == ~th.err /\ \A p \in Peers : ~main[p].err

(***************************************************************************)
(* The pool is sound: its links are slots, every slot is in one place, and *)
(* neither side meets a state it reports as an internal error.             *)
(***************************************************************************)
PoolOK == TypeOK /\ SlotsPartition /\ NoInternalError

\* The operations of each key, in the order its rank enqueues them.
Order ==
  LET flat(p) == LET cat[l \in 0 .. Len(Program[p])] ==
                       IF l = 0 THEN <<>> ELSE cat[l - 1] \o Program[p][l]
                 IN  cat[Len(Program[p])]
      of(p, k) == SelectSeq(flat(p), LAMBDA o : o.key = k)
      user(k)  == {p \in Peers : of(p, k) # <<>>}
  IN  [k \in Keys |-> IF user(k) = {} THEN <<>>
                      ELSE of(CHOOSE p \in user(k) : TRUE, k)]

(***************************************************************************)
(* The operations of a connection start in the order its rank enqueued     *)
(* them, each once.                                                        *)
(***************************************************************************)
StartInOrder ==
  \A k \in Keys :
    /\ Len(ran[k]) <= Len(Order[k])
    /\ ran[k] = SubSeq(Order[k], 1, Len(ran[k]))

(***************************************************************************)
(* Without an abort every operation is run, and the thread then exits: no  *)
(* wake-up is lost, no main thread waits for ever for a free slot.         *)
(***************************************************************************)
AllRunThenExit ==
  <>(abortFlag \/ (th.pc = "exit" /\ \A k \in Keys : ran[k] = Order[k]))

(***************************************************************************)
(* Once the communicator is aborted the thread exits, whether it was       *)
(* running operations, taking new ones, freeing slots or asleep.           *)
(***************************************************************************)
AbortExits == abortFlag ~> th.pc = "exit"
=============================================================================
