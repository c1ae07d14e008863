----------------------------- MODULE ProxyArgs -----------------------------
(***************************************************************************)
(* The operations a progress thread runs (proxy.cc: ProxyAppend, removeOp, *)
(* progressOps).  An ncclProxyArgs holds one operation, or several subs    *)
(* with the same opCount on a shared connection.  active is a list of args *)
(* linked by next; each heads a chain, linked by nextPeer, of the args of  *)
(* the same connection that have to wait for it.  *appendPtr[k] is the     *)
(* last args of the chain of key k (a connection, or the channel of a pool *)
(* of shared buffers), NULL if there is none.                              *)
(*                                                                         *)
(* Only the progress thread touches this state; ProxyProgress.tla composes *)
(* it with the pool through which operations arrive.                       *)
(***************************************************************************)
EXTENDS Integers, Sequences, FiniteSets

CONSTANTS Keys,   \* targets of proxyAppendPtr
          NArgs,  \* bound: elements of the pool of args
          NCCL_PROXY_MAX_SUBS

VARIABLES args,       \* the elements of the pool
          active,     \* state->active
          argPool,    \* state->pool, linked by next
          appendPtr   \* *proxyAppendPtr, per key

NULL == 0

Ids == 1 .. NArgs

Range(s) == {s[i] : i \in DOMAIN s}

(***************************************************************************)
(* The elements reached from id through field f, in order.                 *)
(***************************************************************************)
Chain(a, f, id) ==
  LET succ == [x \in Ids \union {NULL} |-> IF x = NULL THEN NULL ELSE a[x][f]]
      nth[n \in 1 .. NArgs] == IF n = 1 THEN id ELSE succ[nth[n - 1]]
  IN  SelectSeq([n \in 1 .. NArgs |-> nth[n]], LAMBDA x : x # NULL)

ArgsInit ==
  /\ args = [i \in Ids |-> [state |-> "None", opCount |-> 0, subs |-> <<>>,
                            key |-> CHOOSE k \in Keys : TRUE,
                            next |-> IF i < NArgs THEN i + 1 ELSE NULL,
                            nextPeer |-> NULL]]
  /\ active = NULL
  /\ argPool = 1
  /\ appendPtr = [k \in Keys |-> NULL]

----------------------------------------------------------------------------
(***************************************************************************)
(* The operation becomes one more sub of the last args of its key.         *)
(***************************************************************************)
Joins(op) ==
  /\ appendPtr[op.key] # NULL /\ op.shared
  /\ args[appendPtr[op.key]].opCount = op.opCount

(***************************************************************************)
(* ncclProxyOpToArgs refuses a sub when the args have no room for it, when *)
(* it is of another kind than their first (sliceSteps, chunkSteps,         *)
(* protocol, dtype, redOp and coll), and when they are already running.    *)
(***************************************************************************)
AppendFails(op) ==
  LET a == args[appendPtr[op.key]]
  IN  Joins(op) /\ \/ Len(a.subs) >= NCCL_PROXY_MAX_SUBS
                   \/ a.subs[1].kind # op.kind
                   \/ a.state # "Ready"

(***************************************************************************)
(* allocateArgs and ncclProxyOpToArgs(op, args, 0).                        *)
(***************************************************************************)
NewArgs(op) == [state |-> "Ready", opCount |-> op.opCount, subs |-> <<op>>,
                key |-> op.key, next |-> NULL, nextPeer |-> NULL]

(***************************************************************************)
(* Append the operation: as a sub, at the end of the chain of its key, or  *)
(* at the end of the active list.  The pool grows on demand in the code;   *)
(* here NArgs bounds it.                                                   *)
(***************************************************************************)
ProxyAppend(op) ==
  LET last == appendPtr[op.key]
      new  == argPool
      act  == Chain(args, "next", active)
  IN  IF Joins(op)
      THEN /\ args' = [args EXCEPT ![last].subs = Append(@, op)]
           /\ UNCHANGED <<active, argPool, appendPtr>>
      ELSE /\ new # NULL
           /\ argPool' = args[new].next
           /\ appendPtr' = [appendPtr EXCEPT ![op.key] = new]
           /\ active' = IF last = NULL /\ active = NULL THEN new ELSE active
           /\ args' = IF last # NULL
                      THEN [args EXCEPT ![last].nextPeer = new,
                                        ![new] = NewArgs(op)]
                      ELSE IF active = NULL
                      THEN [args EXCEPT ![new] = NewArgs(op)]
                      ELSE [args EXCEPT ![act[Len(act)]].next = new,
                                        ![new] = NewArgs(op)]

(***************************************************************************)
(* op leaves the active list, where its predecessor is prev, for the pool. *)
(* The next args of its chain take its place.                              *)
(***************************************************************************)
Unlinked(op, prev) ==
  LET next == args[op].next
      peer == args[op].nextPeer
      succ == IF peer # NULL THEN peer ELSE next
      a    == [args EXCEPT ![op].next = argPool, ![op].state = "None"]
      b    == IF prev = NULL THEN a ELSE [a EXCEPT ![prev].next = succ]
  IN  IF peer = NULL THEN b ELSE [b EXCEPT ![peer].next = next]

\* Mutant: the append pointer is left behind.
LastOfKey_Keep(op) == appendPtr

LastOfKey(op) == IF args[op].nextPeer # NULL THEN appendPtr
                 ELSE [appendPtr EXCEPT ![args[op].key] = NULL]

removeOp(op, prev) ==
  /\ args' = Unlinked(op, prev)
  /\ active' = IF prev # NULL THEN active
               ELSE IF args[op].nextPeer # NULL THEN args[op].nextPeer
               ELSE args[op].next
  /\ argPool' = op
  /\ appendPtr' = LastOfKey(op)

----------------------------------------------------------------------------
(***************************************************************************)
(* Every element is in exactly one list: the pool, or the chain of one     *)
(* active args.  A chain holds the args of one key, in the order of their  *)
(* operations, no two active args share a key, and the append pointer of a *)
(* key is the end of its chain.  The head of a chain may be running, the   *)
(* others are all Ready.                                                   *)
(***************************************************************************)
ListsOK ==
  LET act    == Chain(args, "next", active)
      free   == Chain(args, "next", argPool)
      peers(i) == Chain(args, "nextPeer", act[i])
  IN  /\ Cardinality(Range(free)) = Len(free)
      /\ Cardinality(Range(act)) = Len(act)
      /\ Len(free) + Cardinality(UNION {Range(peers(i)) : i \in DOMAIN act})
           = NArgs
      /\ \A i \in DOMAIN act :
           LET c == peers(i)
           IN  /\ Range(c) \intersect Range(free) = {}
               /\ \A j \in DOMAIN c : /\ args[c[j]].key = args[act[i]].key
                                      /\ j > 1 => args[c[j]].state = "Ready"
               /\ appendPtr[args[act[i]].key] = c[Len(c)]
      /\ \A k \in Keys : appendPtr[k] # NULL =>
           \E i \in DOMAIN act : args[act[i]].key = k
      /\ \A i, j \in DOMAIN act :
           args[act[i]].key = args[act[j]].key => i = j
=============================================================================
