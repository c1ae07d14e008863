------------------------------ MODULE MpscQueue ------------------------------
(***************************************************************************)
(* The intrusive queue through which any thread sends callbacks to the     *)
(* thread of a communicator (include/utils.h, ncclIntruQueueMpsc), and     *)
(* ncclCommPollCallbacks, its consumer (include/comm.h).                   *)
(*                                                                         *)
(* Each atomic access of the code is one step.  Nodes are the numbers from *)
(* 3 on; as a pointer 0 is null, and in tail the values 0 and 1 mean that  *)
(* the queue is empty, and empty with its consumer asleep.  (0x2, an       *)
(* abandoned queue, is not used: nothing calls ncclIntruQueueMpscAbandon.) *)
(* Every producer owns Nodes nodes, uses one again once its callback ran,  *)
(* and enqueues Enqueues times; a wait ends by itself at most Spurious     *)
(* times.                                                                  *)
(***************************************************************************)
EXTENDS Integers, Sequences, SequencesExt

CONSTANTS Producers, Nodes, Enqueues, Spurious

VARIABLES head, tail, next,
          mutex,   \* the mutex of the consumer's ncclThreadSignal is held
          prod,    \* per producer: pc, node, utail, how often it enqueued
          cons,    \* the consumer
          sent,    \* nodes in the order in which they entered the queue
          got      \* nodes in the order in which their callbacks ran

vars == <<head, tail, next, mutex, prod, cons, sent, got>>

Own(p) == {2 + (p - 1) * Nodes + i : i \in 1 .. Nodes}

AllNodes == UNION {Own(p) : p \in 1 .. Producers}

Init ==
  /\ head = 0 /\ tail = 0 /\ next = [x \in AllNodes |-> 0]
  /\ mutex = FALSE
  /\ prod = [p \in 1 .. Producers |-> [pc |-> "idle", x |-> 0, utail |-> 0, n |-> 0]]
  /\ cons = [pc |-> "idle", head |-> 0, x |-> 0, tail |-> 0, sleeping |-> FALSE,
             spurious |-> 0]
  /\ sent = <<>> /\ got = <<>>

(***************************************************************************)
(* ncclIntruQueueMpscEnqueue.                                              *)
(***************************************************************************)

\* A node is free unless its last callback is still to run.
Count(s, x) == Len(SelectSeq(s, LAMBDA y : y = x))

Exchange(p) ==
  /\ prod[p].pc = "idle" /\ prod[p].n < Enqueues
  /\ \E x \in Own(p) :
       /\ Count(sent, x) = Count(got, x)
       /\ \A y \in Own(p) : y < x => Count(sent, y) # Count(got, y)
       /\ next' = [next EXCEPT ![x] = 0]
       /\ prod' = [prod EXCEPT ![p] = [pc |-> "link", x |-> x, utail |-> tail,
                                       n |-> @.n + 1]]
       /\ tail' = x
       /\ sent' = Append(sent, x)
  /\ UNCHANGED <<head, mutex, cons, got>>

Link(p) ==
  /\ prod[p].pc = "link"
  /\ IF prod[p].utail <= 2
     THEN head' = prod[p].x /\ UNCHANGED next
     ELSE next' = [next EXCEPT ![prod[p].utail] = prod[p].x] /\ UNCHANGED head
  /\ prod' = [prod EXCEPT ![p].pc = IF prod[p].utail = 1 THEN "lock" ELSE "idle"]
  /\ UNCHANGED <<tail, mutex, cons, sent, got>>

Lock(p) ==
  /\ prod[p].pc = "lock" /\ ~mutex
  /\ prod' = [prod EXCEPT ![p].pc = "signal"]
  /\ UNCHANGED <<head, tail, next, mutex, cons, sent, got>>

Signal(p) ==
  /\ prod[p].pc = "signal"
  /\ prod' = [prod EXCEPT ![p].pc = "idle"]
  /\ cons' = IF cons.pc = "waiting" THEN [cons EXCEPT !.pc = "woken"] ELSE cons
  /\ UNCHANGED <<head, tail, next, mutex, sent, got>>

Producer(p) == Exchange(p) \/ Link(p) \/ Lock(p) \/ Signal(p)

(***************************************************************************)
(* ncclIntruQueueMpscDequeueAll and ncclCommPollCallbacks.                 *)
(***************************************************************************)

\* The first look at head; without waitSome an empty queue ends the call.
Look ==
  /\ cons.pc = "idle"
  /\ \E waitSome \in BOOLEAN :
       cons' = IF head # 0 THEN [cons EXCEPT !.pc = "take", !.head = head]
               ELSE IF waitSome THEN [cons EXCEPT !.pc = "spin", !.sleeping = FALSE]
               ELSE cons
  /\ UNCHANGED <<head, tail, next, mutex, prod, sent, got>>

\* The loop that waits: it spins at first, then takes the mutex.
Reload ==
  /\ cons.pc \in {"spin", "reload"}
  /\ cons' = IF head # 0 THEN [cons EXCEPT !.pc = "take", !.head = head]
             ELSE [cons EXCEPT !.pc = "spin"]
  /\ UNCHANGED <<head, tail, next, mutex, prod, sent, got>>

WaitLock ==
  /\ cons.pc = "spin" /\ ~mutex
  /\ mutex' = TRUE
  /\ cons' = [cons EXCEPT !.pc = "cas"]
  /\ UNCHANGED <<head, tail, next, prod, sent, got>>

CompareExchange ==
  /\ cons.pc = "cas"
  /\ IF tail = (IF cons.sleeping THEN 1 ELSE 0)
     THEN /\ tail' = 1 /\ UNCHANGED mutex
          /\ cons' = [cons EXCEPT !.pc = "wait", !.sleeping = TRUE]
     ELSE /\ mutex' = FALSE /\ UNCHANGED tail
          /\ cons' = [cons EXCEPT !.pc = "reload"]
  /\ UNCHANGED <<head, next, prod, sent, got>>

\* pthread_cond_wait releases the mutex and begins to wait in one step.
CondWait ==
  /\ cons.pc = "wait"
  /\ mutex' = FALSE
  /\ cons' = [cons EXCEPT !.pc = "waiting"]
  /\ UNCHANGED <<head, tail, next, prod, sent, got>>

\* It may also end by itself.
SpuriousWakeup ==
  /\ cons.pc = "waiting" /\ cons.spurious < Spurious
  /\ cons' = [cons EXCEPT !.pc = "woken", !.spurious = @ + 1]
  /\ UNCHANGED <<head, tail, next, mutex, prod, sent, got>>

\* The mutex is taken again and released.
Woken ==
  /\ cons.pc = "woken" /\ ~mutex
  /\ cons' = [cons EXCEPT !.pc = "reload"]
  /\ UNCHANGED <<head, tail, next, mutex, prod, sent, got>>

ClearHead ==
  /\ cons.pc = "take"
  /\ head' = 0
  /\ cons' = [cons EXCEPT !.pc = "detach"]
  /\ UNCHANGED <<tail, next, mutex, prod, sent, got>>

Detach ==
  /\ cons.pc = "detach"
  /\ tail' = 0
  /\ cons' = [cons EXCEPT !.pc = "walk", !.x = cons.head,
                          !.tail = IF tail <= 2 THEN 0 ELSE tail]
  /\ UNCHANGED <<head, next, mutex, prod, sent, got>>

\* Wait until every node but the last is linked to its successor.
Walk_NoSpin ==
  /\ cons.pc = "walk"
  /\ cons' = IF cons.x = cons.tail \/ next[cons.x] = 0
             THEN [cons EXCEPT !.pc = "call", !.x = cons.head]
             ELSE [cons EXCEPT !.x = next[@]]
  /\ UNCHANGED <<head, tail, next, mutex, prod, sent, got>>

Walk ==
  /\ cons.pc = "walk"
  /\ IF cons.x = cons.tail THEN cons' = [cons EXCEPT !.pc = "call", !.x = cons.head]
     ELSE next[cons.x] # 0 /\ cons' = [cons EXCEPT !.x = next[@]]
  /\ UNCHANGED <<head, tail, next, mutex, prod, sent, got>>

\* ncclCommPollCallbacks reads next before the callback gives the node back.
Call ==
  /\ cons.pc = "call"
  /\ cons' = IF next[cons.x] = 0
             THEN [cons EXCEPT !.pc = "idle", !.head = 0, !.x = 0, !.tail = 0]
             ELSE [cons EXCEPT !.x = next[@]]
  /\ got' = Append(got, cons.x)
  /\ UNCHANGED <<head, tail, next, mutex, prod, sent>>

Consumer == \/ Look \/ Reload \/ WaitLock \/ CompareExchange \/ CondWait \/ Woken
            \/ ClearHead \/ Detach \/ Walk \/ Call

Next == (\E p \in 1 .. Producers : Producer(p)) \/ Consumer \/ SpuriousWakeup

Fairness == WF_vars(Consumer) /\ \A p \in 1 .. Producers : WF_vars(Producer(p))

Spec == Init /\ [][Next]_vars

(***************************************************************************)
(* Properties.                                                             *)
(***************************************************************************)

\* Callbacks run in the order in which their nodes entered the queue, each as
\* often as it was sent, though nodes are used again, the list has gaps while
\* producers are between their two stores, and DequeueAll detaches it.
CallbacksInOrder == IsPrefix(got, sent)

\* Every callback that was sent runs, with the consumer asleep or not.
Drained ==
  /\ \A p \in 1 .. Producers : prod[p].n = Enqueues
  /\ got = sent
=============================================================================
