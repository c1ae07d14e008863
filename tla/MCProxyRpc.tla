----------------------------- MODULE MCProxyRpc -----------------------------
(***************************************************************************)
(* Two ranks of a node and the service thread of the first.  The owner     *)
(* initialises the shared resources, then connects a connector without     *)
(* waiting and one that it waits for (as a set-up over several transports  *)
(* does); the other rank connects two without waiting.  Or, with fewer     *)
(* calls, either rank may abort at any time.                               *)
(***************************************************************************)
EXTENDS ProxyRpc

VARIABLE scenario  \* which of the two this behaviour is

Call(type, k, wait) == [type |-> type, k |-> k, wait |-> wait]

Block(type, k) == Call(type, k, TRUE)

MCScript ==
  <<(<<Block("Init", 1), Block("SharedInit", 1),
       Call("Connect", 1, FALSE), Block("Init", 2), Block("Setup", 2)>>),
    (<<Block("Init", 1), Block("Setup", 1), Block("Init", 2),
       Call("Connect", 1, FALSE), Call("Connect", 2, FALSE)>>)>>

MCShortScript ==
  <<(<<Block("Init", 1), Call("Connect", 1, FALSE)>>),
    (<<Block("Init", 1), Call("Setup", 1, FALSE)>>)>>

Aborts == INSTANCE ProxyRpc WITH Script <- MCShortScript, MayAbort <- TRUE

On(x) == scenario = x /\ UNCHANGED scenario

MCVars == <<vars, scenario>>

MCInit == \/ scenario = "calls" /\ Init
          \/ scenario = "aborts" /\ Aborts!Init

MCNext == (On("calls") /\ Next) \/ (On("aborts") /\ Aborts!Next)

\* Every thread runs, and a set-up or connection that is tried again and
\* again gets done at last.
MCSpec ==
  /\ MCInit /\ [][MCNext]_MCVars
  /\ WF_MCVars((On("calls") /\ Service) \/ (On("aborts") /\ Aborts!Service))
  /\ SF_MCVars((On("calls") /\ OpDone) \/ (On("aborts") /\ Aborts!OpDone))
  /\ \A c \in Clients :
       WF_MCVars((On("calls") /\ Client(c)) \/ (On("aborts") /\ Aborts!Client(c)))

(***************************************************************************)
(* The service thread's counters agree with its queues, no response goes   *)
(* astray, and it frees the connections only when no peer is left: in both *)
(* scenarios.                                                              *)
(***************************************************************************)
ServiceAlwaysOK ==
  IF scenario = "calls" THEN ServiceOK ELSE Aborts!ServiceOK

(***************************************************************************)
(* A call returns the response to that very call, in whatever order the    *)
(* service thread finishes them and whoever aborts.                        *)
(***************************************************************************)
ResponsesMatch ==
  IF scenario = "calls" THEN ResponseMatches ELSE Aborts!ResponseMatches

(***************************************************************************)
(* Every client gets through its calls, as long as the owner of the        *)
(* service does not abort; those that abort give up.                       *)
(***************************************************************************)
AllCallsReturn ==
  \A c \in Clients :
    <>(\/ IF scenario = "calls" THEN Finished(c) ELSE Aborts!Finished(c)
       \/ cl[c].failed \/ cl[c].stopped \/ Owner \in abort)
=============================================================================
