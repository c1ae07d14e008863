------------------------------ MODULE ProxyRpc ------------------------------
(***************************************************************************)
(* Calls to a proxy service thread (proxy.cc).  The main threads of the    *)
(* ranks of a node (Clients) hold one socket each to the service thread of *)
(* a rank (Owner), send it requests to initialise, set up and connect      *)
(* proxy connections, and poll for the responses.  The thread keeps the    *)
(* requests it could not finish at once and tries them again; so responses *)
(* come out of order, and a client that polls for one call stores those of *)
(* its other calls.                                                        *)
(*                                                                         *)
(* Script[c] is what client c calls, as [type, k, wait]: k numbers the     *)
(* client's connectors, wait says that the call is ncclProxyCallBlocking.  *)
(***************************************************************************)
EXTENDS Integers, Sequences, FiniteSets, SequencesExt, FiniteSetsExt

CONSTANTS Clients, Owner, Script,
          MaxPeers,   \* NCCL_MAX_LOCAL_RANKS
          MayAbort    \* whether ranks may abort

ASSUME OwnerAssumption == Clients \subseteq Nat \ {0} /\ Owner \in Clients

ASSUME PeersAssumption == MaxPeers > Cardinality(Clients)

VARIABLES cl,       \* client: next call, expected responses, connectors ...
          req,      \* bytes on their way to the service, per socket
          resp,     \* responses on their way to the client, per socket
          backlog,  \* connections not accepted yet
          shut,     \* sockets closed by the client
          gone,     \* sockets closed by the service
          abort,    \* clients whose abort flag is set
          peers,    \* peers and pollfds of the service, per slot
          pool,     \* connectionPool
          sv        \* the service thread

vars == <<cl, req, resp, backlog, shut, gone, abort, peers, pool, sv>>

NONE == -1

\* ncclProxyStop opens a socket of its own.
StopSock == 0

Socks == Clients \union {StopSock}

Slots == 1 .. MaxPeers

Calls(c) == DOMAIN Script[c]

Connectors == UNION {{Script[c][i].k : i \in Calls(c)} : c \in Clients}

Init ==
  /\ cl = [c \in Clients |->
             [i |-> 1, open |-> FALSE, expected |-> <<>>, stopped |-> FALSE,
              conn |-> [k \in Connectors |-> 0],
              got |-> [i \in Calls(c) |-> {}], failed |-> FALSE]]
  /\ req = [x \in Socks |-> <<>>]
  /\ resp = [x \in Socks |-> <<>>]
  /\ backlog = <<>> /\ shut = {} /\ gone = {} /\ abort = {}
  /\ peers = [s \in Slots |-> [sock |-> NONE, ops |-> <<>>]]
  /\ pool = <<>>
  /\ sv = [pc |-> "poll", stop |-> FALSE, npeers |-> 0, asyncOpCount |-> 0,
           s |-> 1, j |-> 1, bad |-> <<>>, hot |-> {}, hear |-> FALSE]

----------------------------------------------------------------------------
(***************************************************************************)
(* Clients.                                                                *)
(***************************************************************************)
Ids(c) == {cl[c].expected[n].id : n \in DOMAIN cl[c].expected}

\* Mutant: only the calls that create a connection are waited for.
Blocked_Init(c) == {i \in Ids(c) : Script[c][i].type = "Init"}

\* The blocking call the client is in, if any, as a set.
Blocked(c) == {i \in Ids(c) : Script[c][i].wait}

Finished(c) == cl[c].i \notin Calls(c) /\ cl[c].expected = <<>>

Live(c) == ~cl[c].failed /\ ~cl[c].stopped

(***************************************************************************)
(* ncclProxyCallAsync, and ncclProxyConnect, which opens the socket first. *)
(* The response is expected once the request is on its way.                *)
(***************************************************************************)
ncclProxyCallAsync(c) ==
  /\ Live(c) /\ cl[c].i \in Calls(c) /\ Blocked(c) = {}
  /\ c \notin abort /\ (cl[c].open \/ sv.pc # "exit")
  /\ LET call == Script[c][cl[c].i]
     IN  /\ cl' = [cl EXCEPT ![c].i = @ + 1, ![c].open = TRUE,
                     ![c].expected = Append(@, [id |-> cl[c].i, done |-> FALSE,
                                                buff |-> 0])]
         /\ req' = [req EXCEPT ![c] =
                      Append(@, [type |-> call.type, id |-> <<c, cl[c].i>>,
                                 conn |-> cl[c].conn[call.k]])]
  /\ backlog' = IF cl[c].open THEN backlog ELSE Append(backlog, c)
  /\ UNCHANGED <<resp, shut, gone, abort, peers, pool, sv>>

\* Call i of client m returns the response buff.
Returns(m, c, i, buff) ==
  [m EXCEPT !.got[i] = {buff},
            !.conn[Script[c][i].k] = IF Script[c][i].type = "Init" THEN buff.conn
                                     ELSE @]

\* The response h of another call: "already completed" and "doesn't match
\* any expected response" are internal errors.
expectedProxyResponseStore(m, c, h) ==
  LET n == {x \in DOMAIN m.expected : <<c, m.expected[x].id>> = h.id}
  IN  IF n = {} \/ \E x \in n : m.expected[x].done
      THEN [m EXCEPT !.failed = TRUE]
      ELSE [m EXCEPT !.expected = [x \in DOMAIN @ |->
              IF x \in n THEN [@[x] EXCEPT !.done = TRUE, !.buff = h] ELSE @[x]]]

\* Mutant: any stored response will do.
Stored_Any(c, i) == {n \in DOMAIN cl[c].expected : cl[c].expected[n].done}

\* The first entry of call i that has been stored, as a set.
Stored(c, i) ==
  {n \in DOMAIN cl[c].expected : cl[c].expected[n].id = i /\ cl[c].expected[n].done}

\* A client in a blocking call polls for it; otherwise for any open call.
Polls(c, i) == /\ Live(c) /\ c \notin abort /\ i \in Ids(c)
               /\ Blocked(c) \subseteq {i}

(***************************************************************************)
(* ncclPollProxyResponse for call i: a response stored before, or the next *)
(* one on the socket.                                                      *)
(***************************************************************************)
ncclPollProxyResponse(c, i) ==
  /\ Polls(c, i)
  /\ IF Stored(c, i) # {}
     THEN /\ \E n \in Stored(c, i) :
               cl' = [cl EXCEPT ![c] =
                        Returns([@ EXCEPT !.expected = RemoveAt(@, n)], c, i,
                                cl[c].expected[n].buff)]
          /\ UNCHANGED resp
     ELSE /\ resp[c] # <<>>
          /\ resp' = [resp EXCEPT ![c] = Tail(@)]
          /\ LET h == Head(resp[c])
                 n == CHOOSE x \in DOMAIN cl[c].expected :
                        cl[c].expected[x].id = i
             IN  cl' = [cl EXCEPT ![c] =
                          IF h.id = <<c, i>>
                          THEN Returns([@ EXCEPT !.expected = RemoveAt(@, n)],
                                       c, i, h)
                          ELSE expectedProxyResponseStore(@, c, h)]
  /\ UNCHANGED <<req, backlog, shut, gone, abort, peers, pool, sv>>

\* Mutant: a poll does not look at the abort flag.
GivesUp_Not(c) == \/ c \in gone /\ resp[c] = <<>>
                  \/ sv.pc = "exit" /\ ~cl[c].open

\* A poll finds the abort flag set or the socket closed, or a call cannot
\* be sent.  (A send checks the abort flag after each part; the service
\* closes a socket it cannot read a whole request from.)
GivesUp(c) == \/ c \in abort
              \/ c \in gone /\ resp[c] = <<>>
              \/ sv.pc = "exit" /\ ~cl[c].open

Fail(c) ==
  /\ Live(c) /\ ~Finished(c) /\ GivesUp(c)
  /\ cl' = [cl EXCEPT ![c].failed = TRUE]
  /\ UNCHANGED <<req, resp, backlog, shut, gone, abort, peers, pool, sv>>

(***************************************************************************)
(* ncclProxyStop: tell the own service thread to stop, close the socket.   *)
(* Without an abort the ranks have met at the barrier that ends            *)
(* initTransportsRank, so all their calls are done; otherwise the client   *)
(* has left its own.                                                       *)
(***************************************************************************)
ncclProxyStop(c) ==
  /\ ~cl[c].stopped
  /\ \/ \A d \in Clients : Finished(d)
     \/ cl[c].failed
     \/ c \in abort /\ Finished(c)
  /\ cl' = [cl EXCEPT ![c].stopped = TRUE]
  /\ LET tell == c = Owner /\ c \notin abort
     IN  /\ req' = [x \in Socks |->
               IF x = StopSock /\ tell
               THEN <<[type |-> "Stop", id |-> 0, conn |-> 0]>>
               ELSE IF x = c /\ cl[c].open /\ c \notin abort
               THEN Append(req[c], [type |-> "Close", id |-> 0, conn |-> 0])
               ELSE req[x]]
         /\ backlog' = IF tell THEN Append(backlog, StopSock) ELSE backlog
         /\ shut' = shut \union (IF tell THEN {StopSock} ELSE {})
                         \union (IF cl[c].open THEN {c} ELSE {})
  /\ UNCHANGED <<resp, gone, abort, peers, pool, sv>>

Abort(c) == /\ MayAbort /\ c \notin abort
            /\ abort' = abort \union {c}
            /\ UNCHANGED <<cl, req, resp, backlog, shut, gone, peers, pool, sv>>

----------------------------------------------------------------------------
(***************************************************************************)
(* The service thread: ncclProxyService, one action per step of the loop.  *)
(* poll returns the sockets with data or closed by the other end.          *)
(***************************************************************************)
Ready(s) == LET x == peers[s].sock
            IN  x # NONE /\ (req[x] # <<>> \/ x \in shut)

LoopEnds == sv.stop /\ sv.npeers = 0

\* Mutant: the loop does not look at the abort flag.
AbortStops_Not == FALSE

AbortStops == Owner \in abort

\* Leaving the loop, the thread closes the listening socket.
Poll ==
  /\ sv.pc = "poll"
  /\ IF LoopEnds
     THEN /\ sv' = [sv EXCEPT !.pc = "exit"]
          /\ gone' = gone \union {backlog[n] : n \in DOMAIN backlog}
          /\ backlog' = <<>>
     ELSE /\ sv' = [sv EXCEPT !.pc = "accept", !.stop = @ \/ AbortStops,
                              !.hot = {s \in Slots : Ready(s)},
                              !.hear = backlog # <<>>]
          /\ UNCHANGED <<gone, backlog>>
  /\ UNCHANGED <<cl, req, resp, shut, abort, peers, pool>>

\* The loop over the slots in use, from slot s on.
SlotFrom(v, p, s) ==
  LET used == {x \in Slots : x >= s /\ p[x].sock # NONE}
  IN  IF used = {} THEN [v EXCEPT !.pc = "poll", !.hot = {}, !.hear = FALSE,
                                  !.s = 1, !.j = 1, !.bad = <<>>]
      ELSE [v EXCEPT !.pc = "slot", !.s = Min(used), !.j = 1, !.bad = <<>>]

\* The new peer takes the first free slot.  When the owner has aborted
\* ncclSocketAccept fails after it has accepted, and nobody serves the peer.
Accept ==
  /\ sv.pc = "accept"
  /\ LET s == Min({x \in Slots : peers[x].sock = NONE})
     IN  IF sv.hear /\ Owner \notin abort
         THEN peers' = [peers EXCEPT ![s].sock = Head(backlog)]
         ELSE UNCHANGED peers
  /\ backlog' = IF sv.hear THEN Tail(backlog) ELSE backlog
  /\ sv' = SlotFrom([sv EXCEPT !.npeers =
                       @ + (IF sv.hear /\ Owner \notin abort THEN 1 ELSE 0)],
                    peers', 1)
  /\ UNCHANGED <<cl, req, resp, shut, gone, abort, pool>>

States == [Init |-> 1, SharedInit |-> 2, Setup |-> 3, Connect |-> 4]

(***************************************************************************)
(* proxyProgressAsync of op, when it is done: proxyConnInit allocates a    *)
(* connection bound to the peer's slot; the others move theirs on.  The    *)
(* response goes to the socket in the slot of the connection.              *)
(***************************************************************************)
Served(op, s) ==
  IF op.type = "Init"
  THEN Append(pool, [slot |-> s, state |-> States["Init"]])
  ELSE [pool EXCEPT ![op.conn].state = States[op.type]]

ConnOf(op, new) == IF op.type = "Init" THEN Len(new) ELSE op.conn

\* The socket the response to op goes to.
To(op, s) == LET new == Served(op, s) IN peers[new[ConnOf(op, new)].slot].sock

\* The operation is done; sent says whether the response gets through.
Respond(op, s, sent) ==
  /\ pool' = Served(op, s)
  /\ resp' = IF ~sent THEN resp
             ELSE [resp EXCEPT ![To(op, s)] =
                     Append(@, [id |-> op.id, type |-> op.type,
                                conn |-> ConnOf(op, Served(op, s))])]

\* Only set-up and connection may need more than one try.
MayWait(op) == op.type \in {"Setup", "Connect"}

\* A send fails when the client has closed the socket, and, after it has sent
\* what it can, when the owner has aborted.
MayFail(op, s) == To(op, s) \in shut \/ Owner \in abort

\* Mutant: the operation stays in the queue.
asyncProxyOpDequeue_Keep(ops, id) == ops

asyncProxyOpDequeue(ops, id) == SelectSeq(ops, LAMBDA o : o.id # id)

\* The thread is at operation j of the peer in slot s.
AtOp == sv.pc = "slot" /\ sv.bad = <<>> /\ sv.j <= Len(peers[sv.s].ops)

CurOp == peers[sv.s].ops[sv.j]

OpDone ==
  /\ AtOp /\ Owner \notin abort
  /\ Respond(CurOp, sv.s, TRUE)
  /\ peers' = [peers EXCEPT ![sv.s].ops = asyncProxyOpDequeue(@, CurOp.id)]
  /\ sv' = [sv EXCEPT !.asyncOpCount = @ - 1]
  /\ UNCHANGED <<cl, req, backlog, shut, gone, abort>>

OpWaits ==
  /\ AtOp /\ Owner \notin abort /\ MayWait(CurOp)
  /\ sv' = [sv EXCEPT !.j = @ + 1]
  /\ UNCHANGED <<cl, req, resp, backlog, shut, gone, abort, peers, pool>>

\* Not done and the owner has aborted, or done and the send failed.
OpFails ==
  /\ AtOp
  /\ \/ MayWait(CurOp) /\ Owner \in abort /\ UNCHANGED <<resp, pool>>
     \/ MayFail(CurOp, sv.s) /\ \E sent \in BOOLEAN : Respond(CurOp, sv.s, sent)
  /\ sv' = [sv EXCEPT !.bad = CurOp.id]
  /\ UNCHANGED <<cl, req, backlog, shut, gone, abort, peers>>

\* The operations of the peer have been tried, or one has failed.
AtInput == sv.pc = "slot" /\ (sv.bad # <<>> \/ sv.j > Len(peers[sv.s].ops))

(***************************************************************************)
(* The end of the loop's body, for peers p: close the peer if something    *)
(* failed.  Only the operation that failed in the loop above is dequeued;  *)
(* the others stay in the slot.                                            *)
(***************************************************************************)
EndSlot(v, p, closeConn) ==
  LET close == closeConn \/ v.bad # <<>>
      fail  == v.bad # <<>>
      left  == IF ~close THEN p
               ELSE [p EXCEPT ![v.s].sock = NONE,
                              ![v.s].ops = IF fail
                                           THEN asyncProxyOpDequeue(@, v.bad)
                                           ELSE @]
  IN  /\ peers' = left
      /\ gone' = IF close THEN gone \union {p[v.s].sock} ELSE gone
      /\ sv' = SlotFrom([v EXCEPT !.npeers = @ - (IF close THEN 1 ELSE 0),
                                  !.asyncOpCount = @ - (IF fail THEN 1 ELSE 0)],
                        left, v.s + 1)

NoInput ==
  /\ AtInput /\ sv.s \notin sv.hot
  /\ EndSlot(sv, peers, FALSE)
  /\ UNCHANGED <<cl, req, resp, backlog, shut, abort, pool>>

Stops(type) == type = "Stop" /\ Owner \notin abort

\* Stop, Close, the other end is gone, or the owner has aborted.
ClosePeer ==
  LET x    == peers[sv.s].sock
      type == IF req[x] = <<>> THEN "none" ELSE Head(req[x]).type
  IN  /\ AtInput /\ sv.s \in sv.hot
      /\ type \in {"Stop", "Close", "none"} \/ Owner \in abort
      /\ req' = IF type = "none" THEN req ELSE [req EXCEPT ![x] = Tail(@)]
      /\ EndSlot([sv EXCEPT !.stop = @ \/ Stops(type)],
                 peers, TRUE)
      /\ UNCHANGED <<cl, resp, backlog, shut, abort, pool>>

\* proxyServiceInitOp: the request is tried at once and kept if it waits.  If
\* it fails it stays in the queue of the peer that is closed.
proxyServiceInitOp ==
  LET x    == peers[sv.s].sock
      op   == Head(req[x])
      kept == [peers EXCEPT ![sv.s].ops = Append(@, op)]
      more == [sv EXCEPT !.asyncOpCount = @ + 1]
  IN  /\ AtInput /\ sv.s \in sv.hot /\ Owner \notin abort
      /\ req[x] # <<>> /\ op.type \notin {"Stop", "Close"}
      /\ req' = [req EXCEPT ![x] = Tail(@)]
      /\ \/ Respond(op, sv.s, TRUE) /\ EndSlot(sv, peers, FALSE)
         \/ MayWait(op) /\ EndSlot(more, kept, FALSE) /\ UNCHANGED <<resp, pool>>
         \/ MayFail(op, sv.s) /\ Respond(op, sv.s, FALSE)
                              /\ EndSlot(more, kept, TRUE)
      /\ UNCHANGED <<cl, backlog, shut, abort>>

Client(c) == \/ ncclProxyCallAsync(c)
             \/ \E i \in Calls(c) : ncclPollProxyResponse(c, i)
             \/ Fail(c)
             \/ ncclProxyStop(c)

Service == \/ Poll \/ Accept \/ OpDone \/ OpWaits \/ OpFails
           \/ NoInput \/ ClosePeer \/ proxyServiceInitOp

Next == Service \/ \E c \in Clients : Client(c) \/ Abort(c)

Spec == Init /\ [][Next]_vars

----------------------------------------------------------------------------
TypeOK ==
  /\ \A c \in Clients : /\ cl[c].i \in 1 .. Len(Script[c]) + 1
                        /\ cl[c].conn \in [Connectors -> 0 .. Len(pool)]
                        /\ Ids(c) \subseteq Calls(c)
  /\ shut \subseteq Socks /\ abort \subseteq Clients
  /\ \A s \in Slots : peers[s].sock \in Socks \union {NONE}
  /\ pool \in Seq([slot : Slots, state : 1 .. 4])
  /\ sv.pc \in {"poll", "accept", "slot", "exit"}
  /\ sv.npeers \in 0 .. MaxPeers /\ sv.asyncOpCount \in Nat
  /\ sv.s \in Slots

(***************************************************************************)
(* The counters by which the service thread decides to sleep in poll and   *)
(* to exit agree with the queues and the slots, whatever is closed when.   *)
(***************************************************************************)
CountsAgree ==
  /\ sv.asyncOpCount = MapThenSumSet(LAMBDA s : Len(peers[s].ops), Slots)
  /\ sv.npeers = Cardinality({s \in Slots : peers[s].sock # NONE})

(***************************************************************************)
(* A call returns the response to that call: the right kind, and for the   *)
(* connection the client named, in whatever order responses arrive.        *)
(***************************************************************************)
ResponseMatches ==
  \A c \in Clients : \A i \in Calls(c) : \A r \in cl[c].got[i] :
    /\ r.id = <<c, i>> /\ r.type = Script[c][i].type
    /\ r.conn = cl[c].conn[Script[c][i].k]

(***************************************************************************)
(* Without an abort no response is lost or goes astray: "doesn't match any *)
(* expected response" and "already completed" are unreachable.             *)
(***************************************************************************)
NoStrayResponse ==
  abort = {} => \A c \in Clients : ~cl[c].failed

(***************************************************************************)
(* The service thread frees the connections and exits only when no client  *)
(* can still be waiting for it or use its socket, an aborting owner        *)
(* included ("we cannot let proxy thread exit if we still have peer        *)
(* connections").                                                          *)
(***************************************************************************)
ExitsLast ==
  sv.pc = "exit" => /\ \A s \in Slots : peers[s].sock = NONE
                    /\ abort = {} => \A c \in Clients : Finished(c)

(***************************************************************************)
(* The service thread's view is consistent: its counters agree with its    *)
(* queues, no response goes astray and it does not leave a peer behind.    *)
(***************************************************************************)
ServiceOK == TypeOK /\ CountsAgree /\ NoStrayResponse /\ ExitsLast

(***************************************************************************)
(* The state of a connection only moves forward: it is never set up again  *)
(* once it is connected.                                                   *)
(***************************************************************************)
StateAdvances ==
  [][\A x \in DOMAIN pool : pool'[x].state >= pool[x].state]_vars

(***************************************************************************)
(* When every rank has stopped the service thread sees its last peer leave *)
(* and exits, provided that its owner aborts if another rank does.  (The   *)
(* operations an aborting client leaves in its slot are tried again for    *)
(* the next peer there, which may be the one that brings Stop.)            *)
(***************************************************************************)
ServiceExits ==
  ((\A c \in Clients : cl[c].stopped) /\ (abort = {} \/ Owner \in abort))
    ~> sv.pc = "exit"
=============================================================================
