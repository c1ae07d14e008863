----------------------------- MODULE Bootstrap -----------------------------
(***************************************************************************)
(* The out-of-band network of a communicator (bootstrap.cc).  Every rank   *)
(* checks in with a root thread, which tells it the address of the next    *)
(* rank; the ranks form a ring and all-gather their addresses over it; any *)
(* rank can then connect to any other to send a message with a tag.  A     *)
(* receiver cannot choose whose connection it accepts next, so it keeps    *)
(* the unexpected ones.  Barriers, all-gathers and broadcasts within a     *)
(* node, and the ring of a communicator that is split off, are built from  *)
(* these.                                                                  *)
(*                                                                         *)
(* A rank runs the steps Prog[r]: those of bootstrapInit, of the calls it  *)
(* makes, and of bootstrapClose.  A step connects, sends (neither waits    *)
(* for the other side) or accepts and receives (which do).  The address of *)
(* rank r's socket is r, or r of level 1 for a child communicator.         *)
(***************************************************************************)
EXTENDS Integers, Sequences, FiniteSets

CONSTANTS N,          \* nranks
          Calls,      \* calls made after bootstrapInit, by the ranks they list
          SplitShare  \* config.splitShare of the parent

ASSUME NAssumption == N \in Nat \ {0}

VARIABLES root,      \* the root thread
          rootQ,     \* connections to the root, with the extInfo sent
          handoff,   \* connections to listenSockRoot, with the address sent
          backlog,   \* connections to listenSock, per level and rank
          ring,      \* data sent on ringSendSocket, per level and sender
          ringFrom,  \* the rank at the other end of ringRecvSocket
          arr,       \* arrays filled by bootstrapAllGather
          unex,      \* unexpectedConnections
          reg,       \* the address received last
          pc,        \* index into Prog
          failed     \* ranks that returned ncclInternalError

vars == <<root, rootQ, handoff, backlog, ring, ringFrom, arr, unex, reg, pc,
          failed>>

Ranks == 0 .. N - 1

Levels == {0, 1}

NULL == -1

Step(op) == [op |-> op, l |-> 0, peer |-> NULL, tag |-> 0, a |-> 0, s |-> 0,
             c |-> 0]

----------------------------------------------------------------------------
(***************************************************************************)
(* The steps of each call.  ranks lists the ranks that make it, me is the  *)
(* index of the caller in it.                                              *)
(***************************************************************************)
Flat(f, n) == LET cat[i \in 0 .. n] == IF i = 0 THEN <<>> ELSE cat[i - 1] \o f[i]
              IN  cat[n]

Send(peer, tag) == [Step("send") EXCEPT !.peer = peer, !.tag = tag]

Recv(peer, tag) == [Step("recv") EXCEPT !.peer = peer, !.tag = tag]

\* Mutant: slices arrive from the left and are stored as if from the right.
bootstrapAllGather_Reverse(l, ranks, me, a) ==
  LET n == Len(ranks)
  IN  Flat([i \in 1 .. n - 1 |->
        << [Step("ringSend") EXCEPT !.l = l, !.a = a,
                                    !.s = (me + (i - 1)) % n],
           [Step("ringRecv") EXCEPT !.l = l, !.a = a,
                                    !.s = (me + i) % n] >>], n - 1)

\* Array a is gathered over the ring of level l.
bootstrapAllGather(l, ranks, me, a) ==
  LET n == Len(ranks)
  IN  Flat([i \in 1 .. n - 1 |->
        << [Step("ringSend") EXCEPT !.l = l, !.a = a,
                                    !.s = (me - (i - 1) + n) % n],
           [Step("ringRecv") EXCEPT !.l = l, !.a = a,
                                    !.s = (me - i + n) % n] >>], n - 1)

\* Mutant: the last round is left out.
bootstrapBarrier_Short(ranks, me, tag) ==
  LET n == Len(ranks)
      rounds == Cardinality({k \in 0 .. n : 2 ^ k < n}) - 1
      peer(d) == ranks[((me + d + n) % n) + 1]
  IN  Flat([k \in 1 .. rounds |-> << Send(peer(2 ^ (k - 1)), tag),
                                     Recv(peer(-(2 ^ (k - 1))), tag) >>], rounds)

bootstrapBarrier(ranks, me, tag) ==
  LET n == Len(ranks)
      rounds == Cardinality({k \in 0 .. n : 2 ^ k < n})
      peer(d) == ranks[((me + d + n) % n) + 1]
  IN  Flat([k \in 1 .. rounds |-> << Send(peer(2 ^ (k - 1)), tag),
                                     Recv(peer(-(2 ^ (k - 1))), tag) >>], rounds)

bootstrapIntraNodeAllGather(ranks, me) ==
  LET n == Len(ranks)
      peer(d) == ranks[((me + d + n) % n) + 1]
  IN  Flat([i \in 1 .. n - 1 |-> <<Send(peer(i), i), Recv(peer(-i), i)>>], n - 1)

bootstrapIntraNodeBroadcast(ranks, me, rt) ==
  IF Len(ranks) = 1 THEN <<>>
  ELSE IF me = rt
  THEN LET others == SelectSeq(ranks, LAMBDA x : x # ranks[rt + 1])
       IN  [i \in DOMAIN others |-> Send(others[i], others[i])]
  ELSE <<Recv(ranks[rt + 1], ranks[me + 1])>>

(***************************************************************************)
(* A child communicator: its ranks pass their new addresses to their       *)
(* predecessors over the parent, and build a ring of their own.  The proxy *)
(* addresses are exchanged unless the child shares the parent's proxy.     *)
(***************************************************************************)
bootstrapSplit(ranks, me, a) ==
  LET n == Len(ranks)
      onRing(op) == [Step(op) EXCEPT !.l = 1]
  IN  << Send(ranks[((me - 1 + n) % n) + 1], -2),
         Recv(ranks[((me + 1) % n) + 1], -2),
         onRing("ringConnect"), onRing("ringAccept") >>
      \o bootstrapAllGather(1, ranks, me, a)
      \o (IF SplitShare THEN <<>>
          ELSE bootstrapAllGather(1, ranks, me, a + 1)
               \o bootstrapAllGather(1, ranks, me, a + 2))

All == [i \in 1 .. N |-> i - 1]

\* Arrays 0 .. 2 are the addresses of the ranks, of their proxies, and of the
\* proxies' Unix sockets.
bootstrapInit(r) ==
  <<Step("checkIn"), Step("next"), Step("ringConnect"), Step("ringAccept")>>
  \o bootstrapAllGather(0, All, r, 0)
  \o bootstrapAllGather(0, All, r, 1)
  \o bootstrapAllGather(0, All, r, 2)

CallArray(c) == 3 * c

CallSteps(c, r) ==
  LET call == Calls[c]
      me   == CHOOSE i \in 0 .. Len(call.ranks) - 1 : call.ranks[i + 1] = r
  IN  IF \A i \in DOMAIN call.ranks : call.ranks[i] # r THEN <<>>
      ELSE CASE call.op = "ring"      -> bootstrapAllGather(0, All, r, CallArray(c))
             [] call.op = "barrier"   -> bootstrapBarrier(call.ranks, me, call.tag)
             [] call.op = "gather"    -> bootstrapIntraNodeAllGather(call.ranks, me)
             [] call.op = "broadcast" ->
                  bootstrapIntraNodeBroadcast(call.ranks, me, call.root)
             [] call.op = "split"     ->
                  bootstrapSplit(call.ranks, me, CallArray(c))

\* The whole life of each rank; steps carry the number of their call.
Prog ==
  [r \in Ranks |->
     bootstrapInit(r)
     \o Flat([c \in DOMAIN Calls |->
                LET s == CallSteps(c, r)
                IN  [i \in DOMAIN s |-> [s[i] EXCEPT !.c = c]]], Len(Calls))
     \o <<[Step("close") EXCEPT !.c = Len(Calls) + 1]>>]

Arrays == 0 .. 3 * Len(Calls) + 2

\* The ranks that gather array a, in the order of its slots.
Members(a) == IF a < 3 \/ Calls[a \div 3].op # "split" THEN All
              ELSE Calls[a \div 3].ranks

At(r) == Prog[r][pc[r]]

Runs(r, op) == pc[r] \in DOMAIN Prog[r] /\ At(r).op = op /\ r \notin failed

----------------------------------------------------------------------------
Init ==
  /\ root = [pc |-> "collect", c |-> 0, r |-> 0, nranks |-> 0,
             addr |-> [r \in Ranks |-> NULL]]
  /\ rootQ = <<>>
  /\ handoff = [r \in Ranks |-> <<>>]
  /\ backlog = [l \in Levels |-> [r \in Ranks |-> <<>>]]
  /\ ring = [l \in Levels |-> [r \in Ranks |-> <<>>]]
  /\ ringFrom = [l \in Levels |-> [r \in Ranks |-> NULL]]
  /\ arr = [r \in Ranks |-> [a \in Arrays |->
              [s \in Ranks |-> IF s < Len(Members(a)) /\ Members(a)[s + 1] = r
                               THEN r ELSE NULL]]]
  /\ unex = [r \in Ranks |-> <<>>]
  /\ reg = [r \in Ranks |-> NULL]
  /\ pc = [r \in Ranks |-> 1]
  /\ failed = {}

Advance(r) == pc' = [pc EXCEPT ![r] = @ + 1]

(***************************************************************************)
(* The root thread collects the addresses; a rank that checks in twice, or *)
(* with another rank count, makes it give up ...                           *)
(***************************************************************************)
RootCollect ==
  /\ root.pc = "collect" /\ rootQ # <<>>
  /\ rootQ' = Tail(rootQ)
  /\ LET info == Head(rootQ)
         n    == IF root.c = 0 THEN info.nranks ELSE root.nranks
     IN  root' = IF n # info.nranks \/ root.addr[info.rank] # NULL
                 THEN [root EXCEPT !.pc = "out"]
                 ELSE [root EXCEPT !.nranks = n, !.c = @ + 1,
                                   !.addr[info.rank] = info.addr,
                                   !.pc = IF root.c + 1 < n THEN "collect"
                                          ELSE "distribute"]
  /\ UNCHANGED <<handoff, backlog, ring, ringFrom, arr, unex, reg, pc, failed>>

\* ... then sends each rank the address of the next one.
RootDistribute ==
  /\ root.pc = "distribute"
  /\ handoff' = [handoff EXCEPT ![root.r] =
                   Append(@, root.addr[(root.r + 1) % root.nranks])]
  /\ root' = [root EXCEPT !.r = @ + 1,
                          !.pc = IF root.r + 1 < root.nranks THEN @ ELSE "out"]
  /\ UNCHANGED <<rootQ, backlog, ring, ringFrom, arr, unex, reg, pc, failed>>

----------------------------------------------------------------------------
CheckIn(r) ==
  /\ Runs(r, "checkIn")
  /\ rootQ' = Append(rootQ, [rank |-> r, nranks |-> N, addr |-> r])
  /\ Advance(r)
  /\ UNCHANGED <<root, handoff, backlog, ring, ringFrom, arr, unex, reg, failed>>

NextAddr(r) ==
  /\ Runs(r, "next") /\ handoff[r] # <<>>
  /\ reg' = [reg EXCEPT ![r] = Head(handoff[r])]
  /\ handoff' = [handoff EXCEPT ![r] = Tail(@)]
  /\ Advance(r)
  /\ UNCHANGED <<root, rootQ, backlog, ring, ringFrom, arr, unex, failed>>

\* Connect to the address received last.
RingConnect(r) ==
  /\ Runs(r, "ringConnect")
  /\ backlog' = [backlog EXCEPT ![At(r).l][reg[r]] =
                   Append(@, [from |-> r, tag |-> NULL, val |-> NULL,
                              c |-> At(r).c])]
  /\ Advance(r)
  /\ UNCHANGED <<root, rootQ, handoff, ring, ringFrom, arr, unex, reg, failed>>

\* Whoever comes first is taken for the predecessor.
RingAccept(r) ==
  /\ Runs(r, "ringAccept")
  /\ backlog[At(r).l][r] # <<>>
  /\ ringFrom' = [ringFrom EXCEPT ![At(r).l][r] = Head(backlog[At(r).l][r]).from]
  /\ backlog' = [backlog EXCEPT ![At(r).l][r] = Tail(@)]
  /\ Advance(r)
  /\ UNCHANGED <<root, rootQ, handoff, ring, arr, unex, reg, failed>>

RingSend(r) ==
  /\ Runs(r, "ringSend")
  /\ ring' = [ring EXCEPT ![At(r).l][r] = Append(@, arr[r][At(r).a][At(r).s])]
  /\ Advance(r)
  /\ UNCHANGED <<root, rootQ, handoff, backlog, ringFrom, arr, unex, reg, failed>>

RingRecv(r) ==
  LET l == At(r).l
      w == ringFrom[l][r]
  IN  /\ Runs(r, "ringRecv")
      /\ ring[l][w] # <<>>
      /\ arr' = [arr EXCEPT ![r][At(r).a][At(r).s] = Head(ring[l][w])]
      /\ ring' = [ring EXCEPT ![l][w] = Tail(@)]
      /\ Advance(r)
      /\ UNCHANGED <<root, rootQ, handoff, backlog, ringFrom, unex, reg, failed>>

(***************************************************************************)
(* bootstrapSend: connect to the peer, say who calls and with what tag,    *)
(* send, close.  The value is the sender's rank (its address on level 1);  *)
(* c, the number of the call, is only there for the properties.            *)
(***************************************************************************)
bootstrapSend(r) ==
  /\ Runs(r, "send")
  /\ backlog' = [backlog EXCEPT ![0][arr[r][0][At(r).peer]] =
                   Append(@, [from |-> r, tag |-> At(r).tag, val |-> r,
                              c |-> At(r).c])]
  /\ Advance(r)
  /\ UNCHANGED <<root, rootQ, handoff, ring, ringFrom, arr, unex, reg, failed>>

Matches(m, r) == m.from = At(r).peer /\ m.tag = At(r).tag

\* Mutant: the newest connection comes first.
unexpectedEnqueue_Front(q, m) == <<m>> \o q

unexpectedEnqueue(q, m) == Append(q, m)

\* Mutant: the connections kept for later are never looked at.
unexpectedDequeue_None(r) == {}

\* Index of the first kept connection that matches, as a set.
unexpectedDequeue(r) ==
  {i \in DOMAIN unex[r] :
     Matches(unex[r][i], r) /\ \A j \in 1 .. i - 1 : ~Matches(unex[r][j], r)}

Without(s, i) == SubSeq(s, 1, i - 1) \o SubSeq(s, i + 1, Len(s))

(***************************************************************************)
(* bootstrapRecv: a connection kept before, or the next one to arrive; if  *)
(* it is not the expected one, keep it and go on.                          *)
(***************************************************************************)
RecvKept(r) ==
  /\ Runs(r, "recv")
  /\ \E i \in unexpectedDequeue(r) :
       /\ reg' = [reg EXCEPT ![r] = unex[r][i].val]
       /\ unex' = [unex EXCEPT ![r] = Without(@, i)]
  /\ Advance(r)
  /\ UNCHANGED <<root, rootQ, handoff, backlog, ring, ringFrom, arr, failed>>

RecvNew(r) ==
  /\ Runs(r, "recv") /\ unexpectedDequeue(r) = {}
  /\ backlog[0][r] # <<>>
  /\ LET m == Head(backlog[0][r])
     IN  IF Matches(m, r)
         THEN /\ reg' = [reg EXCEPT ![r] = m.val]
              /\ Advance(r) /\ UNCHANGED unex
         ELSE /\ unex' = [unex EXCEPT ![r] = unexpectedEnqueue(@, m)]
              /\ UNCHANGED <<reg, pc>>
  /\ backlog' = [backlog EXCEPT ![0][r] = Tail(@)]
  /\ UNCHANGED <<root, rootQ, handoff, ring, ringFrom, arr, failed>>

\* Connections nobody asked for are an internal error.
bootstrapClose(r) ==
  /\ Runs(r, "close")
  /\ failed' = IF unex[r] # <<>> THEN failed \union {r} ELSE failed
  /\ unex' = [unex EXCEPT ![r] = <<>>]
  /\ Advance(r)
  /\ UNCHANGED <<root, rootQ, handoff, backlog, ring, ringFrom, arr, reg>>

Root == RootCollect \/ RootDistribute

Rank(r) == \/ CheckIn(r) \/ NextAddr(r)
           \/ RingConnect(r) \/ RingAccept(r) \/ RingSend(r) \/ RingRecv(r)
           \/ bootstrapSend(r) \/ RecvKept(r) \/ RecvNew(r)
           \/ bootstrapClose(r)

Next == Root \/ \E r \in Ranks : Rank(r)

Spec == Init /\ [][Next]_vars

----------------------------------------------------------------------------
Conns == [from : Ranks, tag : Int, val : Ranks \union {NULL}, c : Nat]

TypeOK ==
  /\ root.pc \in {"collect", "distribute", "out"}
  /\ root.c \in 0 .. N /\ root.r \in 0 .. N
  /\ root.addr \in [Ranks -> Ranks \union {NULL}]
  /\ Len(rootQ) <= N
  /\ \A r \in Ranks : handoff[r] = <<>> \/ handoff[r] \in [1 .. 1 -> Ranks]
  /\ backlog \in [Levels -> [Ranks -> Seq(Conns)]]
  /\ ring \in [Levels -> [Ranks -> Seq(Ranks)]]
  /\ ringFrom \in [Levels -> [Ranks -> Ranks \union {NULL}]]
  /\ arr \in [Ranks -> [Arrays -> [Ranks -> Ranks \union {NULL}]]]
  /\ unex \in [Ranks -> Seq(Conns)]
  /\ reg \in [Ranks -> Ranks \union {NULL}]
  /\ \A r \in Ranks : pc[r] \in 1 .. Len(Prog[r]) + 1
  /\ failed \subseteq Ranks

Predecessor(ranks, r) ==
  LET n  == Len(ranks)
      me == CHOOSE i \in 0 .. n - 1 : ranks[i + 1] = r
  IN  ranks[((me - 1 + n) % n) + 1]

SplitOf(r) == {c \in DOMAIN Calls : /\ Calls[c].op = "split"
                                    /\ \E i \in DOMAIN Calls[c].ranks :
                                         Calls[c].ranks[i] = r}

(***************************************************************************)
(* The connection a rank accepts for its ring is the predecessor's, though *)
(* accept takes whatever connection comes first and messages arrive on the *)
(* same socket.                                                            *)
(***************************************************************************)
RingFromPredecessor ==
  \A r \in Ranks :
    /\ ringFrom[0][r] \in {NULL, Predecessor(All, r)}
    /\ \A c \in SplitOf(r) :
         ringFrom[1][r] \in {NULL, Predecessor(Calls[c].ranks, r)}

\* Rank r has done its last step on array a.
GatheredBy(r, a) ==
  \A i \in DOMAIN Prog[r] :
    Prog[r][i].op \in {"ringSend", "ringRecv"} /\ Prog[r][i].a = a => i < pc[r]

(***************************************************************************)
(* When bootstrapAllGather returns, every slot holds the contribution of   *)
(* its rank, though all the gathers of a ring follow each other on one     *)
(* stream without a header to tell them apart.                             *)
(***************************************************************************)
GatherComplete ==
  \A r \in Ranks, a \in Arrays :
    /\ \E i \in DOMAIN Prog[r] : Prog[r][i].op = "ringRecv" /\ Prog[r][i].a = a
    /\ GatheredBy(r, a)
    => \A s \in 0 .. Len(Members(a)) - 1 : arr[r][a][s] = Members(a)[s + 1]

(***************************************************************************)
(* bootstrapRecv gets the message of the call it belongs to, though the    *)
(* same sender may have sent later ones with the same tag: the first       *)
(* matching connection, kept or waiting to be accepted, is that of the     *)
(* same call.                                                              *)
(***************************************************************************)
RecvMatchesCall ==
  \A r \in Ranks : Runs(r, "recv") =>
    LET m == SelectSeq(unex[r] \o backlog[0][r], LAMBDA x : Matches(x, r))
    IN  m # <<>> => m[1].c = At(r).c

\* Rank r has done a step of call c; has nothing left to do for it.
Begun(r, c) == \E i \in 1 .. pc[r] - 1 : Prog[r][i].c = c

Returned(r, c) == \A i \in DOMAIN Prog[r] : Prog[r][i].c = c => i < pc[r]

(***************************************************************************)
(* No rank leaves a barrier before all its ranks have entered it.          *)
(***************************************************************************)
BarrierSeparates ==
  \A c \in DOMAIN Calls :
    Calls[c].op = "barrier" =>
      \A i, j \in DOMAIN Calls[c].ranks :
        Returned(Calls[c].ranks[i], c) => Begun(Calls[c].ranks[j], c)

(***************************************************************************)
(* A rank that closes has no connection left over ("Unexpected connections *)
(* are not empty"), and nobody connects to it afterwards.                  *)
(***************************************************************************)
CloseClean ==
  /\ failed = {}
  /\ \A r \in Ranks : pc[r] > Len(Prog[r]) =>
       \A l \in Levels : backlog[l][r] = <<>>

(***************************************************************************)
(* Every connection is taken by the step it was made for: the ring's by    *)
(* the successor, a message's by its call, and none is left at the end.    *)
(***************************************************************************)
ConnectionsOK == /\ TypeOK
                 /\ RingFromPredecessor
                 /\ RecvMatchesCall
                 /\ CloseClean
=============================================================================
