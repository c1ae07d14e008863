--------------------------- MODULE TransportSetup ---------------------------
(***************************************************************************)
(* How the ranks of a communicator connect to each other (transport.cc).   *)
(* ncclTransportP2pConnect marks the connectors that are needed;           *)
(* ncclTransportP2pSetup sets them up, exchanges what the other end needs  *)
(* over the bootstrap network, connects them and finally waits for the     *)
(* peers.  Every rank runs the sequence Calls of these functions on its    *)
(* own:                                                                    *)
(*                                                                         *)
(*   graph  the graph's id plus one, 0 for none                            *)
(*   idx    connIndex                                                      *)
(*   links  the connections wanted, <<from, to, channel>>                  *)
(*   marks  the connIndexes whose connectors are marked before the call    *)
(*                                                                         *)
(* Messages between two ranks arrive in the order they were sent, and a    *)
(* receive takes the first one with its tag (Bootstrap).                   *)
(***************************************************************************)
EXTENDS Integers, Sequences, SequencesExt, FiniteSets, FiniteSetsExt

CONSTANTS nRanks, Calls,
          maxPeers,    \* NCCL_CONNECT_ROUND_MAX_PEERS
          CanConnect,  \* <<transport, rank, rank>> that canConnect accepts
          Xgmi,        \* pairs of ranks connected by xGMI
          IntraNet     \* links for which both ends have an intra-node NET device

VARIABLES rk,     \* the ranks' programs
          masks,  \* connectSend and connectRecv
          conn,   \* connectors
          net     \* messages under way, per pair of ranks

vars == <<rk, masks, conn, net>>

Ranks == 0 .. nRanks - 1

P2P == 0
SHM == 1
NET == 2
NoTransport == 3

NCCL_CONN_IDX_P2P_NET == 2

MaskWords == 2  \* MAXCHANNELS / 64

Channels == UNION {{l[3] : l \in Calls[k].links} : k \in DOMAIN Calls}

Word(w) == {c \in Channels : c \div 64 = w}

Dirs == {"send", "recv"}

\* Connectors: whose, which way, to whom, channel and connIndex.
Connectors ==
  UNION {UNION {{<<l[1], "send", l[2], l[3], Calls[k].idx>>,
                 <<l[2], "recv", l[1], l[3], Calls[k].idx>>} :
                   l \in Calls[k].links} : k \in DOMAIN Calls}

NoInfo == <<>>

Init ==
  /\ rk = [r \in Ranks |-> [call |-> 1, pc |-> "mark", i |-> 1, done |-> 0,
                            w |-> 0, data |-> <<>>]]
  /\ masks = [r \in Ranks |-> [d \in Dirs |-> [o \in {0, NCCL_CONN_IDX_P2P_NET} |->
                                                 [p \in Ranks |-> {}]]]]
  /\ conn = [x \in Connectors |-> [state |-> "none", type |-> P2P, info |-> NoInfo]]
  /\ net = [ab \in Ranks \X Ranks |-> <<>>]

----------------------------------------------------------------------------
Call(r) == Calls[rk[r].call]

\* The masks of NCCL_CONN_IDX_P2P_NET lie behind those of all other indexes.
Offset(idx) == IF idx = NCCL_CONN_IDX_P2P_NET THEN NCCL_CONN_IDX_P2P_NET ELSE 0

recvPeer(r, i) == (r - i + nRanks) % nRanks

sendPeer(r, i) == (r + i) % nRanks

Peer(r, d, i) == IF d = "send" THEN sendPeer(r, i) ELSE recvPeer(r, i)

bootstrapTag(r, i) == i * 256 + Call(r).graph

Marked(r, d, i) == masks[r][d][Offset(Call(r).idx)][Peer(r, d, i)]

Ascending(S) == SetToSortSeq(S, <)

\* The connectors of a rank to its peer at distance i, in the order of the
\* channels.
Ends(r, d, i) == LET cs == Ascending(Marked(r, d, i))
                 IN  [n \in DOMAIN cs |-> <<r, d, Peer(r, d, i), cs[n], Call(r).idx>>]

----------------------------------------------------------------------------
(***************************************************************************)
(* ncclTransportP2pConnect, for all channels.                              *)
(***************************************************************************)
Wanted(r, d, p, idx, links) ==
  {c \in Channels : /\ (IF d = "send" THEN <<r, p, c>> ELSE <<p, r, c>>) \in links
                    /\ conn[<<r, d, p, c, idx>>].state # "connected"}

ncclTransportP2pConnect(r) ==
  /\ rk[r].pc = "mark"
  /\ masks' = [masks EXCEPT ![r] =
       [d \in Dirs |-> [o \in {0, NCCL_CONN_IDX_P2P_NET} |-> [p \in Ranks |->
          @[d][o][p] \union
            UNION {Wanted(r, d, p, idx, Call(r).links) :
                     idx \in {x \in Call(r).marks : Offset(x) = o}}]]]]
  /\ rk' = [rk EXCEPT ![r].pc = IF nRanks = 1 THEN "sync" ELSE "setup"]
  /\ UNCHANGED <<conn, net>>

----------------------------------------------------------------------------
(***************************************************************************)
(* selectTransport: the first transport that is not ruled out and that can *)
(* connect the two, if there is one.  Both ends decide on their own.       *)
(***************************************************************************)
RuledOut(r, d, p, c, t) ==
  \/ /\ Call(r).graph = 0 /\ Call(r).idx = NCCL_CONN_IDX_P2P_NET
     /\ t = SHM \/ (t = P2P /\ <<r, p>> \notin Xgmi)
  \/ /\ Call(r).graph # 0 /\ Call(r).idx = NCCL_CONN_IDX_P2P_NET /\ t # NET
     /\ (IF d = "send" THEN <<r, p, c>> ELSE <<p, r, c>>) \in IntraNet

selectTransport(r, d, p, c) ==
  Min({t \in P2P .. NET : <<t, r, p>> \in CanConnect /\ ~RuledOut(r, d, p, c, t)}
        \union {NoTransport})

\* What setup() fills in for the other end.
Info(x, t) == [of |-> x, type |-> t]

Post(n, from, to, tag, body) ==
  [n EXCEPT ![<<from, to>>] = Append(@, [tag |-> tag, body |-> body])]

(***************************************************************************)
(* One round of the exchange: set up the connectors of both directions and *)
(* send their information, in one message if the two peers are the same.   *)
(* The call fails, with nothing sent, at the first connector for which no  *)
(* transport is found.                                                     *)
(***************************************************************************)
Setup(r) ==
  LET i    == rk[r].i
      Of(d) == LET xs == Ends(r, d, i)
               IN  [n \in DOMAIN xs |->
                      Info(xs[n], selectTransport(r, d, xs[n][3], xs[n][4]))]
      rcv  == Of("recv")
      snd  == Of("send")
      tag  == bootstrapTag(r, i)
      same == sendPeer(r, i) = recvPeer(r, i)
      put(n, p, m) == IF m = <<>> THEN n ELSE Post(n, r, p, tag, m)
      both == rcv \o snd
      bad  == {n \in DOMAIN both : both[n].type = NoTransport}
      mine == {both[n].of : n \in {k \in DOMAIN both : \A b \in bad : k < b}}
  IN  /\ rk[r].pc = "setup"
      /\ conn' = [x \in mine |->
                    [state |-> "setup", info |-> NoInfo,
                     type |-> selectTransport(r, x[2], x[3], x[4])]] @@ conn
      /\ net' = IF bad # {} THEN net
                ELSE IF same THEN put(net, recvPeer(r, i), both)
                ELSE put(put(net, recvPeer(r, i), rcv), sendPeer(r, i), snd)
      /\ rk' = [rk EXCEPT ![r].pc = IF bad # {} THEN "failed" ELSE "recvS"]
      /\ UNCHANGED masks

\* The first message from p with a tag.
FirstOf(r, p, tag) == SelectInSeq(net[<<p, r>>], LAMBDA m : m.tag = tag)

(***************************************************************************)
(* bootstrapRecv of n entries, if there are any to receive, after which    *)
(* the rank's program is a.  A message of another size is an error.        *)
(***************************************************************************)
Arrived(r, p, tag, n) == n = 0 \/ FirstOf(r, p, tag) # 0

Body(r, p, tag, n) == IF n = 0 THEN <<>> ELSE net[<<p, r>>][FirstOf(r, p, tag)].body

Recv(r, p, tag, n, a) ==
  /\ Arrived(r, p, tag, n)
  /\ rk' = [rk EXCEPT ![r] = IF Len(Body(r, p, tag, n)) = n THEN a
                             ELSE [@ EXCEPT !.pc = "error"]]
  /\ net' = IF n = 0 THEN net
            ELSE [net EXCEPT ![<<p, r>>] = RemoveAt(@, FirstOf(r, p, tag))]

\* Mutant: the data stay where they were packed.
Unpack_Same(body, nr, ns) == [recv |-> SubSeq(body, 1, nr),
                              send |-> SubSeq(body, nr + 1, nr + ns)]

\* One message from a peer for both directions: its receive entries first,
\* which are for our send connectors.
Unpack(body, nr, ns) == [send |-> SubSeq(body, 1, ns),
                         recv |-> SubSeq(body, ns + 1, ns + nr)]

EndRound(a) == IF a.i - a.done = maxPeers \/ a.i = nRanks - 1
               THEN [a EXCEPT !.pc = "connect"]
               ELSE [a EXCEPT !.pc = "setup", !.i = @ + 1]

Exchange(r) ==
  LET i   == rk[r].i
      ns  == Cardinality(Marked(r, "send", i))
      nr  == Cardinality(Marked(r, "recv", i))
      tag == bootstrapTag(r, i)
      sp  == sendPeer(r, i)
      rp  == recvPeer(r, i)
      both == Unpack(Body(r, sp, tag, ns + nr), nr, ns)
      send == [send |-> Body(r, sp, tag, ns), recv |-> <<>>]
  IN  /\ \/ /\ rk[r].pc = "recvS" /\ sp = rp
            /\ Recv(r, sp, tag, ns + nr,
                    EndRound([rk[r] EXCEPT !.data = Append(@, both)]))
         \/ /\ rk[r].pc = "recvS" /\ sp # rp
            /\ Recv(r, sp, tag, ns, [rk[r] EXCEPT !.pc = "recvR",
                                                  !.data = Append(@, send)])
         \/ /\ rk[r].pc = "recvR"
            /\ Recv(r, rp, tag, nr,
                    EndRound([rk[r] EXCEPT
                      !.data[Len(rk[r].data)].recv = Body(r, rp, tag, nr)]))
      /\ UNCHANGED <<masks, conn>>

----------------------------------------------------------------------------
(***************************************************************************)
(* One pass over the connectors of a batch of peers.  P2P and SHM connect  *)
(* at once; NET hands the information to its proxy at the first pass and   *)
(* asks for the outcome at the next ones, and both ends have to be at it.  *)
(* The data are freed after the first pass.                                *)
(***************************************************************************)
Opposite(x) == <<x[3], IF x[2] = "send" THEN "recv" ELSE "send", x[1], x[4], x[5]>>

Batch(r) == (rk[r].done + 1) .. rk[r].i

Entries(r) == UNION {{[x |-> Ends(r, d, j)[n],
                       info |-> rk[r].data[j - rk[r].done][d][n]] :
                        n \in DOMAIN Ends(r, d, j)} : d \in Dirs, j \in Batch(r)}

FirstPass(r) ==
  LET now == Entries(r)
  IN  /\ rk[r].data # <<>>
      /\ conn' = [x \in {e.x : e \in now} |->
                    [conn[x] EXCEPT
                       !.info = (CHOOSE e \in now : e.x = x).info,
                       !.state = IF conn[x].type = NET THEN "connecting"
                                 ELSE "connected"]] @@ conn
      /\ rk' = [rk EXCEPT ![r].data = <<>>]

Mine(r) == UNION {ToSet(Ends(r, d, j)) : d \in Dirs, j \in Batch(r)}

NextPass(r) ==
  LET able == {x \in Mine(r) : /\ conn[x].state = "connecting"
                               /\ conn[Opposite(x)].state \in {"connecting", "connected"}}
  IN  /\ rk[r].data = <<>> /\ \E x \in Mine(r) : conn[x].state = "connecting"
      /\ \E x \in able : conn' = [conn EXCEPT ![x].state = "connected"]
      /\ UNCHANGED rk

AllConnected(r) ==
  /\ rk[r].data = <<>> /\ \A x \in Mine(r) : conn[x].state = "connected"
  /\ rk' = [rk EXCEPT ![r] =
       IF @.i = nRanks - 1 THEN [@ EXCEPT !.pc = "sync", !.i = 1, !.w = 0]
       ELSE [@ EXCEPT !.pc = "setup", !.done = rk[r].i, !.i = @ + 1]]
  /\ UNCHANGED conn

Connect(r) ==
  /\ rk[r].pc = "connect"
  /\ FirstPass(r) \/ NextPass(r) \/ AllConnected(r)
  /\ UNCHANGED <<masks, net>>

----------------------------------------------------------------------------
(***************************************************************************)
(* "We need to sync ranks here": a flag to and from every peer of each     *)
(* word of the masks.  The masks tested are those at offset 0 whatever the *)
(* connIndex; those cleared are at its own offset.                         *)
(***************************************************************************)
\* Mutant: nobody to wait for.
SyncMask_None(r, d, i, w) == {}

SyncMask(r, d, i, w) == masks[r][d][0][Peer(r, d, i)] \intersect Word(w)

Flag == <<"flag">>

Flags(r, d) == IF SyncMask(r, d, rk[r].i, rk[r].w) = {} THEN 0 ELSE 1

SyncSend(r) ==
  LET i    == rk[r].i
      tag  == bootstrapTag(r, i)
      same == sendPeer(r, i) = recvPeer(r, i)
      put(n, p, k) == IF k = 0 THEN n ELSE Post(n, r, p, tag, Flag)
  IN  /\ rk[r].pc = "sync"
      /\ net' = IF same
                THEN put(net, sendPeer(r, i), Flags(r, "send") + Flags(r, "recv"))
                ELSE put(put(net, sendPeer(r, i), Flags(r, "send")),
                         recvPeer(r, i), Flags(r, "recv"))
      /\ rk' = [rk EXCEPT ![r].pc = "syncS"]
      /\ UNCHANGED <<masks, conn>>

EndSync(a) ==
  IF a.w < MaskWords - 1 THEN [a EXCEPT !.pc = "sync", !.w = @ + 1]
  ELSE IF a.i < nRanks - 1 THEN [a EXCEPT !.pc = "sync", !.w = 0, !.i = @ + 1]
  ELSE [a EXCEPT !.call = @ + 1, !.i = 1, !.done = 0, !.w = 0,
                 !.pc = IF a.call = Len(Calls) THEN "end" ELSE "mark"]

ClearMasks(r) ==
  LET o == Offset(Call(r).idx)
  IN  masks' = [masks EXCEPT ![r]["recv"][o][recvPeer(r, rk[r].i)] = @ \ Word(rk[r].w),
                             ![r]["send"][o][sendPeer(r, rk[r].i)] = @ \ Word(rk[r].w)]

SyncRecv(r) ==
  LET i   == rk[r].i
      tag == bootstrapTag(r, i)
      same == sendPeer(r, i) = recvPeer(r, i)
  IN  /\ \/ /\ rk[r].pc = "syncS" /\ ~same
            /\ Recv(r, sendPeer(r, i), tag, Flags(r, "send"),
                    [rk[r] EXCEPT !.pc = "syncR"])
            /\ UNCHANGED masks
         \/ /\ rk[r].pc = "syncR"
            /\ Recv(r, recvPeer(r, i), tag, Flags(r, "recv"), EndSync(rk[r]))
            /\ ClearMasks(r)
         \/ /\ rk[r].pc = "syncS" /\ same
            /\ Recv(r, sendPeer(r, i), tag,
                    Max({Flags(r, "send"), Flags(r, "recv")}), EndSync(rk[r]))
            /\ ClearMasks(r)
      /\ UNCHANGED conn

ncclTransportP2pSetup(r) ==
  Setup(r) \/ Exchange(r) \/ Connect(r) \/ SyncSend(r) \/ SyncRecv(r)

Next == \E r \in Ranks : ncclTransportP2pConnect(r) \/ ncclTransportP2pSetup(r)

Spec == Init /\ [][Next]_vars

----------------------------------------------------------------------------
(***************************************************************************)
(* A connector gets the information of the connector at the other end of   *)
(* its link, whatever was packed into a message, both ends have chosen the *)
(* same transport, and no message is taken for another.                    *)
(***************************************************************************)
EndsFit ==
  /\ \A r \in Ranks : rk[r].pc # "error"
  /\ \A x \in Connectors :
       conn[x].state \in {"connecting", "connected"} =>
         conn[x].info = Info(Opposite(x), conn[x].type)

\* Rank r has returned from call k.
Returned(r, k) == rk[r].call > k

\* Every end of call k that is connected to r is connected.
PeersConnected(r, k) ==
  \A l \in Calls[k].links :
    /\ l[1] = r => conn[<<l[2], "recv", r, l[3], Calls[k].idx>>].state = "connected"
    /\ l[2] = r => conn[<<l[1], "send", r, l[3], Calls[k].idx>>].state = "connected"

(***************************************************************************)
(* A rank returns from ncclTransportP2pSetup only when its peers have      *)
(* imported its buffers, so it may go on and destroy them; for every       *)
(* connIndex but NCCL_CONN_IDX_P2P_NET, whose masks the loop does not look *)
(* at.                                                                     *)
(***************************************************************************)
ReturnsLast ==
  \A r \in Ranks : \A k \in DOMAIN Calls :
    Returned(r, k) /\ Calls[k].idx # NCCL_CONN_IDX_P2P_NET => PeersConnected(r, k)

\* All calls made, all masks cleared, no message left.
SetUp ==
  /\ \A r \in Ranks : rk[r].pc = "end"
  /\ \A r \in Ranks, d \in Dirs, o \in {0, NCCL_CONN_IDX_P2P_NET}, p \in Ranks :
       masks[r][d][o][p] = {}
  /\ \A ab \in Ranks \X Ranks : net[ab] = <<>>

\* Where no transport connects two ranks, both of them have failed.
Refused(a, b) == rk[a].pc = "failed" /\ rk[b].pc = "failed"
=============================================================================
