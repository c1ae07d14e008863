---------------------------- MODULE MCSetup ----------------------------
(***************************************************************************)
(* Setting up a communicator, one part per behaviour: the bootstrap        *)
(* network with four ranks, connecting the channels of three and of two    *)
(* ranks, of which two may have nothing to connect them, or the rings and  *)
(* trees of many configurations.                                           *)
(***************************************************************************)
EXTENDS Bootstrap

VARIABLES part,                 \* the part this behaviour is about
          rk, masks, conn, net, \* what only TransportSetup uses
          cfg, step, data, comm \* what only TopoConnect uses

C(op, ranks, tag, rt) == [op |-> op, ranks |-> ranks, tag |-> tag, root |-> rt]

\* Two children and a gather over the parent's ring; two broadcasts by one
\* root while the others are in a barrier; barriers whose tags are also tags
\* of the gather between them.
MCCalls == << C("split", <<2, 0>>, 0, 0), C("split", <<1, 3>>, 0, 0),
              C("ring", <<0, 1, 2, 3>>, 0, 0),
              C("barrier", <<1, 2>>, 1, 0),
              C("broadcast", <<0, 1, 2>>, 0, 0), C("broadcast", <<0, 1, 2>>, 0, 0),
              C("barrier", <<0, 1, 2, 3>>, 1, 0), C("gather", <<3, 1, 0>>, 0, 0),
              C("barrier", <<3, 1>>, 1, 0) >>

T(graph, idx, links, marks) ==
  [graph |-> graph, idx |-> idx, links |-> links, marks |-> marks]

RingLinks(n, cs) == {<<r, (r + 1) % n, c>> : r \in 0 .. n - 1, c \in cs}

BothWays == {<<0, 1, 0>>, <<1, 0, 0>>}

\* Rings on channels of both words of the masks, then what a group with a send
\* and a receive between ranks 0 and 1 sets up.
ThreeCalls == << T(1, 0, RingLinks(3, {0, 64}), {0}), T(0, 1, BothWays, {1, 2}),
                 T(0, 2, BothWays, {}) >>

\* The peer on the right is the peer on the left; the channels differ.
TwoCalls == << T(1, 0, {<<0, 1, 0>>, <<0, 1, 1>>, <<1, 0, 0>>}, {0}),
               T(2, 0, {<<0, 1, 0>>, <<0, 1, 64>>, <<1, 0, 1>>, <<1, 0, 64>>}, {0}) >>

\* Ranks 0 and 1 share a node.
Can == (2 .. 2) \X (0 .. 2) \X (0 .. 2) \union {<<1, 0, 1>>, <<1, 1, 0>>}

Three == INSTANCE TransportSetup WITH
  nRanks <- 3, Calls <- ThreeCalls, maxPeers <- 1, CanConnect <- Can, Xgmi <- {},
  IntraNet <- {<<0, 1, 0>>}

Two == INSTANCE TransportSetup WITH
  nRanks <- 2, Calls <- TwoCalls, maxPeers <- 2, CanConnect <- Can, Xgmi <- {},
  IntraNet <- {}

\* Ranks 1 and 2 share a node too, and nothing connects them.
Apart == INSTANCE TransportSetup WITH
  nRanks <- 3, Calls <- ThreeCalls, maxPeers <- 1, Xgmi <- {}, IntraNet <- {},
  CanConnect <- {c \in Can : {c[2], c[3]} # {1, 2}}

(***************************************************************************)
(* Rings and trees: nodes of one to three ranks, one to four channels      *)
(* each, sixteen channels at most.                                         *)
(***************************************************************************)

SeqX == INSTANCE SequencesExt

Rotate(s, k) == [i \in DOMAIN s |-> s[((i + k - 1) % Len(s)) + 1]]

\* A node of the given ranks whose search found nr rings and nt trees.
TopoNode(ranks, nr, nt, pattern, crossNic) ==
  [ring |-> [c \in 1 .. nr |-> Rotate(ranks, c)],
   tree |-> [c \in 1 .. nt |-> Rotate(SeqX!Reverse(ranks), c)],
   coll |-> [c \in 1 .. nr |-> Rotate(ranks, 2 * (c \div 2))],
   pattern |-> IF Len(ranks) = 1 THEN "tree" ELSE pattern,
   crossNic |-> crossNic, nc |-> 2]

Config(nodes, gfx94) ==
  [node |-> nodes, gfx94 |-> gfx94, cu |-> -1, intra |-> FALSE,
   collNet |-> FALSE, collNetBw |-> FALSE, bw45 |-> FALSE, minN |-> 2,
   maxN |-> 16, minCTAs |-> 1, maxCTAs |-> 16, tp |-> -1]

\* Ranks of node n, of nn: one after the other, or dealt round.
Block(n, l) == [i \in 1 .. l |-> (n - 1) * l + i - 1]

Dealt(n, nn, l) == [i \in 1 .. l |-> n - 1 + (i - 1) * nn]

\* One rank per node: the trees of nodes.
Chains == {Config([n \in 1 .. nn |-> TopoNode(<<n - 1>>, ch, ch, "tree", FALSE)], FALSE) :
             nn \in 1 .. 11, ch \in {1, 2}}

\* Two or three ranks per node, all patterns, few and many channels.
Grids == {Config([n \in 1 .. nn |->
                    TopoNode(IF deal THEN Dealt(n, nn, l) ELSE Block(n, l), ch, ch,
                         pattern, deal)], gfx94) :
            nn \in 1 .. 4, l \in {2, 3}, ch \in {1, 2, 4},
            pattern \in {"tree", "split", "balanced"},
            deal \in BOOLEAN, gfx94 \in BOOLEAN}

\* Nodes that differ in size, pattern and number of channels.
Uneven == {Config(<<TopoNode(<<0, 1, 2>>, a, b, "balanced", TRUE),
                   TopoNode(<<3, 4>>, 2, 2, "split", TRUE), TopoNode(<<5>>, 4, 2, "tree", TRUE),
                   TopoNode(<<6, 7>>, 4, 4, "tree", TRUE)>>, g) :
            a \in {2, 4}, b \in {1, 2}, g \in BOOLEAN}

\* CollNet, and bounds on the number of channels from all sides.
Tuned == {[Config([n \in 1 .. 3 |-> TopoNode(Block(n, 3), ch, ch, "balanced", FALSE)], g)
             EXCEPT !.collNet = TRUE, !.collNetBw = b, !.bw45 = b, !.minN = minN,
                    !.maxN = maxN, !.maxCTAs = 9, !.minCTAs = 3, !.tp = tp,
                    !.cu = IF g THEN 5 ELSE -1, !.intra = b] :
            ch \in {1, 2, 4}, g \in BOOLEAN, b \in BOOLEAN, minN \in {2, 7},
            maxN \in {1, 3, 16}, tp \in {-1, 4}}

TopoConfigs == Chains \union Grids \union Uneven \union Tuned

\* Two nodes of which only one searched with crossNic.
MixedNics == {Config(<<TopoNode(<<0, 1>>, 2, 2, "balanced", TRUE),
                         TopoNode(<<2, 3>>, 2, 2, "balanced", FALSE)>>, FALSE)}

----------------------------------------------------------------------------
Topo == INSTANCE TopoConnect WITH
  Configs <- TopoConfigs, MAXCHANNELS <- 16, CHANNEL_LIMIT <- 2, pc <- step

Nics == INSTANCE TopoConnect WITH
  Configs <- MixedNics, MAXCHANNELS <- 16, CHANNEL_LIMIT <- 2, pc <- step

ASSUME TopoAssumption == Topo!ChannelsOK

topoVars == <<cfg, step, data, comm>>

setupVars == <<rk, masks, conn, net>>

MCVars == <<vars, setupVars, topoVars, part>>

NoBootstrap == /\ root = 0 /\ rootQ = 0 /\ handoff = 0 /\ backlog = 0 /\ ring = 0
               /\ ringFrom = 0 /\ arr = 0 /\ unex = 0 /\ reg = 0 /\ pc = 0
               /\ failed = 0

NoSetup == rk = 0 /\ masks = 0 /\ conn = 0 /\ net = 0

NoTopo == cfg = 0 /\ step = 0 /\ data = 0 /\ comm = 0

MCInit ==
  \/ part = "bootstrap" /\ Init /\ NoSetup /\ NoTopo
  \/ part = "three" /\ Three!Init /\ NoBootstrap /\ NoTopo
  \/ part = "two" /\ Two!Init /\ NoBootstrap /\ NoTopo
  \/ part = "apart" /\ Apart!Init /\ NoBootstrap /\ NoTopo
  \/ part = "topo" /\ Topo!Init /\ NoBootstrap /\ NoSetup

RankStep ==
  /\ UNCHANGED <<part, topoVars>>
  /\ \/ part = "bootstrap" /\ Next /\ UNCHANGED setupVars
     \/ part = "three" /\ Three!Next /\ UNCHANGED vars
     \/ part = "two" /\ Two!Next /\ UNCHANGED vars
     \/ part = "apart" /\ Apart!Next /\ UNCHANGED vars

TopoStep == part = "topo" /\ Topo!Next /\ UNCHANGED <<vars, setupVars, part>>

MCNext == RankStep \/ TopoStep

\* Something moves as long as something can: ranks and the root thread run,
\* TCP delivers, a connection that both ends are working on gets connected.
MCSpec == MCInit /\ [][MCNext]_MCVars /\ WF_MCVars(RankStep)

NicsSpec ==
  /\ part = "nics" /\ Nics!Init /\ NoBootstrap /\ NoSetup
  /\ [][Nics!Next /\ UNCHANGED <<vars, setupVars, part>>]_MCVars

----------------------------------------------------------------------------
(***************************************************************************)
(* Every connection of the bootstrap network is taken by the step it was   *)
(* made for, and none is left when a rank closes.                          *)
(***************************************************************************)
ConnectionsTaken == part = "bootstrap" => ConnectionsOK

(***************************************************************************)
(* When bootstrapAllGather returns every slot holds the contribution of    *)
(* its rank.                                                               *)
(***************************************************************************)
Gathered == part = "bootstrap" => GatherComplete

(***************************************************************************)
(* No rank leaves a bootstrap barrier before all its ranks have entered.   *)
(***************************************************************************)
BarriersSeparate == part = "bootstrap" => BarrierSeparates

(***************************************************************************)
(* In ncclTransportP2pSetup every connector gets the information of the    *)
(* connector at the other end of its link, and both ends chose the same    *)
(* transport.                                                              *)
(***************************************************************************)
EndsFit == /\ part = "three" => Three!EndsFit
           /\ part = "two" => Two!EndsFit
           /\ part = "apart" => Apart!EndsFit

(***************************************************************************)
(* A rank returns from ncclTransportP2pSetup only when its peers have      *)
(* imported its buffers, for every connIndex but NCCL_CONN_IDX_P2P_NET.    *)
(***************************************************************************)
ReturnsLast == /\ part = "three" => Three!ReturnsLast
               /\ part = "two" => Two!ReturnsLast
               /\ part = "apart" => Apart!ReturnsLast

(***************************************************************************)
(* All ranks get through bootstrapInit, their calls and bootstrapClose;    *)
(* all connectors of all calls get connected on all ranks.  Two ranks that *)
(* no transport connects both fail.                                        *)
(***************************************************************************)
AllSetUp ==
  <>(CASE part = "bootstrap" -> \A r \in Ranks : pc[r] > Len(Prog[r])
       [] part = "three" -> Three!SetUp
       [] part = "two" -> Two!SetUp
       [] part = "apart" -> Apart!Refused(1, 2)
       [] OTHER -> TRUE)

(***************************************************************************)
(* What each rank computed for its channels fits what the others computed, *)
(* and every ring and every tree reaches all ranks.                        *)
(***************************************************************************)
RoutesFit == part = "topo" => Topo!LinksAgree /\ Topo!SpansAllRanks

(***************************************************************************)
(* LinksAgree, for two nodes of which only one searched with crossNic.     *)
(***************************************************************************)
NicsAgree == Nics!LinksAgree
=============================================================================
