----------------------------- MODULE TopoConnect -----------------------------
(***************************************************************************)
(* How the ranks agree on rings and trees (graph/connect.cc, graph/rings.cc*)
(* and the part of initTransportsRank around them).  Every node has found  *)
(* its own intra-node orders of ranks, per channel.  Each rank sets up its *)
(* part of the channels inside its node, all-gathers the ends of its       *)
(* node's chains, and joins the nodes' chains into rings and trees: every  *)
(* rank computes its own neighbours, and nothing checks afterwards that    *)
(* two ranks agree.                                                        *)
(*                                                                         *)
(* A configuration c has c.node, the sequence of nodes with their search   *)
(* results [ring, tree (sequences of orders of ranks, one per channel),    *)
(* pattern, crossNic, nc], and what all nodes have in common: gfx94 (the   *)
(* GPU architecture), intra (nIntraChannels > 0), collNet, collNetBw and   *)
(* bw45 (the conditions on bandwidths), minN and maxN (NCCL_MIN_NCHANNELS, *)
(* NCCL_MAX_NCHANNELS), CTAs (config.minCTAs, maxCTAs) and tp (channels of *)
(* the parent whose resources are shared, NONE if there is none).          *)
(***************************************************************************)
EXTENDS DTree, Sequences, SequencesExt

CONSTANTS Configs,        \* configurations to start from
          MAXCHANNELS,
          CHANNEL_LIMIT

\* What the constants must satisfy.
ChannelsOK ==
  /\ CHANNEL_LIMIT \in Nat \ {0}
  /\ MAXCHANNELS >= 4 * CHANNEL_LIMIT

NCCL_MAX_TREE_ARITY == 3

VARIABLES cfg,   \* the configuration
          pc,    \* "preset", "gather", "postset" or "done"
          data,  \* allGather3Data
          comm   \* per rank: node, firstRanks, nChannels and channels

vars == <<cfg, pc, data, comm>>

Nodes == DOMAIN cfg.node

RanksOf(n) == ToSet(cfg.node[n].ring[1])

Ranks == UNION {RanksOf(n) : n \in Nodes}

nRanks == Cardinality(Ranks)

HomeOf(r) == CHOOSE n \in Nodes : r \in RanksOf(n)

ChannelIds == 0 .. MAXCHANNELS - 1

Find(seq, x) == CHOOSE i \in DOMAIN seq : seq[i] = x

\* A channel as allocated, and as ncclTopoPreset initialises it.
Zeroed == [prev |-> 0, next |-> 0, up |-> 0, down |-> <<0, 0, 0>>,
           headRank |-> 0, heads |-> <<>>, cnUp |-> <<>>, cnDown |-> <<>>]

Cleared == [Zeroed EXCEPT !.prev = NONE, !.next = NONE, !.up = NONE,
                          !.down = <<NONE, NONE, NONE>>, !.headRank = NONE]

----------------------------------------------------------------------------
(***************************************************************************)
(* ncclTopoPreset.                                                         *)
(***************************************************************************)
PresetChannel(r, tree) ==
  LET i == Find(tree, r)
  IN  [Cleared EXCEPT !.up = IF i = 1 THEN NONE ELSE tree[i - 1],
                      !.down[1] = IF i = Len(tree) THEN NONE ELSE tree[i + 1]]

TopoRanks(r, ring, tree, pattern) ==
  LET i == Find(ring, r)
  IN  [recv |-> ring[1], send |-> ring[Len(ring)],
       prev |-> IF i = 1 THEN NONE ELSE ring[i - 1],
       next |-> IF i = Len(ring) THEN NONE ELSE ring[i + 1],
       toParent |-> tree[1],
       toChild0 |-> tree[IF pattern = "tree" THEN 1 ELSE 2],
       toChild1 |-> tree[IF pattern = "split" THEN 2 ELSE 1]]

SearchedChannels(n) == Min({Len(cfg.node[n].tree), Len(cfg.node[n].ring)})

\* The trees are duplicated behind the searched channels.
Preset(r) ==
  LET home == cfg.node[HomeOf(r)]
      n    == SearchedChannels(HomeOf(r))
      ch(c) == PresetChannel(r, home.tree[c + 1])
  IN  [c \in ChannelIds |->
         IF c < n THEN ch(c)
         ELSE IF n <= MAXCHANNELS \div 2 /\ c < 2 * n THEN ch(c - n)
         ELSE Zeroed]

ncclTopoPreset ==
  /\ pc = "preset"
  /\ comm' = [r \in Ranks |->
       [nChannels |-> SearchedChannels(HomeOf(r)), channels |-> Preset(r),
        node |-> NONE, firstRanks |-> <<>>, nc |-> 0, err |-> FALSE]]
  /\ data' = [r \in Ranks |->
       LET home == cfg.node[HomeOf(r)]
       IN  [topo |-> [c \in 0 .. SearchedChannels(HomeOf(r)) - 1 |->
                        TopoRanks(r, home.ring[c + 1], home.tree[c + 1],
                                  home.pattern)],
            nc |-> home.nc, ringChannels |-> Len(home.ring),
            treeChannels |-> Len(home.tree)]]
  /\ pc' = "gather"
  /\ UNCHANGED cfg

----------------------------------------------------------------------------
(***************************************************************************)
(* initTransportsRank after the all-gather: the nodes are told apart by    *)
(* the first rank of their first ring and numbered as they come, and all   *)
(* ranks go down to the least number of channels.                          *)
(***************************************************************************)
FirstRanks ==
  LET first(r) == data[r].topo[0].recv
      add(s, r) == IF first(r) \in ToSet(s) THEN s ELSE Append(s, first(r))
  IN  FoldLeft(add, <<>>, [i \in 1 .. nRanks |-> i - 1])

NodeOf(r) == Find(comm[r].firstRanks, data[r].topo[0].recv) - 1

\* Mutant: the duplicated channels are left where they were.
MoveDuplicates_Not(ch, n, orig) == ch

MoveDuplicates(ch, n, orig) ==
  IF n < orig
  THEN [c \in ChannelIds |-> IF n <= c /\ c < 2 * n THEN ch[orig + c - n]
                             ELSE ch[c]]
  ELSE ch

AlignedChannels ==
  LET ring == Min({data[r].ringChannels : r \in Ranks})
      tree == Min({data[r].treeChannels : r \in Ranks})
  IN  IF Len(cfg.node) > 1 THEN Min({ring, tree}) ELSE ring

AlignChannels ==
  /\ pc = "gather"
  /\ comm' = [r \in Ranks |->
       [comm[r] EXCEPT
          !.firstRanks = FirstRanks,
          !.node = Find(FirstRanks, data[r].topo[0].recv) - 1,
          !.nc = Min({data[q].nc : q \in Ranks}),
          !.nChannels = AlignedChannels,
          !.channels = MoveDuplicates(@, AlignedChannels,
                                      comm[r].nChannels)]]
  /\ pc' = "postset"
  /\ UNCHANGED <<cfg, data>>

----------------------------------------------------------------------------
(***************************************************************************)
(* ncclTopoPostset, one part at a time.  m is a comm record of rank r.     *)
(* The rings of odd nodes trade places with their neighbours, so that a    *)
(* ring that enters a node through one NIC leaves through another.         *)
(***************************************************************************)
TopoOf(r, q, c) ==
  LET m    == comm[r]
      swap == /\ cfg.node[HomeOf(r)].crossNic
              /\ Len(m.firstRanks) % 2 = 0 /\ m.nChannels % 2 = 0
              /\ NodeOf(q) % 2 = 1
      own  == data[q].topo[c]
      oth  == data[q].topo[IF c % 2 = 0 THEN c + 1 ELSE c - 1]
  IN  IF swap THEN [own EXCEPT !.recv = oth.recv, !.send = oth.send,
                               !.prev = oth.prev, !.next = oth.next]
      ELSE own

OfNode(r, n, c) == TopoOf(r, comm[r].firstRanks[n + 1], c)

\* ringPrev and ringNext of channel c: nodes are joined in their order.
connectRings(r, c) ==
  LET nn == Len(comm[r].firstRanks)
      at(n) == OfNode(r, n % nn, c)
      of(q) == TopoOf(r, q, c)
  IN  [prev |-> [q \in Ranks |-> IF of(q).prev # NONE THEN of(q).prev
                                 ELSE at(NodeOf(q) - 1 + nn).send],
       next |-> [q \in Ranks |-> IF of(q).next # NONE THEN of(q).next
                                 ELSE at(NodeOf(q) + 1).recv]]

\* The first free place of tree->down; there is always one.
setTreeDown(ch, d) ==
  IF d = NONE THEN ch
  ELSE [ch EXCEPT !.down[Min({x \in 1 .. NCCL_MAX_TREE_ARITY :
                                ch.down[x] < 0})] = d]

\* Channel ch of rank r with its links to other nodes; t is the tree of nodes
\* and c the channel whose orders are used.
JoinTree(r, ch, t, c) ==
  LET m == comm[r]
      at(n) == OfNode(r, n, c)
      up == IF r = at(m.node).toParent /\ t.u # NONE
            THEN [ch EXCEPT !.up = IF t.type = 0 THEN at(t.u).toChild0
                                                 ELSE at(t.u).toChild1]
            ELSE ch
      d0 == IF r = at(m.node).toChild0 /\ t.d0 # NONE
            THEN setTreeDown(up, at(t.d0).toParent) ELSE up
  IN  IF r = at(m.node).toChild1 /\ t.d1 # NONE
      THEN setTreeDown(d0, at(t.d1).toParent) ELSE d0

\* Half of the channels use each tree; few channels are duplicated first.
connectTrees(r) ==
  LET m     == comm[r]
      limit == IF cfg.gfx94 THEN 2 * CHANNEL_LIMIT ELSE CHANNEL_LIMIT
      t     == ncclGetDtree(Len(m.firstRanks), m.node)
      n     == IF m.nChannels > limit THEN m.nChannels \div 2 ELSE m.nChannels
  IN  [c \in ChannelIds |->
         IF c < n THEN JoinTree(r, m.channels[c], t[1], c)
         ELSE IF c < 2 * n
              THEN JoinTree(r, m.channels[c], t[2],
                            IF n = m.nChannels THEN c - n ELSE c)
         ELSE m.channels[c]]

\* Channel ch of rank r with its links to and from the head ranks of its node
\* (the first ranks of the CollNet orders).
JoinHeads(r, ch) ==
  LET orders == cfg.node[HomeOf(r)].coll
      add(s, o) == IF o[1] \in ToSet(s) THEN s ELSE Append(s, o[1])
      heads == FoldLeft(add, <<>>, orders)
      other(x) == x # r
      me == IF r \in ToSet(heads) THEN Find(heads, r) ELSE 1
      nh == Len(heads)
  IN  [ch EXCEPT
         !.headRank = IF r \in ToSet(heads) THEN me - 1 ELSE @,
         !.cnDown = IF r \in ToSet(heads) THEN SelectSeq(orders[me], other)
                    ELSE @,
         !.cnUp = SelectSeq(heads, other),
         !.heads = [h \in 1 .. nh |-> heads[((me + h - 2) % nh) + 1]]]

connectCollNet(r, s) ==
  [s EXCEPT !.channels = [c \in ChannelIds |-> IF c < s.n THEN JoinHeads(r, @[c])
                                               ELSE @[c]]]

\* Channels s.n to end - 1 become copies of the first ones, in turn.
copyChannels(s, end) ==
  LET from(c) == IF s.n <= c /\ c < end THEN c % s.n ELSE c
  IN  [s EXCEPT !.n = Max({s.n, end}),
                !.rings = [c \in ChannelIds |-> @[from(c)]],
                !.channels = [c \in ChannelIds |-> @[from(c)]]]

nNodes(r) == Len(comm[r].firstRanks)

\* As many channels as the GPU architecture can use.
maxChannels(r) ==
  LET arch == IF ~cfg.gfx94 THEN 2 * CHANNEL_LIMIT
              ELSE IF cfg.cu # NONE THEN cfg.cu ELSE MAXCHANNELS
  IN  IF cfg.intra \/ nNodes(r) > 1 THEN Min({4 * CHANNEL_LIMIT, arch}) ELSE arch

\* Rings and trees joined and duplicated; s.n is nChannels from here on.
Joined(r) ==
  LET m  == comm[r]
      n  == m.nChannels
      dup == n <= maxChannels(r) \div 2
      ring(c) == IF c < n THEN connectRings(r, c)
                 ELSE IF dup /\ c < 2 * n THEN connectRings(r, c - n)
                 ELSE [prev |-> [q \in Ranks |-> 0], next |-> [q \in Ranks |-> 0]]
      mine(c) == connectRings(r, IF c < n THEN c ELSE c - n)
      trees == connectTrees(r)
  IN  [n |-> Min({maxChannels(r), IF dup THEN 2 * n ELSE n}),
       rings |-> [c \in ChannelIds |-> ring(c)],
       channels |-> [c \in ChannelIds |->
         IF c < 2 * n THEN [trees[c] EXCEPT !.prev = mine(c).prev[r],
                                            !.next = mine(c).next[r]]
         ELSE trees[c]]]

WithCollNet(r, s) ==
  IF ~cfg.collNet THEN s
  ELSE connectCollNet(r, IF cfg.collNetBw /\ nRanks > nNodes(r)
                         THEN copyChannels(s, Min({maxChannels(r),
                                                   s.n + s.n \div 2}))
                         ELSE s)

Saturated(r, s) ==
  IF cfg.bw45 /\ nNodes(r) > 1 /\ 2 * s.n <= maxChannels(r)
  THEN copyChannels(s, 2 * s.n) ELSE s

minNchannels(r) ==
  LET a == IF nNodes(r) > 1 THEN Min({4 * CHANNEL_LIMIT, cfg.minN}) ELSE cfg.minN
      b == IF nRanks < 8 /\ 4 * CHANNEL_LIMIT < a THEN 2 ELSE a
  IN  IF b > maxChannels(r) THEN 2 ELSE b

\* The channels asked for by the user, by the tuning (nc) and allowed by the
\* parent.
Bounded(r, s) ==
  LET m  == comm[r]
      nc == Min({Min({cfg.maxN, maxChannels(r)}) \div m.nChannels, m.nc})
            * m.nChannels
      tp == IF cfg.tp = NONE THEN MAXCHANNELS ELSE cfg.tp
      most == Min({cfg.maxN, s.n, cfg.maxCTAs, tp})
      least == Min({Max({minNchannels(r), nc, cfg.minCTAs}), tp})
  IN  copyChannels([s EXCEPT !.n = most], least)

\* ncclBuildRings: each ring passes every rank and comes back.
BuildsRing(r, ring) ==
  LET at[i \in 0 .. nRanks] == IF i = 0 THEN r ELSE ring.next[at[i - 1]]
  IN  at[nRanks] = r /\ {at[i] : i \in 0 .. nRanks - 1} = Ranks

ncclTopoPostset ==
  /\ pc = "postset"
  /\ comm' = [r \in Ranks |->
       LET s == Bounded(r, Saturated(r, WithCollNet(r, Joined(r))))
       IN  [comm[r] EXCEPT !.nChannels = s.n, !.channels = s.channels,
                           !.err = \E c \in 0 .. s.n - 1 :
                                     ~BuildsRing(r, s.rings[c])]]
  /\ pc' = "done"
  /\ UNCHANGED <<cfg, data>>

Init == /\ cfg \in Configs
        /\ pc = "preset" /\ data = <<>> /\ comm = <<>>

Next == ncclTopoPreset \/ AlignChannels \/ ncclTopoPostset

Spec == Init /\ [][Next]_vars

----------------------------------------------------------------------------
Channel(r, c) == comm[r].channels[c]

Done == pc = "done"

UsedChannels == 0 .. Max({comm[r].nChannels : r \in Ranks}) - 1

Down(r, c) == {Channel(r, c).down[x] : x \in 1 .. NCCL_MAX_TREE_ARITY} \ {NONE}

(***************************************************************************)
(* Two ranks agree on every link between them, though each computed its    *)
(* own ends: the successor of a rank has it as predecessor, children and   *)
(* parents match, and so do CollNet heads and their leaves; all ranks use  *)
(* the same number of channels.                                            *)
(***************************************************************************)
LinksAgree ==
  Done => \A r \in Ranks :
    /\ ~comm[r].err
    /\ comm[r].nChannels \in 1 .. MAXCHANNELS
    /\ \A q \in Ranks : comm[q].nChannels = comm[r].nChannels
    /\ \A c \in UsedChannels :
         LET ch == Channel(r, c)
         IN  /\ Channel(ch.next, c).prev = r
             /\ ch.up # NONE => r \in Down(ch.up, c)
             /\ \A d \in Down(r, c) : Channel(d, c).up = r
             /\ \A h \in ToSet(ch.cnUp) : r \in ToSet(Channel(h, c).cnDown)
             /\ \A d \in ToSet(ch.cnDown) : r \in ToSet(Channel(d, c).cnUp)

(***************************************************************************)
(* Every ring is one cycle through all ranks and every tree one tree over  *)
(* all ranks, so a collective reaches everybody.  No node passes data on   *)
(* in both trees of nodes, except the first of an odd number: the double   *)
(* tree uses the bandwidth of every node once.                             *)
(***************************************************************************)
SpansAllRanks ==
  Done =>
    /\ \A c \in UsedChannels :
         LET ring[i \in 0 .. nRanks] ==
               IF i = 0 THEN 0 ELSE Channel(ring[i - 1], c).next
             climb[i \in 0 .. nRanks, r \in Ranks] ==
               IF i = 0 \/ Channel(r, c).up = NONE THEN r
               ELSE climb[i - 1, Channel(r, c).up]
         IN  /\ {ring[i] : i \in 1 .. nRanks} = Ranks
             /\ \A r, q \in Ranks : climb[nRanks, r] = climb[nRanks, q]
             /\ Cardinality({r \in Ranks : Channel(r, c).up = NONE}) = 1
    /\ \A r \in Ranks :
         LET t == ncclGetDtree(nNodes(r), comm[r].node)
         IN  \/ \E i \in {1, 2} : t[i].d0 = NONE /\ t[i].d1 = NONE
             \/ nNodes(r) % 2 = 1 /\ comm[r].node = 0
=============================================================================
