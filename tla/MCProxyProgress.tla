-------------------------- MODULE MCProxyProgress --------------------------
EXTENDS ProxyProgress, TLC

Op(k, sh, c, kind, n) ==
  [key |-> k, shared |-> sh, opCount |-> c, kind |-> kind, n |-> n]

MCPeers == {0, 1}

MCKeys == {"a", "b", "c"}

\* Rank 0 runs grouped operations on a shared connection and needs more slots
\* than it has; rank 1 uses a connection of its own.  Operations that follow
\* each other differ in kind.
MCProgram ==
  0 :> << <<Op("a", TRUE, 1, "LL", 1),
            Op("a", TRUE, 2, "SIMPLE", 2), Op("a", TRUE, 2, "SIMPLE", 3)>>,
          <<Op("b", FALSE, 4, "LL", 4)>> >>
  @@ 1 :> << <<Op("c", FALSE, 2, "LL", 1)>> >>
=============================================================================
