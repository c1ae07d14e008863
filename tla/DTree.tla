-------------------------------- MODULE DTree --------------------------------
(***************************************************************************)
(* The double binary tree between nodes (graph/trees.cc).  A node appears  *)
(* as a leaf in one of the two trees and as an inner node in the other.    *)
(***************************************************************************)
EXTENDS Integers, FiniteSetsExt

NONE == -1

\* Powers of two up to and including the first that is not below n.
Pow2(n) == LET p[i \in 0 .. n] == IF i = 0 THEN 1 ELSE 2 * p[i - 1]
           IN  {q \in {p[i] : i \in 0 .. n} : q < 2 * n}

\* The lowest bit of rank, or the first power of two that is out of bounds.
LowestBit(nranks, rank) ==
  Min({b \in Pow2(nranks) : rank % (2 * b) >= b \/ b >= nranks})

BtreeUp(nranks, rank, bit) ==
  LET up == rank - bit + (IF (rank \div (2 * bit)) % 2 = 1 THEN 0 ELSE 2 * bit)
  IN  IF up >= nranks THEN rank - bit ELSE up

\* The second child: the nearest one that is not out of bounds.
BtreeDown1(nranks, rank, bit) ==
  LET q == {b \in Pow2(nranks) : b < bit /\ rank + b < nranks}
  IN  IF q = {} THEN NONE ELSE rank + Max(q)

ncclGetBtree(nranks, rank) ==
  LET bit == LowestBit(nranks, rank)
      up  == BtreeUp(nranks, rank, bit)
  IN  IF rank = 0
      THEN [u |-> NONE, d0 |-> NONE,
            d1 |-> IF nranks > 1 THEN bit \div 2 ELSE NONE, type |-> NONE]
      ELSE [u |-> up, d0 |-> IF bit = 1 THEN NONE ELSE rank - bit \div 2,
            d1 |-> BtreeDown1(nranks, rank, bit),
            type |-> IF rank < up THEN 0 ELSE 1]

\* A tree of other numbers, seen with the ranks they stand for.
Rename(t, f) ==
  LET g(x) == IF x = NONE THEN NONE ELSE f[x]
  IN  [t EXCEPT !.u = g(@), !.d0 = g(@), !.d1 = g(@)]

\* Tree 0 and tree 1 as rank sees them.
ncclGetDtree(nranks, rank) ==
  <<ncclGetBtree(nranks, rank),
    LET shift  == [x \in 0 .. nranks - 1 |-> (x + 1) % nranks]
        mirror == [x \in 0 .. nranks - 1 |-> nranks - 1 - x]
    IN  IF nranks % 2 = 1
        THEN Rename(ncclGetBtree(nranks, (rank - 1 + nranks) % nranks), shift)
        ELSE Rename(ncclGetBtree(nranks, mirror[rank]), mirror)>>
=============================================================================
