-------------------------------- MODULE Align --------------------------------
(***************************************************************************)
(* include/align.h.                                                        *)
(***************************************************************************)
EXTENDS Integers

(***************************************************************************)
(* The first multiple of y that is not below x.                            *)
(***************************************************************************)
roundUp(x, y) == (x + y - 1) - ((x + y - 1) % y)

divUp(x, y) == (x + y - 1) \div y
=============================================================================
