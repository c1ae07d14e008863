------------------------------- MODULE Channel -------------------------------
(***************************************************************************)
(* What a connection promises to the two kernels that use it: an ordered   *)
(* channel that holds at most Capacity data, loses none, invents none and  *)
(* delivers each once, in the order it was sent, until it is aborted.      *)
(***************************************************************************)
EXTENDS Naturals, Sequences

CONSTANTS Data,      \* the data that may be sent
          Capacity   \* steps the connection can hold

VARIABLES chan,    \* sent and not yet delivered
          got,     \* the datum delivered last
          aborted  \* a rank has been aborted: all promises end

Init == chan = <<>>

(***************************************************************************)
(* Some datum is sent: the one at the end of the channel afterwards.       *)
(***************************************************************************)
Send ==
  /\ Len(chan) < Capacity
  /\ chan' # <<>>
  /\ LET d == chan'[Len(chan')] IN d \in Data /\ chan' = Append(chan, d)
  /\ UNCHANGED got

Deliver ==
  /\ chan # <<>>
  /\ got' = Head(chan)
  /\ chan' = Tail(chan)

Next == Send \/ Deliver \/ aborted'

Spec == Init /\ [][Next]_<<chan, got>>
=============================================================================
