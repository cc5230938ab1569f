-------------------------------- MODULE Fifo --------------------------------
(***************************************************************************)
(* A byte stream: what is received is what was sent, in order, once.       *)
(***************************************************************************)
EXTENDS Naturals, Sequences

CONSTANTS Val, Capacity

VARIABLES q,    \* the bytes on their way
          out   \* the bytes handed to a receiver by the last step

FifoInit == q = <<>> /\ out = <<>>

Send ==
  \E n \in 0..Capacity : \E s \in [1..n -> Val] :
    /\ q' = q \o s
    /\ Len(q') <= Capacity
    /\ out' = <<>>

Receive ==
  \E n \in 0..Len(q) :
    /\ out' = SubSeq(q, 1, n)
    /\ q' = SubSeq(q, n + 1, Len(q))

FifoSpec == FifoInit /\ [][Send \/ Receive]_<<q, out>>
=============================================================================
