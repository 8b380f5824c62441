------------------------------ MODULE FrameFifo ------------------------------
(***************************************************************************)
(* What a descriptor ring promises: what one side has put into it comes    *)
(* out at the other side unaltered, once, in order, and eventually.        *)
(***************************************************************************)
EXTENDS Sequences, Naturals

VARIABLES accepted,   \* everything put into the ring
          taken       \* everything that has come out of it

Init == accepted = <<>> /\ taken = <<>>

\* Something is put in: the accepted items only grow at the end.
Accept ==
    /\ Len(accepted') > Len(accepted)
    /\ SubSeq(accepted', 1, Len(accepted)) = accepted
    /\ UNCHANGED taken

\* The next item comes out.
Take ==
    /\ Len(taken) < Len(accepted)
    /\ taken' = Append(taken, accepted[Len(taken) + 1])
    /\ UNCHANGED accepted

Next == Accept \/ Take

Spec == Init /\ [][Next]_<<accepted, taken>> /\ WF_<<accepted, taken>>(Take)
=============================================================================
