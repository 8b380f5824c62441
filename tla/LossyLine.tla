------------------------------ MODULE LossyLine ------------------------------
(***************************************************************************)
(* What the doorbell still promises without back-pressure: the register    *)
(* writes of the 68k reach the chip unaltered, in order and at most once,  *)
(* but some of them may be lost.                                           *)
(***************************************************************************)
EXTENDS Naturals, Sequences

VARIABLES wrote,    \* the register writes of the 68k, in order
          applied   \* the positions in wrote of the writes the chip has seen

Init == wrote = <<>> /\ applied = <<>>

\* The 68k writes a register.
Issue ==
    /\ Len(wrote') = Len(wrote) + 1
    /\ SubSeq(wrote', 1, Len(wrote)) = wrote
    /\ UNCHANGED applied

\* The chip sees the write at position i; the ones it skips are lost.
Apply(i) ==
    /\ i \in DOMAIN wrote
    /\ \A k \in DOMAIN applied : applied[k].id < i
    /\ applied' = Append(applied, [id |-> i, rap |-> wrote[i].rap, word |-> wrote[i].word])
    /\ UNCHANGED wrote

Next == Issue \/ \E i \in DOMAIN wrote : Apply(i)

Spec == Init /\ [][Next]_<<wrote, applied>>
=============================================================================
