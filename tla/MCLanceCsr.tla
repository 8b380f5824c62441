----------------------------- MODULE MCLanceCsr -----------------------------
(* Instances of LanceCsr for TLC.                                          *)
EXTENDS LanceCsr

\* Every combination of the commands, alone or with INEA, and acknowledgements.
AllCommands == SUBSET (CommandBits \cup {"INEA"})
Acks == {{"IDON", "INEA"}, {"TINT"}, {"RINT", "INEA"}, {"MISS"}}
AllWords == AllCommands \cup Acks

ThreeModes == {{"LOOP"}, {"DTX"}, {"DRX"}}
=============================================================================
