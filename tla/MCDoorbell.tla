----------------------------- MODULE MCDoorbell -----------------------------
(* Instances of Doorbell for TLC.                                          *)
EXTENDS Doorbell

\* Initialize and start, and acknowledge.
TwoWords == {{"INIT", "STRT", "INEA"}, {"IDON", "RINT", "INEA"}}
\* Initialize and start, acknowledge, and demand a transmission.
DriverWords ==
    {{"INIT", "STRT", "INEA"}, {"IDON", "TINT", "RINT", "INEA"}, {"TDMD", "INEA"}}
=============================================================================
