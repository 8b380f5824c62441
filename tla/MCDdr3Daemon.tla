---------------------------- MODULE MCDdr3Daemon ----------------------------
(* Instances of Ddr3Daemon for TLC.                                        *)
EXTENDS Ddr3Daemon

\* Initialize and start, acknowledge, demand a transmission.
DriverWords ==
    {{"INIT", "STRT", "INEA"}, {"IDON", "TINT", "RINT", "INEA"}, {"TDMD", "INEA"}}
\* Initialize and start; acknowledge and demand a transmission in one word.
TwoWords == {{"INIT", "STRT", "INEA"}, {"IDON", "TINT", "RINT", "TDMD", "INEA"}}
=============================================================================
