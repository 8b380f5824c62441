------------------------------- MODULE Regfile -------------------------------
(***************************************************************************)
(* The register file and doorbell of fpga/rtl/a2065_regfile.v, one clk_sys *)
(* cycle at a time.  Its inputs are the 68k bus and the cmd_clear pulse of *)
(* the mailbox; a bus write takes one cycle.                               *)
(***************************************************************************)
EXTENDS Naturals, Sequences

CONSTANTS Regs,    \* the register numbers the 68k uses
          Words    \* the words it writes

ASSUME RegsAssumption == 0 \in Regs

VARIABLES rap,
          cmd_pending, cmd_rap, cmd_data,
          cmd_clear,                     \* driven by the mailbox
          cmd_clear_s, cmd_clear_s1,     \* its two synchronizer stages
          wrote                          \* history: the RDP writes

regfileVars == <<rap, cmd_pending, cmd_rap, cmd_data, cmd_clear, cmd_clear_s,
                 cmd_clear_s1, wrote>>

\* A write is identified by its position among the RDP writes; 0 is no write.
Data == [id : Nat, word : Words \cup {{}}]

RegfileTypeOK ==
    /\ rap \in Regs
    /\ cmd_pending \in BOOLEAN
    /\ cmd_rap \in Regs
    /\ cmd_data \in Data
    /\ {cmd_clear, cmd_clear_s, cmd_clear_s1} \subseteq BOOLEAN
    /\ wrote \in Seq([rap : Regs, word : Words])

\* Reset.
RegfileInit ==
    /\ rap = 0
    /\ cmd_pending = FALSE
    /\ cmd_rap = 0
    /\ cmd_data = [id |-> 0, word |-> {}]
    /\ cmd_clear = FALSE
    /\ cmd_clear_s = FALSE
    /\ cmd_clear_s1 = FALSE
    /\ wrote = <<>>

\* cmd_clear is a pulse of one cycle and takes two more to arrive.
ClearInFlight == cmd_clear \/ cmd_clear_s \/ cmd_clear_s1

ShiftClear ==
    /\ cmd_clear' = FALSE
    /\ cmd_clear_s' = cmd_clear
    /\ cmd_clear_s1' = cmd_clear_s

\* A cycle without a bus write; one without a pulse either changes nothing.
IdleCycle ==
    /\ ClearInFlight
    /\ ShiftClear
    /\ cmd_pending' = (cmd_pending /\ ~cmd_clear_s1)
    /\ UNCHANGED <<rap, cmd_rap, cmd_data, wrote>>

\* A cycle in which the 68k writes RAP.
RapCycle(r) ==
    /\ ShiftClear
    /\ cmd_pending' = (cmd_pending /\ ~cmd_clear_s1)
    /\ rap' = r
    /\ UNCHANGED <<cmd_rap, cmd_data, wrote>>

\* A cycle in which the 68k writes RDP: it never waits, takes the place of a
\* write still pending, and wins over a clear that arrives in this cycle.
RdpCycle(v) ==
    /\ ShiftClear
    /\ cmd_pending' = TRUE
    /\ cmd_rap' = rap
    /\ cmd_data' = [id |-> Len(wrote) + 1, word |-> v]
    /\ wrote' = Append(wrote, [rap |-> rap, word |-> v])
    /\ UNCHANGED rap

=============================================================================
