------------------------------ MODULE LanceCsr ------------------------------
(***************************************************************************)
(* The LANCE register file of arm/src/registers.cpp as a state machine.    *)
(* Every action is one call made with reg_lock held: a chip_wput() of the  *)
(* main thread or a gotfunc() of the receive thread.  The init blocks live *)
(* in board RAM, where the 68k may rewrite them at any time.               *)
(***************************************************************************)
EXTENDS Am7990, Naturals

CONSTANTS Words,   \* the words the 68k writes to CSR0: sets of Csr0Bits
          Halves,  \* the values of CSR1 and of CSR2, halves of an address
          Modes,   \* the mode words found in init blocks and written to CSR15
          Regs     \* the registers the 68k writes

ASSUME WordsAssumption == Words \subseteq SUBSET Csr0Bits
ASSUME HalvesAssumption == 0 \in Halves
ASSUME ModesAssumption == Modes \subseteq SUBSET ModeBits
ASSUME RegsAssumption == Regs \subseteq {0, 1, 2, 3, 15}

VARIABLES rap,          \* the register the next RDP access selects
          csr0, csr1, csr2, csr3,
          am_mode,      \* the mode word in force
          am_initialized,
          blocks        \* the mode word in the init block at each address

vars == <<rap, csr0, csr1, csr2, csr3, am_mode, am_initialized, blocks>>

\* CSR3 holds one of two values here: as written by the 68k, or cleared.
Csr3Values == {"zero", "written"}

TypeOK ==
    /\ rap \in Regs \cup {0}
    /\ csr0 \in SUBSET Csr0Bits
    /\ csr1 \in Halves
    /\ csr2 \in Halves
    /\ csr3 \in Csr3Values
    /\ am_mode \in SUBSET ModeBits
    /\ am_initialized \in BOOLEAN
    /\ blocks \in [Halves \X Halves -> Modes]

\* registers_reset(), and the zero of the static variables it leaves alone.
Init ==
    /\ rap = 0
    /\ csr0 = {"STOP"}
    /\ csr1 = 0
    /\ csr2 = 0
    /\ csr3 = "zero"
    /\ am_mode = {}
    /\ am_initialized = FALSE
    /\ blocks \in [Halves \X Halves -> Modes]

-----------------------------------------------------------------------------
\* Mutant: the word written to RAP is not masked.
WputRapUnmasked(v) ==
    /\ rap' = v
    /\ UNCHANGED <<csr0, csr1, csr2, csr3, am_mode, am_initialized, blocks>>

\* Of the word written to RAP the low seven bits select the register.
WputRap(v) ==
    /\ rap' = v % 128
    /\ UNCHANGED <<csr0, csr1, csr2, csr3, am_mode, am_initialized, blocks>>

\* chip_init() as far as CSR0 can tell: it loads the mode word.
InitMode(v) == IF IsInit(csr0, v) THEN blocks[<<csr1, csr2>>] ELSE am_mode

\* CSR3 is cleared by STOP, and by INIT outside the start branch.
ClearsCsr3(v) ==
    \/ IsStop(csr0, v)
    \/ IsInit(csr0, v) /\ ~IsStart(csr0, v)

\* chip_wput() to CSR0: the command, the transmission it demands, rethink().
WputCsr0(v) ==
    /\ rap = 0
    /\ am_mode' = InitMode(v)
    /\ am_initialized' = (am_initialized \/ IsInit(csr0, v))
    /\ csr3' = IF ClearsCsr3(v) THEN "zero" ELSE csr3
    /\ LET c == Demanded(Commanded(csr0, v, am_mode), am_mode', am_initialized')
       IN  \E d \in TransmitResults(c, am_mode', am_initialized') :
             csr0' = Rethink(d \ {"TDMD"})
    /\ UNCHANGED <<rap, csr1, csr2, blocks>>

\* CSR1 to CSR3 take a write only while the chip is stopped.
WputCsr1(a) ==
    /\ rap = 1
    /\ csr1' = IF "STOP" \in csr0 THEN a ELSE csr1
    /\ UNCHANGED <<rap, csr0, csr2, csr3, am_mode, am_initialized, blocks>>

WputCsr2(a) ==
    /\ rap = 2
    /\ csr2' = IF "STOP" \in csr0 THEN a ELSE csr2
    /\ UNCHANGED <<rap, csr0, csr1, csr3, am_mode, am_initialized, blocks>>

WputCsr3 ==
    /\ rap = 3
    /\ csr3' = IF "STOP" \in csr0 THEN "written" ELSE csr3
    /\ UNCHANGED <<rap, csr0, csr1, csr2, am_mode, am_initialized, blocks>>

\* CSR15 replaces the mode word at any time.
WputMode(m) ==
    /\ rap = 15
    /\ am_mode' = m
    /\ UNCHANGED <<rap, csr0, csr1, csr2, csr3, am_initialized, blocks>>

\* The receive thread hands a frame to gotfunc().
Gotfunc ==
    /\ csr0' \in Received(csr0)
    /\ UNCHANGED <<rap, csr1, csr2, csr3, am_mode, am_initialized, blocks>>

\* The 68k rewrites the init block at address a in board RAM.
HostWritesBlock(a, m) ==
    /\ blocks' = [blocks EXCEPT ![a] = m]
    /\ UNCHANGED <<rap, csr0, csr1, csr2, csr3, am_mode, am_initialized>>

Next ==
    \/ \E r \in Regs, high \in {0, 128} : WputRap(high + r)
    \/ \E v \in Words : WputCsr0(v)
    \/ \E a \in Halves : WputCsr1(a) \/ WputCsr2(a)
    \/ WputCsr3
    \/ \E m \in Modes : WputMode(m)
    \/ Gotfunc
    \/ \E a \in Halves \X Halves, m \in Modes : HostWritesBlock(a, m)

Spec == Init /\ [][Next]_vars
-----------------------------------------------------------------------------
(* Properties.                                                             *)

\* A stopped chip has neither transmitter nor receiver on, no status bit and
\* no interrupt pending: the stop branch of chip_wput() forgets everything,
\* and no ring operation or later write gives a stopped chip anything but
\* INEA.
StopMeansQuiet == "STOP" \in csr0 => csr0 \subseteq {"STOP", "INEA"}

\* INTR is exactly the summary of the status bits whenever reg_lock is free:
\* every path of chip_wput(), do_transmit() and gotfunc() that touches a
\* status bit ends in rethink().
IntrIsSummary == "INTR" \in csr0 <=> csr0 \cap IntrSources # {}

\* IDON is set only on a chip whose chip_init() has run, and only together
\* with INIT: no sequence of commands leaves it behind when STOP clears INIT.
IdonMeansInit == "IDON" \in csr0 => am_initialized /\ "INIT" \in csr0

\* A status bit once set is lost only through a CSR0 write that acknowledges
\* it or that stops the chip; no frame received or transmitted meanwhile, and
\* no other register write, takes it back.
StatusOnlyAcked ==
    [][\A b \in WriteOneClears :
         b \in csr0 /\ b \notin csr0' =>
           \E v \in Words : WputCsr0(v) /\ (b \in v \/ IsStop(csr0, v))]_vars

\* With DTX (DRX) in the mode word the transmitter (receiver) is off.
ModeHonoured ==
    /\ "DTX" \in am_mode => "TXON" \notin csr0
    /\ "DRX" \in am_mode => "RXON" \notin csr0

\* A chip that honours its mode word goes on doing so through stops, new init
\* blocks and implicit starts by TDMD: the only ways out are a word that has
\* both INIT and STRT, whose start branch tests the old mode word, and a write
\* of CSR15 under a running chip.
ModeKept ==
    [][ModeHonoured =>
         \/ ModeHonoured'
         \/ \E v \in Words : {"INIT", "STRT"} \subseteq v /\ WputCsr0(v)
         \/ \E m \in Modes : WputMode(m)]_vars

=============================================================================
