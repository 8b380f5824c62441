------------------------------- MODULE Am7990 -------------------------------
(***************************************************************************)
(* The Am7990 LANCE register logic of arm/src/registers.cpp as operators   *)
(* on the value of CSR0.  CSR0 is the set of the names of the bits that    *)
(* are one; a word written by the 68k is a set of names as well.           *)
(***************************************************************************)

\* The status bits that a write of 1 clears.
WriteOneClears == {"BABL", "CERR", "MISS", "MERR", "RINT", "TINT", "IDON"}

\* The status bits that rethink() sums up in INTR; CERR is not one of them.
IntrSources == WriteOneClears \ {"CERR"}

\* The command bits that a write of 1 sets.
CommandBits == {"INIT", "STRT", "STOP", "TDMD"}

Csr0Bits ==
    WriteOneClears \cup CommandBits \cup {"INTR", "INEA", "RXON", "TXON"}

\* The bits of the mode word that decide how CSR0 evolves.
ModeBits == {"DTX", "DRX", "LOOP"}

-----------------------------------------------------------------------------
(* Interrupt summary.                                                      *)

\* Mutant: INTR is set but never taken back.
RethinkSticky(c) == c \cup (IF c \cap IntrSources = {} THEN {} ELSE {"INTR"})

\* rethink(): INTR is recomputed from the status bits.
Rethink(c) ==
    (c \ {"INTR"}) \cup (IF c \cap IntrSources = {} THEN {} ELSE {"INTR"})

\* The condition under which the interrupt line is to be driven.
IntAsserted(c) == {"INTR", "INEA"} \subseteq c

-----------------------------------------------------------------------------
(* A write of word v to CSR0 whose previous value is old.                  *)

\* Mutant: every write of CSR0 clears all status bits.
LatchClearsAll(old, v) ==
    ((old \ {"INEA"}) \cup (v \cap (CommandBits \cup {"INEA"})))
        \ WriteOneClears

\* INEA is replaced, the commands are set, the acknowledged bits cleared.
Latch(old, v) ==
    ((old \ {"INEA"}) \cup (v \cap (CommandBits \cup {"INEA"})))
        \ (v \cap WriteOneClears)

IsStop(old, v) == "STOP" \in v /\ "STOP" \notin old

IsStart(old, v) ==
    /\ ~IsStop(old, v)
    /\ "STRT" \in v /\ "STRT" \notin old
    /\ old \cap {"STOP", "INIT"} # {}

\* Both branches that run chip_init() need the old value to have STOP: the
\* start branch because INIT is new there.
IsInit(old, v) == "INIT" \in v /\ "INIT" \notin old /\ "STOP" \in old

\* Mutant: the start branch ignores the mode word.
TurnOnBoth(c, mode) == (c \ {"STOP"}) \cup {"TXON", "RXON"}

\* Leaving STOP: the transmitter and the receiver go on unless disabled.
TurnOn(c, mode) ==
    (c \ {"STOP"}) \cup (IF "DTX" \in mode THEN {} ELSE {"TXON"})
                   \cup (IF "DRX" \in mode THEN {} ELSE {"RXON"})

\* Mutant: STOP does not clear the rest of CSR0.
CommandedStopKeeps(old, v, mode) ==
    IF IsStop(old, v) THEN Latch(old, v)
    ELSE IF IsStart(old, v) THEN TurnOn(Latch(old, v), mode)
    ELSE Latch(old, v)

\* Mutant: IDON is raised for an INIT on a chip that is not stopped, too.
CommandedIdonAlways(old, v, mode) ==
    LET c == Latch(old, v)
    IN  IF IsStop(old, v) THEN {"STOP"}
        ELSE IF IsStart(old, v) THEN TurnOn(c, mode) \cup {"IDON"}
        ELSE IF "INIT" \in v THEN (c \cup {"IDON"}) \ {"RXON", "TXON", "STOP"}
        ELSE c

\* The stop, start and init branches.  mode is am_mode before the write: the
\* start branch tests it before chip_init() loads a new one.
Commanded(old, v, mode) ==
    LET c == Latch(old, v)
        done == IF IsInit(old, v) THEN {"IDON"} ELSE {}
    IN  IF IsStop(old, v) THEN {"STOP"}
        ELSE IF IsStart(old, v) THEN TurnOn(c, mode) \cup done
        ELSE IF IsInit(old, v)
             THEN (c \cup done) \ {"RXON", "TXON", "STOP"}
             ELSE c

\* TDMD on an initialized chip whose transmitter is off starts it implicitly.
Demanded(c, mode, initialized) ==
    IF "TDMD" \in c /\ initialized /\ "TXON" \notin c THEN TurnOn(c, mode)
                                                      ELSE c

-----------------------------------------------------------------------------
(* What the descriptor rings do to CSR0.  The outcome depends on the ring   *)
(* contents, which are not part of this module: the operators give the set  *)
(* of the values that may result.                                          *)

\* gotfunc() once it has reached the ring: the frame is stored (RINT), missed
\* (MISS), or cut off in the middle (RXON is cleared).
RingOutcomes(c) ==
    {Rethink(c \cup {"RINT"}), Rethink(c \cup {"MISS"}), Rethink(c \ {"RXON"})}

\* gotfunc(): the frame is dropped by a test before the ring, or gets there.
Received(c) == {c} \cup (IF "RXON" \in c THEN RingOutcomes(c) ELSE {})

\* do_transmit(): nothing to send, a frame finished, a fault that stops the
\* transmitter, or in loopback mode a frame that comes back to gotfunc().
Transmitted(c, mode) ==
    {c} \cup (IF "TXON" \in c
              THEN {Rethink(d \cup {"TINT"}) :
                      d \in {c, c \ {"TXON"}}
                              \cup (IF "LOOP" \in mode THEN Received(c) ELSE {})}
              ELSE {})

\* on_transmit is called for TDMD once the chip is initialized.
TransmitResults(c, mode, initialized) ==
    IF "TDMD" \in c /\ initialized THEN Transmitted(c, mode) ELSE {c}

=============================================================================
