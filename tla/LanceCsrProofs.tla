--------------------------- MODULE LanceCsrProofs ---------------------------
(***************************************************************************)
(* The invariants of LanceCsr for every set of written words, every set of *)
(* init blocks and every choice of registers.                              *)
(***************************************************************************)
EXTENDS LanceCsr, TLAPS

\* The leaves are first-order; those with arithmetic, or with many cases, name SMT.
USE ZenonT(30)

-----------------------------------------------------------------------------
(* What the operators of Am7990 preserve, for every value of CSR0.         *)

\* The part of the invariant that speaks of CSR0 alone, without INTR.
Quiet(c) == "STOP" \in c => c \subseteq {"STOP", "INEA"}
Summed(c) == "INTR" \in c <=> c \cap IntrSources # {}

\* rethink() makes INTR the summary, and changes nothing else.
LEMMA RethinkSums ==
    ASSUME NEW c \in SUBSET Csr0Bits
    PROVE  /\ Rethink(c) \in SUBSET Csr0Bits
           /\ Summed(Rethink(c))
           /\ Rethink(c) \ {"INTR"} = c \ {"INTR"}
    BY DEF Rethink, Summed, IntrSources, Csr0Bits, WriteOneClears, CommandBits

\* gotfunc() on a consistent CSR0: a stopped chip takes no frame, status bits
\* are only added, and the commands and the enable bit stay as they are.
LEMMA ReceivedKeeps ==
    ASSUME NEW c \in SUBSET Csr0Bits, NEW d \in Received(c)
    PROVE  /\ d \in SUBSET Csr0Bits
           /\ Summed(c) => Summed(d)
           /\ "RXON" \notin c => d = c
           /\ c \cap (WriteOneClears \cup CommandBits) \subseteq d
           /\ d \cap (CommandBits \cup {"TXON", "IDON"})
                = c \cap (CommandBits \cup {"TXON", "IDON"})
           /\ "RXON" \in d => "RXON" \in c
    BY DEF Received, RingOutcomes, Rethink, Summed, IntrSources, Csr0Bits, WriteOneClears,
           CommandBits

\* do_transmit(), loopback included.
LEMMA TransmittedKeeps ==
    ASSUME NEW c \in SUBSET Csr0Bits, NEW mode, NEW d \in Transmitted(c, mode)
    PROVE  /\ d \in SUBSET Csr0Bits
           /\ "TXON" \notin c => d = c
           /\ c \cap (WriteOneClears \cup CommandBits) \subseteq d
           /\ d \cap (CommandBits \cup {"IDON"}) = c \cap (CommandBits \cup {"IDON"})
           /\ d \cap {"TXON", "RXON"} \subseteq c
<1>1. CASE d = c
  BY <1>1
<1>2. CASE d # c
  <2>1. PICK e \in {c, c \ {"TXON"}} \cup Received(c) :
          "TXON" \in c /\ d = Rethink(e \cup {"TINT"})
    BY <1>2 DEF Transmitted
  <2>2. /\ e \in SUBSET Csr0Bits
        /\ c \cap (WriteOneClears \cup CommandBits) \subseteq e
        /\ e \cap (CommandBits \cup {"IDON"}) = c \cap (CommandBits \cup {"IDON"})
        /\ e \cap {"TXON", "RXON"} \subseteq c
    <3>1. CASE e \in {c, c \ {"TXON"}}
      BY <3>1 DEF WriteOneClears, CommandBits
    <3>2. CASE e \in Received(c)
      BY SMT, <3>2, ReceivedKeeps DEF WriteOneClears, CommandBits
    <3>3. QED  BY <2>1, <3>1, <3>2
  <2>3. QED
    BY <2>1, <2>2 DEF Rethink, IntrSources, Csr0Bits, WriteOneClears, CommandBits
<1>3. QED  BY <1>1, <1>2

\* The stop, start and init branches.  The last conjunct but one says that
\* IDON comes from an init block, the last that nothing else acknowledges.
LEMMA CommandedKeeps ==
    ASSUME NEW old \in SUBSET Csr0Bits, NEW v \in SUBSET Csr0Bits, NEW mode,
           Quiet(old),
           NEW c, c = Commanded(old, v, mode)
    PROVE  /\ c \in SUBSET Csr0Bits
           /\ "STOP" \in c => c \subseteq {"STOP", "INEA", "TDMD"}
           /\ "IDON" \in c => IsInit(old, v) \/ "IDON" \in old
           /\ "INIT" \in old /\ ~IsStop(old, v) => "INIT" \in c
           /\ IsInit(old, v) => "INIT" \in c
           /\ \A b \in WriteOneClears :
                b \in old /\ b \notin c => b \in v \/ IsStop(old, v)
  BY DEF Quiet, Commanded, IsStop, IsStart, IsInit, Latch, TurnOn, Csr0Bits,
         WriteOneClears, CommandBits

\* The implicit start.
LEMMA DemandedKeeps ==
    ASSUME NEW c \in SUBSET Csr0Bits, NEW mode, NEW init \in BOOLEAN,
           NEW d, d = Demanded(c, mode, init)
    PROVE  /\ d \in SUBSET Csr0Bits
           /\ "STOP" \in d => d = c
           /\ d \cap (WriteOneClears \cup {"INIT"}) = c \cap (WriteOneClears \cup {"INIT"})
  BY DEF Demanded, TurnOn, Csr0Bits, WriteOneClears, CommandBits

-----------------------------------------------------------------------------
(* The inductive invariant.                                                *)

IInv == TypeOK /\ StopMeansQuiet /\ IntrIsSummary /\ IdonMeansInit

\* Everything a write of CSR0 does to CSR0, from the lemmas above.
LEMMA WputCsr0Keeps ==
    ASSUME IInv, NEW v \in Words, WputCsr0(v)
    PROVE  /\ csr0' \in SUBSET Csr0Bits
           /\ "TDMD" \notin csr0'
           /\ Summed(csr0')
           /\ Quiet(csr0')
           /\ "IDON" \in csr0' => am_initialized' /\ "INIT" \in csr0'
           /\ \A b \in WriteOneClears :
                b \in csr0 /\ b \notin csr0' => b \in v \/ IsStop(csr0, v)
<1> DEFINE c == Commanded(csr0, v, am_mode)
           e == Demanded(c, am_mode', am_initialized')
<1>1. v \in SUBSET Csr0Bits  BY WordsAssumption
<1>2. am_initialized' = (am_initialized \/ IsInit(csr0, v))
  BY DEF WputCsr0
<1>3. PICK d \in TransmitResults(e, am_mode', am_initialized') :
        csr0' = Rethink(d \ {"TDMD"})
  BY DEF WputCsr0
<1> HIDE DEF c, e
<1>4. csr0 \in SUBSET Csr0Bits /\ Quiet(csr0)
  BY DEF IInv, TypeOK, StopMeansQuiet, Quiet
<1>5. /\ c \in SUBSET Csr0Bits
      /\ "STOP" \in c => c \subseteq {"STOP", "INEA", "TDMD"}
      /\ "IDON" \in c => IsInit(csr0, v) \/ "IDON" \in csr0
      /\ "INIT" \in csr0 /\ ~IsStop(csr0, v) => "INIT" \in c
      /\ IsInit(csr0, v) => "INIT" \in c
      /\ \A b \in WriteOneClears :
           b \in csr0 /\ b \notin c => b \in v \/ IsStop(csr0, v)
  BY <1>1, <1>4, CommandedKeeps DEF c
<1>6. am_initialized' \in BOOLEAN
  BY <1>2 DEF IInv, TypeOK, IsInit
<1>7. /\ e \in SUBSET Csr0Bits
      /\ "STOP" \in e => e = c
      /\ e \cap (WriteOneClears \cup {"INIT"}) = c \cap (WriteOneClears \cup {"INIT"})
  BY SMT, <1>5, <1>6, DemandedKeeps DEF e
<1>8. /\ d \in SUBSET Csr0Bits
      /\ "TXON" \notin e => d = e
      /\ e \cap (WriteOneClears \cup CommandBits) \subseteq d
      /\ d \cap (CommandBits \cup {"IDON"}) = e \cap (CommandBits \cup {"IDON"})
  BY SMT, <1>3, <1>7, TransmittedKeeps DEF TransmitResults
<1>9. /\ csr0' \in SUBSET Csr0Bits
      /\ Summed(csr0')
      /\ csr0' \ {"INTR"} = (d \ {"TDMD"}) \ {"INTR"}
  BY <1>3, <1>8, RethinkSums
<1>10. Quiet(csr0')
  BY SMT, <1>5, <1>7, <1>8, <1>9
     DEF Quiet, Summed, IntrSources, WriteOneClears, CommandBits
<1>11. "IDON" \in csr0' => am_initialized' /\ "INIT" \in csr0'
  <2>1. SUFFICES ASSUME "IDON" \in csr0'
                 PROVE  am_initialized' /\ "INIT" \in csr0'
    OBVIOUS
  <2>2. "IDON" \in c  BY <2>1, <1>7, <1>8, <1>9 DEF WriteOneClears
  <2>3. ~IsStop(csr0, v)
    BY <2>2 DEF c, Commanded
  <2>4. "INIT" \in c /\ am_initialized'
    BY <2>2, <2>3, <1>2, <1>5 DEF IInv, IdonMeansInit
  <2>5. QED  BY <2>4, <1>7, <1>8, <1>9 DEF CommandBits
<1>12. \A b \in WriteOneClears :
         b \in csr0 /\ b \notin csr0' => b \in v \/ IsStop(csr0, v)
  BY <1>5, <1>7, <1>8, <1>9 DEF WriteOneClears
<1>13. QED  BY <1>9, <1>10, <1>11, <1>12

\* The reset state satisfies the invariant.
LEMMA InitEstablishes == Init => IInv
  BY HalvesAssumption
     DEF Init, IInv, TypeOK, StopMeansQuiet, IntrIsSummary, IdonMeansInit,
         Csr3Values, Csr0Bits, WriteOneClears, CommandBits,
         IntrSources, ModeBits

\* Every call made under reg_lock preserves it.
LEMMA NextPreserves == IInv /\ [Next]_vars => IInv'
<1> SUFFICES ASSUME IInv, [Next]_vars PROVE IInv'
  OBVIOUS
<1> USE DEF IInv
<1>1. ASSUME NEW v \in Words, WputCsr0(v) PROVE IInv'
  <2>1. TypeOK'
    <3>1. am_mode' \in SUBSET ModeBits
      BY <1>1, ModesAssumption DEF WputCsr0, InitMode, TypeOK
    <3>2. csr0' \in SUBSET Csr0Bits
      BY <1>1, WputCsr0Keeps
    <3>3. QED
      BY <1>1, <3>1, <3>2 DEF WputCsr0, TypeOK, Csr3Values, IsInit
  <2>2. QED
    BY <1>1, <2>1, WputCsr0Keeps
       DEF StopMeansQuiet, Quiet, IntrIsSummary, Summed, IdonMeansInit
<1>2. CASE Gotfunc
  <2>1. csr0 \in SUBSET Csr0Bits /\ csr0' \in Received(csr0)
    BY <1>2 DEF Gotfunc, TypeOK
  <2>2. /\ csr0' \in SUBSET Csr0Bits
        /\ Summed(csr0) => Summed(csr0')
        /\ "RXON" \notin csr0 => csr0' = csr0
        /\ csr0' \cap (CommandBits \cup {"TXON", "IDON"})
             = csr0 \cap (CommandBits \cup {"TXON", "IDON"})
    BY <2>1, ReceivedKeeps
  <2>3. TypeOK'
    BY <1>2, <2>2 DEF Gotfunc, TypeOK
  <2>4. StopMeansQuiet'
    BY <2>2 DEF StopMeansQuiet, CommandBits
  <2>5. QED
    BY <1>2, <2>2, <2>3, <2>4
       DEF Gotfunc, IntrIsSummary, Summed, IdonMeansInit, CommandBits
<1>3. ASSUME UNCHANGED <<csr0, am_initialized>>, TypeOK' PROVE IInv'
  BY <1>3 DEF StopMeansQuiet, IntrIsSummary, IdonMeansInit
<1>4. ASSUME NEW r \in Regs, NEW high \in {0, 128}, WputRap(high + r) PROVE IInv'
  <2>1. (high + r) % 128 = r  BY SMT, RegsAssumption
  <2>2. QED  BY <1>3, <1>4, <2>1 DEF WputRap, TypeOK
<1>5. ASSUME NEW a \in Halves, WputCsr1(a) \/ WputCsr2(a) PROVE IInv'
  BY <1>3, <1>5 DEF WputCsr1, WputCsr2, TypeOK
<1>6. CASE WputCsr3
  BY <1>3, <1>6 DEF WputCsr3, TypeOK, Csr3Values
<1>7. ASSUME NEW m \in Modes, WputMode(m) PROVE IInv'
  BY <1>3, <1>7, ModesAssumption DEF WputMode, TypeOK
<1>8. ASSUME NEW a \in Halves \X Halves, NEW m \in Modes, HostWritesBlock(a, m)
      PROVE IInv'
  BY <1>3, <1>8 DEF HostWritesBlock, TypeOK
<1>9. CASE UNCHANGED vars
  BY <1>3, <1>9 DEF vars, TypeOK
<1>10. QED
  BY <1>1, <1>2, <1>4, <1>5, <1>6, <1>7, <1>8, <1>9 DEF Next

-----------------------------------------------------------------------------
(* The results.                                                            *)

\* Types, and the consistency of CSR0, hold in every state in which reg_lock
\* is free, whatever the 68k writes.
THEOREM Csr0Consistent ==
    Spec => [](TypeOK /\ StopMeansQuiet /\ IntrIsSummary /\ IdonMeansInit)
<1>1. IInv => TypeOK /\ StopMeansQuiet /\ IntrIsSummary /\ IdonMeansInit
  BY DEF IInv
<1>2. QED
  BY <1>1, InitEstablishes, NextPreserves, PTL DEF Spec

\* The registers keep to their values.
THEOREM RegistersTyped == Spec => []TypeOK
  BY Csr0Consistent, PTL

\* INTR sums up the status bits after every call made under reg_lock.
THEOREM IntrSummarises == Spec => []IntrIsSummary
  BY Csr0Consistent, PTL

\* IDON tells of an initialization that has taken place.
THEOREM IdonIsTrue == Spec => []IdonMeansInit
  BY Csr0Consistent, PTL

\* No status bit is lost without an acknowledgement or a stop.
THEOREM StatusIsKept == Spec => StatusOnlyAcked
<1> DEFINE Acked == \A b \in WriteOneClears :
               b \in csr0 /\ b \notin csr0' =>
                 \E v \in Words : WputCsr0(v) /\ (b \in v \/ IsStop(csr0, v))
<1>1. IInv /\ [Next]_vars => [Acked]_vars
  <2> SUFFICES ASSUME IInv, Next PROVE Acked
    OBVIOUS
  <2>1. ASSUME NEW v \in Words, WputCsr0(v) PROVE Acked
    BY <2>1, WputCsr0Keeps
  <2>2. CASE Gotfunc
    <3>1. csr0 \in SUBSET Csr0Bits /\ csr0' \in Received(csr0)
      BY <2>2 DEF Gotfunc, IInv, TypeOK
    <3>2. csr0 \cap (WriteOneClears \cup CommandBits) \subseteq csr0'
      BY <3>1, ReceivedKeeps
    <3>3. QED  BY <3>2
  <2>3. CASE UNCHANGED csr0
    BY <2>3
  <2>4. QED
    BY <2>1, <2>2, <2>3
       DEF Next, WputRap, WputCsr1, WputCsr2, WputCsr3, WputMode, HostWritesBlock
<1>2. QED
  BY <1>1, InitEstablishes, NextPreserves, PTL DEF Spec, StatusOnlyAcked

\* A step from a state that honours the mode word leads to another one, or
\* is one of the two writes that may break it.
LEMMA ModeStep ==
    ASSUME IInv, ModeHonoured, [Next]_vars
    PROVE  \/ ModeHonoured'
           \/ \E v \in Words : {"INIT", "STRT"} \subseteq v /\ WputCsr0(v)
           \/ \E m \in Modes : WputMode(m)
<1>1. ASSUME NEW v \in Words, WputCsr0(v), ~({"INIT", "STRT"} \subseteq v)
      PROVE  ModeHonoured'
  <2> DEFINE c == Commanded(csr0, v, am_mode)
             e == Demanded(c, am_mode', am_initialized')
  <2>1. PICK d \in TransmitResults(e, am_mode', am_initialized') :
          csr0' = Rethink(d \ {"TDMD"})
    BY <1>1 DEF WputCsr0
  <2> HIDE DEF c, e
  <2>2. am_mode' = IF IsInit(csr0, v) THEN blocks[<<csr1, csr2>>] ELSE am_mode
    BY <1>1 DEF WputCsr0, InitMode
  <2>3. csr0 \in SUBSET Csr0Bits /\ v \in SUBSET Csr0Bits /\ Quiet(csr0)
    BY WordsAssumption DEF IInv, TypeOK, StopMeansQuiet, Quiet
  <2>4. am_initialized' \in BOOLEAN
    BY <1>1 DEF WputCsr0, IInv, TypeOK, IsInit
  <2>5. c \in SUBSET Csr0Bits
    BY SMT, <2>3, CommandedKeeps DEF c
  <2>6. /\ "DTX" \in am_mode' => "TXON" \notin c
        /\ "DRX" \in am_mode' => "RXON" \notin c
    <3>1. CASE IsInit(csr0, v)
      BY <1>1, <3>1 DEF c, IsInit, Commanded, IsStart, IsStop
    <3>2. CASE ~IsInit(csr0, v)
      BY <3>2, <2>2 DEF c, Commanded, Latch, TurnOn, ModeHonoured, CommandBits
    <3>3. QED  BY <3>1, <3>2
  <2>7. /\ "DTX" \in am_mode' => "TXON" \notin e
        /\ "DRX" \in am_mode' => "RXON" \notin e
    BY <2>6 DEF e, Demanded, TurnOn
  <2>8. e \in SUBSET Csr0Bits
    BY SMT, <2>4, <2>5, DemandedKeeps DEF e
  <2>9. d \in SUBSET Csr0Bits /\ d \cap {"TXON", "RXON"} \subseteq e
    BY <2>1, <2>8, TransmittedKeeps DEF TransmitResults
  <2>10. QED
    BY <2>1, <2>7, <2>9 DEF ModeHonoured, Rethink
<1>2. CASE Gotfunc
  <2>1. csr0 \in SUBSET Csr0Bits /\ csr0' \in Received(csr0)
    BY <1>2 DEF Gotfunc, IInv, TypeOK
  <2>2. ("RXON" \in csr0' => "RXON" \in csr0)
          /\ ("TXON" \in csr0' => "TXON" \in csr0)
    BY SMT, <2>1, ReceivedKeeps
  <2>3. QED  BY <1>2, <2>2 DEF Gotfunc, ModeHonoured
<1>4. CASE UNCHANGED <<csr0, am_mode>>
  BY <1>4 DEF ModeHonoured
<1>5. QED
  BY <1>1, <1>2, <1>4
     DEF Next, vars, WputRap, WputCsr1, WputCsr2, WputCsr3, HostWritesBlock

\* The mode word stays honoured until a word with both INIT and STRT, or a
\* write of CSR15, breaks it.
THEOREM ModeIsKept == Spec => ModeKept
<1>1. IInv /\ [Next]_vars =>
        [ModeHonoured =>
           \/ ModeHonoured'
           \/ \E v \in Words : {"INIT", "STRT"} \subseteq v /\ WputCsr0(v)
           \/ \E m \in Modes : WputMode(m)]_vars
  BY ModeStep
<1>2. QED
  BY <1>1, InitEstablishes, NextPreserves, PTL DEF Spec, ModeKept

\* A driver that never sets INIT and STRT in one word, and never writes CSR15,
\* gets the transmitter and receiver its init block asks for, even when it
\* stops the chip and initializes it again with another mode word.
THEOREM SplitInitHonoursMode ==
    ASSUME \A v \in Words : ~({"INIT", "STRT"} \subseteq v), 15 \notin Regs
    PROVE  Spec => []ModeHonoured
<1>1. Init => ModeHonoured
  BY DEF Init, ModeHonoured
<1>2. IInv /\ ModeHonoured /\ [Next]_vars => ModeHonoured'
  <2>1. ASSUME IInv, NEW m \in Modes, WputMode(m) PROVE FALSE
    BY SMT, <2>1 DEF WputMode, IInv, TypeOK
  <2>2. QED  BY <2>1, ModeStep
<1>3. QED
  BY <1>1, <1>2, InitEstablishes, NextPreserves, PTL DEF Spec

=============================================================================
