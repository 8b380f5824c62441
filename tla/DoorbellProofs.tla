--------------------------- MODULE DoorbellProofs ---------------------------
(***************************************************************************)
(* The register path of the doorbell design, for every set of words and    *)
(* registers and any number of writes and frames: it implements LossyLine, *)
(* and no interrupt is visible before its reason.                          *)
(***************************************************************************)
EXTENDS Doorbell, SequenceTheorems, TLAPS

\* The leaves are first-order; those with arithmetic, or with many cases, name SMT.
USE ZenonT(30)

-----------------------------------------------------------------------------
(* The writes on their way from the 68k to the chip.                       *)

\* c is a write of the 68k, with the RAP in force when it was made.
Sent(c) ==
    /\ c.id \in 1 .. Len(wrote)
    /\ c.rap = wrote[c.id].rap /\ c.word = wrote[c.id].word

\* Only writes before write i have been applied.
Behind(i) == \A k \in 1 .. Len(applied) : applied[k].id < i

\* The doorbell holds a write the mailbox has not posted yet.
Fresh == cmd_pending /\ ~ClearInFlight

LineTypes ==
    /\ RegfileTypeOK
    /\ cmdSlot \in Cmd /\ cmd \in Cmd
    /\ applied \in Seq(Cmd)
    /\ DOMAIN pc = Threads

\* Doorbell, CMD slot and main thread hold writes of the 68k.
Held ==
    /\ cmd_pending => Sent([id |-> cmd_data.id, rap |-> cmd_rap, word |-> cmd_data.word])
    /\ cmdSlot # NoCmd => Sent(cmdSlot)
    /\ pc["main"] = "apply" => Sent(cmd)
    /\ Behind(Len(wrote) + 1)

\* They are in order: what the doorbell is to post is newer than what is in
\* the slot or with the main thread, and that is newer than what the chip has
\* seen.  The slot still holds an applied write until the main thread has
\* cleared it.
InOrder ==
    /\ pc["main"] = "apply" => Behind(cmd.id)
    /\ cmdSlot # NoCmd /\ pc["main"] \notin {"apply", "locked", "clear"} => Behind(cmdSlot.id)
    /\ Fresh => /\ Behind(cmd_data.id)
                /\ cmdSlot # NoCmd => cmdSlot.id < cmd_data.id
                /\ pc["main"] = "apply" => cmd.id < cmd_data.id

LineInv == LineTypes /\ Held /\ InOrder

\* A write enters the line when the 68k makes it, and none leaves it there.
LEMMA IssueExtends ==
    ASSUME LineTypes, NEW v \in Words, wrote' = Append(wrote, [rap |-> rap, word |-> v])
    PROVE  /\ wrote' \in Seq([rap : Regs, word : Words])
           /\ Len(wrote') = Len(wrote) + 1
           /\ Len(wrote) \in Nat
           /\ \A i \in 1 .. Len(wrote) : wrote'[i] = wrote[i]
           /\ wrote'[Len(wrote) + 1] = [rap |-> rap, word |-> v]
           /\ SubSeq(wrote', 1, Len(wrote)) = wrote
<1> DEFINE e == [rap |-> rap, word |-> v]
           W == [rap : Regs, word : Words]
<1>1. wrote \in Seq(W) /\ e \in W  BY DEF LineTypes, RegfileTypeOK
<1> HIDE DEF e, W
<1>2. /\ wrote' = Append(wrote, e)
      /\ wrote' \in Seq(W)
      /\ Len(wrote') = Len(wrote) + 1
      /\ \A i \in 1 .. Len(wrote) : wrote'[i] = wrote[i]
      /\ wrote'[Len(wrote) + 1] = e
  BY SMT, <1>1, AppendProperties DEF e
<1>3. Len(wrote) \in Nat  BY <1>1, LenProperties
<1>4. SubSeq(wrote', 1, Len(wrote)) = wrote
  BY SMT, <1>1, <1>2, <1>3
<1>5. QED  BY <1>2, <1>3, <1>4 DEF e, W

\* Steps of the threads that touch neither the line nor its order.
LEMMA AsideKeeps ==
    ASSUME LineInv, UNCHANGED <<regfileVars, cmdSlot, cmd, applied>>,
           DOMAIN pc' = Threads,
           \/ pc'["main"] = pc["main"]
           \/ pc'["main"] \in {"locked", "clear"}
           \/ /\ pc["main"] \notin {"apply", "locked", "clear"}
              /\ pc'["main"] \notin {"apply", "locked", "clear"}
    PROVE  LineInv'
  BY DEF LineInv, LineTypes, Held, InOrder, Sent, Behind, Fresh, ClearInFlight, regfileVars,
         RegfileTypeOK

\* A clk_sys cycle without an RDP write posts nothing and issues nothing.
LEMMA ClockKeeps ==
    ASSUME LineInv, ShiftClear, cmd_pending' = (cmd_pending /\ ~cmd_clear_s1),
           rap' \in Regs,
           UNCHANGED <<cmd_rap, cmd_data, wrote, cmdSlot, cmd, applied, pc>>
    PROVE  LineInv'
  BY DEF LineInv, LineTypes, Held, InOrder, Sent, Behind, Fresh, ClearInFlight, ShiftClear,
         RegfileTypeOK

\* The main thread gives the write it holds to the chip: it is newer than all
\* those before it and older than what the doorbell is still to post.
LEMMA ApplyKeeps ==
    ASSUME LineInv, pc["main"] = "apply", applied' = Append(applied, cmd), cmd' = NoCmd,
           DOMAIN pc' = Threads, pc'["main"] = "locked",
           UNCHANGED <<regfileVars, cmdSlot>>
    PROVE  LineInv'
<1>1. /\ applied \in Seq(Cmd) /\ cmd \in Cmd
      /\ Sent(cmd) /\ Behind(cmd.id) /\ Len(wrote) \in Nat
  BY LenProperties DEF LineInv, LineTypes, Held, InOrder, RegfileTypeOK
<1>2. /\ applied' \in Seq(Cmd)
      /\ Len(applied') = Len(applied) + 1 /\ Len(applied) \in Nat
      /\ \A k \in 1 .. Len(applied) : applied'[k] = applied[k]
      /\ applied'[Len(applied) + 1] = cmd
  BY SMT, <1>1, AppendProperties, LenProperties
<1>3. ASSUME NEW i, Behind(i), cmd.id < i
      PROVE  \A k \in 1 .. Len(applied') : applied'[k].id < i
  BY SMT, <1>2, <1>3 DEF Behind
<1>4. cmd.id < Len(wrote) + 1  BY SMT, <1>1 DEF Sent, Cmd
<1>5. LineTypes'
  BY <1>2, RegsAssumption DEF LineInv, LineTypes, regfileVars, RegfileTypeOK, Cmd, NoCmd
<1>6. Held'
  BY <1>3, <1>4 DEF LineInv, Held, Sent, Behind, regfileVars
<1>7. InOrder'
  BY <1>3 DEF LineInv, InOrder, Behind, Fresh, ClearInFlight, regfileVars
<1>8. QED  BY <1>5, <1>6, <1>7 DEF LineInv

\* LineInv is inductive.
LEMMA LineKept == LineInv /\ [Next]_vars => LineInv'
<1> SUFFICES ASSUME LineInv, [Next]_vars PROVE LineInv'
  OBVIOUS
<1>0. DOMAIN pc = Threads /\ "main" \in Threads  BY DEF LineInv, LineTypes, Threads
<1>1. CASE HostWritesRap
  BY <1>1, ClockKeeps DEF HostWritesRap, RapCycle, fpgaUnchanged, daemonVars
<1>2. CASE HostWritesRdp
  <2>1. PICK v \in Words : RdpCycle(v)  BY <1>2 DEF HostWritesRdp
  <2>2. UNCHANGED <<cmdSlot, cmd, applied, pc, rap>>
    BY <1>2, <2>1 DEF HostWritesRdp, RdpCycle, fpgaUnchanged, daemonVars
  <2>3. /\ wrote' \in Seq([rap : Regs, word : Words])
        /\ Len(wrote') = Len(wrote) + 1
        /\ Len(wrote) \in Nat
        /\ \A i \in 1 .. Len(wrote) : wrote'[i] = wrote[i]
        /\ wrote'[Len(wrote) + 1] = [rap |-> rap, word |-> v]
    BY <2>1, IssueExtends DEF RdpCycle, LineInv
  <2>4. cmd_pending' = TRUE /\ cmd_rap' = rap /\ cmd_data' = [id |-> Len(wrote) + 1, word |-> v]
    BY <2>1 DEF RdpCycle
  <2>5. \A k \in 1 .. Len(applied) : applied[k].id < Len(wrote) + 1 /\ applied[k].id \in Nat
    <3>1. applied \in Seq(Cmd) /\ Behind(Len(wrote) + 1)  BY DEF LineInv, LineTypes, Held
    <3>2. \A k \in 1 .. Len(applied) : applied[k] \in Cmd  BY <3>1, ElementOfSeq
    <3>3. QED  BY <3>1, <3>2 DEF Behind, Cmd
  <2>6. LineTypes'
    <3>1. {cmd_clear', cmd_clear_s', cmd_clear_s1'} \subseteq BOOLEAN
      BY <2>1 DEF LineInv, LineTypes, RegfileTypeOK, RdpCycle, ShiftClear
    <3>2. rap' \in Regs /\ cmd_pending' \in BOOLEAN /\ cmd_rap' \in Regs /\ cmd_data' \in Data
      BY SMT, <2>2, <2>3, <2>4 DEF LineInv, LineTypes, RegfileTypeOK, Data
    <3>3. QED
      BY <2>2, <2>3, <3>1, <3>2 DEF LineInv, LineTypes, RegfileTypeOK
  <2>7. Held'
    <3>1. ASSUME NEW c, Sent(c) PROVE Sent(c)'
      <4>1. c.id \in 1 .. Len(wrote) /\ c.rap = wrote[c.id].rap /\ c.word = wrote[c.id].word
        BY <3>1 DEF Sent
      <4>2. c.id \in 1 .. Len(wrote) + 1  BY SMT, <2>3, <4>1
      <4>3. wrote'[c.id] = wrote[c.id]  BY <2>3, <4>1
      <4>4. QED  BY <2>3, <4>1, <4>2, <4>3 DEF Sent
    <3>2. Sent([id |-> cmd_data.id, rap |-> cmd_rap, word |-> cmd_data.word])'
      <4>1. Len(wrote) + 1 \in 1 .. Len(wrote) + 1  BY SMT, <2>3
      <4>2. cmd_data'.id = Len(wrote) + 1 /\ cmd_data'.word = v  BY <2>4
      <4>3. wrote'[cmd_data'.id].rap = cmd_rap' /\ wrote'[cmd_data'.id].word = cmd_data'.word
        <5>1. wrote'[cmd_data'.id] = [rap |-> rap, word |-> v]  BY <2>3, <4>2
        <5>2. QED  BY SMT, <2>4, <4>2, <5>1
      <4>4. cmd_data'.id \in 1 .. Len(wrote')  BY <2>3, <4>1, <4>2
      <4>5. QED  BY <4>3, <4>4 DEF Sent
    <3>3. Behind(Len(wrote) + 1)'
      <4>1. \A k \in 1 .. Len(applied) : applied[k].id < Len(wrote) + 1 + 1  BY SMT, <2>3, <2>5
      <4>2. QED  BY <2>2, <2>3, <4>1 DEF Behind
    <3>4. QED  BY <2>2, <3>1, <3>2, <3>3 DEF LineInv, Held
  <2>8. InOrder'
    BY SMT, <2>2, <2>3, <2>4, <2>5 DEF LineInv, Held, InOrder, Sent, Behind
  <2>9. QED  BY <2>6, <2>7, <2>8 DEF LineInv
<1>3. CASE Clock
  BY <1>3, ClockKeeps DEF Clock, IdleCycle, fpgaUnchanged, daemonVars, LineInv, LineTypes,
                          RegfileTypeOK
<1>4. CASE MboxPost
  <2>1. LineTypes'
    BY <1>4 DEF MboxPost, daemonVars, LineInv, LineTypes, RegfileTypeOK, Cmd, Data
  <2>2. Held'
    BY <1>4 DEF MboxPost, daemonVars, LineInv, Held, Sent, Behind
  <2>3. InOrder'
    BY <1>4 DEF MboxPost, daemonVars, LineInv, InOrder, Sent, Behind, Fresh, ClearInFlight
  <2>4. QED  BY <2>1, <2>2, <2>3 DEF LineInv
<1>5. CASE MboxPollCsr \/ MboxPollInt
  BY <1>5, <1>0, AsideKeeps DEF MboxPollCsr, MboxPollInt, daemonVars
<1>6. CASE MainPoll
  <2>1. pc'["main"] = "apply" /\ DOMAIN pc' = Threads
    BY <1>0, <1>6 DEF MainPoll
  <2>2. QED
    BY <1>6, <2>1 DEF MainPoll, LineInv, LineTypes, RegfileTypeOK, Held, InOrder, Sent,
                      Behind, Fresh, ClearInFlight, regfileVars
<1>7. CASE MainApply
  <2>1. /\ pc["main"] = "apply" /\ applied' = Append(applied, cmd) /\ cmd' = NoCmd
        /\ pc' = [pc EXCEPT !["main"] = "locked"]
        /\ UNCHANGED <<regfileVars, cmdSlot>>
    BY <1>7 DEF MainApply, Locks
  <2>2. QED  BY <1>0, <2>1, ApplyKeeps
<1>8. CASE Callback("main") \/ Callback("rx")
  BY <1>8, <1>0, AsideKeeps DEF Callback, CallbackCsr, CallbackInt
<1>9. CASE Unlock("main") \/ Unlock("rx")
  BY <1>9, <1>0, AsideKeeps DEF Unlock
<1>10. CASE MainClear
  <2>1. pc'["main"] = "snapCsr" /\ DOMAIN pc' = Threads
    BY <1>0, <1>10 DEF MainClear
  <2>2. QED
    BY <1>10, <2>1, RegsAssumption
    DEF MainClear, LineInv, LineTypes, RegfileTypeOK, Held, InOrder, Sent, Behind, Fresh,
        ClearInFlight, regfileVars, Cmd, NoCmd
<1>11. ASSUME NEW t \in Threads, Publish(t)
       PROVE  LineInv'
  <2>1. /\ UNCHANGED <<regfileVars, cmdSlot, cmd, applied>>
        /\ \E from \in {"snapCsr", "putCsr", "snapInt", "putInt"},
             to \in {"putCsr", "snapInt", "putInt", "wait"} :
              pc[t] = from /\ pc' = [pc EXCEPT ![t] = to]
    BY <1>11 DEF Publish, Snapshot, PutCsr, PutInt
  <2>2. QED  BY <2>1, <1>0, AsideKeeps
<1>12. CASE RxGotfunc
  <2>1. UNCHANGED <<regfileVars, cmdSlot, cmd, applied>> /\ pc' = [pc EXCEPT !["rx"] = "locked"]
    BY <1>12 DEF RxGotfunc, Locks
  <2>2. QED  BY <2>1, <1>0, AsideKeeps
<1>13. CASE UNCHANGED vars
  BY <1>13, <1>0, AsideKeeps DEF vars, daemonVars
<1>14. QED
  BY <1>1, <1>2, <1>3, <1>4, <1>5, <1>6, <1>7, <1>8, <1>9, <1>10, <1>11, <1>12, <1>13
  DEF Next, Main, Rx, Threads

\* A step of the 68k issues a write, the application of a command by the main
\* thread is the chip's, and nothing else shows on the line.
LEMMA LineStep == LineInv /\ [Next]_vars => [Line!Next]_<<wrote, applied>>
<1> SUFFICES ASSUME LineInv, [Next]_vars PROVE [Line!Next]_<<wrote, applied>>
  OBVIOUS
<1>1. CASE HostWritesRdp
  <2>1. PICK v \in Words : RdpCycle(v)  BY <1>1 DEF HostWritesRdp
  <2>2. Len(wrote') = Len(wrote) + 1 /\ SubSeq(wrote', 1, Len(wrote)) = wrote
    BY <2>1, IssueExtends DEF RdpCycle, LineInv
  <2>3. QED  BY <1>1, <2>2 DEF HostWritesRdp, fpgaUnchanged, daemonVars, Line!Next, Line!Issue
<1>2. CASE MainApply
  <2>1. /\ pc["main"] = "apply" /\ applied' = Append(applied, cmd)
        /\ UNCHANGED wrote
    BY <1>2 DEF MainApply, regfileVars
  <2>2. /\ wrote \in Seq([rap : Regs, word : Words]) /\ applied \in Seq(Cmd) /\ cmd \in Cmd
        /\ Sent(cmd) /\ Behind(cmd.id)
    BY <2>1 DEF LineInv, LineTypes, Held, InOrder, RegfileTypeOK
  <2>3. DOMAIN wrote = 1 .. Len(wrote) /\ DOMAIN applied = 1 .. Len(applied)
    BY <2>2, LenProperties
  <2>4. cmd = [id |-> cmd.id, rap |-> wrote[cmd.id].rap, word |-> wrote[cmd.id].word]
    BY <2>2 DEF Sent, Cmd
  <2>5. cmd.id \in DOMAIN wrote /\ Line!Apply(cmd.id)
    BY <2>1, <2>2, <2>3, <2>4 DEF Sent, Behind, Line!Apply
  <2>6. QED  BY <2>5 DEF Line!Next
<1>3. CASE ~HostWritesRdp /\ ~MainApply
  <2>1. UNCHANGED <<wrote, applied>>
    BY <1>3 DEF Next, HostWritesRap, RapCycle, Clock, IdleCycle, fpgaUnchanged, MboxPost,
       MboxPollCsr, MboxPollInt, Main, MainPoll, Callback, CallbackCsr, CallbackInt, Unlock,
       MainClear, Publish, Snapshot, PutCsr, PutInt, RxGotfunc, Rx, regfileVars, daemonVars,
       vars
  <2>2. QED  BY <2>1
<1>4. QED  BY <1>1, <1>2, <1>3

\* Nothing is on the line at first.
LEMMA LineInit == Init => LineInv
<1> SUFFICES ASSUME Init PROVE LineInv
  OBVIOUS
<1>1. RegfileTypeOK
  <2>1. {cmd_clear, cmd_clear_s, cmd_clear_s1} \subseteq BOOLEAN
    BY DEF Init, RegfileInit
  <2>2. rap \in Regs /\ cmd_pending \in BOOLEAN /\ cmd_rap \in Regs /\ cmd_data \in Data
    BY RegsAssumption DEF Init, RegfileInit, Data
  <2>3. wrote \in Seq([rap : Regs, word : Words])
    BY EmptySeq DEF Init, RegfileInit
  <2>4. QED  BY <2>1, <2>2, <2>3 DEF RegfileTypeOK
<1>2. LineTypes
  BY SMT, <1>1, RegsAssumption DEF Init, LineTypes, Cmd, NoCmd, Threads
<1>3. Held /\ InOrder
  BY SMT DEF Init, RegfileInit, Held, InOrder, Behind, Fresh, Threads
<1>4. QED  BY <1>2, <1>3 DEF LineInv

\* The register path implements LossyLine: what the daemon applies are writes of
\* the 68k, unaltered, in order and none twice, however many writes and frames
\* there are and however the threads and the mailbox interleave.
THEOREM LineIsKept == Spec => LineSpec
<1>1. Init => LineInv  BY LineInit
<1>2. Init => Line!Init
  BY DEF Init, RegfileInit, Line!Init
<1>3. QED  BY <1>1, <1>2, LineKept, LineStep, PTL DEF Spec, LineSpec, Line!Spec
-----------------------------------------------------------------------------
(* The reason for an interrupt is shown before the interrupt.              *)

\* No thread has stored a value that a locked call had replaced.
Clean == slips \cap {"stale", "returned"} = {}

\* Thread t is about to store a value that is still that of the chip.
Current(t) == pc[t] \in {"putCsr", "putInt"} /\ t \notin overtaken

ReasonTypes ==
    /\ csr0 \in SUBSET Csr0Bits
    /\ pubs \in Seq(SUBSET Csr0Bits)
    /\ DOMAIN pc = Threads /\ DOMAIN snap = Threads
    /\ \A t \in Threads : owner = t => pc[t] = "locked"

\* An overtaken thread is one that is about to store; the others have what
\* the chip has.
Snapped ==
    \A t \in Threads :
        /\ t \in overtaken => pc[t] \in {"putCsr", "putInt"}
        /\ Current(t) => snap[t] = csr0

\* A locked call that asserts the interrupt ends with the publication of its
\* reason ...
Shown ==
    Clean /\ IntAsserted(csr0) =>
        IF pubs = <<>> THEN csrSlot = csr0 ELSE pubs[Len(pubs)] = csr0

\* ... and, while the other thread is about to store the value the call left
\* as it was, publishes nothing that differs from it in the interrupt.
Steady ==
    \A t \in Threads : Current(t) =>
        /\ \A i \in 1 .. Len(pubs) : IntAsserted(pubs[i]) <=> IntAsserted(csr0)
        /\ Clean /\ IntAsserted(csr0) => IntAsserted(csrSlot)

\* Between the two halves of a publication the CSR slot has its reason: the
\* value published, or the chip's.
HalfShown ==
    half /\ pubs # <<>> /\ Clean =>
        \/ csrSlot = pubs[1]
        \/ csrSlot = csr0 /\ (IntAsserted(pubs[1]) => IntAsserted(csr0))

\* With the lock free there is nothing left to publish.
Idle == owner = "none" => pubs = <<>>

ReasonInv == ReasonTypes /\ Snapped /\ Shown /\ Steady /\ HalfShown /\ Idle

\* What a locked call leaves and publishes, if the chip had CSR0 = c: an asserted
\* interrupt is published last, and a call that leaves CSR0 as it was publishes
\* it asserted exactly if it is.
Reasoned(c, r) ==
    /\ r.csr0 \in SUBSET Csr0Bits
    /\ r.pubs \in Seq(SUBSET Csr0Bits)
    /\ IntAsserted(r.csr0) =>
         IF r.pubs = <<>> THEN r.csr0 = c ELSE r.pubs[Len(r.pubs)] = r.csr0
    /\ r.csr0 = c => \A i \in 1 .. Len(r.pubs) : IntAsserted(r.pubs[i]) <=> IntAsserted(c)

\* rethink() after the work of a call publishes what it leaves, or nothing.
LEMMA SignalReasoned ==
    ASSUME NEW c, NEW d \in SUBSET Csr0Bits
    PROVE  Reasoned(c, Run(d, Signal(d)))
<1> DEFINE r == Run(d, Signal(d))
<1>1. r.csr0 = d /\ r.pubs = IF IntAsserted(d) THEN <<d>> ELSE <<>>
  BY DEF Run, Signal
<1> HIDE DEF r
<1>2. CASE IntAsserted(d)
  <2>1. r.pubs = <<d>>  BY <1>1, <1>2
  <2>2. /\ r.pubs \in Seq(SUBSET Csr0Bits) /\ r.pubs # <<>>
        /\ Len(r.pubs) = 1 /\ r.pubs[1] = d
    BY SMT, <2>1
  <2>3. QED  BY SMT, <1>1, <1>2, <2>2 DEF Reasoned, r
<1>3. CASE ~IntAsserted(d)
  BY SMT, <1>1, <1>3 DEF Reasoned, r
<1>4. QED  BY <1>2, <1>3

\* The ring engines leave a value CSR0 can have.
LEMMA TransmittedTyped ==
    ASSUME NEW c \in SUBSET Csr0Bits, NEW d \in Transmitted(c, {})
    PROVE  d \in SUBSET Csr0Bits
  BY SMT DEF Transmitted, Rethink, IntrSources, Csr0Bits, WriteOneClears, CommandBits

\* gotfunc() publishes what it leaves, or nothing.
LEMMA GotfuncReasoned ==
    ASSUME NEW c \in SUBSET Csr0Bits, NEW r \in GotfuncRuns(c)
    PROVE  Reasoned(c, r)
<1>1. CASE r = Run(c, <<>>)
  BY SMT, <1>1 DEF Reasoned, Run
<1>2. CASE r # Run(c, <<>>)
  <2>1. PICK d \in RingOutcomes(c) : "RXON" \in c /\ r = Run(d, Signal(d))
    BY <1>2 DEF GotfuncRuns
  <2>2. d \in SUBSET Csr0Bits
    BY <2>1 DEF RingOutcomes, Rethink, Csr0Bits, WriteOneClears, CommandBits
  <2>3. QED  BY <2>1, <2>2, SignalReasoned
<1>3. QED  BY <1>1, <1>2

\* A transmission leaves CSR0 alone or sums up INTR.
LEMMA TransmittedSums ==
    ASSUME NEW c \in SUBSET Csr0Bits, NEW d \in Transmitted(c, {})
    PROVE  /\ d = c \/ ("INTR" \in d /\ "TINT" \in d)
           /\ "INEA" \in d <=> "INEA" \in c
  BY SMT DEF Transmitted, Rethink, IntrSources, WriteOneClears, Csr0Bits, CommandBits

\* chip_wput() of CSR0 keeps INTR until rethink(), unless it is a stop.
LEMMA CommandKeepsIntr ==
    ASSUME NEW c \in SUBSET Csr0Bits, NEW v \in SUBSET Csr0Bits, NEW initialized,
           NEW k, k = Demanded(Commanded(c, v, {}), {}, initialized)
    PROVE  /\ k \in SUBSET Csr0Bits
           /\ "INTR" \in k => "INTR" \in c
           /\ "INTR" \in c /\ "TDMD" \in k => "INTR" \in k
  BY DEF Demanded, Commanded, IsStop, IsStart, IsInit, Latch, TurnOn, Csr0Bits, WriteOneClears,
         CommandBits

\* The same for chip_wput(), which publishes what do_transmit() leaves as well.
LEMMA WputReasoned ==
    ASSUME NEW c \in SUBSET Csr0Bits, NEW v \in SUBSET Csr0Bits, NEW initialized,
           NEW r \in WputRuns(c, v, initialized)
    PROVE  Reasoned(c, r)
<1> DEFINE k == Demanded(Commanded(c, v, {}), {}, initialized)
           final(d) == Rethink(d \ {"TDMD"})
<1>1. /\ k \in SUBSET Csr0Bits
      /\ "INTR" \in k => "INTR" \in c
      /\ "INTR" \in c /\ "TDMD" \in k => "INTR" \in k
  <2>1. k = Demanded(Commanded(c, v, {}), {}, initialized)  OBVIOUS
  <2> HIDE DEF k
  <2>2. QED  BY SMT, <2>1, CommandKeepsIntr
<1>2. \/ r = Run(final(k), Signal(final(k)))
      \/ /\ "TDMD" \in k
         /\ \E d \in Transmitted(k, {}) :
              r = Run(final(d), (IF d = k THEN <<>> ELSE Signal(d)) \o <<d>> \o Signal(final(d)))
  <2>1. CASE "TDMD" \in k /\ initialized
    BY <2>1 DEF WputRuns
  <2>2. CASE ~("TDMD" \in k /\ initialized)
    BY <2>2 DEF WputRuns
  <2>3. QED  BY <2>1, <2>2
<1> HIDE DEF k
<1>3. ASSUME NEW d \in SUBSET Csr0Bits
      PROVE  /\ final(d) \in SUBSET Csr0Bits
             /\ "INEA" \in final(d) <=> "INEA" \in d
             /\ d \cap IntrSources # {} => "INTR" \in final(d)
  BY DEF Rethink, IntrSources, WriteOneClears, Csr0Bits, CommandBits
<1> HIDE DEF final
<1>4. CASE r = Run(final(k), Signal(final(k)))
  BY <1>1, <1>3, <1>4, SignalReasoned
<1>5. ASSUME "TDMD" \in k, NEW d \in Transmitted(k, {}),
             r = Run(final(d), (IF d = k THEN <<>> ELSE Signal(d)) \o <<d>> \o Signal(final(d)))
      PROVE  Reasoned(c, r)
  <2>1. d \in SUBSET Csr0Bits  BY <1>1, TransmittedTyped
  <2>2. d = k \/ ("INTR" \in d /\ "TINT" \in d)
    BY <1>1, TransmittedSums
  <2>3. d # k => d \cap IntrSources # {}
    BY SMT, <2>2 DEF IntrSources, WriteOneClears
  <2>4. final(d) = c => (IntAsserted(d) <=> IntAsserted(c))
    BY SMT, <1>1, <1>3, <1>5, <2>1, <2>2, <2>3 DEF IntAsserted
  <2>5. final(d) \in SUBSET Csr0Bits  BY <1>3, <2>1
  <2> DEFINE f == final(d)
             one == IF d = k THEN <<>> ELSE Signal(d)
  <2>6. one \in {<<>>, <<d>>} /\ Signal(f) = IF IntAsserted(f) THEN <<f>> ELSE <<>>
    BY DEF Signal
  <2>7. r.csr0 = f /\ r.pubs = one \o <<d>> \o Signal(f)
    BY <1>5 DEF Run
  <2> HIDE DEF f, one
  <2> DEFINE S == SUBSET Csr0Bits
             ab == one \o <<d>>
  <2>8. ab \in Seq(S) /\ Len(ab) \in Nat /\ Len(ab) > 0 /\ \A i \in 1 .. Len(ab) : ab[i] = d
    <3>1. one \in Seq(S) /\ Len(one) \in Nat /\ \A i \in 1 .. Len(one) : one[i] = d
      <4>1. CASE one = <<>>  BY SMT, <4>1
      <4>2. CASE one = <<d>>  BY SMT, <2>1, <4>2
      <4>3. QED  BY <2>6, <4>1, <4>2
    <3>2. <<d>> \in Seq(S) /\ Len(<<d>>) = 1 /\ <<d>>[1] = d
      BY SMT, <2>1
    <3> HIDE DEF S
    <3>3. QED  BY SMT, <3>1, <3>2, ConcatProperties
  <2> HIDE DEF ab
  <2>9. CASE ~IntAsserted(f)
    <3>1. r.pubs = ab
      BY <2>6, <2>7, <2>8, <2>9, ConcatEmptySeq DEF ab
    <3>2. QED  BY <2>4, <2>5, <2>7, <2>8, <2>9, <3>1 DEF Reasoned, f
  <2>10. CASE IntAsserted(f)
    <3>1. r.pubs = ab \o <<f>>
      BY <2>6, <2>7, <2>10 DEF ab
    <3>2. <<f>> \in Seq(S) /\ Len(<<f>>) = 1 /\ <<f>>[1] = f
      BY SMT, <2>5 DEF f
    <3>3. /\ r.pubs \in Seq(S) /\ r.pubs # <<>>
          /\ \A i \in 1 .. Len(r.pubs) : r.pubs[i] \in {d, f}
          /\ r.pubs[Len(r.pubs)] = f
      <4> HIDE DEF S
      <4>1. QED  BY SMT, <3>1, <3>2, <2>8, ConcatProperties
    <3>4. QED  BY <2>4, <2>5, <2>7, <2>10, <3>3 DEF Reasoned, f
  <2>11. QED  BY <2>9, <2>10
<1>6. QED  BY <1>2, <1>4, <1>5

reasonVars == <<owner, pubs, half, csr0, csrSlot, snap, overtaken>>

\* Steps that neither store a value nor hold the lock.
LEMMA AsideKeepsReason ==
    ASSUME ReasonInv, UNCHANGED reasonVars, Clean' <=> Clean,
           \/ pc' = pc
           \/ \E t \in Threads, p \in {"apply", "snapCsr", "wait"} :
                /\ pc[t] \notin {"locked", "putCsr", "putInt"}
                /\ pc' = [pc EXCEPT ![t] = p]
    PROVE  ReasonInv'
<1>1. DOMAIN pc' = Threads /\ \A t \in Threads : owner = t => pc'[t] = "locked"
  BY DEF ReasonInv, ReasonTypes
<1>2. \A t \in Threads : pc'[t] \in {"putCsr", "putInt"} <=> pc[t] \in {"putCsr", "putInt"}
  BY DEF ReasonInv, ReasonTypes
<1>3. ReasonTypes'  BY <1>1 DEF ReasonInv, ReasonTypes, reasonVars
<1>4. Snapped'  BY <1>2 DEF ReasonInv, Snapped, Current, reasonVars
<1>5. Shown' /\ HalfShown' /\ Idle'
  BY DEF ReasonInv, Shown, HalfShown, Idle, reasonVars
<1>6. Steady'  BY <1>2 DEF ReasonInv, Steady, Current, reasonVars
<1>7. QED  BY <1>3, <1>4, <1>5, <1>6 DEF ReasonInv

\* A locked call.
LEMMA LocksKeepsReason ==
    ASSUME ReasonInv, NEW t \in Threads, pc[t] \notin {"putCsr", "putInt"},
           NEW r, Reasoned(csr0, r), Locks(t, r),
           UNCHANGED <<csrSlot, snap, slips>>
    PROVE  ReasonInv'
<1>1. /\ owner = "none" /\ owner' = t /\ csr0' = r.csr0 /\ pubs' = r.pubs /\ half' = FALSE
      /\ pc' = [pc EXCEPT ![t] = "locked"]
      /\ overtaken' = overtaken \cup
           {u \in Threads : pc[u] \in {"putCsr", "putInt"} /\ r.csr0 # csr0}
  BY DEF Locks
<1>2. pubs = <<>>  BY <1>1 DEF ReasonInv, Idle
<1>3. Clean' <=> Clean  BY DEF Clean
<1>4. ReasonTypes'
  BY <1>1 DEF ReasonInv, ReasonTypes, Reasoned
<1>5. ASSUME NEW u \in Threads
      PROVE  /\ pc'[u] \in {"putCsr", "putInt"} => pc'[u] = pc[u]
             /\ pc[u] \in {"putCsr", "putInt"} => pc'[u] = pc[u]
  BY <1>1 DEF ReasonInv, ReasonTypes
<1>6. ASSUME NEW u \in Threads, Current(u)'
      PROVE  Current(u) /\ csr0' = csr0
  BY <1>1, <1>5, <1>6 DEF Current
<1>7. Snapped'
  <2>1. ASSUME NEW u \in Threads, u \in overtaken'
        PROVE  pc'[u] \in {"putCsr", "putInt"}
    BY <1>1, <1>5, <2>1 DEF ReasonInv, Snapped
  <2>2. ASSUME NEW u \in Threads, Current(u)'
        PROVE  snap'[u] = csr0'
    BY <1>6, <2>2 DEF ReasonInv, Snapped
  <2>3. QED  BY <2>1, <2>2 DEF Snapped
<1>8. Shown'
  BY <1>1, <1>2, <1>3 DEF ReasonInv, Shown, Reasoned
<1>9. Steady'
  <2> SUFFICES ASSUME NEW u \in Threads, Current(u)'
               PROVE  /\ \A i \in 1 .. Len(pubs') : IntAsserted(pubs'[i]) <=> IntAsserted(csr0')
                      /\ Clean' /\ IntAsserted(csr0') => IntAsserted(csrSlot')
    BY DEF Steady
  <2>1. csr0' = csr0  BY <1>6
  <2>2. \A i \in 1 .. Len(pubs') : IntAsserted(pubs'[i]) <=> IntAsserted(csr0')
    BY <1>1, <2>1 DEF Reasoned
  <2>3. Clean /\ IntAsserted(csr0) => csrSlot = csr0
    BY <1>2 DEF ReasonInv, Shown
  <2>4. QED  BY <1>3, <2>1, <2>2, <2>3
<1>10. HalfShown' /\ Idle'
  BY <1>1 DEF HalfShown, Idle, Threads
<1>11. QED  BY <1>4, <1>7, <1>8, <1>9, <1>10 DEF ReasonInv

\* The two halves of a publication under the lock.
LEMMA CallbackKeepsReason ==
    ASSUME ReasonInv, CallbackCsr \/ CallbackInt
    PROVE  ReasonInv'
<1>1. /\ pubs # <<>> /\ owner # "none" /\ pubs \in Seq(SUBSET Csr0Bits)
      /\ UNCHANGED <<owner, csr0, pc, snap, overtaken, slips>>
  BY DEF ReasonInv, ReasonTypes, CallbackCsr, CallbackInt, chipVars
<1>2. (Clean' <=> Clean) /\ \A t \in Threads : Current(t)' <=> Current(t)
  BY <1>1 DEF Clean, Current
<1>3. Len(pubs) \in Nat \ {0} /\ Head(pubs) = pubs[1]
  BY SMT, <1>1, EmptySeq, LenProperties
<1>4. CASE CallbackCsr
  <2>1. csrSlot' = pubs[1] /\ pubs' = pubs
    BY <1>3, <1>4 DEF CallbackCsr
  <2>2. Shown'
    BY <1>1, <1>2, <2>1 DEF ReasonInv, Shown
  <2>3. HalfShown' /\ Idle'
    BY <1>1, <2>1 DEF ReasonInv, HalfShown, Idle
  <2>4. Steady'
    BY SMT, <1>1, <1>2, <1>3, <2>1 DEF ReasonInv, Steady
  <2>5. ReasonTypes' /\ Snapped'
    BY <1>1, <1>2, <2>1 DEF ReasonInv, ReasonTypes, Snapped
  <2>6. QED  BY <2>2, <2>3, <2>4, <2>5 DEF ReasonInv
<1>5. CASE CallbackInt
  <2>1. csrSlot' = csrSlot /\ pubs' = Tail(pubs) /\ half /\ half' = FALSE
    BY <1>5 DEF CallbackInt
  <2>2. /\ pubs' \in Seq(SUBSET Csr0Bits)
        /\ Len(pubs') = Len(pubs) - 1
        /\ \A i \in 1 .. Len(pubs') : pubs'[i] = pubs[i + 1]
        /\ pubs' = <<>> <=> Len(pubs) = 1
    <3> DEFINE S == SUBSET Csr0Bits
    <3>1. pubs \in Seq(S) /\ pubs # <<>>  BY <1>1
    <3> HIDE DEF S
    <3>2. /\ pubs' \in Seq(S)
          /\ Len(pubs') = Len(pubs) - 1
          /\ \A i \in 1 .. Len(pubs') : pubs'[i] = pubs[i + 1]
      BY <3>1, <2>1, HeadTailProperties
    <3>3. pubs' = <<>> <=> Len(pubs') = 0
      BY <3>2, EmptySeq
    <3>4. QED  BY SMT, <1>3, <3>2, <3>3 DEF S
  <2>3. Shown'
    <3>1. CASE pubs' = <<>>
      BY <1>1, <1>2, <1>3, <2>1, <2>2, <3>1 DEF ReasonInv, Shown, HalfShown
    <3>2. CASE pubs' # <<>>
      <4>1. pubs'[Len(pubs')] = pubs[Len(pubs)]
        BY SMT, <1>3, <2>2, <3>2
      <4>2. QED  BY <1>1, <1>2, <3>2, <4>1 DEF ReasonInv, Shown
    <3>3. QED  BY <3>1, <3>2
  <2>4. Steady'
    BY SMT, <1>1, <1>2, <1>3, <2>1, <2>2 DEF ReasonInv, Steady
  <2>5. ReasonTypes' /\ Snapped' /\ HalfShown' /\ Idle'
    BY <1>1, <1>2, <2>1, <2>2 DEF ReasonInv, ReasonTypes, Snapped, HalfShown, Idle
  <2>6. QED  BY <2>3, <2>4, <2>5 DEF ReasonInv
<1>6. QED  BY <1>4, <1>5

\* The lock is given back when all is published.
LEMMA UnlockKeepsReason ==
    ASSUME ReasonInv, NEW t \in Threads, Unlock(t)
    PROVE  ReasonInv'
<1>1. /\ owner = t /\ owner' = "none" /\ pubs = <<>> /\ pc[t] = "locked"
      /\ UNCHANGED <<pubs, half, csr0, csrSlot, snap, overtaken, slips>>
      /\ \E p \in {"clear", "snapCsr"} : pc' = [pc EXCEPT ![t] = p]
  BY DEF ReasonInv, ReasonTypes, Unlock, chipVars
<1>2. DOMAIN pc' = Threads /\ \A u \in Threads : owner' # u
  BY <1>1 DEF ReasonInv, ReasonTypes, Threads
<1>3. \A u \in Threads : pc'[u] \in {"putCsr", "putInt"} <=> pc[u] \in {"putCsr", "putInt"}
  BY <1>1 DEF ReasonInv, ReasonTypes
<1>4. (Clean' <=> Clean) /\ \A u \in Threads : Current(u)' <=> Current(u)
  BY <1>1, <1>3 DEF Clean, Current
<1>5. QED
  BY <1>1, <1>2, <1>3, <1>4
  DEF ReasonInv, ReasonTypes, Snapped, Shown, Steady, HalfShown, Idle

\* A snapshot is taken with the lock free, when all the chip has is shown.
LEMMA SnapshotKeepsReason ==
    ASSUME ReasonInv, NEW t \in Threads, NEW to \in {"putCsr", "putInt"},
           NEW from \in {"snapCsr", "snapInt"}, Snapshot(t, from, to)
    PROVE  ReasonInv'
<1>1. /\ owner = "none" /\ pubs = <<>> /\ pc[t] = from
      /\ pc' = [pc EXCEPT ![t] = to] /\ snap' = [snap EXCEPT ![t] = csr0]
      /\ UNCHANGED <<owner, pubs, half, csr0, csrSlot, overtaken, slips>>
  BY DEF ReasonInv, Idle, Snapshot, chipVars
<1>2. /\ DOMAIN pc' = Threads /\ DOMAIN snap' = Threads
      /\ pc'[t] = to /\ snap'[t] = csr0
      /\ \A u \in Threads \ {t} : pc'[u] = pc[u] /\ snap'[u] = snap[u]
  BY <1>1 DEF ReasonInv, ReasonTypes
<1>3. Clean' <=> Clean  BY <1>1 DEF Clean
<1>4. ReasonTypes'
  BY <1>1, <1>2 DEF ReasonInv, ReasonTypes, Threads
<1>5. Snapped'
  BY <1>1, <1>2 DEF ReasonInv, Snapped, Current
<1>6. Shown' /\ HalfShown' /\ Idle'
  BY <1>1, <1>3 DEF ReasonInv, Shown, HalfShown, Idle
<1>7. Steady'
  <2>1. Clean /\ IntAsserted(csr0) => csrSlot = csr0
    BY <1>1 DEF ReasonInv, Shown
  <2>2. Len(pubs') = 0  BY <1>1
  <2>3. QED  BY SMT, <1>1, <1>3, <2>1, <2>2 DEF Steady
<1>8. QED  BY <1>4, <1>5, <1>6, <1>7 DEF ReasonInv

\* A thread that stores a value without an overtaking call stores the chip's.
LEMMA StoresCurrent ==
    ASSUME ReasonInv, NEW t \in Threads, pc[t] \in {"putCsr", "putInt"}, Stores(t)
    PROVE  /\ Clean' => Clean /\ Current(t) /\ snap[t] = csr0
           /\ overtaken' = overtaken \ {t}
<1>1. overtaken' = overtaken \ {t}  BY DEF Stores
<1>2. slips \subseteq slips' /\ (snap[t] # csr0 => "stale" \in slips')
        /\ (t \in overtaken /\ snap[t] = csr0 => "returned" \in slips')
  BY DEF Stores
<1>3. QED  BY <1>1, <1>2 DEF Clean, Current

\* The stores without the lock.
LEMMA PutKeepsReason ==
    ASSUME ReasonInv, NEW t \in Threads, PutCsr(t) \/ PutInt(t)
    PROVE  ReasonInv'
<1>1. /\ pc[t] \in {"putCsr", "putInt"} /\ Stores(t)
      /\ snap' = [snap EXCEPT ![t] = {}]
      /\ UNCHANGED <<owner, pubs, half, csr0>>
      /\ csrSlot' = snap[t] \/ csrSlot' = csrSlot
      /\ \E p \in {"snapInt", "wait"} : pc' = [pc EXCEPT ![t] = p]
  BY DEF PutCsr, PutInt, chipVars
<1>2. /\ Clean' => Clean /\ Current(t) /\ snap[t] = csr0
      /\ overtaken' = overtaken \ {t}
  BY <1>1, StoresCurrent
<1>3. /\ DOMAIN pc' = Threads /\ DOMAIN snap' = Threads
      /\ pc'[t] \in {"snapInt", "wait"}
      /\ \A u \in Threads \ {t} : pc'[u] = pc[u] /\ snap'[u] = snap[u]
  BY <1>1 DEF ReasonInv, ReasonTypes
<1>4. \A u \in Threads : Current(u)' => u # t /\ Current(u)
  BY <1>2, <1>3 DEF Current
<1>5. Clean' => csrSlot' = csr0 \/ csrSlot' = csrSlot
  BY <1>1, <1>2
<1>6. ReasonTypes'
  BY <1>1, <1>3 DEF ReasonInv, ReasonTypes
<1>7. Snapped'
  BY <1>1, <1>2, <1>3, <1>4 DEF ReasonInv, Snapped
<1>8. Shown' /\ Idle'
  BY <1>1, <1>2, <1>5 DEF ReasonInv, Shown, Idle
<1>9. Steady'
  BY <1>1, <1>2, <1>4, <1>5 DEF ReasonInv, Steady
<1>10. HalfShown'
  <2> SUFFICES ASSUME half, pubs # <<>>, Clean'
               PROVE  \/ csrSlot' = pubs[1]
                      \/ csrSlot' = csr0 /\ (IntAsserted(pubs[1]) => IntAsserted(csr0))
    BY <1>1 DEF HalfShown
  <2>1. Len(pubs) \in Nat \ {0}
    BY EmptySeq, LenProperties DEF ReasonInv, ReasonTypes
  <2>2. IntAsserted(pubs[1]) => IntAsserted(csr0)
    BY SMT, <1>2, <2>1 DEF ReasonInv, Steady
  <2>3. QED  BY <1>2, <1>5, <2>2 DEF ReasonInv, HalfShown
<1>11. QED  BY <1>6, <1>7, <1>8, <1>9, <1>10 DEF ReasonInv

\* ReasonInv is inductive.
LEMMA ReasonKept == LineInv /\ ReasonInv /\ [Next]_vars => ReasonInv'
<1> SUFFICES ASSUME LineInv, ReasonInv, [Next]_vars PROVE ReasonInv'
  OBVIOUS
<1>0. "main" \in Threads /\ "rx" \in Threads  BY DEF Threads
<1>1. CASE HostWritesRap \/ HostWritesRdp \/ Clock
  <2>1. UNCHANGED reasonVars /\ pc' = pc
    BY <1>1 DEF HostWritesRap, HostWritesRdp, Clock, fpgaUnchanged, daemonVars, chipVars,
                reasonVars
  <2>2. Clean' <=> Clean
    BY <1>1 DEF HostWritesRap, HostWritesRdp, Clock, Clean
  <2>3. QED  BY <2>1, <2>2, AsideKeepsReason
<1>2. CASE MboxPost \/ MboxPollCsr \/ MboxPollInt
  <2>1. UNCHANGED reasonVars /\ pc' = pc /\ (Clean' <=> Clean)
    BY <1>2 DEF MboxPost, MboxPollCsr, MboxPollInt, daemonVars, chipVars, reasonVars, Clean
  <2>2. QED  BY <2>1, AsideKeepsReason
<1>3. CASE MainPoll \/ MainClear
  <2>1. /\ UNCHANGED reasonVars /\ (Clean' <=> Clean)
        /\ \E p \in {"apply", "snapCsr", "wait"} :
             /\ pc["main"] \notin {"locked", "putCsr", "putInt"}
             /\ pc' = [pc EXCEPT !["main"] = p]
    BY <1>3 DEF MainPoll, MainClear, chipVars, reasonVars, Clean
  <2>2. QED  BY <1>0, <2>1, AsideKeepsReason
<1>4. CASE MainApply
  <2>1. cmd.word \in SUBSET Csr0Bits /\ csr0 \in SUBSET Csr0Bits
    BY WordsAssumption DEF LineInv, LineTypes, Cmd, ReasonInv, ReasonTypes
  <2>2. pc["main"] = "apply" /\ UNCHANGED <<csrSlot, snap, slips>>
    BY <1>4 DEF MainApply
  <2>3. \/ Locks("main", Run(csr0, <<>>))
        \/ \E r \in WputRuns(csr0, cmd.word, am_initialized') : Locks("main", r)
    BY <1>4 DEF MainApply
  <2>4. Reasoned(csr0, Run(csr0, <<>>))
    BY SMT, <2>1 DEF Reasoned, Run
  <2>5. \A r \in WputRuns(csr0, cmd.word, am_initialized') : Reasoned(csr0, r)
    BY <2>1, WputReasoned
  <2>6. QED
    BY <1>0, <2>2, <2>3, <2>4, <2>5, LocksKeepsReason
<1>5. CASE RxGotfunc
  <2>1. csr0 \in SUBSET Csr0Bits  BY DEF ReasonInv, ReasonTypes
  <2>2. PICK r \in GotfuncRuns(csr0) : Locks("rx", r)  BY <1>5 DEF RxGotfunc
  <2>3. Reasoned(csr0, r)  BY <2>1, GotfuncReasoned
  <2>4. QED  BY <1>0, <1>5, <2>2, <2>3, LocksKeepsReason DEF RxGotfunc
<1>6. CASE Callback("main") \/ Callback("rx")
  BY <1>6, CallbackKeepsReason DEF Callback
<1>7. CASE Unlock("main") \/ Unlock("rx")
  BY <1>0, <1>7, UnlockKeepsReason
<1>8. CASE Publish("main") \/ Publish("rx")
  BY <1>0, <1>8, SnapshotKeepsReason, PutKeepsReason DEF Publish
<1>9. CASE UNCHANGED vars
  <2>1. UNCHANGED reasonVars /\ pc' = pc /\ (Clean' <=> Clean)
    BY <1>9 DEF vars, daemonVars, chipVars, reasonVars, Clean
  <2>2. QED  BY <2>1, AsideKeepsReason
<1>10. QED
  BY <1>1, <1>2, <1>3, <1>4, <1>5, <1>6, <1>7, <1>8, <1>9 DEF Next, Main, Rx

\* What a step that raises the INT slot does, from the same invariant.
LEMMA RaiseHasReason ==
    ReasonInv /\ [Next]_vars =>
        (~intSlot /\ intSlot' => IntAsserted(csrSlot) \/ slips' \cap {"stale", "returned"} # {})
<1> SUFFICES ASSUME ReasonInv, [Next]_vars, ~intSlot, intSlot', Clean'
             PROVE  IntAsserted(csrSlot)
  BY DEF Clean
<1>1. CASE CallbackInt
  <2>1. pubs # <<>> /\ half /\ IntAsserted(Head(pubs)) /\ slips' = slips
    BY <1>1 DEF CallbackInt
  <2>2. Head(pubs) = pubs[1] /\ Clean
    BY SMT, <2>1, LenProperties DEF ReasonInv, ReasonTypes, Clean
  <2>3. QED  BY <2>1, <2>2 DEF ReasonInv, HalfShown
<1>2. ASSUME NEW t \in Threads, PutInt(t)
      PROVE  IntAsserted(csrSlot)
  <2>1. pc[t] \in {"putCsr", "putInt"} /\ Stores(t) /\ IntAsserted(snap[t])
    BY <1>2 DEF PutInt
  <2>2. Clean /\ Current(t) /\ snap[t] = csr0
    BY <2>1, StoresCurrent
  <2>3. QED  BY <2>1, <2>2 DEF ReasonInv, Steady
<1>3. CASE ~CallbackInt /\ \A t \in Threads : ~PutInt(t)
  <2>1. intSlot' = intSlot
    BY <1>3 DEF Next, HostWritesRap, HostWritesRdp, Clock, fpgaUnchanged, MboxPost, MboxPollCsr,
       MboxPollInt, Main, MainPoll, MainApply, Callback, CallbackCsr, Unlock, MainClear, Publish,
       Snapshot, PutCsr, RxGotfunc, Rx, vars, Threads
  <2>2. QED  BY <2>1
<1>4. QED  BY <1>1, <1>2, <1>3

\* The INT slot is never raised before the CSR slot shows the reason, as long as
\* no thread stores a snapshot that a locked call has overtaken, for any number
\* of writes and frames.
THEOREM ReasonComesFirst == Spec => ReasonBeforeInterrupt
<1>1. Init => LineInv  BY LineInit
<1>2. Init => ReasonInv
  <2> SUFFICES ASSUME Init PROVE ReasonInv
    OBVIOUS
  <2>1. csr0 = {"STOP"} /\ csrSlot = {"STOP"} /\ pubs = <<>> /\ slips = {} /\ overtaken = {}
        /\ \A t \in Threads : pc[t] = "wait" /\ owner # t
    BY DEF Init, Threads
  <2>2. ReasonTypes  BY SMT, <2>1 DEF Init, ReasonTypes, Csr0Bits, CommandBits
  <2>3. \A t \in Threads : ~Current(t)  BY <2>1 DEF Current
  <2>4. QED  BY <2>1, <2>2, <2>3 DEF ReasonInv, Snapped, Shown, Steady, HalfShown, Idle, Init
<1>3. QED
  BY <1>1, <1>2, LineKept, ReasonKept, RaiseHasReason, PTL DEF Spec, ReasonBeforeInterrupt

=============================================================================
