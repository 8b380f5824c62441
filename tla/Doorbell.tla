------------------------------ MODULE Doorbell ------------------------------
(***************************************************************************)
(* The register path of the doorbell design: the 68k and a2065_regfile.v,  *)
(* the DDR3 mailbox, and the two threads of arm/src/main_doorbell.cpp.     *)
(* The threads share the chip under reg_lock, and write the CMD, CSR and   *)
(* INT slots in DDR3, partly with and partly without the lock.  The chip   *)
(* is initialized with mode word 0, and of CSR0..3 the CSR slot shows      *)
(* CSR0.                                                                   *)
(***************************************************************************)
EXTENDS Am7990, Regfile

CONSTANTS MaxWrites,  \* bound: RDP writes of the 68k
          MaxFrames   \* bound: frames received from the network

ASSUME BoundsAssumption == MaxWrites \in Nat /\ MaxFrames \in Nat
ASSUME WordsAssumption == Words \subseteq SUBSET Csr0Bits

VARIABLES cmdSlot, csrSlot, intSlot,  \* the slots in DDR3
          csr_shadow, int2,           \* what the mailbox shows to the 68k
          csr0, am_initialized,       \* the chip
          owner,                      \* the thread that holds reg_lock
          pubs, half,                 \* CSR0 values its callbacks publish, and
                                      \* whether the CSR half of one is done
          pc,                         \* where each thread is
          snap,                       \* the CSR0 value each thread has read
          overtaken,                  \* history: the threads about to store a value
                                      \* that a locked call has replaced since
          cmd,                        \* the command the main thread has read
          frames,                     \* frames received so far
          applied,                    \* history: the writes given to the chip
          slips                       \* history: the races the code leaves open

mboxVars == <<csr_shadow, int2>>
chipVars == <<csr0, am_initialized>>
daemonVars == <<owner, pubs, half, pc, snap, overtaken, cmd, frames, applied>>
vars == <<regfileVars, cmdSlot, csrSlot, intSlot, mboxVars, chipVars, daemonVars,
          slips>>

Threads == {"main", "rx"}
Cmd == [id : Nat, rap : Regs, word : Words \cup {{}}]
NoCmd == [id |-> 0, rap |-> 0, word |-> {}]

TypeOK ==
    /\ RegfileTypeOK
    /\ cmdSlot \in Cmd /\ cmd \in Cmd
    /\ {csrSlot, csr_shadow, csr0} \subseteq SUBSET Csr0Bits
    /\ {intSlot, int2, am_initialized, half} \subseteq BOOLEAN
    /\ owner \in Threads \cup {"none"}
    /\ pubs \in Seq(SUBSET Csr0Bits)
    /\ pc \in [Threads -> {"wait", "apply", "locked", "clear", "snapCsr", "putCsr",
                           "snapInt", "putInt"}]
    /\ snap \in [Threads -> SUBSET Csr0Bits]
    /\ overtaken \subseteq Threads
    /\ frames \in 0 .. MaxFrames
    /\ applied \in Seq(Cmd)
    /\ slips \subseteq {"rushed", "stale", "returned"}

\* main() up to its loop: slots zeroed, registers reset, first publication.
Init ==
    /\ RegfileInit
    /\ cmdSlot = NoCmd
    /\ csrSlot = {"STOP"}
    /\ intSlot = FALSE
    /\ csr_shadow = {"STOP"}
    /\ int2 = FALSE
    /\ csr0 = {"STOP"}
    /\ am_initialized = FALSE
    /\ owner = "none"
    /\ pubs = <<>>
    /\ half = FALSE
    /\ pc = [t \in Threads |-> "wait"]
    /\ snap = [t \in Threads |-> {}]
    /\ overtaken = {}
    /\ cmd = NoCmd
    /\ frames = 0
    /\ applied = <<>>
    /\ slips = {}

-----------------------------------------------------------------------------
(* clk_sys: the 68k and the register file.                                 *)

fpgaUnchanged == UNCHANGED <<cmdSlot, csrSlot, intSlot, mboxVars, chipVars,
                             daemonVars>>

\* Nothing of an earlier write is left between the 68k and the chip.
Drained ==
    ~cmd_pending /\ ~ClearInFlight /\ cmdSlot = NoCmd /\ pc["main"] = "wait"

HostWritesRap ==
    (\E r \in Regs \ {rap} : RapCycle(r)) /\ fpgaUnchanged /\ UNCHANGED slips

HostWritesRdp ==
    /\ Len(wrote) < MaxWrites
    /\ \E v \in Words : RdpCycle(v)
    /\ slips' = slips \cup IF Drained THEN {} ELSE {"rushed"}
    /\ fpgaUnchanged

Clock == IdleCycle /\ fpgaUnchanged /\ UNCHANGED slips

-----------------------------------------------------------------------------
(* The DDR3 mailbox (a2065_ddr3_mailbox.v, external).                       *)

\* A pending doorbell is written to the CMD slot and cleared.  The mailbox
\* does not look at cmd_pending again before its own clear has arrived.
MboxPost ==
    /\ cmd_pending
    /\ ~ClearInFlight
    /\ cmdSlot' = [id |-> cmd_data.id, rap |-> cmd_rap, word |-> cmd_data.word]
    /\ cmd_clear' = TRUE
    /\ UNCHANGED <<rap, cmd_pending, cmd_rap, cmd_data, cmd_clear_s, cmd_clear_s1,
                   wrote, csrSlot, intSlot, mboxVars, chipVars, daemonVars, slips>>

MboxPollCsr ==
    /\ csr_shadow' = csrSlot
    /\ UNCHANGED <<regfileVars, cmdSlot, csrSlot, intSlot, int2, chipVars,
                   daemonVars, slips>>

MboxPollInt ==
    /\ int2' = intSlot
    /\ UNCHANGED <<regfileVars, cmdSlot, csrSlot, intSlot, csr_shadow, chipVars,
                   daemonVars, slips>>

-----------------------------------------------------------------------------
(* The daemon: calls made under reg_lock.                                  *)

\* rethink() calls on_interrupt, which publishes, while the line is to be on.
Signal(c) == IF IntAsserted(c) THEN <<c>> ELSE <<>>

\* A locked call: the CSR0 value it leaves, and those it publishes on the way.
Run(c, ps) == [csr0 |-> c, pubs |-> ps]

\* chip_wput() of v to CSR0.  on_transmit_cb publishes after do_transmit(),
\* when TDMD is still set.
WputRuns(c, v, initialized) ==
    LET k == Demanded(Commanded(c, v, {}), {}, initialized)
        final(d) == Rethink(d \ {"TDMD"})
    IN  IF "TDMD" \in k /\ initialized
        THEN {Run(final(d), (IF d = k THEN <<>> ELSE Signal(d))
                              \o <<d>> \o Signal(final(d))) : d \in Transmitted(k, {})}
        ELSE {Run(final(k), Signal(final(k)))}

\* gotfunc().
GotfuncRuns(c) ==
    {Run(c, <<>>)} \cup
    (IF "RXON" \in c THEN {Run(d, Signal(d)) : d \in RingOutcomes(c)} ELSE {})

\* Thread t takes reg_lock and makes the locked call r.
Locks(t, r) ==
    /\ owner = "none"
    /\ owner' = t
    /\ csr0' = r.csr0
    /\ pubs' = r.pubs
    /\ half' = FALSE
    /\ pc' = [pc EXCEPT ![t] = "locked"]
    /\ overtaken' = overtaken \cup
         {u \in Threads : pc[u] \in {"putCsr", "putInt"} /\ r.csr0 # csr0}

\* The main thread finds a command in the CMD slot.
MainPoll ==
    /\ pc["main"] = "wait"
    /\ cmdSlot # NoCmd
    /\ cmd' = cmdSlot
    /\ pc' = [pc EXCEPT !["main"] = "apply"]
    /\ UNCHANGED <<regfileVars, cmdSlot, csrSlot, intSlot, mboxVars, chipVars,
                   owner,
                   pubs, half, snap, overtaken, frames, applied, slips>>

\* Mutant: a demand for transmission is skipped on a chip not initialized.
MainApplySkips ==
    /\ pc["main"] = "apply"
    /\ IF cmd.rap = 0 /\ ("TDMD" \notin cmd.word \/ am_initialized)
       THEN /\ am_initialized' = (am_initialized \/ IsInit(csr0, cmd.word))
            /\ \E r \in WputRuns(csr0, cmd.word, am_initialized') : Locks("main", r)
            /\ applied' = Append(applied, cmd)
       ELSE /\ Locks("main", Run(csr0, <<>>))
            /\ UNCHANGED <<am_initialized, applied>>
    /\ cmd' = NoCmd
    /\ UNCHANGED <<regfileVars, cmdSlot, csrSlot, intSlot, mboxVars, snap,
                   frames, slips>>

\* It selects the register and writes it, under one hold of reg_lock.
MainApply ==
    /\ pc["main"] = "apply"
    /\ IF cmd.rap = 0
       THEN /\ am_initialized' = (am_initialized \/ IsInit(csr0, cmd.word))
            /\ \E r \in WputRuns(csr0, cmd.word, am_initialized') : Locks("main", r)
       ELSE /\ Locks("main", Run(csr0, <<>>))
            /\ UNCHANGED am_initialized
    /\ applied' = Append(applied, cmd)
    /\ cmd' = NoCmd
    /\ UNCHANGED <<regfileVars, cmdSlot, csrSlot, intSlot, mboxVars, snap,
                   frames, slips>>

\* The receive thread gets a frame and hands it to gotfunc().
RxGotfunc ==
    /\ pc["rx"] = "wait"
    /\ frames < MaxFrames
    /\ frames' = frames + 1
    /\ \E r \in GotfuncRuns(csr0) : Locks("rx", r)
    /\ UNCHANGED <<regfileVars, cmdSlot, csrSlot, intSlot, mboxVars, am_initialized,
                   snap, cmd, applied, slips>>

\* Mutant: the callback publishes the interrupt line only.
CallbackCsrSkips ==
    /\ owner # "none" /\ pubs # <<>> /\ ~half
    /\ half' = TRUE
    /\ UNCHANGED <<regfileVars, cmdSlot, csrSlot, intSlot, mboxVars, chipVars,
                   owner,
                   pubs, pc, snap, overtaken, cmd, frames, applied, slips>>

\* Mutant: reg_lock is an ordinary mutex.
CanLockOnce(t) == owner = "none"

\* reg_lock is recursive: it is free for the thread that holds it.
CanLock(t) == owner \in {"none", t}

\* A callback publishes with the lock held: the CSR slot, then the INT slot.
CallbackCsr ==
    /\ owner # "none" /\ pubs # <<>> /\ ~half
    /\ csrSlot' = Head(pubs)
    /\ half' = TRUE
    /\ UNCHANGED <<regfileVars, cmdSlot, intSlot, mboxVars, chipVars, owner,
                   pubs, pc,
                   snap, overtaken, cmd, frames, applied, slips>>

CallbackInt ==
    /\ owner # "none" /\ pubs # <<>> /\ half
    /\ intSlot' = IntAsserted(Head(pubs))
    /\ pubs' = Tail(pubs)
    /\ half' = FALSE
    /\ UNCHANGED <<regfileVars, cmdSlot, csrSlot, mboxVars, chipVars, owner,
                   pc, snap, overtaken,
                   cmd, frames, applied, slips>>

Unlock(t) ==
    /\ owner = t
    /\ pubs = <<>>
    /\ owner' = "none"
    /\ pc' = [pc EXCEPT ![t] = IF t = "main" THEN "clear" ELSE "snapCsr"]
    /\ UNCHANGED <<regfileVars, cmdSlot, csrSlot, intSlot, mboxVars, chipVars, pubs,
                   half, snap, overtaken, cmd, frames, applied, slips>>

-----------------------------------------------------------------------------
(* The daemon: what a thread does after it has let go of the lock.         *)

\* Mutant: the main thread leaves the command in the slot.
MainClearForgets ==
    /\ pc["main"] = "clear"
    /\ pc' = [pc EXCEPT !["main"] = "snapCsr"]
    /\ UNCHANGED <<regfileVars, cmdSlot, csrSlot, intSlot, mboxVars, chipVars,
                   owner,
                   pubs, half, snap, overtaken, cmd, frames, applied, slips>>

\* The main thread empties the CMD slot, whatever is in it by now.
MainClear ==
    /\ pc["main"] = "clear"
    /\ cmdSlot' = NoCmd
    /\ pc' = [pc EXCEPT !["main"] = "snapCsr"]
    /\ UNCHANGED <<regfileVars, csrSlot, intSlot, mboxVars, chipVars, owner,
                   pubs, half,
                   snap, overtaken, cmd, frames, applied, slips>>

\* push_csr_shadow() and update_int_state() read CSR0 under the lock ...
Snapshot(t, from, to) ==
    /\ pc[t] = from
    /\ owner = "none"
    /\ snap' = [snap EXCEPT ![t] = csr0]
    /\ pc' = [pc EXCEPT ![t] = to]
    /\ UNCHANGED <<regfileVars, cmdSlot, csrSlot, intSlot, mboxVars, chipVars,
                   owner,
                   pubs, half, overtaken, cmd, frames, applied, slips>>

\* ... and write their slot without it, when CSR0 may have moved on, or moved
\* on and returned to the value read.
Stores(t) ==
    /\ slips' = slips \cup (IF snap[t] = csr0 THEN {} ELSE {"stale"})
                      \cup (IF t \in overtaken /\ snap[t] = csr0 THEN {"returned"} ELSE {})
    /\ overtaken' = overtaken \ {t}

PutCsr(t) ==
    /\ pc[t] = "putCsr"
    /\ csrSlot' = snap[t]
    /\ pc' = [pc EXCEPT ![t] = "snapInt"]
    /\ snap' = [snap EXCEPT ![t] = {}]
    /\ Stores(t)
    /\ UNCHANGED <<regfileVars, cmdSlot, intSlot, mboxVars, chipVars, owner,
                   pubs, half,
                   cmd, frames, applied>>

\* Mutant: the interrupt line is only ever raised.
PutIntRaises(t) ==
    /\ pc[t] = "putInt"
    /\ intSlot' = (intSlot \/ IntAsserted(snap[t]))
    /\ pc' = [pc EXCEPT ![t] = "wait"]
    /\ snap' = [snap EXCEPT ![t] = {}]
    /\ Stores(t)
    /\ UNCHANGED <<regfileVars, cmdSlot, csrSlot, mboxVars, chipVars, owner,
                   pubs, half,
                   cmd, frames, applied>>

PutInt(t) ==
    /\ pc[t] = "putInt"
    /\ intSlot' = IntAsserted(snap[t])
    /\ pc' = [pc EXCEPT ![t] = "wait"]
    /\ snap' = [snap EXCEPT ![t] = {}]
    /\ Stores(t)
    /\ UNCHANGED <<regfileVars, cmdSlot, csrSlot, mboxVars, chipVars, owner,
                   pubs, half,
                   cmd, frames, applied>>

Publish(t) ==
    \/ Snapshot(t, "snapCsr", "putCsr") \/ PutCsr(t)
    \/ Snapshot(t, "snapInt", "putInt") \/ PutInt(t)

\* A callback of thread t takes reg_lock once more to read what it publishes.
Callback(t) == owner = t /\ CanLock(t) /\ (CallbackCsr \/ CallbackInt)

Main == MainPoll \/ MainApply \/ Callback("main") \/ Unlock("main") \/ MainClear
          \/ Publish("main")
Rx == Callback("rx") \/ Unlock("rx") \/ Publish("rx")

Next ==
    \/ HostWritesRap \/ HostWritesRdp \/ Clock
    \/ MboxPost \/ MboxPollCsr \/ MboxPollInt
    \/ Main \/ RxGotfunc \/ Rx

\* Both threads are scheduled, clk_sys runs, and the mailbox keeps polling.
\* The lock is taken by the receive thread at most MaxFrames times, so weak
\* fairness of the main thread suffices.
Fairness ==
    /\ WF_vars(Clock)
    /\ WF_vars(MboxPost) /\ WF_vars(MboxPollCsr) /\ WF_vars(MboxPollInt)
    /\ WF_vars(Main) /\ WF_vars(Rx)

Spec == Init /\ [][Next]_vars /\ Fairness

-----------------------------------------------------------------------------
(* Properties.                                                             *)

\* The writes the daemon applies are the 68k's, each with the RAP in force
\* when it was made, in order and none twice, however they race with the
\* clearing of cmd_pending and of the CMD slot.
Line == INSTANCE LossyLine
LineSpec == Line!Spec

\* A command in the CMD slot is taken out of it; no thread blocks the daemon.
CommandsDrain == cmdSlot # NoCmd ~> cmdSlot = NoCmd

\* The writes of a 68k that lets each one drain before the next are all
\* applied in the end.
AllApplied == []("rushed" \notin slips) => <>[](Len(applied) = Len(wrote))

\* The 68k sees CSR0 as it is, and the interrupt line the chip asks for.
Coherent == csr_shadow = csr0 /\ (int2 <=> IntAsserted(csr0))

\* Once writes and frames have ceased, the 68k comes to see the chip as it is,
\* unless a thread stored a snapshot that a call of the other had overtaken.
CoherentUnlessStale == []("stale" \notin slips) => <>[]Coherent

\* Once writes and frames have ceased, the 68k comes to see the chip as it is.
EventuallyCoherent == <>[]Coherent

\* When the INT slot is raised, the CSR slot already shows the reason, unless
\* a stored snapshot had been overtaken by a locked call.
ReasonBeforeInterrupt ==
    [][ ~intSlot /\ intSlot' =>
          IntAsserted(csrSlot) \/ slips' \cap {"stale", "returned"} # {} ]_vars

=============================================================================
