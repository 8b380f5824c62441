# A2065: TLA+ models, model checking and proofs

The repository emulates the Commodore A2065 Ethernet card on a MiSTer: Verilog
in the FPGA answers the 68k, and a daemon on the ARM plays the Am7990 LANCE and
moves frames between the card's board RAM and a network socket. This directory
holds TLA+ models of that system, the TLC runs on small instances, and proofs
checked by TLAPS. `PROJECT.json` maps every definition to its source lines.

## The system and its parts

* **68k side.** The driver writes RAP and RDP, builds an init block and two
  descriptor rings in board RAM, and shares each descriptor with the chip
  through its OWN bit. It is not in the repository.
* **Chip** (`registers.cpp`, `rings.cpp`). `chip_wput()`, `rethink()`,
  `do_transmit()` and `gotfunc()`, used by all three daemons.
* **Doorbell design**, the current one. The register file
  (`fpga/rtl/a2065_regfile.v`) has RAP, a CSR shadow for reads, and a one-entry
  doorbell for RDP writes that never makes the 68k wait. The DDR3 mailbox
  (`a2065_ddr3_mailbox.v`, not in the repository) posts the doorbell to the CMD
  slot and shows the CSR and INT slots to the 68k. In `main_doorbell.cpp` the
  main thread applies commands and the receive thread hands frames to
  `gotfunc()`; they share the chip under the recursive `reg_lock`, which does
  not exclude the 68k.
* **Mailbox design** (`main_ddr3.cpp`, `boardram_remote.cpp`). A register cycle
  of the 68k waits for an answer in the RSP slot. Board RAM is also reached
  through slots, and while the daemon waits there it serves register cycles.
* **Bridge design** (`a2065_registers.v`, `main.cpp`), the first one. An FSM
  stretches the bus cycle until the ARM has written DONE, or ends it with BERR.
* **Around them.** MAC selection and translation (`mac.cpp`), raw socket
  (`ethernet.cpp`), autoconfig ROM, DDR window, board RAM, top level, diagnostics.

## Modules

| Module | Models | State and actions |
|---|---|---|
| `Am7990` | CSR0 logic of `registers.cpp`, and the effect of the rings on it | operators; CSR0 is the set of its one bits |
| `LanceCsr` | `chip_wput()` for CSR0-3 and CSR15 | one action per register; `Gotfunc` for the receive thread; the 68k rewriting init blocks; RAP keeps seven bits of what is written |
| `RxRing` | ring loop of `gotfunc()` against the driver | a step per word access: `RxFetch`, `RxCopy`, `RxWriteRmd1`, `RxWriteRmd3`, `RxNoBuffer`; `Host*` |
| `TxRing` | `do_transmit()` against the driver | a step per word access, with the search for a first descriptor, chaining, underflow, overlong chains and collisions; `Host*` |
| `FrameFifo` | what a ring promises | a lossless FIFO that eventually delivers |
| `Regfile` | `a2065_regfile.v` | one action per kind of clock cycle |
| `Doorbell` | 68k, register file, mailbox and both threads of the doorbell daemon | see below |
| `LossyLine` | what the doorbell promises | writes applied in order, none twice |
| `Ddr3Daemon` | the mailbox design: 68k, slots, both threads, `boardram_xfer()` | `Service*` is `service_bridge()`, `Safe*` is `service_bridge_safe()`, `Xfer*` the board RAM access; then the rest of the main loop |
| `Bridge` | the bus FSM and `service_bridge()` of `main.cpp` | `St*` are the FSM's states, `Poll` to `WriteDone` the daemon's register accesses; `Die`, `Restart` |
| `Station` | one doorbell daemon from start to stop, with its addresses | `main()`, the receive thread, socket, `mungepacket()`, the filter of `gotfunc()`, autoconfig, the LAN |
| `LanceCsrProofs`, `RxRingProofs`, `TxRingProofs`, `TxChainProofs`, `DoorbellProofs`, `Ddr3DaemonProofs`, `BridgeProofs`, `StationProofs` | proofs | `TxChainProofs` extends `TxRingProofs`, the others the module they are named after |
| `MC*` | instances for TLC | |

In `Doorbell` and `Ddr3Daemon` a thread's locked call is computed when it takes
`reg_lock`, and its effects outside the lock are steps of their own. In
`Doorbell` `reg_lock` is recursive: a callback takes it again inside the locked
call (`CanLock`), and would wait for its own thread if it were not. Each publication is two steps, CSR slot and INT slot; after
unlocking, `push_csr_shadow()` and `update_int_state()` are a snapshot under the
lock and a write without it; clearing the CMD slot is a step too. In
`Ddr3Daemon` a call that reaches board RAM makes one transfer, during which any
number of register cycles is served.

`Station` reduces the chip to on or off, mode and addresses: `LanceCsr`, the
rings and `Doorbell` hold the rest. An address is its vendor part and three
bits; of a UDP datagram the model keeps CHADDR, the sum of the other words and
the checksum, in words of two bits, which is enough for the end-around carry and
for both representations of zero. The socket is given the card's own frames
too (`Queued`), more than a raw socket delivers: what holds with them holds without.
In `Bridge` the DONE register is outside the FSM and cleared by its pulse, as
in `fpga/sim/tb_registers.v`.

**History variables.** Where the code leaves a race open, a variable records
that it happened and the properties say what holds otherwise: `wiped` (RxRing),
`reused` and `lost` (TxRing), `slips` (Doorbell and Ddr3Daemon), `late` (Bridge), `patched`
(Station). Each property's comment names the exception.

Definitions whose comment begins with "Mutant" are deliberately wrong variants
of the definition that follows. No specification uses them; substituting one
must make a property fail. (For `NoEcho` the variant is `Addressed`, the filter
without its last test.)

## Runs

| Run | Result | Question |
|---|---|---|
| `csr_core` | pass | Is CSR0 consistent, is no unacknowledged status bit lost, and is the mode word honoured, for all command words? |
| `rx_paced` | pass | Is the receive ring a FIFO while it has room? |
| `rx_overrun` | pass | When the ring overruns, is a buffer ever used by both sides, do byte counts settle, do the two sides stay at the same descriptor? |
| `tx_ready` | pass | For a driver that hands over the first descriptor of a chain last, is the transmit ring a FIFO, and does it send and return everything unless a TDMD is lost? |
| `tx_any` | pass | For any handover order and number of TDMDs, is a frame sent twice, mixed up, from a buffer not owned, or failed without a cause? |
| `db_line` | pass | Can racing RDP writes be duplicated, reordered, or paired with the wrong RAP? |
| `db_coherent` | pass | With a frame received in between, do shadow and interrupt line converge unless a snapshot was overtaken, is a reason visible before its interrupt unless one was stored late, is every spaced write applied? |
| `db_stale` | violation | an old CSR0 snapshot can be the last one published |
| `mbx` | pass | Does the mailbox daemon apply each write once and in order, and do answers belong to the cycle or the transfer that gets them? |
| `mbx_live` | pass | Does every cycle end and every write land, unless its request was wiped, and does the INT slot follow the chip? |
| `bridge` | pass | Does a bus cycle get its own answer, and end, whatever the daemon does? |
| `station` | pass | Are addresses translated both ways, is nothing echoed, is nothing touched after the unmap, does the daemon stop? |

`TypeOK` of `LanceCsr`, `RxRing` and `Ddr3Daemon` is checked with the runs; in
the other modules it documents the state.

`db_stale` is a disagreement between the code and a document of the repository,
which `PROJECT.json` quotes.

**Bounds.** In the passing runs a ring has three descriptors and a frame up to
two buffers (three in the transmit runs, so that a chain can fill the ring and
meet its own tail), and the frames go round the ring more than once. `csr_core` uses all
32 combinations of the commands and INEA. Two RDP writes are enough for a write
to race with the clearing of the one before. `mbx` has three cycles, one frame,
one expired wait and a queue of two slots, which holds one write, so that the
third cycle meets a full queue; the loop counters (INT_HOLD_ITER, refresh,
retries) are 1 for their 100, 10 and 16, since only zero and not zero are told
apart. `mbx_live` has no expired wait: the mailbox that answers is fair.
`bridge` has a watchdog of four ticks, four cycles and three lives of the daemon, so that a late
DONE can meet a later cycle and a restarted daemon an old request. `station`
allows one frame besides the background traffic, two initializations and one
write to CSR12-14: a frame is translated with the addresses in force, and two
initializations are enough to change them between sending and receiving.

**Lost TDMDs.** Each TDMD sends one frame, so a lost one leaves a frame in the
ring until the driver demands again. `TxRing` lets any TDMD be lost, and the
liveness of `FifoSpec` and `AllReturned` is stated for behaviours that lose none.
Whether one can be lost is a question about the register path: `AllApplied`
answers it for a driver that lets each write drain through the doorbell, and
`WritesLand` for the mailbox design.

Runs of rings, and `station`, do not check deadlock: both sides become idle
after the bounded number of frames, and the daemon stops. The others do.

**Fairness.** Weak fairness of each thread (the operating system schedules both,
and `main()` polls without end), of the clock, and of the mailbox's polling. In
the rings, of the code that has begun a frame and of a driver that keeps serving
its ring. Neither new frames nor 68k cycles are fair, with one exception: in
`station` the LAN is never silent for ever, because `close()` does not wake a
`recv()` and only the next frame does. The receive thread takes the lock a
bounded number of times, so no fairness of the mutex is assumed.

**Assumptions about what is not in the repository.** The doorbell mailbox clears
a doorbell with a pulse of one cycle and does not look again until it has
arrived. A bus write lasts one cycle. In the mailbox design the mailbox
takes a RAM request out of its slot and answers it later, and the 68k may post
its next register request as soon as the last is answered. BERR reaches the 68k,
as `a2065_top.v:160` connects it (docs/SIMPLIFICATION.md:472 says that the core's
`minimig.v` does not). The driver fills all descriptors of a frame
before it hands over the first, and only free ones.

## Proofs

Every theorem holds for all values of the constants that satisfy the named
assumptions of the modules: any ring and chain length, any number of frames,
writes, cycles and daemon starts, any set of words or addresses; a bound such as
`MaxFrames` is any natural number. Each proof rests on an inductive invariant,
which its module states conjunct by conjunct.

**Chip registers** (`LanceCsrProofs`).
* `Csr0Consistent`: `TypeOK`, `StopMeansQuiet`, `IntrIsSummary` and
  `IdonMeansInit`, whose conjunction is inductive. A lemma for each of the
  `Am7990` operators says what it preserves, and `WputCsr0Keeps` chains them.
  Between command and `rethink()` a stopped CSR0 may also hold TDMD, which the
  lemmas allow for. `RegistersTyped`, `IntrSummarises` and `IdonIsTrue` state
  the parts.
* `StatusIsKept` and `ModeIsKept`: the action properties `StatusOnlyAcked` and
  `ModeKept`. `SplitInitHonoursMode`: DTX and DRX are honoured for ever if no
  word has both INIT and STRT and CSR15 is not written.

**Receive ring** (`RxRingProofs`).
* `BuffersAreExclusive`, `RingTyped`: the invariant adds that the local copy of
  RMD1 is marked for the driver when it will release the descriptor, and which
  part of the frame is in hand.
* `CountsAreOwn` (`CountsSettled`): `CountInv` says that ENP marks the last part,
  whose count is the next thing written.
* `SidesMeet` (`SidesAgree`): `PlaceInv` says that the driver has the descriptors
  from its own next one up to `gotfunc()`'s, until a refill was wiped.
* `RingIsFifo`: with a driver that keeps up (`Paced`) every step is a step of
  `FrameFifo` or leaves it alone. `QueueInv` counts: the parts the driver has
  taken, those between the two sides, and those still to be written add up to
  what was accepted, and the descriptor at each distance from the driver holds
  the part of that number.

**Transmit ring** (`TxRingProofs`, `TxChainProofs`).
* `CopiesAreOwned`: the driver could only break `CopiesOwned` by filling a
  descriptor that is being copied, so the invariant says that descriptors handed
  over lie behind the free ones, by their distance from the driver's next one;
  what is written back never has OWN.
* `CausesAreNamed` (`CauseSettled`): `CauseInv` extends the claim to the chip's
  own descriptors and to the one in hand, because a cause is written over.
* `FramesSentOnce` (`SentOnce`): `ChainInv` describes the descriptors handed
  over as chains: each part is there once and is followed by the next part of
  its frame. What has been sent has no first part left in the ring, where a
  search could find it again.
* `TransmitterStaysOn` and `WritesAreOwned`, from the same invariant, under
  `Whole`: the first descriptor of a chain is handed over last, the others in
  any order, and chains fit into `transmitbuffer`. `FirstLast` says that a frame
  not wholly handed over has its first descriptor still to be given.
* `TransmitIsFifo`: under `Ordered`, which adds that nothing collides and that
  no TDMD comes without a frame, every step is a step of `FrameFifo` or leaves it
  alone. `QueueInv` says that each frame in the ring is followed by the next
  one, and that for every TDMD not yet applied a frame is waiting, so the
  search finds it at the first look. Without that last condition the claim is
  false, see below.

**Doorbell design** (`DoorbellProofs`).
* `LineIsKept` (`LineSpec`): the register path implements `LossyLine`, for any
  interleaving of the 68k, the mailbox and both threads. `LineInv` orders the
  writes in flight: what the doorbell is to post is newer than what is in the
  CMD slot or with the main thread, and that is newer than what was applied.
* `ReasonComesFirst` (`ReasonBeforeInterrupt`): `ReasonInv` says what a call
  under the lock has still to publish, and that a thread about to store a value
  that has not been overtaken agrees with it about the interrupt.

**Mailbox design** (`Ddr3DaemonProofs`).
* `RamAnswersAreOwn` (`OwnRamAnswer`): until a wait expires, one RAM slot at most
  is in use, for the transfer in progress, and only under the lock.
* `AnswersFitTheCycle` (`AnswersOwnCycle`): unless both threads took one request,
  one of them at most owes the answer to the cycle the 68k is in, while the other
  may still hold an older, answered one. Once a request was wiped no answer
  can come.
* `WritesApplyOnce` (`ExactlyOnce`): `OrderInv` numbers the writes in flight
  (applied, with the main thread, queued, served aside, in the REQ slot) without
  a gap, unless a request was wiped, and says that each will find the RAP it was made with.
* `DaemonTyped`: `TypeOK`, with the free slot the queue keeps.

**Bridge design** (`BridgeProofs`).
* `AnswersAreOwn` (`OwnAnswer`): the invariant relates NEW_REQ, DONE and the
  FSM's state to the cycle whose answer is in the result register; `late` is
  stable.
* `RequestsServedOnce` (`ServedOnce`): `OnceInv` adds that a cycle served in this
  life of the daemon is past the point where its request could be taken again.

**Station** (`StationProofs`).
* `MappingIsHeld`: from where the two threads can be at the same time.
* `WireAddressUsed` (`WireSource`): the Amiga's, the translated and the filter's
  address agree unless CSR12-14 were written, and the wire address, once
  selected, has a low half that is not zero.
* `ShownToTheRightStation` (`RightStation`), `OwnFramesStayAway` (`NoEcho`) and
  `ChecksumsVerify` (`ChecksumHolds`): invariants of what waits in the socket
  and what was delivered or sent. Peers have individual addresses
  (`IndividualAssumption`). `Fold`, the end-around carry, is a recursive
  function; that a function with its equation exists is shown by giving one, the
  remainder modulo 3 with its two zeros told apart.
* `RepliesArrive` (`RepliesReach`): where no other machine has the card's wire
  address (`Unshared`).

**Only model-checked.** Liveness, which is out of the prover's reach:
`AllReturned`, `CommandsDrain`, `AllApplied`, `CoherentUnlessStale`, `CyclesEnd`,
`WritesLand`, `LineFollows`, `Stops`, and that a ring eventually delivers, the
fairness part of `FifoSpec`, whose safety part `RingIsFifo` and `TransmitIsFifo`
prove. `ChecksumsVerify` is about the two-bit words of the model. Every other
property of a passing run is proved.

## Seen in the code, confirmed by TLC

Each shows up as a violation when the exception named in a property is removed.

* INIT and STRT in one word start the chip with the previous mode word
  (`registers.cpp:213`), against docs/am79c90.md:411 on TXON: "Cleared when IDON
  set with DTX=1". See `ModeKept`.
* RMD1 is released before RMD3 is written (`rings.cpp:324`), and RMD1 of a
  missed frame is written back to a descriptor of the driver
  (`rings.cpp:305`), against docs/am79c90.md:590: "Neither device may alter any
  field after relinquishing ownership." See `CountsSettled`, `SidesAgree`. On the
  transmit side see `CauseSettled` (`rings.cpp:118`, `:148`, `:182`).
* The newest RDP write can be lost (`main_doorbell.cpp:334`), where
  `a2065_regfile.v:12` expects the newest to win: "the new write overwrites it
  (the ARM daemon only needs the latest register state)". See `LineSpec` and
  `AllApplied`.
* Deferred RDP writes can be overtaken (`main_ddr3.cpp:438`) and dropped
  (`:261`), a request can be taken by both threads (`:127`, `:227`), and a RAP
  write served aside is applied before earlier writes (`:255`);
  docs/INTERNAL_LOOPBACK_INVESTIGATION.md:46: "Each CSR0 write during
  `service_bridge_safe()` is enqueued individually and processed in order by the
  main loop." See `ExactlyOnce`, and `WritesLand` for the dropped ones.
* REQ is cleared after RSP is posted (`main_ddr3.cpp:167`, `:250`), so a thread
  preempted in between wipes the next request and the 68k waits for ever, since
  the register path has no timeout (docs/mailbox_review.md:16). See `CyclesEnd`.
* A response to a board RAM request that was given up can answer the next one
  (`boardram_remote.cpp:45`), and so can a DONE that comes after the watchdog
  (`a2065_registers.v:174`). See `OwnRamAnswer`, `OwnAnswer`.
* CSR12-14 change the filter's address and not the translated one
  (`registers.cpp:263`). See `WireSource`, `RightStation`.

Three exceptions were found while proving, and need larger instances than those
of the runs. A snapshot of CSR0 can be overtaken by calls that bring back its value,
and then raise the INT slot after the CSR slot was written with another one
(`main_doorbell.cpp:80`; five RDP writes; "returned" in
`ReasonBeforeInterrupt`). A RAP write served aside can overtake a RAP write that the main
thread has answered and not applied (`main_ddr3.cpp:255`; four cycles; "rap" in
`ExactlyOnce`). An overlong chain's descriptor, written back a second time after
the driver reused it, gives a new frame the flags of the old one
(`rings.cpp:117`; a ring of five and a chain of five; `reused` in `SentOnce`).

## Seen in the code and not covered by a run

STOP, STRT and INIT together start a stopped chip, and TDMD takes an
initialized chip out of STOP (`registers.cpp:206`, `:234`); running out of
buffers within a frame raises no RINT (`rings.cpp:301`); a TDMD with nothing to
send can let the search pass a descriptor as it is filled, so that a later frame
goes first (`rings.cpp:70`); a chain that meets an unowned descriptor writes to
it (`rings.cpp:109`); `main_doorbell.cpp:340` speaks of stretched writes where
`a2065_regfile.v:103` never stretches; in loopback mode frames from the wire are
accepted without a filter (`rings.cpp:243`; docs/am79c90.md:528);
`test_rx_single` (`rings_test.cpp:193`) expects a wire frame to the Amiga's own
address to be accepted, with no wire address set, a state the daemon never
reaches: it translates first and then drops that frame; promiscuous
stations and members of a group receive their own frames back; a recomputed
UDP checksum may be 0, which means none (`mac.cpp:115`); `main.cpp:141` selects
the MAC before the socket that knows it is opened; a configured card goes on
answering at the autoconfig address; `gen_local` of `a2065_registers.v` reads
`cpu_rw` with the opposite polarity to `gen_bridge`.

## Not modelled

* **Ring geometry registers** CSR24, 25, 30, 31, 76, 78 and the logical address
  filter registers CSR8 to 11: the ring modules assume the geometry of the init
  block, which is what a driver uses.
* **DDR window and the DDR3 controller**, and the mailbox RTL: the other side of
  the interface is not in the repository.
* **Board RAM, top level, `gen_local`**: wiring, a memory, and a stub.
* **CRC, padding, DTCR, parser offsets and lengths, logging, back-off**: data
  and timing that no property tells apart.
* **Start-up handshake of `main_ddr3.cpp`**, and the start-up and shutdown of
  the two earlier daemons. **The INT slot during shutdown** of the doorbell
  daemon: `Doorbell` and `Station` together are too large to check.
* **The chip behind `main.cpp`**: its receive thread calls `gotfunc()` without
  the lock, so that any interleaving with `chip_wput()` is possible.
* **Diagnostics and tests.**
