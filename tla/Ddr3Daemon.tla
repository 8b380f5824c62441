----------------------------- MODULE Ddr3Daemon -----------------------------
(***************************************************************************)
(* The mailbox design: arm/src/main_ddr3.cpp and boardram_remote.cpp.  A   *)
(* register cycle of the 68k waits for the RSP slot.  The daemon answers   *)
(* a write before it applies it, and reaches board RAM through slots of    *)
(* its own; while it waits for those it calls service_bridge_safe(), which *)
(* answers register cycles and defers their RDP writes to a queue.         *)
(***************************************************************************)
EXTENDS Am7990, Naturals, Sequences

CONSTANTS Regs,         \* register numbers the 68k selects
          Words,        \* words it writes to RDP
          Kinds,        \* the cycles it makes: subset of {"rap", "put", "get"}
          MaxCycles,    \* bound: register cycles
          MaxFrames,    \* bound: frames received
          MaxExpiries,  \* bound: waits for board RAM that run out of polls
          Attempts,     \* posts of a board RAM request before it is given up (3)
          QueueSize,    \* slots of the deferred queue (8)
          HoldIter,     \* INT_HOLD_ITER (100)
          RefreshIter,  \* loops between two refreshes of the INT slot (10)
          Retries       \* loops that retry a transmission (16)

ASSUME SizesAssumption ==
    /\ {MaxCycles, MaxFrames, MaxExpiries, HoldIter, Retries} \subseteq Nat
    /\ {Attempts, QueueSize, RefreshIter} \subseteq Nat \ {0}
ASSUME WordsAssumption ==
    /\ Words \subseteq SUBSET Csr0Bits
    /\ \A v \in Words : ~({"INIT", "TDMD"} \subseteq v)
ASSUME KindsAssumption == 0 \in Regs /\ Kinds \subseteq {"rap", "put", "get"}

VARIABLES cycles, busy, hrap, wrote,  \* the 68k: cycles so far, whether one is
                                      \* held, RAP as it set it, its RDP writes
          req, rsp, intSlot,          \* the REQ, RSP and INT slots
          ramReq, ramRsp, ramJob,     \* the RAM slots, and the mailbox's own copy
          csr0, rap, am_initialized,  \* the chip
          owner,                      \* the thread that holds reg_lock
          call,                       \* the locked call in progress
          xfer, attempt,              \* its board RAM transfer, and the posts of it
          safe,                       \* the cycle service_bridge_safe() is at
          pc, cur, snap,              \* threads; main: its cycle, line value read
          queue,                      \* deferred_csr0_queue
          last_mbx_int, int_hold, int_refresh, tdmd_retry,
          frames, expiries,
          applied,                    \* history: RDP writes given to the chip
          slips                       \* history: the races the code leaves open

worldVars == <<cycles, busy, hrap, wrote, frames, expiries>>
slotVars == <<req, rsp>>
ramVars == <<ramReq, ramRsp, ramJob>>
chipVars == <<csr0, rap, am_initialized>>
lockVars == <<owner, call, xfer, attempt>>
lineVars == <<intSlot, last_mbx_int, int_hold>>
mainVars == <<cur, snap, tdmd_retry, queue>>
histVars == <<applied, slips>>
vars == <<worldVars, slotVars, ramVars, chipVars, lockVars, safe, pc, mainVars,
          lineVars, int_refresh, histVars>>

Threads == {"main", "rx"}

\* A register cycle; id numbers the RDP writes, rap is the one in force.
Cycle == [n : Nat, kind : {"rap", "put", "get"}, id : Nat, rap : Regs,
          word : Words \cup {{}}]
None == [n |-> 0, kind |-> "none", id |-> 0, rap |-> 0, word |-> {}]

\* A locked call: the CSR0 value it leaves, whether it ends in rethink() with
\* the line asked for, and where its thread goes.
Call == [csr0 : SUBSET Csr0Bits, raises : BOOLEAN,
         to : {"delay", "cleared", "drain", "int", "recv"}]
NoCall == [csr0 |-> {}, raises |-> FALSE, to |-> "none"]

TypeOK ==
    /\ cycles \in 0 .. MaxCycles /\ busy \in BOOLEAN /\ {hrap, rap} \subseteq Regs
    /\ {req, cur, safe.cycle} \subseteq Cycle \cup {None}
    /\ safe.at \in {"none", "answer", "clear", "finish"}
    /\ rsp \in 0 .. MaxCycles
    /\ {ramReq, ramRsp, ramJob, xfer} \subseteq Nat
    /\ csr0 \in SUBSET Csr0Bits
    /\ owner \in Threads \cup {"none"} /\ (owner = "none" <=> call = NoCall)
    /\ call \in Call \cup {NoCall}
    /\ Len(queue) < QueueSize
    /\ {intSlot, last_mbx_int, am_initialized, snap} \subseteq BOOLEAN
    /\ int_hold \in 0 .. HoldIter \cup {1} /\ tdmd_retry \in 0 .. Retries
    /\ slips \subseteq {"raced", "overtook", "rap", "full", "late", "crossed", "wiped"}

\* main() up to its loop: the slots are zeroed and the registers reset.  That
\* last_mbx_int is -1 at first only makes write_mbx_int() store one more 0.
Init ==
    /\ cycles = 0 /\ busy = FALSE /\ hrap = 0 /\ wrote = <<>>
    /\ req = None /\ rsp = 0 /\ intSlot = FALSE
    /\ ramReq = 0 /\ ramRsp = 0 /\ ramJob = 0
    /\ csr0 = {"STOP"} /\ rap = 0 /\ am_initialized = FALSE
    /\ owner = "none" /\ call = NoCall /\ xfer = 0 /\ attempt = 0
    /\ safe = [at |-> "none", cycle |-> None]
    /\ pc = [main |-> "service", rx |-> "recv"]
    /\ cur = None /\ snap = FALSE /\ queue = <<>>
    /\ last_mbx_int = FALSE /\ int_hold = 0 /\ int_refresh = 0 /\ tdmd_retry = 0
    /\ frames = 0 /\ expiries = 0
    /\ applied = <<>> /\ slips = {}

Go(t, to) == pc' = [pc EXCEPT ![t] = to]

-----------------------------------------------------------------------------
(* The 68k and the mailbox (a2065_ddr3_mailbox.v, external).               *)

\* The 68k starts a cycle, which the mailbox posts in the REQ slot: maybe while
\* a thread that has answered the last one is still to clear that slot.
HostCycle(kind, r, v) ==
    /\ ~busy /\ cycles < MaxCycles
    /\ busy' = TRUE
    /\ cycles' = cycles + 1
    /\ hrap' = IF kind = "rap" THEN r ELSE hrap
    /\ wrote' = IF kind = "put" THEN Append(wrote, [rap |-> hrap, word |-> v]) ELSE wrote
    /\ req' = [n |-> cycles + 1, kind |-> kind, id |-> Len(wrote'), rap |-> hrap',
               word |-> v]
    /\ UNCHANGED <<ramVars, chipVars, lockVars, lineVars, mainVars, histVars, rsp, safe,
                   pc, int_refresh, frames, expiries>>

Host ==
    \/ "rap" \in Kinds /\ \E r \in Regs \ {hrap} : HostCycle("rap", r, {})
    \/ "put" \in Kinds /\ \E v \in Words : HostCycle("put", hrap, v)
    \/ "get" \in Kinds /\ HostCycle("get", hrap, {})

\* The mailbox sees the answer, empties both slots and releases the 68k.
MboxAnswer ==
    /\ busy /\ rsp # 0
    /\ busy' = FALSE /\ rsp' = 0 /\ req' = None
    /\ UNCHANGED <<ramVars, chipVars, lockVars, lineVars, mainVars, histVars, cycles,
                   hrap, wrote, safe, pc, int_refresh, frames, expiries>>

\* It takes a board RAM request out of its slot, and later answers it.
MboxRam ==
    /\ \/ /\ ramJob = 0 /\ ramReq # 0
          /\ ramJob' = ramReq /\ ramReq' = 0
          /\ UNCHANGED ramRsp
       \/ /\ ramJob # 0
          /\ ramRsp' = ramJob /\ ramJob' = 0
          /\ UNCHANGED ramReq
    /\ UNCHANGED <<worldVars, slotVars, chipVars, lockVars, lineVars, mainVars,
                   histVars, safe, pc, int_refresh>>

-----------------------------------------------------------------------------
(* Calls made under reg_lock.  A call that reaches board RAM makes one     *)
(* transfer, during which any number of register cycles is served.         *)

LineCall(c, to) == [csr0 |-> c, raises |-> IntAsserted(c), to |-> to]
QuietCall(c, to) == [csr0 |-> c, raises |-> FALSE, to |-> to]

\* Thread t takes the lock: CSR0 is mid until the call is over.
Enter(t, mid, c, transfers) ==
    /\ owner = "none"
    /\ owner' = t
    /\ call' = c
    /\ csr0' = mid
    /\ Go(t, "locked")
    /\ IF transfers
       THEN xfer' = xfer + 1 /\ attempt' = 1 /\ ramReq' = xfer + 1
       ELSE UNCHANGED <<xfer, attempt, ramReq>>

\* Where the main thread goes after a write of v that leaves CSR0 = c, from
\* the mailbox (from = "wput") or from the queue (from = "drained").
AfterDirect(v, c) ==
    IF "INIT" \in v /\ "INTR" \in c THEN "delay"
    ELSE IF "INTR" \notin c THEN "cleared" ELSE "drain"
AfterDeferred(c) == IF "INTR" \notin c THEN "cleared" ELSE "drain"
AfterWput(v, c, from) == IF from = "wput" THEN AfterDirect(v, c) ELSE AfterDeferred(c)

\* chip_wput(0, v) with RAP = 0.  on_transmit_cb schedules the retries when
\* do_transmit() returns 0, which it does only without raising TINT.
WputCsr0(v, from) ==
    LET init == am_initialized \/ IsInit(csr0, v)
        done == Demanded(Commanded(csr0, v, {}), {}, init)
        final(d) == LET c == Rethink(d \ {"TDMD"}) IN LineCall(c, AfterWput(v, c, from))
    IN  /\ am_initialized' = init
        /\ IF "TDMD" \in done /\ init
           THEN \E d \in Transmitted(done, {}) :
                  /\ Enter("main", done, final(d), TRUE)
                  /\ \/ d = done /\ tdmd_retry' = Retries
                     \/ "TINT" \in d /\ UNCHANGED tdmd_retry
           ELSE /\ Enter("main", IF ~IsInit(csr0, v) THEN csr0
                                 ELSE IF IsStart(csr0, v) THEN done \ {"IDON"}
                                 ELSE Latch(csr0, v),
                         final(done), IsInit(csr0, v))
                /\ UNCHANGED tdmd_retry

\* The main thread gives the RDP write it holds to the chip.
Wput(from) ==
    /\ pc["main"] = from
    /\ applied' = Append(applied, [id |-> cur.id, rap |-> rap, word |-> cur.word])
    /\ cur' = None
    /\ IF rap = 0
       THEN WputCsr0(cur.word, from)
       ELSE /\ Enter("main", csr0, QuietCall(csr0, AfterWput(cur.word, csr0, from)), FALSE)
            /\ UNCHANGED <<am_initialized, tdmd_retry>>
    /\ UNCHANGED <<worldVars, slotVars, lineVars, ramRsp, ramJob, rap, safe, snap,
                   queue, int_refresh, slips>>

\* The call is over: CSR0 has its value, and rethink() calls assert_mbx_int().
Finish(t) ==
    /\ owner = t /\ pc[t] = "locked" /\ attempt = 0
    /\ csr0' = call.csr0
    /\ intSlot' = (intSlot \/ call.raises)
    /\ Go(t, "mark")
    /\ UNCHANGED <<worldVars, slotVars, ramVars, lockVars, mainVars, histVars, rap,
                   am_initialized, safe, last_mbx_int, int_hold, int_refresh>>

\* It notes the assertion and lets go of the lock.  The main thread may be
\* between the two stores of write_mbx_int() meanwhile.
Release(t) ==
    /\ pc[t] = "mark"
    /\ last_mbx_int' = (last_mbx_int \/ call.raises)
    /\ int_hold' = IF call.raises THEN HoldIter ELSE int_hold
    /\ slips' = slips \cup IF call.raises /\ pc["main"] = "last" THEN {"crossed"} ELSE {}
    /\ owner' = "none" /\ call' = NoCall
    /\ Go(t, call.to)
    /\ UNCHANGED <<worldVars, slotVars, ramVars, chipVars, mainVars, xfer, attempt,
                   safe, intSlot, int_refresh, applied>>

-----------------------------------------------------------------------------
(* boardram_xfer() and, while it waits, service_bridge_safe().             *)

Waiting(t) == owner = t /\ attempt > 0 /\ safe.at = "none"

\* Mutant: the answer is left in its slot.
XferDoneKeeps(t) ==
    /\ Waiting(t) /\ ramRsp # 0
    /\ ramReq' = 0 /\ attempt' = 0
    /\ UNCHANGED <<worldVars, slotVars, chipVars, lineVars, mainVars, histVars, ramRsp,
                   ramJob, owner, call, xfer, safe, pc, int_refresh>>

XferDone(t) ==
    /\ Waiting(t) /\ ramRsp # 0
    /\ ramRsp' = 0 /\ ramReq' = 0 /\ attempt' = 0
    /\ UNCHANGED <<worldVars, slotVars, chipVars, lineVars, mainVars, histVars, ramJob,
                   owner, call, xfer, safe, pc, int_refresh>>

\* The polls run out: the request is posted again, or given up.
XferExpires(t) ==
    /\ Waiting(t) /\ ramRsp = 0 /\ expiries < MaxExpiries
    /\ expiries' = expiries + 1
    /\ slips' = slips \cup {"late"}
    /\ IF attempt < Attempts THEN attempt' = attempt + 1 /\ ramReq' = xfer
                             ELSE attempt' = 0 /\ ramReq' = 0
    /\ UNCHANGED <<slotVars, chipVars, lineVars, mainVars, cycles, busy, hrap, wrote,
                   ramRsp, ramJob, owner, call, xfer, safe, pc, int_refresh, frames,
                   applied>>

SafeStep(t, from, to) ==
    /\ owner = t /\ safe.at = from
    /\ safe' = [at |-> to, cycle |-> IF to = "none" THEN None
                                     ELSE IF from = "none" THEN req ELSE safe.cycle]
    /\ UNCHANGED <<worldVars, ramVars, lockVars, lineVars, csr0, am_initialized, pc,
                   cur, snap, tdmd_retry, int_refresh, applied>>

SafeTake(t) ==
    /\ Waiting(t) /\ ramRsp = 0 /\ req # None
    /\ SafeStep(t, "none", "answer")
    /\ slips' = slips \cup IF cur = req THEN {"raced"} ELSE {}
    /\ UNCHANGED <<slotVars, rap, queue>>

SafeAnswer(t) ==
    /\ SafeStep(t, "answer", "clear")
    /\ rsp' = safe.cycle.n
    /\ UNCHANGED <<req, rap, queue, slips>>

\* Mutant: the request is left in its slot.
SafeClearForgets(t) ==
    SafeStep(t, "clear", "finish") /\ UNCHANGED <<slotVars, rap, queue, slips>>

\* The request slot is emptied, whatever is in it by now: a request that neither
\* thread has taken is lost.
ClearReq ==
    /\ req' = None
    /\ slips' = slips \cup IF req \in {None, cur, safe.cycle} THEN {} ELSE {"wiped"}

SafeClear(t) ==
    /\ SafeStep(t, "clear", "finish")
    /\ ClearReq
    /\ UNCHANGED <<rsp, rap, queue>>

\* Writes taken from the 68k that have not reached the chip: one that the main
\* thread took before cycle c, and deferred ones.
HeldBefore(c) ==
    pc["main"] \in {"clear", "wput", "drained"} /\ cur.kind # "get" /\ cur.n < c.n
Deferred == queue # <<>> \/ (safe.at \in {"clear", "finish"} /\ safe.cycle.kind = "put")

\* Mutant: the queue is not tested for room.
SafeFinishUnbounded(t) ==
    /\ SafeStep(t, "finish", "none")
    /\ rap' = IF safe.cycle.kind = "rap" THEN safe.cycle.rap ELSE rap
    /\ queue' = IF safe.cycle.kind = "put" THEN Append(queue, safe.cycle) ELSE queue
    /\ UNCHANGED <<slotVars, slips>>

\* A RAP write is applied at once, an RDP write goes to the queue, which
\* holds one less than it has slots.
SafeFinish(t) ==
    /\ SafeStep(t, "finish", "none")
    /\ LET c == safe.cycle
           full == Len(queue) + 1 = QueueSize
       IN  /\ rap' = IF c.kind = "rap" THEN c.rap ELSE rap
           /\ queue' = IF c.kind = "put" /\ ~full THEN Append(queue, c) ELSE queue
           /\ slips' = slips \cup
                (IF c.kind = "rap" /\ (HeldBefore(c) \/ Deferred) THEN {"rap"} ELSE {}) \cup
                (IF c.kind = "put" /\ full THEN {"full"} ELSE {})
    /\ UNCHANGED <<slotVars>>

Locked(t) ==
    \/ Finish(t) \/ Release(t) \/ XferDone(t) \/ XferExpires(t)
    \/ SafeTake(t) \/ SafeAnswer(t) \/ SafeClear(t) \/ SafeFinish(t)

-----------------------------------------------------------------------------
(* The main thread: service_bridge(), then the rest of the loop.           *)

Commands(c) == c.word \cap {"INIT", "TDMD", "STRT"} # {}

MainStep(from, to) ==
    /\ pc["main"] = from
    /\ Go("main", to)
    /\ UNCHANGED <<worldVars, ramVars, chipVars, lockVars, safe, tdmd_retry,
                   int_refresh, applied>>

ServiceTake ==
    /\ MainStep("service",
                IF req = None THEN "drain"
                ELSE IF req.kind = "get" \/ (req.kind = "put" /\ Commands(req))
                     THEN "look" ELSE "answer")
    /\ cur' = req
    /\ slips' = slips \cup
         (IF req # None /\ safe.cycle = req THEN {"raced"} ELSE {}) \cup
         (IF req.kind \in {"rap", "put"} /\ Deferred THEN {"overtook"} ELSE {})
    /\ UNCHANGED <<slotVars, lineVars, snap, queue>>

AssertInt == intSlot' = TRUE /\ last_mbx_int' = TRUE /\ int_hold' = HoldIter

\* CSR0 is read under the lock: for a read that shows an interrupt, and for
\* a command that may lead to one, the line is asserted before the answer.
\* What another register holds may look like an interrupt as well.
ServiceLook ==
    /\ MainStep("look", "answer")
    /\ owner = "none"
    /\ \E asserts \in (IF cur.kind = "put" THEN {"INEA" \in cur.word \cup csr0}
                       ELSE IF rap = 0 THEN {IntAsserted(csr0)} ELSE BOOLEAN) :
         IF asserts THEN AssertInt ELSE UNCHANGED <<lineVars>>
    /\ UNCHANGED <<slotVars, cur, snap, queue, slips>>

\* Mutant: a read is not answered while the chip is stopped.
ServiceAnswerSkips ==
    /\ MainStep("answer", "clear")
    /\ rsp' = IF cur.kind = "get" /\ "STOP" \in csr0 THEN rsp ELSE cur.n
    /\ UNCHANGED <<lineVars, req, cur, snap, queue, slips>>

ServiceAnswer ==
    /\ MainStep("answer", "clear")
    /\ rsp' = cur.n
    /\ UNCHANGED <<lineVars, req, cur, snap, queue, slips>>

ServiceClear ==
    /\ MainStep("clear", IF cur.kind = "get" THEN "drain" ELSE "wput")
    /\ ClearReq
    /\ UNCHANGED <<lineVars, rsp, cur, snap, queue>>

\* Only now is a write applied.
ServiceWput ==
    /\ pc["main"] = "wput"
    /\ \/ cur.kind = "put" /\ Wput("wput")
       \/ /\ cur.kind = "rap" /\ owner = "none"
          /\ rap' = cur.rap
          /\ Go("main", "drain")
          /\ UNCHANGED <<worldVars, slotVars, ramVars, lockVars, lineVars, mainVars,
                         histVars, csr0, am_initialized, safe, int_refresh>>

ServiceSettle ==
    /\ \/ MainStep("delay", "drain") /\ AssertInt
       \/ /\ MainStep("cleared", "drain")
          /\ int_hold' = IF int_hold > 0 THEN 1 ELSE 0
          /\ UNCHANGED <<intSlot, last_mbx_int>>
    /\ UNCHANGED <<slotVars, cur, snap, queue, slips>>

AfterDrain == IF tdmd_retry = 0 THEN "int" ELSE "retry"

\* Mutant: the queue is drained only when a retry is due.
DrainSkips ==
    /\ MainStep("drain", IF queue = <<>> \/ tdmd_retry = 0 THEN AfterDrain ELSE "drained")
    /\ cur' = IF queue = <<>> \/ tdmd_retry = 0 THEN None ELSE Head(queue)
    /\ queue' = IF queue = <<>> \/ tdmd_retry = 0 THEN queue ELSE Tail(queue)
    /\ UNCHANGED <<slotVars, lineVars, snap, slips>>

\* Mutant: the tail of the queue is not advanced.
DrainKeeps ==
    /\ MainStep("drain", IF queue = <<>> THEN AfterDrain ELSE "drained")
    /\ cur' = IF queue = <<>> THEN None ELSE Head(queue)
    /\ UNCHANGED <<slotVars, lineVars, snap, queue, slips>>

\* The loop drains the queue: a write leaves it before the lock is taken.
Drain ==
    /\ MainStep("drain", IF queue = <<>> THEN AfterDrain ELSE "drained")
    /\ cur' = IF queue = <<>> THEN None ELSE Head(queue)
    /\ queue' = IF queue = <<>> THEN queue ELSE Tail(queue)
    /\ UNCHANGED <<slotVars, lineVars, snap, slips>>

DrainWput == Wput("drained")

\* The transmission is tried again while the transmitter is on.
Retry ==
    /\ pc["main"] = "retry"
    /\ \/ /\ owner = "none" /\ "TXON" \notin csr0
          /\ tdmd_retry' = 0
          /\ Go("main", "int")
          /\ UNCHANGED <<lockVars, csr0, ramReq>>
       \/ /\ "TXON" \in csr0
          /\ Enter("main", csr0, QuietCall(csr0, "int"), TRUE)
          /\ tdmd_retry' = tdmd_retry - 1
       \/ /\ "TXON" \in csr0
          /\ \E d \in Transmitted(csr0, {}) :
               "TINT" \in d /\ Enter("main", csr0, LineCall(d, "int"), TRUE)
          /\ tdmd_retry' = 0
    /\ UNCHANGED <<worldVars, slotVars, lineVars, histVars, ramRsp, ramJob, rap,
                   am_initialized, safe, cur, snap, queue, int_refresh>>

\* The interrupt line: held for a while, then write_mbx_int(), which reads
\* CSR0 under the lock and stores without it.
HoldOrRead ==
    /\ \/ /\ MainStep("int", "refresh")
          /\ int_hold > 0 /\ int_hold' = int_hold - 1
          /\ UNCHANGED snap
       \/ /\ MainStep("int", "store")
          /\ int_hold = 0 /\ owner = "none"
          /\ snap' = IntAsserted(csr0)
          /\ UNCHANGED int_hold
    /\ UNCHANGED <<slotVars, cur, queue, intSlot, last_mbx_int, slips>>

\* Mutant: the line is only ever raised.
StoreIntRaises ==
    /\ MainStep("store", IF snap # last_mbx_int THEN "last" ELSE "refresh")
    /\ intSlot' = (intSlot \/ snap)
    /\ UNCHANGED <<slotVars, cur, snap, queue, last_mbx_int, int_hold, slips>>

StoreInt ==
    /\ MainStep("store", IF snap # last_mbx_int THEN "last" ELSE "refresh")
    /\ intSlot' = IF snap # last_mbx_int THEN snap ELSE intSlot
    /\ UNCHANGED <<slotVars, cur, snap, queue, last_mbx_int, int_hold, slips>>

StoreLast ==
    /\ MainStep("last", "refresh")
    /\ last_mbx_int' = snap
    /\ UNCHANGED <<slotVars, cur, snap, queue, intSlot, int_hold, slips>>

Refresh ==
    /\ pc["main"] = "refresh"
    /\ Go("main", "service")
    /\ int_refresh' = IF last_mbx_int THEN (int_refresh + 1) % RefreshIter ELSE 0
    /\ intSlot' = (intSlot \/ (last_mbx_int /\ int_refresh + 1 = RefreshIter))
    /\ snap' = FALSE
    /\ UNCHANGED <<worldVars, slotVars, ramVars, chipVars, lockVars, histVars, safe,
                   cur, queue, tdmd_retry, last_mbx_int, int_hold>>

\* The receive thread hands a frame to gotfunc(): it is dropped before the
\* ring is looked at, or gets there.
RxGotfunc ==
    /\ pc["rx"] = "recv" /\ frames < MaxFrames
    /\ frames' = frames + 1
    /\ \/ Enter("rx", csr0, QuietCall(csr0, "recv"), FALSE)
       \/ /\ "RXON" \in csr0
          /\ \E d \in RingOutcomes(csr0) : Enter("rx", csr0, LineCall(d, "recv"), TRUE)
    /\ UNCHANGED <<slotVars, lineVars, mainVars, histVars, cycles, busy, hrap, wrote,
                   ramRsp, ramJob, rap, am_initialized, safe, int_refresh, expiries>>

Main ==
    \/ ServiceTake \/ ServiceLook \/ ServiceAnswer \/ ServiceClear \/ ServiceWput
    \/ ServiceSettle \/ Drain \/ DrainWput \/ Retry
    \/ HoldOrRead \/ StoreInt \/ StoreLast \/ Refresh
    \/ Locked("main")

Next == Host \/ MboxAnswer \/ MboxRam \/ Main \/ RxGotfunc \/ Locked("rx")

\* The threads are scheduled and the mailbox keeps polling; the 68k need not
\* start a cycle, nor the network send a frame.
Fairness ==
    WF_vars(MboxAnswer) /\ WF_vars(MboxRam) /\ WF_vars(Main) /\ WF_vars(Locked("rx"))

Spec == Init /\ [][Next]_vars /\ Fairness

-----------------------------------------------------------------------------
(* Properties.                                                             *)

\* The RDP writes reach the chip once each, in order and with the RAP they
\* were made with, although all are answered first and some are deferred:
\* unless both threads took the same request, a direct write overtook the
\* queue, a RAP write served by the receive thread overtook an earlier write,
\* or the queue was full.
ExactlyOnce ==
    slips \cap {"raced", "overtook", "rap", "full"} = {} =>
      \A k \in DOMAIN applied :
        k \in DOMAIN wrote
          /\ applied[k] = [id |-> k, rap |-> wrote[k].rap, word |-> wrote[k].word]

\* An answer in the RSP slot is the answer to the cycle the 68k is in.
AnswersOwnCycle ==
    "raced" \notin slips => (busy /\ rsp # 0 => rsp = cycles)

\* A board RAM transfer gets the answer to its own request, whichever thread
\* made the ones before, as long as no wait has run out of polls.
OwnRamAnswer ==
    "late" \notin slips => (ramRsp # 0 => attempt > 0 /\ ramRsp = xfer)

\* Every register cycle of the 68k ends: it is never held for longer than the
\* daemon waits for board RAM, for the lock or for the other thread; unless a
\* thread cleared its request in place of the one before.
CyclesEnd == []("wiped" \notin slips) => (busy ~> ~busy)

\* Every RDP write that was answered is applied in the end, unless both
\* threads took the same request, the queue was full, or a request was wiped.
WritesLand ==
    [](slips \cap {"raced", "full", "wiped"} = {}) =>
      \A n \in 1 .. MaxCycles : Len(wrote) >= n ~> Len(applied) >= n

\* Once cycles and frames have ceased, the INT slot follows the chip, unless
\* the receive thread noted its interrupt between two stores of the main one.
LineFollows ==
    []("crossed" \notin slips) => <>[](intSlot <=> IntAsserted(csr0))

=============================================================================
