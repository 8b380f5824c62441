------------------------------- MODULE Bridge -------------------------------
(***************************************************************************)
(* The bridge design: the 68k, gen_bridge of a2065_registers.v and         *)
(* service_bridge() of arm/src/main.cpp.  The FPGA holds the bus cycle     *)
(* until the ARM sets DONE or the watchdog runs out; the ARM may be slow,  *)
(* be killed in the middle of a request, and be started again.             *)
(***************************************************************************)
EXTENDS Naturals, Sequences

CONSTANTS Watchdog,   \* WATCHDOG_CYCLES, which a 20-bit counter can exceed
          MaxCycles,  \* bound: bus cycles of the 68k
          MaxLives    \* bound: times the daemon is started

ASSUME BoundsAssumption ==
    Watchdog \in Nat /\ MaxCycles \in Nat /\ MaxLives \in Nat \ {0}
ASSUME WidthAssumption == Watchdog + 1 < 2^20

VARIABLES n, as,                   \* the 68k: its cycle, and address strobe
          state, watchdog,         \* the FPGA's state machine
          dtack, berr, data_out,   \* what it drives; data_out is the cycle whose
                                   \* answer it shows
          bridge, new_req,         \* the request: ADDR, RW and DATA of a cycle
          done_clr,
          done, result,            \* set by the ARM
          clocked,                 \* clk has ticked since DONE was set
          pc, seen,                \* service_bridge(), and what it has read
          life,                    \* starts of the daemon so far
          served,                  \* history: the requests given to the chip
          late                     \* history: BERR while the ARM was serving

busVars == <<n, as>>
fpgaVars == <<state, watchdog, dtack, berr, data_out, bridge, new_req, done_clr>>
armVars == <<pc, seen, life, served>>
vars == <<busVars, fpgaVars, done, result, clocked, armVars, late>>

Cycles == 0 .. MaxCycles
Fields == {"addr", "rw", "data"}

TypeOK ==
    /\ n \in Cycles /\ data_out \in Cycles /\ bridge \in Cycles /\ result \in Cycles
    /\ as \in BOOLEAN /\ dtack \in BOOLEAN /\ berr \in BOOLEAN /\ late \in BOOLEAN
    /\ new_req \in BOOLEAN /\ done_clr \in BOOLEAN
    /\ done \in BOOLEAN /\ clocked \in BOOLEAN
    /\ state \in {"IDLE", "WAIT_ARM", "RELEASE", "BERR"}
    /\ watchdog \in 0 .. Watchdog + 1
    /\ pc \in {"poll", "addr", "rw", "data", "chip", "result", "done", "dead"}
    /\ seen \in [Fields -> Cycles]
    /\ life \in 1 .. MaxLives
    /\ served \in Seq([life : 1 .. MaxLives, req : [Fields -> Cycles]])

Unread == [f \in Fields |-> 0]

Init ==
    /\ n = 0 /\ as = FALSE
    /\ state = "IDLE" /\ watchdog = 0
    /\ dtack = FALSE /\ berr = FALSE /\ data_out = 0
    /\ bridge = 0 /\ new_req = FALSE /\ done_clr = FALSE
    /\ done = FALSE /\ result = 0 /\ clocked = TRUE
    /\ pc = "poll" /\ seen = Unread /\ life = 1
    /\ served = <<>> /\ late = FALSE

-----------------------------------------------------------------------------
(* The 68k.  A cycle ends when DTACK or BERR is seen, and the next one      *)
(* starts when they have been taken back.                                  *)

HostStart ==
    /\ ~as /\ state = "IDLE" /\ n < MaxCycles
    /\ n' = n + 1 /\ as' = TRUE
    /\ UNCHANGED <<fpgaVars, done, result, clocked, armVars, late>>

HostEnd ==
    /\ as /\ (dtack \/ berr)
    /\ as' = FALSE
    /\ UNCHANGED <<n, fpgaVars, done, result, clocked, armVars, late>>

-----------------------------------------------------------------------------
(* clk: one step of the state machine.  The bridge's DONE register, which   *)
(* is outside it, is cleared by the pulse the previous step made.          *)

Tick ==
    /\ done' = (done /\ ~done_clr)
    /\ clocked' = TRUE
    /\ UNCHANGED <<busVars, result, armVars>>

StIdle ==
    /\ state = "IDLE" /\ Tick
    /\ dtack' = FALSE /\ berr' = FALSE /\ data_out' = 0 /\ done_clr' = FALSE
    /\ IF as
       THEN /\ bridge' = n /\ new_req' = TRUE
            /\ watchdog' = 0
            /\ state' = "WAIT_ARM"
       ELSE UNCHANGED <<bridge, new_req, watchdog, state>>
    /\ UNCHANGED late

\* Mutant: the watchdog does not end the cycle.
StWaitArmForever ==
    /\ state = "WAIT_ARM" /\ Tick
    /\ \/ /\ done
          /\ new_req' = FALSE /\ done_clr' = TRUE
          /\ data_out' = result
          /\ state' = "RELEASE"
       \/ ~done /\ UNCHANGED <<state, new_req, done_clr, data_out>>
    /\ UNCHANGED <<watchdog, dtack, berr, bridge, late>>

\* Mutant: the request stays up when it has been answered.
StWaitArmHolds ==
    /\ state = "WAIT_ARM" /\ Tick
    /\ watchdog' = watchdog + 1
    /\ \/ /\ done
          /\ new_req' = TRUE /\ done_clr' = TRUE
          /\ data_out' = result
          /\ state' = "RELEASE"
          /\ UNCHANGED late
       \/ /\ ~done /\ watchdog >= Watchdog
          /\ new_req' = FALSE
          /\ state' = "BERR"
          /\ late' = (late \/ pc \notin {"poll", "dead"})
          /\ UNCHANGED <<data_out, done_clr>>
       \/ /\ ~done /\ watchdog < Watchdog
          /\ UNCHANGED <<state, new_req, done_clr, data_out, late>>
    /\ UNCHANGED <<dtack, berr, bridge>>

\* DONE is looked at before the watchdog.
StWaitArm ==
    /\ state = "WAIT_ARM" /\ Tick
    /\ watchdog' = watchdog + 1
    /\ \/ /\ done
          /\ new_req' = FALSE /\ done_clr' = TRUE
          /\ data_out' = result
          /\ state' = "RELEASE"
          /\ UNCHANGED late
       \/ /\ ~done /\ watchdog >= Watchdog
          /\ new_req' = FALSE
          /\ state' = "BERR"
          /\ late' = (late \/ pc \notin {"poll", "dead"})
          /\ UNCHANGED <<data_out, done_clr>>
       \/ /\ ~done /\ watchdog < Watchdog
          /\ UNCHANGED <<state, new_req, done_clr, data_out, late>>
    /\ UNCHANGED <<dtack, berr, bridge>>

StRelease ==
    /\ state = "RELEASE" /\ Tick
    /\ dtack' = as /\ done_clr' = FALSE
    /\ state' = IF as THEN "RELEASE" ELSE "IDLE"
    /\ UNCHANGED <<watchdog, berr, data_out, bridge, new_req, late>>

StBerr ==
    /\ state = "BERR" /\ Tick
    /\ berr' = as /\ done_clr' = FALSE
    /\ state' = IF as THEN "BERR" ELSE "IDLE"
    /\ UNCHANGED <<watchdog, dtack, data_out, bridge, new_req, late>>

Clock == StIdle \/ StWaitArm \/ StRelease \/ StBerr

-----------------------------------------------------------------------------
(* The ARM.                                                                *)

\* The loop finds NEW_REQ set.  Its usleep() is longer than a tick of clk.
Poll ==
    /\ pc = "poll" /\ new_req /\ clocked
    /\ pc' = "addr"
    /\ UNCHANGED <<busVars, fpgaVars, done, result, clocked, seen, life, served, late>>

\* The three registers of the request are read one after the other.
Read(f, next) ==
    /\ pc = f
    /\ seen' = [seen EXCEPT ![f] = bridge]
    /\ pc' = next
    /\ UNCHANGED <<busVars, fpgaVars, done, result, clocked, life, served, late>>

\* chip_wput() or chip_wget().
CallChip ==
    /\ pc = "chip"
    /\ served' = Append(served, [life |-> life, req |-> seen])
    /\ pc' = "result"
    /\ UNCHANGED <<busVars, fpgaVars, done, result, clocked, seen, life, late>>

\* Mutant: DONE is set before the result is there.
WriteResultLast ==
    /\ pc = "result"
    /\ done' = TRUE /\ clocked' = FALSE
    /\ pc' = "done"
    /\ UNCHANGED <<busVars, fpgaVars, result, seen, life, served, late>>

WriteResult ==
    /\ pc = "result"
    /\ result' = seen["data"]
    /\ pc' = "done"
    /\ UNCHANGED <<busVars, fpgaVars, done, clocked, seen, life, served, late>>

WriteDone ==
    /\ pc = "done"
    /\ done' = TRUE /\ clocked' = FALSE
    /\ pc' = "poll" /\ seen' = Unread
    /\ UNCHANGED <<busVars, fpgaVars, result, life, served, late>>

Serve ==
    \/ Poll \/ Read("addr", "rw") \/ Read("rw", "data") \/ Read("data", "chip")
    \/ CallChip \/ WriteResult \/ WriteDone

\* The daemon is killed wherever it is, and started again.
Die ==
    /\ pc # "dead"
    /\ pc' = "dead" /\ seen' = Unread
    /\ UNCHANGED <<busVars, fpgaVars, done, result, clocked, life, served, late>>

Restart ==
    /\ pc = "dead" /\ life < MaxLives
    /\ life' = life + 1 /\ pc' = "poll"
    /\ UNCHANGED <<busVars, fpgaVars, done, result, clocked, seen, served, late>>

Next == HostStart \/ HostEnd \/ Clock \/ Serve \/ Die \/ Restart

\* clk ticks and the 68k ends its cycles; the ARM need not run at all.
Spec == Init /\ [][Next]_vars /\ WF_vars(Clock) /\ WF_vars(HostEnd)

-----------------------------------------------------------------------------
(* Properties.                                                             *)

\* A cycle that ends with DTACK gets its own answer, although the answer is
\* recognised by the DONE bit alone: as long as the watchdog has never run
\* out on a daemon in the middle of a request, and also when the daemon died
\* and was started again.
OwnAnswer == ~late /\ dtack => data_out = n

\* No life of the daemon gives a request to the chip twice, although nothing
\* on the ARM clears NEW_REQ, nor one whose three registers belong to
\* different cycles; and a cycle that ends with DTACK has been served.
ServedOnce ==
    ~late =>
      /\ \A j, k \in DOMAIN served : served[j] = served[k] => j = k
      /\ \A k \in DOMAIN served : \E c \in 1 .. n : served[k].req = [f \in Fields |-> c]
      /\ dtack => \E k \in DOMAIN served : served[k].req["data"] = n

\* Every bus cycle ends, with DTACK or BERR, even when the ARM is dead.
CyclesEnd == as ~> ~as

=============================================================================
