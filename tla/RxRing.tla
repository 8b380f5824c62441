------------------------------- MODULE RxRing -------------------------------
(***************************************************************************)
(* The receive descriptor ring, shared by gotfunc() of arm/src/rings.cpp   *)
(* on the ARM and the Amiga driver on the 68k.  Both reach the ring in     *)
(* DDR3 one word at a time and without a lock: reg_lock excludes only the  *)
(* other ARM thread.  A buffer holds one part of a frame, and a frame has  *)
(* up to MaxParts parts.  The frames modelled are the ones that pass the   *)
(* length, geometry and address tests at the head of gotfunc().            *)
(***************************************************************************)
EXTENDS Am7990, Naturals, Sequences

CONSTANTS N,          \* descriptors in the ring (am_rdr_rlen)
          MaxFrames,  \* bound: frames that arrive
          MaxParts,   \* the largest number of buffers a frame needs
          Paced       \* TRUE: no frame arrives that the ring cannot hold

ASSUME NAssumption == N \in Nat \ {0}
ASSUME MaxAssumption == MaxFrames \in Nat /\ MaxParts \in Nat \ {0}
ASSUME PacedAssumption == Paced \in BOOLEAN

Slots == 0 .. N - 1
FrameIds == 1 .. MaxFrames
PartNos == 1 .. MaxParts

\* Part number no of a frame that has of parts in all.
Part == [frame : FrameIds, no : PartNos, of : PartNos]
NoPart == [frame |-> 0, no |-> 0, of |-> 0]

\* The flags of RMD1; the owner is kept apart from them.
RmdFlags == {"STP", "ENP", "BUFF", "OFLO"}
Owner == {"chip", "host"}
Rmd1 == [own : Owner, flags : SUBSET RmdFlags]

VARIABLES rmd1,        \* word 1 of each descriptor: owner and flags
          mcnt,        \* word 3 of each descriptor: the message byte count
          buf,         \* the contents of the buffer of each descriptor
          csr0,        \* the receive bits of CSR0
          rdr_offset,  \* the descriptor gotfunc() looks at next
          pc,          \* where the receive thread is in gotfunc()
          cur,         \* the frame in hand: its number and its parts
          insize,      \* parts of it already copied
          slot,        \* the descriptor in hand (off in the code)
          local,       \* its RMD1 as read, then as it will be written back
          arrived,     \* frames that have arrived
          hpc, hoff,   \* where the driver is, and its next descriptor
          hflags,      \* the flags the driver has read
          accepted,    \* history: the parts of the frames given to the ring
          taken,       \* history: the parts the driver has taken
          wiped        \* history: RMD1 was written over the driver's refill

chipVars == <<rdr_offset, pc, cur, insize, slot, local, arrived, accepted, wiped>>
hostVars == <<hpc, hoff, hflags, taken>>
vars == <<rmd1, mcnt, buf, csr0, chipVars, hostVars>>

TypeOK ==
    /\ rmd1 \in [Slots -> Rmd1]
    /\ mcnt \in [Slots -> 0 .. MaxParts]
    /\ buf \in [Slots -> Part \cup {NoPart}]
    /\ csr0 \in SUBSET {"RXON", "RINT", "MISS", "INTR"}
    /\ rdr_offset \in Slots
    /\ pc \in {"idle", "fetch", "copy", "writeRmd1", "writeRmd3", "noBuffer"}
    /\ cur \in [frame : 0 .. MaxFrames, of : 0 .. MaxParts]
    /\ insize \in 0 .. MaxParts
    /\ slot \in Slots
    /\ local \in Rmd1
    /\ arrived \in 0 .. MaxFrames
    /\ hpc \in {"poll", "read", "refill"}
    /\ hoff \in Slots
    /\ hflags \in SUBSET RmdFlags
    /\ accepted \in Seq(Part)
    /\ taken \in Seq(Part \cup {NoPart})
    /\ wiped \in BOOLEAN

\* The driver has given every descriptor to the chip and started it.
Init ==
    /\ rmd1 = [i \in Slots |-> [own |-> "chip", flags |-> {}]]
    /\ mcnt = [i \in Slots |-> 0]
    /\ buf = [i \in Slots |-> NoPart]
    /\ csr0 = {"RXON"}
    /\ rdr_offset = 0
    /\ pc = "idle"
    /\ cur = [frame |-> 0, of |-> 0]
    /\ insize = 0
    /\ slot = 0
    /\ local = [own |-> "chip", flags |-> {}]
    /\ arrived = 0
    /\ hpc = "poll"
    /\ hoff = 0
    /\ hflags = {}
    /\ accepted = <<>>
    /\ taken = <<>>
    /\ wiped = FALSE

-----------------------------------------------------------------------------
(* gotfunc() on the ARM.                                                   *)

Parts(f, n) == [i \in 1 .. n |-> [frame |-> f, no |-> i, of |-> n]]

\* The descriptors the chip owns from rdr_offset on hold n parts.
RoomFor(n) ==
    n <= N /\ \A k \in 0 .. n - 1 : rmd1[(rdr_offset + k) % N].own = "chip"

\* A frame of n parts comes in; with the receiver off it is dropped.
RxFrame(n) ==
    /\ pc = "idle"
    /\ arrived < MaxFrames
    /\ Paced => RoomFor(n)
    /\ arrived' = arrived + 1
    /\ IF "RXON" \in csr0
       THEN /\ pc' = "fetch"
            /\ cur' = [frame |-> arrived + 1, of |-> n]
            /\ insize' = 0
            /\ accepted' = accepted \o Parts(arrived + 1, n)
       ELSE UNCHANGED <<pc, cur, insize, accepted>>
    /\ UNCHANGED <<rmd1, mcnt, buf, csr0, rdr_offset, slot, local, wiped, hostVars>>

\* Mutant: the ring offset is not taken modulo the ring length.
RxFetchUnwrapped ==
    /\ pc = "fetch"
    /\ slot' = rdr_offset
    /\ local' = [own |-> "host", flags |-> {"STP"}]
    /\ rdr_offset' = rdr_offset + 1
    /\ pc' = "copy"
    /\ UNCHANGED <<rmd1, mcnt, buf, csr0, cur, insize, arrived, accepted, wiped, hostVars>>

\* The descriptor at rdr_offset is read.  Owned, it is claimed for this frame;
\* not owned, the frame cannot be stored.
RxFetch ==
    /\ pc = "fetch"
    /\ slot' = rdr_offset
    /\ IF rmd1[rdr_offset].own = "chip"
       THEN /\ local' = [own |-> "host",
                         flags |-> rmd1[rdr_offset].flags
                                     \cup (IF insize = 0 THEN {"STP"} ELSE {})]
            /\ rdr_offset' = (rdr_offset + 1) % N
            /\ pc' = "copy"
       ELSE /\ local' = rmd1[rdr_offset]
            /\ pc' = "noBuffer"
            /\ UNCHANGED rdr_offset
    /\ UNCHANGED <<rmd1, mcnt, buf, csr0, cur, insize, arrived, accepted, wiped, hostVars>>

\* The first descriptor was not owned: MISS.  A later one: the frame is cut
\* off and the receiver goes off.  RMD1 as read is written back either way.
RxNoBuffer ==
    /\ pc = "noBuffer"
    /\ IF insize = 0
       THEN /\ csr0' = Rethink(csr0 \cup {"MISS"})
            /\ rmd1' = [rmd1 EXCEPT ![slot] = local]
       ELSE /\ csr0' = Rethink(csr0 \ {"RXON"})
            /\ rmd1' = [rmd1 EXCEPT ![slot] =
                          [local EXCEPT !.flags = @ \cup {"BUFF", "OFLO"}]]
    /\ wiped' = (wiped \/ rmd1[slot].own = "chip")
    /\ pc' = "idle"
    /\ UNCHANGED <<mcnt, buf, rdr_offset, cur, insize, slot, local, arrived,
                   accepted, hostVars>>

\* Mutant: the descriptor is given back before the data is in the buffer.
RxCopyAfterRelease ==
    /\ pc = "copy"
    /\ rmd1' = [rmd1 EXCEPT ![slot] = local]
    /\ insize' = insize + 1
    /\ local' = IF insize' = cur.of
                THEN [local EXCEPT !.flags = @ \cup {"ENP"}] ELSE local
    /\ pc' = "writeRmd1"
    /\ UNCHANGED <<mcnt, buf, csr0, rdr_offset, cur, slot, arrived, accepted,
                   wiped, hostVars>>

\* Mutant: every buffer gets the beginning of the frame.
RxCopyFromStart ==
    /\ pc = "copy"
    /\ buf' = [buf EXCEPT ![slot] = [frame |-> cur.frame, no |-> 1, of |-> cur.of]]
    /\ insize' = insize + 1
    /\ local' = IF insize' = cur.of
                THEN [local EXCEPT !.flags = @ \cup {"ENP"}] ELSE local
    /\ pc' = "writeRmd1"
    /\ UNCHANGED <<rmd1, mcnt, csr0, rdr_offset, cur, slot, arrived, accepted,
                   wiped, hostVars>>

\* The part is copied into the buffer; the last part gets ENP.
RxCopy ==
    /\ pc = "copy"
    /\ buf' = [buf EXCEPT ![slot] =
                 [frame |-> cur.frame, no |-> insize + 1, of |-> cur.of]]
    /\ insize' = insize + 1
    /\ local' = IF insize' = cur.of
                THEN [local EXCEPT !.flags = @ \cup {"ENP"}] ELSE local
    /\ pc' = "writeRmd1"
    /\ UNCHANGED <<rmd1, mcnt, csr0, rdr_offset, cur, slot, arrived, accepted,
                   wiped, hostVars>>

\* Mutant: OWN is cleared in the last descriptor of a frame only.
RxWriteRmd1LastOnly ==
    /\ pc = "writeRmd1"
    /\ rmd1' = IF insize = cur.of THEN [rmd1 EXCEPT ![slot] = local] ELSE rmd1
    /\ pc' = "writeRmd3"
    /\ UNCHANGED <<mcnt, buf, csr0, rdr_offset, cur, insize, slot, local,
                   arrived, accepted, wiped, hostVars>>

\* Word 1 is written first: from here on the driver owns the descriptor.
RxWriteRmd1 ==
    /\ pc = "writeRmd1"
    /\ rmd1' = [rmd1 EXCEPT ![slot] = local]
    /\ pc' = "writeRmd3"
    /\ UNCHANGED <<mcnt, buf, csr0, rdr_offset, cur, insize, slot, local,
                   arrived, accepted, wiped, hostVars>>

\* Mutant: the count leaves out the part in hand.
RxWriteRmd3Short ==
    /\ pc = "writeRmd3"
    /\ IF insize = cur.of
       THEN /\ mcnt' = [mcnt EXCEPT ![slot] = cur.of - 1]
            /\ csr0' = Rethink(csr0 \cup {"RINT"})
            /\ pc' = "idle"
       ELSE /\ pc' = "fetch"
            /\ UNCHANGED <<mcnt, csr0>>
    /\ UNCHANGED <<rmd1, buf, rdr_offset, cur, insize, slot, local, arrived,
                   accepted, wiped, hostVars>>

\* Word 3 follows: the count for the last part, else what was read.  After
\* the last part RINT is raised.
RxWriteRmd3 ==
    /\ pc = "writeRmd3"
    /\ IF insize = cur.of
       THEN /\ mcnt' = [mcnt EXCEPT ![slot] = cur.of]
            /\ csr0' = Rethink(csr0 \cup {"RINT"})
            /\ pc' = "idle"
       ELSE /\ pc' = "fetch"
            /\ UNCHANGED <<mcnt, csr0>>
    /\ UNCHANGED <<rmd1, buf, rdr_offset, cur, insize, slot, local, arrived,
                   accepted, wiped, hostVars>>

Gotfunc == RxFetch \/ RxNoBuffer \/ RxCopy \/ RxWriteRmd1 \/ RxWriteRmd3

-----------------------------------------------------------------------------
(* The Amiga driver: it polls its next descriptor, takes the buffer, and    *)
(* gives the descriptor back to the chip.                                  *)

HostPoll ==
    /\ hpc = "poll"
    /\ rmd1[hoff].own = "host"
    /\ hflags' = rmd1[hoff].flags
    /\ hpc' = "read"
    /\ UNCHANGED <<rmd1, mcnt, buf, csr0, chipVars, hoff, taken>>

HostRead ==
    /\ hpc = "read"
    /\ taken' = Append(taken, buf[hoff])
    /\ hpc' = "refill"
    /\ UNCHANGED <<rmd1, mcnt, buf, csr0, chipVars, hoff, hflags>>

HostRefill ==
    /\ hpc = "refill"
    /\ rmd1' = [rmd1 EXCEPT ![hoff] = [own |-> "chip", flags |-> {}]]
    /\ hoff' = (hoff + 1) % N
    /\ hflags' = {}
    /\ hpc' = "poll"
    /\ UNCHANGED <<mcnt, buf, csr0, chipVars, taken>>

\* The driver acknowledges its interrupt; the main thread applies that write
\* when gotfunc() does not hold reg_lock.
HostAck ==
    /\ pc = "idle"
    /\ csr0 \cap {"RINT", "MISS"} # {}
    /\ csr0' = Rethink(Latch(csr0, {"RINT", "MISS"}))
    /\ UNCHANGED <<rmd1, mcnt, buf, chipVars, hostVars>>

Host == HostPoll \/ HostRead \/ HostRefill

Next == (\E n \in PartNos : RxFrame(n)) \/ Gotfunc \/ Host \/ HostAck

\* The receive thread runs until gotfunc() returns; the driver keeps polling.
Spec == Init /\ [][Next]_vars /\ WF_vars(Gotfunc) /\ WF_vars(Host)

-----------------------------------------------------------------------------
(* Properties.                                                             *)

\* gotfunc() copies into a buffer only while its descriptor belongs to the
\* chip, and while the driver reads a buffer its descriptor belongs to the
\* driver; so no buffer is written and read at the same time, however often
\* the ring runs over.
ExclusiveBuffers ==
    /\ pc \in {"copy", "writeRmd1"} => rmd1[slot].own = "chip"
    /\ hpc \in {"read", "refill"} => rmd1[hoff].own = "host"

\* When both sides are idle and the driver waits for its next descriptor,
\* that is the descriptor gotfunc() will fill next, so neither waits for the
\* other for ever: also after missed and cut off frames, unless gotfunc()
\* wrote back an RMD1 that the driver had handed over in the meantime.
SidesAgree ==
    ~wiped /\ pc = "idle" /\ hpc = "poll" /\ rmd1[hoff].own = "chip" =>
        rdr_offset = hoff

\* The byte count the driver finds with the last part of a frame is the one of
\* that frame, except between the writes of RMD1 and RMD3 of that descriptor.
CountsSettled ==
    hpc = "read" /\ "ENP" \in hflags =>
        mcnt[hoff] = buf[hoff].of \/ (pc = "writeRmd3" /\ slot = hoff)

\* The ring is a lossless queue of buffers for a driver that keeps up.
Fifo == INSTANCE FrameFifo
FifoSpec == Fifo!Spec

=============================================================================
