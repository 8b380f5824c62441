------------------------------- MODULE TxRing -------------------------------
(***************************************************************************)
(* The transmit descriptor ring, shared by do_transmit() of               *)
(* arm/src/rings.cpp and the Amiga driver.  As in RxRing each side reaches *)
(* the ring a word at a time and without a lock.  do_transmit() runs once  *)
(* for every TDMD the main thread applies, and sends at most one frame.    *)
(* The register path a TDMD takes is in Doorbell and Ddr3Daemon: it may    *)
(* lose one, or let two become one.  The chip is not in loopback mode and  *)
(* not disabled by DTX.                                                    *)
(***************************************************************************)
EXTENDS Am7990, Naturals, Sequences

CONSTANTS N,           \* descriptors in the ring (am_tdr_tlen)
          MaxFrames,   \* bound: frames the driver posts
          MaxParts,    \* the largest number of buffers the driver uses for one
          Cap,         \* the buffers that fit into transmitbuffer
          ChainReady,  \* TRUE: the driver hands over a frame's first buffer last
          Collides,    \* TRUE: a transmission may end in a collision
          MaxExtra     \* bound: TDMD writes beyond one for each frame

ASSUME NAssumption == N \in Nat \ {0}
ASSUME MaxAssumption == MaxFrames \in Nat /\ MaxParts \in 1 .. N /\ Cap \in Nat \ {0}
ASSUME ExtraAssumption == MaxExtra \in Nat
ASSUME FlagsAssumption == {ChainReady, Collides} \subseteq BOOLEAN

Slots == 0 .. N - 1
PartNos == 1 .. MaxParts
Part == [frame : 0 .. MaxFrames, no : 0 .. MaxParts]
NoPart == [frame |-> 0, no |-> 0]
TmdFlags == {"STP", "ENP", "ERR"}
Tmd1 == [own : {"chip", "host"}, flags : SUBSET TmdFlags]
Errors == {"BUFF", "UFLO", "RTRY"}

VARIABLES tmd1, tmd3, buf,  \* words 1 and 3 of each descriptor, and its buffer
          csr0,             \* the transmit bits of CSR0
          demands,          \* TDMD writes the main thread has yet to apply
          lost,             \* history: a frame was posted for which no TDMD is applied
          tdr_offset,       \* the descriptor do_transmit() looks at next
          pc, slot, local,  \* where do_transmit() is, its descriptor, its TMD1
          local3,           \* its TMD3 as read, then as it will be written back
          start, scanned,   \* the search for a first descriptor
          out,              \* transmitbuffer: the parts gathered
          hpc,              \* what the driver does: idle, giving, or to set TDMD
          hoff, used,       \* its next descriptor, and how many are in use
          togive,           \* descriptors of the posted frame yet to be given
          extra,            \* TDMD writes beyond one for each frame
          posted,           \* history: the frames posted, as sequences of parts
          reused,           \* history: the driver posted a frame in a descriptor
                            \* do_transmit() had yet to write back
          wire              \* history: the frames sent

txVars == <<tdr_offset, pc, slot, local, local3, start, scanned, out, wire>>
hostVars == <<hpc, hoff, used, togive, extra, lost, posted, reused>>
vars == <<tmd1, tmd3, buf, csr0, demands, txVars, hostVars>>

TypeOK ==
    /\ tmd1 \in [Slots -> Tmd1]
    /\ tmd3 \in [Slots -> SUBSET Errors]
    /\ buf \in [Slots -> Part]
    /\ csr0 \in SUBSET {"TXON", "TINT", "INTR"}
    /\ demands \in 0 .. MaxFrames + MaxExtra
    /\ tdr_offset \in Slots
    /\ pc \in {"idle", "scan", "fetch", "copy", "chain1", "chain3", "fault1", "fault3",
               "short3", "short1", "last1", "last3", "coll1", "coll3", "send"}
    /\ slot \in Slots
    /\ local \in Tmd1
    /\ local3 \in SUBSET Errors
    /\ start \in Slots
    /\ scanned \in 0 .. N
    /\ out \in Seq(Part) /\ Len(out) <= Cap
    /\ hpc \in {"idle", "give", "demand"}
    /\ hoff \in Slots
    /\ used \in 0 .. N
    /\ togive \in SUBSET Slots
    /\ extra \in 0 .. MaxExtra
    /\ {lost, reused} \subseteq BOOLEAN

Init ==
    /\ tmd1 = [i \in Slots |-> [own |-> "host", flags |-> {}]]
    /\ tmd3 = [i \in Slots |-> {}]
    /\ buf = [i \in Slots |-> NoPart]
    /\ csr0 = {"TXON"}
    /\ demands = 0
    /\ tdr_offset = 0
    /\ pc = "idle"
    /\ slot = 0
    /\ local = [own |-> "host", flags |-> {}]
    /\ local3 = {}
    /\ start = 0
    /\ scanned = 0
    /\ out = <<>>
    /\ hpc = "idle"
    /\ hoff = 0
    /\ used = 0
    /\ togive = {}
    /\ extra = 0
    /\ lost = FALSE
    /\ posted = <<>>
    /\ reused = FALSE
    /\ wire = <<>>

-----------------------------------------------------------------------------
(* do_transmit() on the ARM.                                               *)

ringUnchanged == UNCHANGED <<tmd1, tmd3, buf, hostVars>>

\* The main thread applies a TDMD; a transmitter that is off goes on again.
TxDemand ==
    /\ pc = "idle"
    /\ demands > 0
    /\ demands' = demands - 1
    /\ csr0' = csr0 \cup {"TXON"}
    /\ pc' = "scan"
    /\ start' = tdr_offset
    /\ scanned' = 0
    /\ out' = <<>>
    /\ ringUnchanged /\ UNCHANGED <<tdr_offset, slot, local, local3, wire>>

\* One look at a descriptor of the search: first the one at tdr_offset, then
\* all of them from there on.
ScanSlot == (start + (IF scanned = 0 THEN 0 ELSE scanned - 1)) % N
Starts(d) == d.own = "chip" /\ "STP" \in d.flags

TxScan ==
    /\ pc = "scan"
    /\ IF Starts(tmd1[ScanSlot])
       THEN tdr_offset' = ScanSlot /\ pc' = "fetch" /\ UNCHANGED scanned
       ELSE IF scanned < N
            THEN scanned' = scanned + 1 /\ UNCHANGED <<tdr_offset, pc>>
            ELSE tdr_offset' = start /\ pc' = "idle" /\ UNCHANGED scanned
    /\ ringUnchanged /\ UNCHANGED <<csr0, demands, slot, local, local3, start, out, wire>>

\* Mutant: a descriptor of a chain is taken whether or not it is owned.
TxFetchUnowned ==
    /\ pc = "fetch"
    /\ slot' = tdr_offset
    /\ local' = [tmd1[tdr_offset] EXCEPT !.own = "host"]
    /\ local3' = tmd3[tdr_offset]
    /\ pc' = "copy"
    /\ ringUnchanged
    /\ UNCHANGED <<csr0, demands, tdr_offset, start, scanned, out, wire>>

\* The descriptor is read.  Not owned: the transmitter goes off with an error.
\* Too much for the buffer: the frame ends here, and tdr_offset stays.
TxFetch ==
    /\ pc = "fetch"
    /\ slot' = tdr_offset
    /\ \/ /\ tmd1[tdr_offset].own = "host"
          /\ local' = [tmd1[tdr_offset] EXCEPT !.flags = @ \cup {"ERR"}]
          /\ local3' = tmd3[tdr_offset] \cup {"BUFF", "UFLO"}
          /\ csr0' = csr0 \ {"TXON"}
          /\ pc' = "fault1"
       \/ /\ tmd1[tdr_offset].own = "chip"
          /\ local' = [tmd1[tdr_offset] EXCEPT !.own = "host"]
          /\ pc' = IF Len(out) < Cap THEN "copy" ELSE "chain1"
          /\ local3' = tmd3[tdr_offset]
          /\ UNCHANGED csr0
    /\ ringUnchanged /\ UNCHANGED <<demands, tdr_offset, start, scanned, out, wire>>

\* Mutant: each buffer is copied to the start of transmitbuffer.
TxCopyOverwrites ==
    /\ pc = "copy"
    /\ out' = <<buf[slot]>>
    /\ tdr_offset' = (slot + 1) % N
    /\ pc' = IF "ENP" \in local.flags THEN "last1" ELSE "chain1"
    /\ ringUnchanged
    /\ UNCHANGED <<csr0, demands, slot, local, local3, start, scanned, wire>>

\* Mutant: the end of the frame is not noticed.
TxCopyPastEnd ==
    /\ pc = "copy"
    /\ out' = Append(out, buf[slot])
    /\ tdr_offset' = (slot + 1) % N
    /\ pc' = "chain1"
    /\ ringUnchanged
    /\ UNCHANGED <<csr0, demands, slot, local, local3, start, scanned, wire>>

\* The buffer is copied; the last one ends the frame.
TxCopy ==
    /\ pc = "copy"
    /\ out' = Append(out, buf[slot])
    /\ tdr_offset' = (slot + 1) % N
    /\ pc' = IF "ENP" \in local.flags THEN "last1" ELSE "chain1"
    /\ ringUnchanged
    /\ UNCHANGED <<csr0, demands, slot, local, local3, start, scanned, wire>>

\* Mutant: only the last descriptor of a frame is given back.
WriteTmd1LastOnly(from, to) ==
    /\ pc = from
    /\ tmd1' = IF "ENP" \in local.flags THEN [tmd1 EXCEPT ![slot] = local] ELSE tmd1
    /\ pc' = to
    /\ UNCHANGED <<tmd3, buf, csr0, demands, tdr_offset, slot, local, local3, start,
                   scanned, out, wire, hostVars>>

\* Mutant: OWN stays set in the descriptor written back.
WriteTmd1KeepsOwn(from, to) ==
    /\ pc = from
    /\ tmd1' = [tmd1 EXCEPT ![slot] = [local EXCEPT !.own = "chip"]]
    /\ pc' = to
    /\ UNCHANGED <<tmd3, buf, csr0, demands, tdr_offset, slot, local, local3, start,
                   scanned, out, wire, hostVars>>

\* Words 1 and 3 of the descriptor in hand are written back in this order.
\* A full transmitbuffer also comes here, and then to the end of the frame,
\* where the same descriptor is written once more.
WriteTmd1(from, to) ==
    /\ pc = from
    /\ tmd1' = [tmd1 EXCEPT ![slot] = local]
    /\ pc' = to
    /\ UNCHANGED <<tmd3, buf, csr0, demands, tdr_offset, slot, local, local3, start,
                   scanned, out, wire, hostVars>>

WriteTmd3(from) ==
    /\ pc = from
    /\ tmd3' = [tmd3 EXCEPT ![slot] = local3]
    /\ UNCHANGED <<tmd1, buf, demands, tdr_offset, slot, start, scanned, out, wire,
                   hostVars>>

\* The transmission ends with an error, and TINT.
TxFault3(from) ==
    /\ WriteTmd3(from)
    /\ csr0' = Rethink(csr0 \cup {"TINT"})
    /\ pc' = "idle"
    /\ UNCHANGED <<local, local3>>

\* After the chained descriptor comes the next one; a full transmitbuffer
\* ends the frame instead, short of 60 bytes as an error.
TxChain3 ==
    /\ WriteTmd3("chain3")
    /\ \/ /\ tdr_offset # slot
          /\ pc' = "fetch"
          /\ UNCHANGED <<csr0, local, local3>>
       \/ /\ tdr_offset = slot
          /\ pc' = "last1"
          /\ UNCHANGED <<csr0, local, local3>>
       \/ /\ tdr_offset = slot
          /\ pc' = "short3"
          /\ local' = [local EXCEPT !.flags = @ \cup {"ERR"}]
          /\ local3' = local3 \cup {"BUFF", "UFLO"}
          /\ csr0' = csr0 \ {"TXON"}

\* The error of a short frame is written with word 3 first.
TxShort3 == WriteTmd3("short3") /\ pc' = "short1" /\ UNCHANGED <<csr0, local, local3>>

TxShort1 ==
    /\ pc = "short1"
    /\ tmd1' = [tmd1 EXCEPT ![slot] = local]
    /\ csr0' = Rethink(csr0 \cup {"TINT"})
    /\ pc' = "idle"
    /\ UNCHANGED <<tmd3, buf, demands, tdr_offset, slot, local, local3, start, scanned,
                   out, wire, hostVars>>

\* Mutant: a collision sets ERR and not its cause.
TxCollideSilent ==
    /\ Collides
    /\ pc = "last1" /\ pc' = "coll1"
    /\ local' = [local EXCEPT !.flags = @ \cup {"ERR"}]
    /\ ringUnchanged
    /\ UNCHANGED <<csr0, demands, tdr_offset, slot, local3, start, scanned, out, wire>>

\* A collision is reported in the last descriptor.
TxCollide ==
    /\ Collides
    /\ pc = "last1" /\ pc' = "coll1"
    /\ local3' = local3 \cup {"RTRY"}
    /\ local' = [local EXCEPT !.flags = @ \cup {"ERR"}]
    /\ ringUnchanged
    /\ UNCHANGED <<csr0, demands, tdr_offset, slot, start, scanned, out, wire>>

\* Mutant: word 1 is written again with word 3.
TxLast3Again ==
    /\ pc = "last3"
    /\ tmd3' = [tmd3 EXCEPT ![slot] = local3]
    /\ tmd1' = [tmd1 EXCEPT ![slot] = local]
    /\ pc' = "send"
    /\ UNCHANGED <<buf, csr0, demands, tdr_offset, slot, local, local3, start, scanned,
                   out, wire, hostVars>>

TxLast3 ==
    /\ WriteTmd3("last3")
    /\ pc' = "send"
    /\ UNCHANGED <<csr0, local, local3>>

\* ethernet_send(), then TINT.
TxSend ==
    /\ pc = "send"
    /\ wire' = Append(wire, out)
    /\ csr0' = Rethink(csr0 \cup {"TINT"})
    /\ pc' = "idle"
    /\ ringUnchanged
    /\ UNCHANGED <<demands, tdr_offset, slot, local, local3, start, scanned, out>>

DoTransmit ==
    \/ TxDemand \/ TxScan \/ TxFetch \/ TxCopy
    \/ WriteTmd1("chain1", "chain3") \/ TxChain3
    \/ WriteTmd1("fault1", "fault3") \/ TxFault3("fault3")
    \/ TxShort3 \/ TxShort1
    \/ TxCollide \/ WriteTmd1("coll1", "coll3") \/ TxFault3("coll3")
    \/ WriteTmd1("last1", "last3") \/ TxLast3 \/ TxSend

-----------------------------------------------------------------------------
(* The Amiga driver.                                                       *)

WritingBack == {"chain1", "chain3", "fault1", "fault3", "short3", "short1",
                "last1", "last3", "coll1", "coll3"}

\* It fills the buffers and flags of the next n descriptors.
HostPost(n) ==
    /\ hpc = "idle"
    /\ Len(posted) < MaxFrames
    /\ used + n <= N
    /\ LET f == Len(posted) + 1
           at(k) == (hoff + k - 1) % N
           no == [i \in {at(k) : k \in 1 .. n} |-> CHOOSE k \in 1 .. n : at(k) = i]
           flags(k) == (IF k = 1 THEN {"STP"} ELSE {}) \cup (IF k = n THEN {"ENP"} ELSE {})
       IN  /\ buf' = [i \in Slots |-> IF i \in DOMAIN no
                                      THEN [frame |-> f, no |-> no[i]] ELSE buf[i]]
           /\ tmd1' = [i \in Slots |-> IF i \in DOMAIN no
                                       THEN [own |-> "host", flags |-> flags(no[i])]
                                       ELSE tmd1[i]]
           /\ tmd3' = [i \in Slots |-> IF i \in DOMAIN no THEN {} ELSE tmd3[i]]
           /\ togive' = DOMAIN no
           /\ reused' = (reused \/ (slot \in DOMAIN no /\ pc \in WritingBack))
           /\ posted' = Append(posted, [k \in 1 .. n |-> [frame |-> f, no |-> k]])
    /\ hoff' = (hoff + n) % N
    /\ used' = used + n
    /\ hpc' = "give"
    /\ UNCHANGED <<csr0, demands, extra, lost, txVars>>

\* It sets OWN in one of them after the other, in any order, or in any order
\* that leaves the first for the end.
HostGive ==
    /\ hpc = "give"
    /\ \E i \in togive :
         /\ ChainReady /\ buf[i].no = 1 => togive = {i}
         /\ tmd1' = [tmd1 EXCEPT ![i].own = "chip"]
         /\ togive' = togive \ {i}
    /\ hpc' = IF togive' = {} THEN "demand" ELSE "give"
    /\ UNCHANGED <<tmd3, buf, csr0, demands, txVars, hoff, used, extra, lost, posted,
                   reused>>

\* It sets TDMD, and the write is applied; or the register path loses it or
\* merges it with another, or the driver relies on the chip polling the ring.
HostDemand ==
    /\ hpc = "demand"
    /\ \/ demands' = demands + 1 /\ UNCHANGED lost
       \/ lost' = TRUE /\ UNCHANGED demands
    /\ hpc' = "idle"
    /\ UNCHANGED <<tmd1, tmd3, buf, csr0, txVars, hoff, used, togive, extra, posted, reused>>

\* It may set TDMD once more than it need.
HostDemandsAgain ==
    /\ hpc = "idle"
    /\ extra < MaxExtra
    /\ extra' = extra + 1
    /\ demands' = demands + 1
    /\ UNCHANGED <<tmd1, tmd3, buf, csr0, txVars, hpc, hoff, used, togive, lost, posted,
                   reused>>

\* It acknowledges TINT; the main thread applies that between transmissions.
HostAck ==
    /\ pc = "idle"
    /\ "TINT" \in csr0
    /\ csr0' = Rethink(Latch(csr0, {"TINT"}))
    /\ UNCHANGED <<tmd1, tmd3, buf, demands, txVars, hostVars>>

\* It takes back the oldest descriptor in use.
Oldest == (hoff + N - used) % N

HostReclaim ==
    /\ hpc = "idle"
    /\ used > 0
    /\ tmd1[Oldest].own = "host"
    /\ used' = used - 1
    /\ UNCHANGED <<tmd1, tmd3, buf, csr0, demands, txVars, hpc, hoff, togive, extra,
                   lost, posted, reused>>

Host == HostGive \/ HostDemand \/ HostReclaim

Next == DoTransmit \/ (\E n \in PartNos : HostPost(n)) \/ Host
          \/ HostDemandsAgain \/ HostAck

\* The main thread applies what it is told, and the driver finishes what it
\* has begun.
Spec == Init /\ [][Next]_vars /\ WF_vars(DoTransmit) /\ WF_vars(Host)

-----------------------------------------------------------------------------
(* Properties.                                                             *)

\* do_transmit() copies a buffer only while its descriptor belongs to the
\* chip, whatever order the driver hands a chain over in, and however often
\* a transmission breaks off in the middle of one.
CopiesOwned == pc = "copy" => tmd1[slot].own = "chip"

\* Whatever goes wrong, no frame is sent twice, and what is sent is a frame the
\* driver posted or, when transmitbuffer is too small for it, its beginning,
\* unless the driver has used a descriptor again that do_transmit() had yet to
\* write to: then the flags of the old frame may replace those of the new one.
SentOnce ==
    ~reused =>
      /\ \A i, j \in DOMAIN wire : wire[i][1].frame = wire[j][1].frame => i = j
      /\ \A i \in DOMAIN wire :
           wire[i] = SubSeq(posted[wire[i][1].frame], 1, Len(wire[i]))

\* A descriptor the driver finds with ERR names the cause in TMD3, whatever went
\* wrong and however the chain was handed over, except between the writes of TMD1
\* and TMD3 of that descriptor, and unless the driver has used a descriptor again
\* that do_transmit() had yet to write to.
CauseSettled ==
    ~reused => \A i \in Slots :
      tmd1[i].own = "host" /\ "ERR" \in tmd1[i].flags =>
        tmd3[i] # {} \/ (pc \in {"fault3", "coll3"} /\ slot = i)

\* do_transmit() alters word 1 of a descriptor only while the chip owns it.
WritesOnlyOwned ==
    [][ UNCHANGED hostVars => \A i \in Slots :
          tmd1'[i] # tmd1[i] => tmd1[i].own = "chip" ]_vars

\* For a driver that hands over the first buffer of a frame last the ring is a
\* queue: what is sent is what was posted, whole, unaltered, in order and once;
\* and all of it is sent, unless a TDMD was lost: each one sends one frame.
Fifo == INSTANCE FrameFifo WITH accepted <- posted, taken <- wire
FifoSpec ==
    /\ Fifo!Init /\ [][Fifo!Next]_<<posted, wire>>
    /\ []~lost => WF_<<posted, wire>>(Fifo!Take)

\* No frame ends in an underflow as long as its first descriptor is handed
\* over last: the transmitter stays on.
StaysOn == "TXON" \in csr0

\* Every descriptor the driver has handed over comes back to it in the end,
\* unless a TDMD was lost.
AllReturned == []~lost => (used > 0 ~> used = 0)

=============================================================================
