---------------------------- MODULE RxRingProofs ----------------------------
(***************************************************************************)
(* The receive ring, for a ring and a load of any size.  Paced or not, no  *)
(* buffer is used by both sides at once, the byte counts are those of      *)
(* their frames, and the two sides wait at the same descriptor.  Paced,    *)
(* the ring is the queue that FrameFifo describes.                         *)
(***************************************************************************)
EXTENDS RxRing, Integers, SequenceTheorems, TLAPS

\* The leaves are first-order; those with arithmetic, or with many cases, name SMT.
USE ZenonT(30)

\* The driver's and the receive thread's next descriptor stay in the ring.
LEMMA NextSlot == ASSUME NEW i \in Slots PROVE (i + 1) % N \in Slots
  BY SMT, NAssumption DEF Slots

\* What gotfunc() is about to write back belongs to the driver: either it has
\* just cleared OWN, or it found OWN clear.
LocalIsHost == pc \in {"copy", "writeRmd1", "noBuffer"} => local.own = "host"

\* The part number in hand is one of the frame in hand.
PartInHand ==
    /\ pc # "idle" =>
         cur.frame \in FrameIds /\ cur.of \in PartNos /\ insize <= cur.of
    /\ pc \in {"fetch", "copy"} => insize < cur.of

IInv == TypeOK /\ LocalIsHost /\ PartInHand /\ ExclusiveBuffers

\* The parts of a frame are a sequence of parts.
LEMMA PartsType ==
    ASSUME NEW f \in FrameIds, NEW n \in PartNos
    PROVE  Parts(f, n) \in Seq(Part)
<1>1. n \in Nat  BY SMT, MaxAssumption DEF PartNos
<1>2. \A i \in 1 .. n : [frame |-> f, no |-> i, of |-> n] \in Part
  BY SMT, <1>1, MaxAssumption DEF PartNos, Part
<1>3. QED  BY SMT, <1>1, <1>2 DEF Parts

\* The ring as the driver leaves it at the start satisfies the invariant.
LEMMA InitEstablishes == Init => IInv
<1> SUFFICES ASSUME Init PROVE IInv
  OBVIOUS
<1>1. 0 \in Slots  BY SMT, NAssumption DEF Slots
<1>2. TypeOK
  <2>1. wiped \in BOOLEAN  BY DEF Init
  <2>2. QED
    BY SMT, <1>1, <2>1, MaxAssumption DEF Init, TypeOK, Rmd1, Owner, RmdFlags, NoPart
<1>3. QED
  BY <1>1, <1>2 DEF Init, IInv, LocalIsHost, PartInHand, ExclusiveBuffers

\* What gotfunc() writes back when it finds no buffer gives nothing away.
LEMMA WrittenBack ==
    ASSUME IInv, RxNoBuffer
    PROVE  /\ rmd1' \in [Slots -> Rmd1]
           /\ \A i \in Slots : rmd1'[i].own \in {rmd1[i].own, "host"}
<1> DEFINE cut == [local EXCEPT !.flags = @ \cup {"BUFF", "OFLO"}]
<1>1. local \in Rmd1 /\ local.own = "host"
  BY DEF IInv, TypeOK, LocalIsHost, RxNoBuffer
<1>2. cut \in Rmd1 /\ cut.own = "host"
  BY <1>1 DEF Rmd1, RmdFlags
<1>3. PICK w \in {local, cut} : rmd1' = [rmd1 EXCEPT ![slot] = w]
  BY DEF RxNoBuffer
<1> HIDE DEF cut
<1>4. rmd1 \in [Slots -> Rmd1] /\ slot \in Slots
  BY DEF IInv, TypeOK
<1>5. QED  BY <1>1, <1>2, <1>3, <1>4

\* Types are kept by every step.
LEMMA TypeKept == IInv /\ [Next]_vars => TypeOK'
<1> SUFFICES ASSUME IInv, [Next]_vars PROVE TypeOK'
  OBVIOUS
<1> USE MaxAssumption DEF IInv, TypeOK, PartInHand, FrameIds, PartNos
<1>1. ASSUME NEW n \in PartNos, RxFrame(n) PROVE TypeOK'
  <2>1. arrived < MaxFrames => Parts(arrived + 1, n) \in Seq(Part)
    BY SMT, PartsType
  <2>2. accepted' \in Seq(Part)
    <3>1. CASE "RXON" \in csr0
      <4>1. accepted' = accepted \o Parts(arrived + 1, n)
        BY <1>1, <3>1 DEF RxFrame
      <4>2. accepted \in Seq(Part) /\ Parts(arrived + 1, n) \in Seq(Part)
        BY <1>1, <2>1 DEF RxFrame
      <4> HIDE DEF IInv, TypeOK
      <4>3. QED  BY SMT, <4>1, <4>2
    <3>2. CASE "RXON" \notin csr0
      BY <1>1, <3>2 DEF RxFrame
    <3>3. QED  BY <3>1, <3>2
  <2>3. /\ arrived' \in 0 .. MaxFrames
        /\ cur' \in [frame : 0 .. MaxFrames, of : 0 .. MaxParts]
        /\ insize' \in 0 .. MaxParts
        /\ pc' \in {"fetch", pc}
    <3>1. /\ arrived \in 0 .. MaxFrames /\ n \in 1 .. MaxParts
          /\ cur \in [frame : 0 .. MaxFrames, of : 0 .. MaxParts]
          /\ insize \in 0 .. MaxParts
      OBVIOUS
    <3> HIDE DEF IInv, TypeOK, PartInHand
    <3>2. QED  BY SMT, <1>1, <3>1 DEF RxFrame
  <2>4. UNCHANGED <<rmd1, mcnt, buf, csr0, rdr_offset, slot, local, hpc, hoff,
                    hflags, taken, wiped>>
    BY <1>1 DEF RxFrame, hostVars
  <2>5. QED  BY <2>2, <2>3, <2>4
<1>2. CASE RxFetch
  BY SMT, <1>2, NextSlot DEF RxFetch, hostVars, Rmd1, Owner, RmdFlags
<1>3. CASE RxNoBuffer
  <2>1. csr0' \in SUBSET {"RXON", "RINT", "MISS", "INTR"}
    BY <1>3 DEF RxNoBuffer, Rethink
  <2>2. rmd1' \in [Slots -> Rmd1]
    BY <1>3, WrittenBack
  <2>3. QED  BY <1>3, <2>1, <2>2 DEF RxNoBuffer, hostVars
<1>4. CASE RxCopy
  <2>1. [frame |-> cur.frame, no |-> insize + 1, of |-> cur.of] \in Part
    BY SMT, <1>4 DEF RxCopy, Part
  <2>2. local' \in Rmd1
    BY <1>4 DEF RxCopy, Rmd1, RmdFlags
  <2>3. buf' \in [Slots -> Part \cup {NoPart}]
    BY <1>4, <2>1 DEF RxCopy
  <2>4. QED  BY SMT, <1>4, <2>2, <2>3 DEF RxCopy, hostVars
<1>5. CASE RxWriteRmd1
  BY <1>5 DEF RxWriteRmd1, hostVars
<1>6. CASE RxWriteRmd3
  <2>1. csr0' \in SUBSET {"RXON", "RINT", "MISS", "INTR"}
    BY <1>6 DEF RxWriteRmd3, Rethink
  <2>2. QED  BY <1>6, <2>1 DEF RxWriteRmd3, hostVars
<1>7. CASE HostPoll
  BY <1>7 DEF HostPoll, chipVars, Rmd1
<1>8. CASE HostRead
  <2>1. taken' \in Seq(Part \cup {NoPart})
    BY SMT, <1>8 DEF HostRead
  <2>2. QED  BY <1>8, <2>1 DEF HostRead, chipVars
<1>9. CASE HostRefill
  <2>1. rmd1' \in [Slots -> Rmd1]
    BY <1>9 DEF HostRefill, Rmd1, Owner
  <2>2. QED  BY <1>9, <2>1, NextSlot DEF HostRefill, chipVars
<1>10. CASE HostAck
  <2>1. csr0' \in SUBSET {"RXON", "RINT", "MISS", "INTR"}
    BY <1>10 DEF HostAck, Rethink, Latch, CommandBits
  <2>2. QED  BY <1>10, <2>1 DEF HostAck, chipVars, hostVars
<1>11. CASE UNCHANGED vars
  BY <1>11 DEF vars, chipVars, hostVars
<1>12. QED
  BY <1>1, <1>2, <1>3, <1>4, <1>5, <1>6, <1>7, <1>8, <1>9, <1>10, <1>11
     DEF Next, Gotfunc, Host

\* The ownership invariant is kept by every step of either side.
LEMMA OwnershipKept ==
    IInv /\ [Next]_vars => (LocalIsHost /\ PartInHand /\ ExclusiveBuffers)'
<1> SUFFICES ASSUME IInv, [Next]_vars
             PROVE  (LocalIsHost /\ PartInHand /\ ExclusiveBuffers)'
  OBVIOUS
<1> USE MaxAssumption
    DEF IInv, TypeOK, LocalIsHost, PartInHand, ExclusiveBuffers, FrameIds, PartNos,
        Rmd1, Owner
<1>1. ASSUME NEW n \in PartNos, RxFrame(n)
      PROVE (LocalIsHost /\ PartInHand /\ ExclusiveBuffers)'
  <2>1. pc' = "idle" \/ pc' = "fetch"
    BY <1>1 DEF RxFrame
  <2>2. PartInHand'
    <3>1. CASE "RXON" \in csr0
      <4>1. pc' = "fetch" /\ cur' = [frame |-> arrived + 1, of |-> n] /\ insize' = 0
        BY <1>1, <3>1 DEF RxFrame
      <4>2. arrived + 1 \in 1 .. MaxFrames
        BY SMT, <1>1 DEF RxFrame
      <4>3. QED  BY SMT, <4>1, <4>2
    <3>2. CASE "RXON" \notin csr0
      <4>1. pc' = "idle"
        BY <1>1, <3>2 DEF RxFrame
      <4>2. QED  BY <4>1
    <3>3. QED  BY <3>1, <3>2
  <2>3. UNCHANGED <<rmd1, hpc, hoff>>
    BY <1>1 DEF RxFrame, hostVars
  <2>4. QED  BY <2>1, <2>2, <2>3
<1>2. CASE RxFetch
  BY SMT, <1>2 DEF RxFetch, hostVars
<1>3. CASE RxNoBuffer
  <2>1. pc' = "idle" /\ UNCHANGED <<hpc, hoff>>
    BY <1>3 DEF RxNoBuffer, hostVars
  <2>2. \A i \in Slots : rmd1'[i].own \in {rmd1[i].own, "host"}
    BY <1>3, WrittenBack
  <2>3. QED  BY <2>1, <2>2
<1>4. CASE RxCopy
  BY SMT, <1>4 DEF RxCopy, hostVars
<1>5. CASE RxWriteRmd1
  BY <1>5 DEF RxWriteRmd1, hostVars
<1>6. CASE RxWriteRmd3
  BY SMT, <1>6 DEF RxWriteRmd3, hostVars
<1>7. CASE HostPoll
  BY <1>7 DEF HostPoll, chipVars
<1>8. CASE HostRead
  BY <1>8 DEF HostRead, chipVars
<1>9. CASE HostRefill
  BY <1>9 DEF HostRefill, chipVars
<1>10. CASE HostAck
  BY <1>10 DEF HostAck, chipVars, hostVars
<1>11. CASE UNCHANGED vars
  BY <1>11 DEF vars, chipVars, hostVars
<1>12. QED
  BY <1>1, <1>2, <1>3, <1>4, <1>5, <1>6, <1>7, <1>8, <1>9, <1>10, <1>11
     DEF Next, Gotfunc, Host

\* gotfunc() and the driver never use a buffer at the same time: the chip
\* writes one only while its descriptor is the chip's, the driver reads one
\* only while it is the driver's, even when the ring overruns.
THEOREM BuffersAreExclusive == Spec => [](TypeOK /\ ExclusiveBuffers)
<1>1. IInv /\ [Next]_vars => IInv'
  BY TypeKept, OwnershipKept DEF IInv
<1>2. IInv => TypeOK /\ ExclusiveBuffers
  BY DEF IInv
<1>3. QED
  BY <1>1, <1>2, InitEstablishes, PTL DEF Spec

\* Ring, thread and driver keep to their values, offsets within the ring.
THEOREM RingTyped == Spec => []TypeOK
  BY BuffersAreExclusive, PTL

-----------------------------------------------------------------------------
(* The byte counts.                                                        *)

\* A descriptor the driver has given back carries no flags, so ENP is the mark of
\* the last part; its count is written next, and before that of any other.
CountInv ==
    /\ \A i \in Slots :
         /\ rmd1[i].own = "chip" => rmd1[i].flags = {}
         /\ "ENP" \in rmd1[i].flags =>
              mcnt[i] = buf[i].of \/ (pc = "writeRmd3" /\ slot = i)
    /\ pc = "copy" => "ENP" \notin local.flags
    /\ pc = "writeRmd1" => ("ENP" \in local.flags => insize = cur.of)
    /\ pc = "writeRmd3" => ("ENP" \in rmd1[slot].flags => insize = cur.of)
    /\ pc \in {"writeRmd1", "writeRmd3"} => buf[slot].of = cur.of
    /\ pc = "noBuffer" =>
         /\ "ENP" \in local.flags => mcnt[slot] = buf[slot].of
         /\ rmd1[slot].own = "host" => local = rmd1[slot]
    /\ hpc = "read" /\ "ENP" \in hflags => "ENP" \in rmd1[hoff].flags

\* CountInv is inductive.
LEMMA CountKept == IInv /\ CountInv /\ [Next]_vars => CountInv'
<1> SUFFICES ASSUME IInv, CountInv, [Next]_vars PROVE CountInv'
  OBVIOUS
<1>0. /\ rmd1 \in [Slots -> Rmd1] /\ slot \in Slots /\ hoff \in Slots /\ rdr_offset \in Slots
      /\ mcnt \in [Slots -> 0 .. MaxParts] /\ buf \in [Slots -> Part \cup {NoPart}]
      /\ local \in Rmd1 /\ \A i \in Slots : rmd1[i] \in Rmd1
  BY DEF IInv, TypeOK
<1>1. ASSUME NEW n \in PartNos, RxFrame(n) PROVE CountInv'
  <2>1. /\ UNCHANGED <<rmd1, mcnt, buf, slot, hpc, hoff, hflags>>
        /\ pc = "idle" /\ pc' \in {"idle", "fetch"}
    BY <1>1 DEF RxFrame, hostVars
  <2>2. QED  BY <2>1 DEF CountInv
<1>2. CASE RxFetch
  <2>1. /\ UNCHANGED <<rmd1, mcnt, buf, hpc, hoff, hflags>> /\ slot' = rdr_offset
        /\ pc = "fetch" /\ pc' \in {"copy", "noBuffer"}
        /\ pc' = "copy" => rmd1[slot'].own = "chip" /\ local'.flags \subseteq rmd1[slot'].flags \cup {"STP"}
        /\ pc' = "noBuffer" => local' = rmd1[slot']
    BY SMT, <1>2 DEF RxFetch, hostVars
  <2>2. QED  BY <1>0, <2>1 DEF CountInv
<1>3. CASE RxNoBuffer
  <2>1. /\ UNCHANGED <<mcnt, buf, slot, hpc, hoff, hflags>> /\ pc = "noBuffer" /\ pc' = "idle"
        /\ local.own = "host"
    BY <1>3 DEF RxNoBuffer, hostVars, IInv, LocalIsHost
  <2>2. PICK w \in Rmd1 :
          /\ rmd1' = [rmd1 EXCEPT ![slot] = w] /\ w.own = "host"
          /\ "ENP" \in w.flags <=> "ENP" \in local.flags
    <3> DEFINE cut == [local EXCEPT !.flags = @ \cup {"BUFF", "OFLO"}]
    <3>1. /\ cut \in Rmd1 /\ cut.own = local.own
          /\ "ENP" \in cut.flags <=> "ENP" \in local.flags
      BY <1>0 DEF Rmd1, RmdFlags
    <3>2. rmd1' = [rmd1 EXCEPT ![slot] = local] \/ rmd1' = [rmd1 EXCEPT ![slot] = cut]
      BY <1>3 DEF RxNoBuffer
    <3> HIDE DEF cut
    <3>3. QED  BY <1>0, <2>1, <3>1, <3>2
  <2>3. hpc = "read" /\ hoff = slot => local = rmd1[slot]
    BY <2>1 DEF CountInv, IInv, ExclusiveBuffers
  <2>4. QED  BY <1>0, <2>1, <2>2, <2>3 DEF CountInv
<1>4. CASE RxCopy
  <2>1. /\ UNCHANGED <<rmd1, mcnt, slot, cur, hpc, hoff, hflags>>
        /\ pc = "copy" /\ pc' = "writeRmd1"
        /\ buf' = [buf EXCEPT ![slot] = [frame |-> cur.frame, no |-> insize + 1, of |-> cur.of]]
        /\ "ENP" \in local'.flags /\ "ENP" \notin local.flags => insize' = cur.of
    BY <1>4 DEF RxCopy, hostVars
  <2>2. rmd1[slot].flags = {}  BY <1>0, <2>1 DEF IInv, ExclusiveBuffers, CountInv
  <2>3. QED  BY <1>0, <2>1, <2>2 DEF CountInv
<1>5. CASE RxWriteRmd1
  <2>1. /\ UNCHANGED <<mcnt, buf, slot, cur, insize, hpc, hoff, hflags>>
        /\ pc = "writeRmd1" /\ pc' = "writeRmd3" /\ rmd1' = [rmd1 EXCEPT ![slot] = local]
        /\ local.own = "host" /\ (hpc = "read" => hoff # slot)
    BY <1>5 DEF RxWriteRmd1, hostVars, IInv, LocalIsHost, ExclusiveBuffers
  <2>2. QED  BY <1>0, <2>1 DEF CountInv
<1>6. CASE RxWriteRmd3
  <2>1. /\ UNCHANGED <<rmd1, buf, slot, hpc, hoff, hflags>>
        /\ pc = "writeRmd3" /\ pc' \in {"idle", "fetch"}
        /\ IF insize = cur.of THEN mcnt' = [mcnt EXCEPT ![slot] = cur.of] ELSE mcnt' = mcnt
    BY <1>6 DEF RxWriteRmd3, hostVars
  <2>2. QED  BY <1>0, <2>1 DEF CountInv
<1>7. CASE HostPoll
  BY <1>0, <1>7 DEF HostPoll, chipVars, CountInv
<1>8. CASE HostRead
  BY <1>0, <1>8 DEF HostRead, chipVars, CountInv
<1>9. CASE HostRefill
  <2>1. /\ UNCHANGED <<mcnt, buf, slot, cur, insize, local, pc>> /\ hpc' = "poll"
        /\ rmd1' = [rmd1 EXCEPT ![hoff] = [own |-> "chip", flags |-> {}]]
    BY <1>9 DEF HostRefill, chipVars
  <2>2. QED  BY <1>0, <2>1 DEF CountInv
<1>10. CASE HostAck
  BY <1>10 DEF HostAck, chipVars, hostVars, CountInv
<1>11. CASE UNCHANGED vars
  BY <1>11 DEF vars, chipVars, hostVars, CountInv
<1>12. QED
  BY <1>1, <1>2, <1>3, <1>4, <1>5, <1>6, <1>7, <1>8, <1>9, <1>10, <1>11
     DEF Next, Gotfunc, Host

\* The byte count that the driver finds with the last part of a frame is the one
\* of that frame, but for the moment between the two words gotfunc() writes; for
\* a ring of any size, and also after missed and cut off frames.
THEOREM CountsAreOwn == Spec => []CountsSettled
<1>1. Init => CountInv
  BY SMT DEF Init, CountInv
<1>2. IInv /\ [Next]_vars => IInv'
  BY TypeKept, OwnershipKept DEF IInv
<1>3. IInv /\ CountInv => CountsSettled
  BY DEF IInv, TypeOK, CountInv, CountsSettled
<1>4. QED
  BY <1>1, <1>2, <1>3, InitEstablishes, CountKept, PTL DEF Spec

-----------------------------------------------------------------------------
(* Where the two sides are in the ring.                                    *)

\* The descriptor gotfunc() hands over next.
Front == IF pc \in {"copy", "writeRmd1"} THEN slot ELSE rdr_offset

\* i is in the part of the ring from a up to, not including, b.
Within(a, b, i) == IF a < b THEN a <= i /\ i < b ELSE a <= i \/ i < b

\* Until gotfunc() wrote over a refill, the driver has the descriptors from its
\* own next one up to gotfunc()'s: all or none of them when the two are the same.
PlaceInv ==
    ~wiped =>
      /\ pc \in {"copy", "writeRmd1"} => rdr_offset = (slot + 1) % N
      /\ pc = "noBuffer" => slot = rdr_offset
      /\ \A i \in Slots :
           rmd1[i].own = "host" <=>
             IF hoff = Front THEN rmd1[hoff].own = "host" ELSE Within(hoff, Front, i)

\* The next descriptor, without the modulus.
LEMMA Successor ==
    ASSUME NEW i \in Slots
    PROVE  (i + 1) % N = IF i = N - 1 THEN 0 ELSE i + 1
  BY SMT, NAssumption DEF Slots

\* PlaceInv is inductive.
LEMMA PlaceKept == IInv /\ PlaceInv /\ [Next]_vars => PlaceInv'
<1> SUFFICES ASSUME IInv, PlaceInv, [Next]_vars, ~wiped' PROVE PlaceInv'
  BY DEF PlaceInv
<1>0. /\ rmd1 \in [Slots -> Rmd1] /\ slot \in Slots /\ hoff \in Slots /\ rdr_offset \in Slots
      /\ N \in Nat \ {0} /\ Front \in Slots
      /\ \A i \in Slots : rmd1[i].own \in {"chip", "host"}
  BY NAssumption DEF IInv, TypeOK, Front, Rmd1, Owner
<1>a. \A i \in Slots : i \in Nat /\ i < N  BY SMT, <1>0 DEF Slots
\* A step that leaves the owners and both places alone.
<1>1. ASSUME ~wiped, UNCHANGED <<rdr_offset, hoff>>, Front' = Front,
             \A i \in Slots : rmd1'[i].own = rmd1[i].own,
             pc' \in {"copy", "writeRmd1"} => rdr_offset = (slot' + 1) % N,
             pc' = "noBuffer" => slot' = rdr_offset
      PROVE  PlaceInv'
  BY <1>0, <1>1 DEF PlaceInv, Within
<1>2. ASSUME NEW n \in PartNos, RxFrame(n) PROVE PlaceInv'
  <2>1. /\ UNCHANGED <<rmd1, rdr_offset, slot, hoff, wiped>>
        /\ pc = "idle" /\ pc' \in {"idle", "fetch"}
    BY <1>2 DEF RxFrame, hostVars
  <2>2. Front' = Front  BY <2>1 DEF Front
  <2>3. QED  BY <1>1, <2>1, <2>2
<1>3. CASE RxFetch
  <2>1. /\ UNCHANGED <<rmd1, hoff, wiped>> /\ slot' = rdr_offset /\ pc = "fetch"
        /\ \/ pc' = "copy" /\ rdr_offset' = (rdr_offset + 1) % N
           \/ pc' = "noBuffer" /\ rdr_offset' = rdr_offset
    BY <1>3 DEF RxFetch, hostVars
  <2>2. Front' = Front  BY <2>1 DEF Front
  <2>3. QED  BY <1>0, <2>1, <2>2 DEF PlaceInv, Within
<1>4. CASE RxNoBuffer
  <2>1. /\ UNCHANGED <<rdr_offset, slot, hoff>> /\ pc = "noBuffer" /\ pc' = "idle"
    BY <1>4 DEF RxNoBuffer, hostVars
  <2>2. ~wiped /\ rmd1[slot].own # "chip"  BY <1>4 DEF RxNoBuffer
  <2>3. \A i \in Slots : rmd1'[i].own = rmd1[i].own
    <3>1. \A i \in Slots : rmd1'[i].own \in {rmd1[i].own, "host"}  BY <1>4, WrittenBack
    <3>2. \A i \in Slots : i # slot => rmd1'[i] = rmd1[i]  BY <1>0, <1>4 DEF RxNoBuffer
    <3>3. QED  BY <1>0, <2>2, <3>1, <3>2
  <2>4. Front' = Front  BY <2>1 DEF Front
  <2>5. QED  BY <1>1, <2>1, <2>2, <2>3, <2>4
<1>5. CASE RxCopy
  <2>1. /\ UNCHANGED <<rmd1, rdr_offset, slot, hoff, wiped>> /\ pc = "copy" /\ pc' = "writeRmd1"
    BY <1>5 DEF RxCopy, hostVars
  <2>2. Front' = Front  BY <2>1 DEF Front
  <2>3. QED  BY <1>1, <2>1, <2>2 DEF PlaceInv
\* The descriptor in front goes to the driver, and the front moves on.
<1>6. CASE RxWriteRmd1
  <2>1. /\ UNCHANGED <<rdr_offset, slot, hoff, wiped>> /\ pc = "writeRmd1" /\ pc' = "writeRmd3"
        /\ rmd1' = [rmd1 EXCEPT ![slot] = local]
        /\ local.own = "host" /\ rmd1[slot].own = "chip"
    BY <1>6 DEF RxWriteRmd1, hostVars, IInv, LocalIsHost, ExclusiveBuffers
  <2>2. Front = slot /\ Front' = rdr_offset
    BY <2>1 DEF Front
  <2>3. rdr_offset = IF slot = N - 1 THEN 0 ELSE slot + 1
    BY <1>0, <2>1, Successor DEF PlaceInv
  <2>4. \A i \in Slots : rmd1'[i].own = IF i = slot THEN "host" ELSE rmd1[i].own
    BY <1>0, <2>1
  <2>5. ASSUME NEW i \in Slots
        PROVE  rmd1'[i].own = "host" <=>
                 IF hoff' = Front' THEN rmd1'[hoff].own = "host" ELSE Within(hoff', Front', i)
    <3>1. hoff = slot => rmd1[i].own = "chip"
      BY <1>0, <2>1, <2>2 DEF PlaceInv
    <3>2. \A j \in Slots : hoff # slot => (rmd1[j].own = "host" <=> Within(hoff, slot, j))
      BY <1>0, <2>1, <2>2 DEF PlaceInv
    <3>3. CASE hoff = slot
      BY SMT, <1>0, <1>a, <2>1, <2>2, <2>3, <2>4, <3>1, <3>3 DEF Within
    <3>4. CASE hoff # slot
      <4>1. CASE hoff = rdr_offset
        BY SMT, <1>0, <1>a, <2>1, <2>2, <2>3, <2>4, <3>2, <3>4, <4>1 DEF Within
      <4>2. CASE hoff # rdr_offset
        BY SMT, <1>0, <1>a, <2>1, <2>2, <2>3, <2>4, <3>2, <3>4, <4>2 DEF Within
      <4>3. QED  BY <4>1, <4>2
    <3>5. QED  BY <3>3, <3>4
  <2>6. QED  BY <2>1, <2>5 DEF PlaceInv
<1>7. CASE RxWriteRmd3
  <2>1. /\ UNCHANGED <<rmd1, rdr_offset, slot, hoff, wiped>>
        /\ pc = "writeRmd3" /\ pc' \in {"idle", "fetch"}
    BY <1>7 DEF RxWriteRmd3, hostVars
  <2>2. Front' = Front  BY <2>1 DEF Front
  <2>3. QED  BY <1>1, <2>1, <2>2
<1>8. CASE HostPoll \/ HostRead \/ HostAck \/ UNCHANGED vars
  <2>1. UNCHANGED <<rmd1, rdr_offset, slot, hoff, pc, wiped>>
    BY <1>8 DEF HostPoll, HostRead, HostAck, chipVars, hostVars, vars
  <2>2. Front' = Front  BY <2>1 DEF Front
  <2>3. QED  BY <1>1, <2>1, <2>2 DEF PlaceInv
\* The driver's descriptor goes to the chip, and the driver moves on.
<1>9. CASE HostRefill
  <2>1. /\ UNCHANGED <<rdr_offset, slot, pc, wiped>>
        /\ rmd1' = [rmd1 EXCEPT ![hoff] = [own |-> "chip", flags |-> {}]]
        /\ hoff' = (hoff + 1) % N /\ rmd1[hoff].own = "host"
    BY <1>9 DEF HostRefill, chipVars, IInv, ExclusiveBuffers
  <2>2. Front' = Front  BY <2>1 DEF Front
  <2>3. hoff' = IF hoff = N - 1 THEN 0 ELSE hoff + 1  BY <1>0, <2>1, Successor
  <2>4. \A i \in Slots : rmd1'[i].own = IF i = hoff THEN "chip" ELSE rmd1[i].own
    BY <1>0, <2>1
  <2>5. hoff' \in Slots  BY SMT, <1>0, <2>3 DEF Slots
  <2>6. ASSUME NEW i \in Slots
        PROVE  rmd1'[i].own = "host" <=>
                 IF hoff' = Front' THEN rmd1'[hoff'].own = "host" ELSE Within(hoff', Front', i)
    <3>1. \A j \in Slots : hoff = Front => rmd1[j].own = "host"
      BY <1>0, <2>1 DEF PlaceInv
    <3>2. \A j \in Slots : hoff # Front => (rmd1[j].own = "host" <=> Within(hoff, Front, j))
      BY <1>0, <2>1 DEF PlaceInv
    <3>3. CASE hoff = Front
      BY SMT, <1>0, <1>a, <2>1, <2>2, <2>3, <2>4, <2>5, <3>1, <3>3 DEF Within
    <3>4. CASE hoff # Front
      <4>1. CASE hoff' = Front
        BY SMT, <1>0, <1>a, <2>1, <2>2, <2>3, <2>4, <2>5, <3>2, <3>4, <4>1 DEF Within
      <4>2. CASE hoff' # Front
        BY SMT, <1>0, <1>a, <2>1, <2>2, <2>3, <2>4, <2>5, <3>2, <3>4, <4>2 DEF Within
      <4>3. QED  BY <4>1, <4>2
    <3>5. QED  BY <3>3, <3>4
  <2>7. QED  BY <2>1, <2>6 DEF PlaceInv
<1>10. QED
  BY <1>2, <1>3, <1>4, <1>5, <1>6, <1>7, <1>8, <1>9 DEF Next, Gotfunc, Host

\* When both sides wait, they wait at the same descriptor, in a ring of any size
\* and after any number of missed and cut off frames, as long as gotfunc() has not
\* written over a descriptor that the driver had handed over in the meantime.
THEOREM SidesMeet == Spec => []SidesAgree
<1>1. Init => PlaceInv
  <2> SUFFICES ASSUME Init PROVE PlaceInv
    OBVIOUS
  <2>1. 0 \in Slots  BY SMT, NAssumption DEF Slots
  <2>2. pc = "idle" /\ hoff = 0 /\ Front = 0 /\ \A i \in Slots : rmd1[i].own = "chip"
    BY DEF Init, Front
  <2>3. QED  BY <2>1, <2>2 DEF PlaceInv
<1>2. IInv /\ [Next]_vars => IInv'
  BY TypeKept, OwnershipKept DEF IInv
<1>3. IInv /\ PlaceInv => SidesAgree
  <2> SUFFICES ASSUME IInv, PlaceInv, ~wiped, pc = "idle", rmd1[hoff].own = "chip"
               PROVE  rdr_offset = hoff
    BY DEF SidesAgree
  <2>1. hoff \in Slots /\ rdr_offset \in Slots /\ Front = rdr_offset
    BY DEF IInv, TypeOK, Front
  <2>2. hoff # Front => Within(hoff, Front, hoff)
    BY SMT, <2>1, NAssumption DEF Within, Slots
  <2>3. QED  BY <2>1, <2>2 DEF PlaceInv
<1>4. QED
  BY <1>1, <1>2, <1>3, InitEstablishes, PlaceKept, PTL DEF Spec

-----------------------------------------------------------------------------
(* The ring as a queue, for a driver that keeps up.                        *)

\* Parts of the frame in hand that the driver has yet to be given.
Left == IF pc = "idle" THEN 0 ELSE IF pc = "writeRmd1" THEN cur.of - insize + 1 ELSE cur.of - insize

\* Parts whose descriptor the driver has given back, and those it has or may have.
Returned == IF hpc = "refill" THEN Len(taken) - 1 ELSE Len(taken)
Count == Len(accepted) - Left - Returned

Wrap(k) == IF k < N THEN k ELSE k - N

\* How far descriptor i is ahead of the driver.
Dist(i) == IF hoff <= i THEN i - hoff ELSE i - hoff + N

\* The driver has the Count descriptors from its own next one on, in the order of the
\* parts accepted, and there is room for the rest of the frame in hand.
QueueInv ==
    /\ pc # "noBuffer" /\ "RXON" \in csr0
    /\ pc \in {"copy", "writeRmd1"} => rdr_offset = (slot + 1) % N
    /\ Left >= 0 /\ Left <= Len(accepted) /\ Returned >= 0
    /\ Count >= 0 /\ Count + Left <= N
    /\ Front = Wrap(hoff + Count)
    /\ \A i \in Slots : rmd1[i].own = "host" <=> Dist(i) < Count
    /\ \A i \in Slots : Dist(i) < Count => buf[i] = accepted[Returned + Dist(i) + 1]
    /\ pc # "idle" =>
         /\ cur.of <= Len(accepted)
         /\ \A j \in 1 .. cur.of :
              accepted[Len(accepted) - cur.of + j] = [frame |-> cur.frame, no |-> j, of |-> cur.of]
    /\ pc = "writeRmd1" => insize > 0 /\ buf[slot] = [frame |-> cur.frame, no |-> insize, of |-> cur.of]

\* The numbers the arithmetic below is about.
LEMMA Numbers ==
    ASSUME IInv
    PROVE  /\ N \in Nat \ {0} /\ N \in Nat /\ Slots = 0 .. N - 1
           /\ hoff \in Slots /\ slot \in Slots /\ rdr_offset \in Slots /\ Front \in Slots
           /\ hoff \in Nat /\ hoff < N /\ rdr_offset \in Nat /\ rdr_offset < N
           /\ accepted \in Seq(Part) /\ Len(accepted) \in Nat
           /\ taken \in Seq(Part \cup {NoPart}) /\ Len(taken) \in Nat
           /\ cur.of \in Nat /\ insize \in Nat
           /\ Left \in Int /\ Returned \in Int /\ Count \in Int
           /\ \A i \in Slots : Dist(i) \in Nat /\ Dist(i) \in Int /\ Dist(i) < N
<1>1. /\ N \in Nat \ {0} /\ Slots = 0 .. N - 1
      /\ hoff \in Slots /\ slot \in Slots /\ rdr_offset \in Slots /\ Front \in Slots
  BY NAssumption DEF IInv, TypeOK, Slots, Front
<1>2. N \in Nat /\ hoff \in Nat /\ hoff < N /\ rdr_offset \in Nat /\ rdr_offset < N
  BY SMT, <1>1
<1>3. accepted \in Seq(Part) /\ taken \in Seq(Part \cup {NoPart})
  BY DEF IInv, TypeOK
<1>4. Len(accepted) \in Nat /\ Len(taken) \in Nat
  BY <1>3, LenProperties
<1>5. cur.of \in Nat /\ insize \in Nat
  <2>1. cur.of \in 0 .. MaxParts /\ insize \in 0 .. MaxParts  BY DEF IInv, TypeOK
  <2>2. QED  BY SMT, <2>1, MaxAssumption
<1>6. Left \in Int /\ Returned \in Int  BY SMT, <1>4, <1>5 DEF Left, Returned
<1>7. Count \in Int  BY SMT, <1>4, <1>6 DEF Count
<1>8. \A i \in Slots : Dist(i) \in Nat /\ Dist(i) \in Int /\ Dist(i) < N
  BY SMT, <1>1, <1>2 DEF Dist
<1>9. QED  BY <1>1, <1>2, <1>3, <1>4, <1>5, <1>6, <1>7, <1>8

\* An offset less than twice round the ring.
LEMMA Modulus == ASSUME NEW a \in Nat, a < 2 * N PROVE a % N = Wrap(a)
  BY SMT, NAssumption DEF Wrap

\* A frame for which RoomFor holds fits between the two sides.
LEMMA RoomIsEnough ==
    ASSUME IInv, QueueInv, pc = "idle", NEW n \in PartNos, RoomFor(n)
    PROVE  Count + n <= N
<1>0. /\ N \in Nat /\ hoff \in Nat /\ hoff < N /\ rdr_offset \in Nat /\ rdr_offset < N
      /\ Count \in Int /\ hoff \in Slots
  BY Numbers
<1>1. /\ n \in Nat \ {0} /\ n <= N
      /\ \A k \in 0 .. n - 1 : rmd1[(rdr_offset + k) % N].own = "chip"
  BY SMT, MaxAssumption DEF RoomFor, PartNos
<1>2. rdr_offset = Wrap(hoff + Count) /\ Count >= 0 /\ Count <= N
  <2>1. /\ rdr_offset = Wrap(hoff + Count) /\ Count >= 0 /\ Count + Left <= N
        /\ Left = 0
    BY DEF QueueInv, Front, Left
  <2>2. QED  BY SMT, <1>0, <2>1
<1> SUFFICES ASSUME Count + n > N PROVE FALSE
  BY SMT, <1>0, <1>1
<1>3. PICK k \in 0 .. n - 1 : k = N - Count
  BY SMT, <1>0, <1>1, <1>2
<1>4. (rdr_offset + k) % N = hoff
  <2>2. PICK a \in Nat : a = rdr_offset + k /\ a < 2 * N
    BY SMT, <1>0, <1>1, <1>3
  <2>3. a = hoff \/ a = hoff + N
    BY SMT, <1>0, <1>2, <1>3, <2>2 DEF Wrap
  <2>4. Wrap(a) = hoff  BY SMT, <1>0, <2>2, <2>3 DEF Wrap
  <2>5. QED  BY <2>2, <2>4, Modulus
<1>5. rmd1[hoff].own = "chip"  BY <1>1, <1>3, <1>4
<1>6. Dist(hoff) = 0  BY SMT, <1>0 DEF Dist
<1>7. 0 < Count  BY SMT, <1>0, <1>1, <1>3
<1>8. QED  BY <1>0, <1>5, <1>6, <1>7 DEF QueueInv

\* A step that moves neither side keeps the queue.
LEMMA StillKept ==
    ASSUME IInv, QueueInv, UNCHANGED <<hoff, accepted>>, Front' = Front, Left' = Left, Returned' = Returned,
           \A i \in Slots : rmd1'[i].own = rmd1[i].own,
           \A i \in Slots : Dist(i) < Count => buf'[i] = buf[i],
           pc' # "noBuffer", "RXON" \in csr0',
           (pc \in {"copy", "writeRmd1"} => rdr_offset = (slot + 1) % N)',
           pc' # "idle" => pc # "idle" /\ cur' = cur,
           (pc = "writeRmd1" => insize > 0 /\ buf[slot] = [frame |-> cur.frame, no |-> insize, of |-> cur.of])'
    PROVE  QueueInv'
<1>1. Count' = Count  BY DEF Count
<1>2. \A i : Dist(i)' = Dist(i)  BY DEF Dist
<1>3. (\A i \in Slots : rmd1[i].own = "host" <=> Dist(i) < Count)'
  BY <1>1, <1>2 DEF QueueInv
<1>4. (\A i \in Slots : Dist(i) < Count => buf[i] = accepted[Returned + Dist(i) + 1])'
  BY <1>1, <1>2 DEF QueueInv
<1>5. (Left >= 0 /\ Left <= Len(accepted) /\ Returned >= 0 /\ Count >= 0 /\ Count + Left <= N)'
  BY <1>1 DEF QueueInv
<1>6. (Front = Wrap(hoff + Count))'
  BY <1>1 DEF QueueInv, Wrap
<1>7. (pc # "idle" =>
         /\ cur.of <= Len(accepted)
         /\ \A j \in 1 .. cur.of :
              accepted[Len(accepted) - cur.of + j] = [frame |-> cur.frame, no |-> j, of |-> cur.of])'
  BY DEF QueueInv
<1>8. QED  BY <1>3, <1>4, <1>5, <1>6, <1>7 DEF QueueInv

\* The queue as a frame comes in.
LEMMA FrameQueues ==
    ASSUME IInv, QueueInv, Paced, NEW n \in PartNos, RxFrame(n)
    PROVE  /\ QueueInv'
           /\ n \in Nat \ {0} /\ accepted' \in Seq(Part) /\ Len(accepted') = Len(accepted) + n
           /\ \A j \in 1 .. Len(accepted) : accepted'[j] = accepted[j]
<1> DEFINE p == Parts(arrived + 1, n)
<1>1. /\ pc = "idle" /\ pc' = "fetch" /\ cur' = [frame |-> arrived + 1, of |-> n] /\ insize' = 0
      /\ accepted' = accepted \o p /\ RoomFor(n)
      /\ UNCHANGED <<rmd1, buf, csr0, rdr_offset, hoff, hpc, taken>>
      /\ arrived < MaxFrames
  BY DEF QueueInv, RxFrame, hostVars
<1>2. n \in Nat \ {0}  BY SMT, MaxAssumption DEF PartNos
<1>3. arrived + 1 \in FrameIds  BY SMT, <1>1, MaxAssumption DEF IInv, TypeOK, FrameIds
<1>4. p \in Seq(Part) /\ Len(p) = n /\ \A j \in 1 .. n : p[j] = [frame |-> arrived + 1, no |-> j, of |-> n]
  <2>1. p \in Seq(Part)  BY <1>3, PartsType
  <2>2. QED  BY SMT, <1>2, <2>1 DEF Parts
<1> HIDE DEF p
<1>5. /\ accepted' \in Seq(Part) /\ Len(accepted') = Len(accepted) + n
      /\ \A j \in 1 .. Len(accepted) + n :
           accepted'[j] = IF j <= Len(accepted) THEN accepted[j] ELSE p[j - Len(accepted)]
  BY <1>1, <1>4, Numbers, ConcatProperties
<1>0. Len(accepted) \in Nat  BY Numbers
<1>6. \A j \in 1 .. Len(accepted) : accepted'[j] = accepted[j]
  <2> SUFFICES ASSUME NEW j \in 1 .. Len(accepted) PROVE accepted'[j] = accepted[j]
    OBVIOUS
  <2>1. j \in 1 .. Len(accepted) + n /\ j <= Len(accepted)  BY SMT, <1>0, <1>2
  <2>2. QED  BY <1>5, <2>1
<1>7. \A j \in 1 .. n : accepted'[Len(accepted) + j] = [frame |-> arrived + 1, no |-> j, of |-> n]
  <2> SUFFICES ASSUME NEW j \in 1 .. n
               PROVE  accepted'[Len(accepted) + j] = [frame |-> arrived + 1, no |-> j, of |-> n]
    OBVIOUS
  <2>1. Len(accepted) \in Nat  BY Numbers
  <2>2. PICK m \in 1 .. Len(accepted) + n : m = Len(accepted) + j  BY SMT, <1>2, <2>1
  <2>3. ~(m <= Len(accepted)) /\ m - Len(accepted) = j  BY SMT, <2>1, <2>2
  <2>4. accepted'[m] = p[j]  BY <1>5, <2>3
  <2>5. QED  BY <1>4, <2>2, <2>4
<1>8. Left = 0 /\ Left' = n /\ Returned' = Returned /\ Front' = Front
  BY SMT, <1>1, <1>2 DEF Left, Returned, Front
<1>9. Count' = Count /\ Count + n <= N
  <2>1. Returned \in Int /\ Count + n <= N  BY <1>1, Numbers, RoomIsEnough
  <2>2. Count' = (Len(accepted) + n) - n - Returned  BY <1>5, <1>8 DEF Count
  <2>3. Count = Len(accepted) - 0 - Returned  BY <1>8 DEF Count
  <2>4. Count' = Count  BY SMT, <1>0, <1>2, <2>1, <2>2, <2>3
  <2>5. QED  BY <2>1, <2>4
<1>10. \A i : Dist(i)' = Dist(i)  BY <1>1 DEF Dist
<1>11. (\A i \in Slots : rmd1[i].own = "host" <=> Dist(i) < Count)'
  BY <1>1, <1>9, <1>10 DEF QueueInv
<1>12. (\A i \in Slots : Dist(i) < Count => buf[i] = accepted[Returned + Dist(i) + 1])'
  <2> SUFFICES ASSUME NEW i \in Slots, Dist(i) < Count PROVE buf[i] = accepted'[Returned + Dist(i) + 1]
    BY <1>1, <1>8, <1>9, <1>10
  <2>1. Returned + Dist(i) + 1 \in 1 .. Len(accepted)
    <3>1. Returned \in Int /\ Returned >= 0 /\ Dist(i) \in Nat /\ Len(accepted) \in Nat
      BY Numbers DEF QueueInv
    <3>2. Count = Len(accepted) - 0 - Returned  BY <1>8 DEF Count
    <3>3. QED  BY SMT, <3>1, <3>2
  <2>2. QED  BY <1>6, <2>1 DEF QueueInv
<1>13. (Left >= 0 /\ Left <= Len(accepted) /\ Returned >= 0 /\ Count >= 0 /\ Count + Left <= N)'
  <2>1. Returned >= 0 /\ Count >= 0  BY DEF QueueInv
  <2>2. n >= 0 /\ n <= Len(accepted) + n  BY SMT, <1>0, <1>2
  <2>3. QED  BY <1>5, <1>8, <1>9, <2>1, <2>2
<1>14. (Front = Wrap(hoff + Count))'
  BY <1>1, <1>8, <1>9 DEF QueueInv, Wrap
<1>15. (/\ cur.of <= Len(accepted)
        /\ \A j \in 1 .. cur.of :
             accepted[Len(accepted) - cur.of + j] = [frame |-> cur.frame, no |-> j, of |-> cur.of])'
  <2>1. cur'.of = n /\ cur'.frame = arrived + 1  BY <1>1
  <2>2. \A j \in 1 .. n : Len(accepted') - n + j = Len(accepted) + j  BY SMT, <1>0, <1>2, <1>5
  <2>3. n <= Len(accepted')  BY SMT, <1>0, <1>2, <1>5
  <2>4. QED  BY <1>7, <2>1, <2>2, <2>3
<1>16. QueueInv'
  BY <1>1, <1>11, <1>12, <1>13, <1>14, <1>15 DEF QueueInv
<1>17. QED  BY <1>2, <1>5, <1>6, <1>16

\* The descriptor in front is the chip's while a part of the frame in hand is left.
LEMMA FrontIsFree ==
    ASSUME IInv, QueueInv, Left > 0
    PROVE  /\ Front \in Slots /\ Count < N /\ Dist(Front) = Count /\ rmd1[Front].own # "host"
           /\ \A i \in Slots : Dist(i) = Count => i = Front
<1>1. /\ Count >= 0 /\ Count + Left <= N /\ Front = Wrap(hoff + Count)
      /\ Count \in Int /\ Left \in Int /\ N \in Nat /\ hoff \in Nat /\ hoff < N
      /\ Slots = 0 .. N - 1 /\ Front \in Slots
  BY Numbers DEF QueueInv
<1>2. Count < N  BY SMT, <1>1
<1>3. Dist(Front) = Count  BY SMT, <1>1, <1>2 DEF Dist, Wrap
<1>4. \A i \in Slots : Dist(i) = Count => i = Front  BY SMT, <1>1, <1>2 DEF Dist, Wrap
<1>5. rmd1[Front].own # "host"  BY SMT, <1>1, <1>3 DEF QueueInv
<1>6. QED  BY <1>1, <1>2, <1>3, <1>4, <1>5

\* gotfunc() finds the descriptor in front to be the chip's.
LEMMA FetchQueues == ASSUME IInv, QueueInv, RxFetch PROVE QueueInv'
<1>1. pc = "fetch" /\ slot' = rdr_offset /\ UNCHANGED <<rmd1, buf, csr0, cur, insize, accepted, hpc, hoff, taken>>
  BY DEF RxFetch, hostVars
<1>2. Left = cur.of - insize /\ Left > 0
  <2>1. Left = cur.of - insize /\ insize < cur.of  BY <1>1 DEF Left, IInv, PartInHand
  <2>2. cur.of \in Nat /\ insize \in Nat  BY Numbers
  <2>3. QED  BY SMT, <2>1, <2>2
<1>3. Front = rdr_offset  BY <1>1 DEF Front
<1>4. rmd1[rdr_offset].own = "chip"  BY <1>2, <1>3, FrontIsFree DEF IInv, TypeOK, Rmd1, Owner
<1>5. pc' = "copy" /\ rdr_offset' = (rdr_offset + 1) % N  BY <1>4 DEF RxFetch
<1>6. Left' = Left /\ Returned' = Returned /\ Front' = Front  BY <1>1, <1>2, <1>3, <1>5 DEF Left, Returned, Front
<1>7. "RXON" \in csr0'  BY <1>1 DEF QueueInv
<1>8. QED  BY <1>1, <1>5, <1>6, <1>7, StillKept

\* It copies a part: no buffer of the driver's is touched.
LEMMA CopyQueues == ASSUME IInv, QueueInv, RxCopy PROVE QueueInv'
<1>1. /\ pc = "copy" /\ pc' = "writeRmd1" /\ insize' = insize + 1
      /\ UNCHANGED <<rmd1, csr0, slot, rdr_offset, cur, accepted, hpc, hoff, taken>>
      /\ buf' = [buf EXCEPT ![slot] = [frame |-> cur.frame, no |-> insize + 1, of |-> cur.of]]
  BY DEF RxCopy, hostVars
<1>0. cur.of \in Nat /\ insize \in Nat  BY Numbers
<1>2. Left = cur.of - insize /\ Left > 0
  <2>1. Left = cur.of - insize /\ insize < cur.of  BY <1>1 DEF Left, IInv, PartInHand
  <2>2. QED  BY SMT, <1>0, <2>1
<1>3. Front = slot /\ Front' = Front  BY <1>1 DEF Front
<1>4. Left' = Left /\ Returned' = Returned  BY SMT, <1>0, <1>1, <1>2 DEF Left, Returned
<1>5. \A i \in Slots : Dist(i) < Count => buf'[i] = buf[i]
  <2> SUFFICES ASSUME NEW i \in Slots, Dist(i) < Count PROVE buf'[i] = buf[i]
    OBVIOUS
  <2>0. Count \in Int /\ Dist(slot) = Count  BY <1>2, <1>3, FrontIsFree, Numbers
  <2>1. i # slot  BY SMT, <2>0
  <2>2. QED  BY <1>1, <2>1 DEF IInv, TypeOK
<1>6. buf'[slot] = [frame |-> cur.frame, no |-> insize + 1, of |-> cur.of]
  BY <1>1 DEF IInv, TypeOK
<1>7. "RXON" \in csr0' /\ rdr_offset = (slot + 1) % N  BY <1>1 DEF QueueInv
<1>8. insize' > 0  BY SMT, <1>0, <1>1
<1>9. QED  BY <1>1, <1>3, <1>4, <1>5, <1>6, <1>7, <1>8, StillKept

\* It hands the descriptor in front over: the queue is one part longer.
LEMMA HandOver == ASSUME IInv, QueueInv, RxWriteRmd1 PROVE QueueInv'
<1>1. /\ pc = "writeRmd1" /\ pc' = "writeRmd3" /\ rmd1' = [rmd1 EXCEPT ![slot] = local] /\ local.own = "host"
      /\ UNCHANGED <<buf, csr0, slot, rdr_offset, cur, insize, accepted, hpc, hoff, taken>>
  BY DEF RxWriteRmd1, hostVars, IInv, LocalIsHost
<1>0. /\ cur.of \in Nat /\ insize \in Nat /\ Len(accepted) \in Nat /\ Left \in Int /\ Returned \in Int
      /\ Count \in Int /\ N \in Nat
  BY Numbers
<1>a. insize <= cur.of /\ insize > 0  BY <1>1 DEF IInv, PartInHand, QueueInv
<1>2. Left = cur.of - insize + 1 /\ Left > 0 /\ Left' = cur.of - insize
  BY SMT, <1>0, <1>a, <1>1 DEF Left
<1>3. Left' = Left - 1 /\ Returned' = Returned  BY SMT, <1>0, <1>1, <1>2 DEF Returned
<1>4. Count' = Count + 1
  <2>1. Count' = Len(accepted) - (Left - 1) - Returned  BY <1>1, <1>3 DEF Count
  <2>2. Count = Len(accepted) - Left - Returned  BY DEF Count
  <2>3. QED  BY SMT, <1>0, <2>1, <2>2
<1>5. Front = slot /\ Front' = rdr_offset  BY <1>1 DEF Front
<1>6. Count < N /\ Dist(slot) = Count /\ slot \in Slots /\ \A i \in Slots : Dist(i) = Count => i = slot
  BY <1>2, <1>5, FrontIsFree
<1>7. \A i : Dist(i)' = Dist(i)  BY <1>1 DEF Dist
<1>8. (Front = Wrap(hoff + Count))'
  <2>1. rdr_offset = IF slot = N - 1 THEN 0 ELSE slot + 1  BY <1>1, <1>6, Successor DEF QueueInv
  <2>2. slot = Wrap(hoff + Count) /\ Count >= 0  BY <1>5 DEF QueueInv
  <2>3. Count \in Int /\ hoff \in Nat /\ hoff < N /\ N \in Nat  BY Numbers
  <2>4. rdr_offset = Wrap(hoff + (Count + 1))  BY SMT, <1>6, <2>1, <2>2, <2>3 DEF Wrap
  <2>5. QED  BY <1>1, <1>4, <1>5, <2>4 DEF Wrap
<1>9. (\A i \in Slots : rmd1[i].own = "host" <=> Dist(i) < Count)'
  <2> SUFFICES ASSUME NEW i \in Slots PROVE rmd1'[i].own = "host" <=> Dist(i) < Count + 1
    BY <1>4, <1>7
  <2>1. rmd1'[i] = IF i = slot THEN local ELSE rmd1[i]  BY <1>1, <1>6 DEF IInv, TypeOK
  <2>2. rmd1[i].own = "host" <=> Dist(i) < Count  BY DEF QueueInv
  <2>3. Dist(i) \in Int /\ Count \in Int  BY Numbers
  <2>4. CASE i = slot  BY SMT, <1>1, <1>6, <2>1, <2>3, <2>4
  <2>5. CASE i # slot
    <3>1. Dist(i) # Count  BY <1>6, <2>5
    <3>2. Dist(i) < Count <=> Dist(i) < Count + 1  BY SMT, <2>3, <3>1
    <3>3. QED  BY <2>1, <2>2, <2>5, <3>2
  <2>6. QED  BY <2>4, <2>5
<1>b. Returned + Count + 1 = Len(accepted) - cur.of + insize
  <2>1. Count = Len(accepted) - Left - Returned  BY DEF Count
  <2>2. Left = cur.of - insize + 1  BY <1>2
  <2>3. Returned + Count = Len(accepted) - Left  BY SMT, <1>0, <2>1
  <2>4. Len(accepted) - Left + 1 = Len(accepted) - cur.of + insize  BY SMT, <1>0, <2>2
  <2>5. QED  BY <2>3, <2>4
<1>10. (\A i \in Slots : Dist(i) < Count => buf[i] = accepted[Returned + Dist(i) + 1])'
  <2> SUFFICES ASSUME NEW i \in Slots, Dist(i) < Count + 1 PROVE buf[i] = accepted[Returned + Dist(i) + 1]
    BY <1>1, <1>3, <1>4, <1>7
  <2>1. Dist(i) \in Int /\ Count \in Int /\ Len(accepted) \in Nat /\ Returned \in Int /\ insize \in Nat /\ cur.of \in Nat
    BY Numbers
  <2>2. CASE i = slot
    <3>1. buf[slot] = [frame |-> cur.frame, no |-> insize, of |-> cur.of]  BY <1>1 DEF QueueInv
    <3>2. insize \in 1 .. cur.of  BY SMT, <1>0, <1>a
    <3>3. accepted[Len(accepted) - cur.of + insize] = [frame |-> cur.frame, no |-> insize, of |-> cur.of]
      BY <1>1, <3>2 DEF QueueInv
    <3>4. Returned + Dist(i) + 1 = Len(accepted) - cur.of + insize
      <4>1. Dist(i) = Count  BY <1>6, <2>2
      <4>2. QED  BY <1>b, <4>1
    <3>5. QED  BY <2>2, <3>1, <3>3, <3>4
  <2>3. CASE i # slot
    <3>1. Dist(i) # Count  BY <1>6, <2>3
    <3>2. Dist(i) < Count  BY SMT, <2>1, <3>1
    <3>3. QED  BY <3>2 DEF QueueInv
  <2>4. QED  BY <2>2, <2>3
<1>11. (Left >= 0 /\ Left <= Len(accepted) /\ Returned >= 0 /\ Count >= 0 /\ Count + Left <= N)'
  <2>1. Left <= Len(accepted) /\ Returned >= 0 /\ Count >= 0 /\ Count + Left <= N  BY DEF QueueInv
  <2>2. Left > 0 /\ accepted' = accepted  BY <1>1, <1>2
  <2>3. QED  BY SMT, <1>0, <1>3, <1>4, <2>1, <2>2
<1>12. (pc # "idle" =>
         /\ cur.of <= Len(accepted)
         /\ \A j \in 1 .. cur.of :
              accepted[Len(accepted) - cur.of + j] = [frame |-> cur.frame, no |-> j, of |-> cur.of])'
  BY <1>1 DEF QueueInv
<1>13. QED  BY <1>1, <1>8, <1>9, <1>10, <1>11, <1>12 DEF QueueInv

\* It writes the byte count.
LEMMA WrittenQueues == ASSUME IInv, QueueInv, RxWriteRmd3 PROVE QueueInv'
<1>1. /\ pc = "writeRmd3" /\ pc' \in {"idle", "fetch"} /\ (pc' = "idle" => insize = cur.of)
      /\ UNCHANGED <<rmd1, buf, rdr_offset, slot, cur, insize, accepted, hpc, hoff, taken>>
  BY DEF RxWriteRmd3, hostVars
<1>2. cur.of \in Nat /\ insize \in Nat  BY Numbers
<1>3. Left' = Left  BY SMT, <1>1, <1>2 DEF Left
<1>4. Returned' = Returned /\ Front' = Front  BY <1>1 DEF Returned, Front
<1>5. "RXON" \in csr0'  BY DEF RxWriteRmd3, Rethink, QueueInv
<1>6. QED  BY <1>1, <1>3, <1>4, <1>5, StillKept

\* The driver looks, or acknowledges.
LEMMA LookQueues == ASSUME IInv, QueueInv, HostPoll \/ HostAck \/ UNCHANGED vars PROVE QueueInv'
<1>1. /\ UNCHANGED <<rmd1, buf, rdr_offset, slot, cur, insize, accepted, pc, hoff, taken>>
      /\ hpc' = hpc \/ (hpc = "poll" /\ hpc' = "read")
  BY DEF HostPoll, HostAck, vars, chipVars, hostVars
<1>2. Left' = Left /\ Front' = Front  BY <1>1 DEF Left, Front
<1>3. Returned' = Returned  BY <1>1 DEF Returned
<1>4. "RXON" \in csr0'
  BY DEF HostPoll, HostAck, Rethink, Latch, CommandBits, vars, QueueInv
<1>5. /\ pc' # "noBuffer"
      /\ (pc \in {"copy", "writeRmd1"} => rdr_offset = (slot + 1) % N)'
      /\ (pc = "writeRmd1" => insize > 0 /\ buf[slot] = [frame |-> cur.frame, no |-> insize, of |-> cur.of])'
  BY <1>1 DEF QueueInv
<1>6. QED  BY <1>1, <1>2, <1>3, <1>4, <1>5, StillKept

\* The driver takes a part: it is the next one of the queue.
LEMMA ReadQueues ==
    ASSUME IInv, QueueInv, HostRead
    PROVE  /\ QueueInv'
           /\ Len(taken) < Len(accepted) /\ taken' = Append(taken, accepted[Len(taken) + 1])
           /\ accepted' = accepted
<1>1. /\ UNCHANGED <<rmd1, buf, csr0, rdr_offset, slot, cur, insize, accepted, pc, hoff>>
      /\ hpc = "read" /\ hpc' = "refill" /\ taken' = Append(taken, buf[hoff])
  BY DEF HostRead, chipVars
<1>2. Len(taken') = Len(taken) + 1
  <2>1. taken \in Seq(Part \cup {NoPart}) /\ buf[hoff] \in Part \cup {NoPart}  BY DEF IInv, TypeOK
  <2>2. QED  BY <1>1, <2>1, AppendProperties
<1>3. Len(taken) \in Nat /\ Len(accepted) \in Nat /\ Count \in Int /\ Left \in Int /\ N \in Nat
      /\ hoff \in Nat /\ hoff < N /\ hoff \in Slots
  BY Numbers
<1>4. Returned = Len(taken) /\ Returned' = Len(taken') - 1  BY <1>1 DEF Returned
<1>5. Returned' = Returned  BY SMT, <1>2, <1>3, <1>4
<1>6. Left' = Left /\ Front' = Front  BY <1>1 DEF Left, Front
<1>7. /\ pc' # "noBuffer" /\ "RXON" \in csr0'
      /\ (pc \in {"copy", "writeRmd1"} => rdr_offset = (slot + 1) % N)'
      /\ (pc = "writeRmd1" => insize > 0 /\ buf[slot] = [frame |-> cur.frame, no |-> insize, of |-> cur.of])'
  BY <1>1 DEF QueueInv
<1>8. QueueInv'  BY <1>1, <1>5, <1>6, <1>7, StillKept
<1>9. Dist(hoff) = 0  BY SMT, <1>3 DEF Dist
<1>10. 0 < Count /\ buf[hoff] = accepted[Returned + 0 + 1]
  <2>1. rmd1[hoff].own = "host"  BY <1>1 DEF IInv, ExclusiveBuffers
  <2>2. Dist(hoff) < Count  BY <1>3, <2>1 DEF QueueInv
  <2>3. buf[hoff] = accepted[Returned + Dist(hoff) + 1]  BY <1>3, <2>2 DEF QueueInv
  <2>4. QED  BY <1>9, <2>2, <2>3
<1>11. Count = Len(accepted) - Left - Len(taken) /\ Left >= 0  BY <1>4 DEF Count, QueueInv
<1>12. Len(taken) < Len(accepted)  BY SMT, <1>3, <1>10, <1>11
<1>13. Returned + 0 + 1 = Len(taken) + 1  BY SMT, <1>3, <1>4
<1>14. QED  BY <1>1, <1>8, <1>10, <1>12, <1>13

\* The driver gives its descriptor back: the others come one nearer.
LEMMA RefillQueues == ASSUME IInv, QueueInv, HostRefill PROVE QueueInv'
<1>1. /\ UNCHANGED <<buf, csr0, rdr_offset, slot, cur, insize, accepted, pc, taken>>
      /\ hpc = "refill" /\ hpc' = "poll" /\ hoff' = (hoff + 1) % N
      /\ rmd1' = [rmd1 EXCEPT ![hoff] = [own |-> "chip", flags |-> {}]]
      /\ rmd1[hoff].own = "host"
  BY DEF HostRefill, chipVars, IInv, ExclusiveBuffers
<1>2. Len(taken) \in Nat /\ Len(accepted) \in Nat /\ Count \in Int /\ Left \in Int /\ Returned \in Int
      /\ N \in Nat /\ hoff \in Nat /\ hoff < N /\ hoff \in Slots /\ Slots = 0 .. N - 1
  BY Numbers
<1>3. Left' = Left /\ Front' = Front  BY <1>1 DEF Left, Front
<1>4. Returned' = Returned + 1  BY SMT, <1>1, <1>2 DEF Returned
<1>5. Count' = Count - 1
  <2>1. Count' = Len(accepted) - Left - (Returned + 1)  BY <1>1, <1>3, <1>4 DEF Count
  <2>2. Count = Len(accepted) - Left - Returned  BY DEF Count
  <2>3. QED  BY SMT, <1>2, <2>1, <2>2
<1>6. hoff' = IF hoff = N - 1 THEN 0 ELSE hoff + 1  BY <1>1, <1>2, Successor
<1>7. \A i \in Slots : Dist(i)' = IF i = hoff THEN N - 1 ELSE Dist(i) - 1
  BY SMT, <1>2, <1>6 DEF Dist
<1>8. Dist(hoff) = 0  BY SMT, <1>2 DEF Dist
<1>9. 0 < Count /\ Count <= N
  <2>1. Count + Left <= N /\ Left >= 0  BY DEF QueueInv
  <2>2. Dist(hoff) < Count  BY <1>1, <1>2 DEF QueueInv
  <2>3. QED  BY SMT, <1>2, <1>8, <2>1, <2>2
<1>10. \A i \in Slots : Dist(i) \in Int  BY Numbers
<1>11. (\A i \in Slots : rmd1[i].own = "host" <=> Dist(i) < Count)'
  <2> SUFFICES ASSUME NEW i \in Slots PROVE rmd1'[i].own = "host" <=> Dist(i)' < Count - 1
    BY <1>5
  <2>1. CASE i = hoff
    <3>1. rmd1'[i].own # "host"  BY <1>1, <1>2, <2>1 DEF IInv, TypeOK
    <3>2. ~(N - 1 < Count - 1)  BY SMT, <1>2, <1>9
    <3>3. Dist(i)' = N - 1  BY <1>7, <2>1
    <3>4. QED  BY <3>1, <3>2, <3>3
  <2>2. CASE i # hoff
    <3>1. rmd1'[i] = rmd1[i]  BY <1>1, <1>2, <2>2 DEF IInv, TypeOK
    <3>2. Dist(i)' = Dist(i) - 1  BY <1>7, <2>2
    <3>3. Dist(i) < Count <=> Dist(i) - 1 < Count - 1  BY SMT, <1>2, <1>10
    <3>4. QED  BY <3>1, <3>2, <3>3 DEF QueueInv
  <2>3. QED  BY <2>1, <2>2
<1>12. (\A i \in Slots : Dist(i) < Count => buf[i] = accepted[Returned + Dist(i) + 1])'
  <2> SUFFICES ASSUME NEW i \in Slots, Dist(i)' < Count - 1
               PROVE  buf[i] = accepted[(Returned + 1) + Dist(i)' + 1]
    BY <1>1, <1>4, <1>5
  <2>1. i # hoff
    <3>1. ~(N - 1 < Count - 1)  BY SMT, <1>2, <1>9
    <3>2. QED  BY <1>7, <3>1
  <2>2. Dist(i)' = Dist(i) - 1  BY <1>7, <2>1
  <2>3. Dist(i) \in Int  BY <1>10
  <2>4. Dist(i) < Count  BY SMT, <1>2, <2>2, <2>3
  <2>5. buf[i] = accepted[Returned + Dist(i) + 1]  BY <2>4 DEF QueueInv
  <2>6. (Returned + 1) + (Dist(i) - 1) + 1 = Returned + Dist(i) + 1  BY SMT, <1>2, <2>3
  <2>7. QED  BY <2>2, <2>5, <2>6
<1>13. (Left >= 0 /\ Left <= Len(accepted) /\ Returned >= 0 /\ Count >= 0 /\ Count + Left <= N)'
  <2>1. Left >= 0 /\ Left <= Len(accepted) /\ Returned >= 0 /\ Count + Left <= N  BY DEF QueueInv
  <2>2. QED  BY SMT, <1>1, <1>2, <1>3, <1>4, <1>5, <1>9, <2>1
<1>14. (Front = Wrap(hoff + Count))'
  <2>1. Front = Wrap(hoff + Count)  BY DEF QueueInv
  <2>2. Wrap(hoff + Count) = Wrap(hoff' + (Count - 1))
    BY SMT, <1>2, <1>6, <1>9 DEF Wrap
  <2>3. QED  BY <1>3, <1>5, <2>1, <2>2 DEF Wrap
<1>15. (pc # "idle" =>
         /\ cur.of <= Len(accepted)
         /\ \A j \in 1 .. cur.of :
              accepted[Len(accepted) - cur.of + j] = [frame |-> cur.frame, no |-> j, of |-> cur.of])'
  BY <1>1 DEF QueueInv
<1>16. /\ pc' # "noBuffer" /\ "RXON" \in csr0'
       /\ (pc \in {"copy", "writeRmd1"} => rdr_offset = (slot + 1) % N)'
       /\ (pc = "writeRmd1" => insize > 0 /\ buf[slot] = [frame |-> cur.frame, no |-> insize, of |-> cur.of])'
  BY <1>1 DEF QueueInv
<1>17. QED  BY <1>11, <1>12, <1>13, <1>14, <1>15, <1>16 DEF QueueInv

\* Every step keeps the queue, and is a step of the queue FrameFifo promises.
LEMMA QueueStep ==
    ASSUME Paced, IInv, QueueInv, [Next]_vars
    PROVE  QueueInv' /\ [Fifo!Next]_<<accepted, taken>>
<1>1. ASSUME NEW n \in PartNos, RxFrame(n) PROVE QueueInv' /\ Fifo!Accept
  <2>1. /\ QueueInv' /\ n \in Nat \ {0} /\ accepted' \in Seq(Part) /\ Len(accepted') = Len(accepted) + n
        /\ \A j \in 1 .. Len(accepted) : accepted'[j] = accepted[j]
    BY <1>1, FrameQueues
  <2>2. taken' = taken  BY <1>1 DEF RxFrame, hostVars
  <2>3. accepted \in Seq(Part) /\ Len(accepted) \in Nat  BY Numbers
  <2>4. Len(accepted') > Len(accepted)  BY SMT, <2>1, <2>3
  <2> DEFINE s == SubSeq(accepted', 1, Len(accepted))
  <2>5. s \in Seq(Part) /\ Len(s) = Len(accepted) /\ \A j \in 1 .. Len(accepted) : s[j] = accepted[j]
    BY SMT, <2>1, <2>3, <2>4
  <2> HIDE DEF s
  <2>6. s = accepted  BY <2>3, <2>5, SeqEqual
  <2>7. QED  BY <2>1, <2>2, <2>4, <2>6 DEF Fifo!Accept, s
<1>2. CASE RxFetch
  BY <1>2, FetchQueues DEF RxFetch, hostVars
<1>3. ~RxNoBuffer  BY DEF RxNoBuffer, QueueInv
<1>4. CASE RxCopy
  BY <1>4, CopyQueues DEF RxCopy, hostVars
<1>5. CASE RxWriteRmd1
  BY <1>5, HandOver DEF RxWriteRmd1, hostVars
<1>6. CASE RxWriteRmd3
  BY <1>6, WrittenQueues DEF RxWriteRmd3, hostVars
<1>7. CASE HostPoll \/ HostAck \/ UNCHANGED vars
  BY <1>7, LookQueues DEF HostPoll, HostAck, vars, chipVars, hostVars
<1>8. CASE HostRead
  BY <1>8, ReadQueues DEF Fifo!Next, Fifo!Take
<1>9. CASE HostRefill
  BY <1>9, RefillQueues DEF HostRefill, chipVars
<1>10. QED
  BY <1>1, <1>2, <1>3, <1>4, <1>5, <1>6, <1>7, <1>8, <1>9 DEF Next, Gotfunc, Host, Fifo!Next

\* For a driver that keeps up, the ring is the queue that FrameFifo describes.
THEOREM RingIsFifo == Paced => (Spec => Fifo!Init /\ [][Fifo!Next]_<<accepted, taken>>)
<1> SUFFICES ASSUME Paced PROVE Spec => Fifo!Init /\ [][Fifo!Next]_<<accepted, taken>>
  OBVIOUS
<1>1. Init => QueueInv
  <2> SUFFICES ASSUME Init PROVE QueueInv
    OBVIOUS
  <2>1. IInv  BY InitEstablishes
  <2>2. N \in Nat \ {0} /\ Slots = 0 .. N - 1  BY <2>1, Numbers
  <2>3. /\ pc = "idle" /\ hpc = "poll" /\ accepted = <<>> /\ taken = <<>> /\ hoff = 0 /\ rdr_offset = 0
        /\ csr0 = {"RXON"} /\ \A i \in Slots : rmd1[i].own = "chip"
    BY DEF Init
  <2>4. Left = 0 /\ Returned = 0 /\ Count = 0 /\ Front = 0
    BY SMT, <2>3 DEF Left, Returned, Count, Front
  <2>5. Wrap(hoff + Count) = 0  BY SMT, <2>2, <2>3, <2>4 DEF Wrap
  <2>6. \A i \in Slots : ~(Dist(i) < Count)  BY SMT, <2>2, <2>3, <2>4 DEF Dist
  <2>7. Left >= 0 /\ Left <= Len(accepted) /\ Returned >= 0 /\ Count >= 0 /\ Count + Left <= N
    BY SMT, <2>2, <2>3, <2>4
  <2>8. QED  BY <2>3, <2>4, <2>5, <2>6, <2>7 DEF QueueInv
<1>2. IInv /\ [Next]_vars => IInv'
  BY TypeKept, OwnershipKept DEF IInv
<1>3. IInv /\ QueueInv /\ [Next]_vars => QueueInv' /\ [Fifo!Next]_<<accepted, taken>>
  BY QueueStep
<1>4. Init => Fifo!Init
  BY DEF Init, Fifo!Init
<1>5. QED
  BY <1>1, <1>2, <1>3, <1>4, InitEstablishes, PTL DEF Spec

=============================================================================
