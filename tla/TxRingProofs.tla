---------------------------- MODULE TxRingProofs ----------------------------
(***************************************************************************)
(* For a ring of any length, chains of any length and any order of handing *)
(* them over: what do_transmit() copies belongs to the chip, and a failed  *)
(* descriptor names its cause.                                             *)
(***************************************************************************)
EXTENDS TxRing, TLAPS

\* The leaves are first-order; those with arithmetic, or with many cases, name SMT.
USE ZenonT(30)

\* The distance of a descriptor from the next one the driver will fill.
Ahead(i) == IF i >= hoff THEN i - hoff ELSE i - hoff + N

\* The driver fills the N - used descriptors from hoff on; what it has handed
\* over, or is about to, lies behind them.
GivenInUse ==
    \A i \in Slots : tmd1[i].own = "chip" \/ i \in togive => Ahead(i) >= N - used

\* What is written back is never OWN, and only a driver that is handing a
\* frame over has descriptors left to hand over.
Sides == local.own = "host" /\ (hpc # "give" => togive = {})

RingTypes ==
    /\ tmd1 \in [Slots -> Tmd1]
    /\ {slot, tdr_offset, start, hoff} \subseteq Slots
    /\ scanned \in Nat
    /\ local \in Tmd1
    /\ used \in 0 .. N
    /\ togive \subseteq Slots

IInv == RingTypes /\ Sides /\ GivenInUse /\ CopiesOwned

\* Offsets wrap at the end of the ring.
LEMMA Wraps ==
    ASSUME NEW a \in Nat
    PROVE  /\ a % N \in Slots
           /\ a < 2 * N => a % N = IF a < N THEN a ELSE a - N
  BY SMT, NAssumption DEF Slots

\* The n descriptors from hoff on are those less than n ahead.
LEMMA FilledSlots ==
    ASSUME RingTypes, NEW n \in 1 .. N
    PROVE  \A i \in Slots : (\E k \in 1 .. n : i = (hoff + k - 1) % N) <=> Ahead(i) < n
<1> hoff \in Slots /\ N \in Nat \ {0}  BY NAssumption DEF RingTypes
<1>1. \A k \in 1 .. n : (hoff + k - 1) % N =
        IF hoff + k - 1 < N THEN hoff + k - 1 ELSE hoff + k - 1 - N
  <2> TAKE k \in 1 .. n
  <2>1. PICK a \in Nat : a = hoff + k - 1 /\ a < 2 * N  BY SMT DEF Slots
  <2>2. a % N = IF a < N THEN a ELSE a - N  BY <2>1, Wraps
  <2>3. QED  BY SMT, <2>1, <2>2 DEF Slots
<1> TAKE i \in Slots
<1>2. ASSUME NEW k \in 1 .. n, i = (hoff + k - 1) % N  PROVE Ahead(i) < n
  BY SMT, <1>1, <1>2 DEF Ahead, Slots
<1>3. ASSUME Ahead(i) < n  PROVE \E k \in 1 .. n : i = (hoff + k - 1) % N
  <2>1. Ahead(i) + 1 \in 1 .. n  BY SMT, <1>3 DEF Ahead, Slots
  <2>2. i = (hoff + (Ahead(i) + 1) - 1) % N  BY SMT, <1>1, <2>1 DEF Ahead, Slots
  <2>3. QED  BY <2>1, <2>2 DEF Slots
<1>4. QED  BY <1>2, <1>3

\* The empty ring satisfies the invariant.
LEMMA InitEstablishes == Init => IInv
<1> SUFFICES ASSUME Init PROVE IInv
  OBVIOUS
<1>1. 0 \in Slots  BY SMT, NAssumption DEF Slots
<1>2. RingTypes  BY SMT, <1>1, NAssumption DEF Init, RingTypes, Tmd1
<1>3. QED  BY <1>2 DEF Init, IInv, Sides, GivenInUse, CopiesOwned

\* A step of do_transmit() that leaves the driver alone, hands nothing over
\* and copies only what the chip owns keeps the invariant.
LEMMA ChipStep ==
    ASSUME IInv, RingTypes', local'.own = "host", UNCHANGED hostVars,
           \A i \in Slots : tmd1'[i].own \in {tmd1[i].own, "host"},
           pc' = "copy" => tmd1'[slot'].own = "chip"
    PROVE  IInv'
<1>1. Sides'  BY DEF IInv, Sides, hostVars
<1>2. GivenInUse'  BY DEF IInv, GivenInUse, Ahead, hostVars
<1>3. QED  BY <1>1, <1>2 DEF IInv, CopiesOwned

\* Writing back the descriptor in hand gives it to the driver.
LEMMA WrittenBack ==
    ASSUME IInv, tmd1' = [tmd1 EXCEPT ![slot] = local]
    PROVE  /\ tmd1' \in [Slots -> Tmd1]
           /\ \A i \in Slots : tmd1'[i].own \in {tmd1[i].own, "host"}
  BY DEF IInv, RingTypes, Sides

\* Setting ERR or clearing OWN leaves a TMD1.
LEMMA Marked ==
    ASSUME NEW d \in Tmd1
    PROVE  /\ [d EXCEPT !.flags = @ \cup {"ERR"}] \in Tmd1
           /\ [d EXCEPT !.flags = @ \cup {"ERR"}].own = d.own
           /\ [d EXCEPT !.own = "host"] \in Tmd1
           /\ [d EXCEPT !.own = "host"].own = "host"
  BY DEF Tmd1, TmdFlags

\* do_transmit() keeps the invariant.
LEMMA TransmitKeeps == IInv /\ DoTransmit => IInv'
<1> SUFFICES ASSUME IInv, DoTransmit PROVE IInv'
  OBVIOUS
<1> USE DEF hostVars
<1>0. RingTypes /\ Sides /\ local \in Tmd1 /\ local.own = "host"
  BY DEF IInv, RingTypes, Sides
<1>1. CASE TxDemand
  <2>1. RingTypes'  BY <1>0, <1>1 DEF TxDemand, ringUnchanged, RingTypes
  <2>2. QED  BY <1>0, <1>1, <2>1, ChipStep DEF TxDemand, ringUnchanged
<1>2. CASE TxScan
  <2>1. start + (IF scanned = 0 THEN 0 ELSE scanned - 1) \in Nat
    BY SMT, <1>0, NAssumption DEF RingTypes, Slots
  <2>2. ScanSlot \in Slots  BY <2>1, Wraps DEF ScanSlot
  <2>3. RingTypes'  BY SMT, <1>0, <1>2, <2>2 DEF TxScan, ringUnchanged, RingTypes
  <2>4. pc' # "copy"  BY <1>2 DEF TxScan
  <2>5. QED  BY <1>0, <1>2, <2>3, <2>4, ChipStep DEF TxScan, ringUnchanged
<1>3. CASE TxFetch
  <2>1. tmd1[tdr_offset] \in Tmd1  BY <1>0 DEF RingTypes
  <2>2. local' \in Tmd1 /\ local'.own = "host"
    BY <1>3, <2>1, Marked DEF TxFetch
  <2>3. RingTypes'  BY <1>0, <1>3, <2>2 DEF TxFetch, ringUnchanged, RingTypes
  <2>4. pc' = "copy" => tmd1'[slot'].own = "chip"
    BY <1>3 DEF TxFetch, ringUnchanged
  <2>5. QED  BY <1>3, <2>2, <2>3, <2>4, ChipStep DEF TxFetch, ringUnchanged
<1>4. CASE TxCopy
  <2>0. slot + 1 \in Nat  BY SMT, <1>0, NAssumption DEF RingTypes, Slots
  <2>1. (slot + 1) % N \in Slots  BY <2>0, Wraps
  <2>2. RingTypes'  BY <1>0, <1>4, <2>1 DEF TxCopy, ringUnchanged, RingTypes
  <2>3. pc' # "copy"  BY <1>4 DEF TxCopy
  <2>4. QED  BY <1>0, <1>4, <2>2, <2>3, ChipStep DEF TxCopy, ringUnchanged
<1>5. ASSUME NEW from, NEW to \in {"chain3", "fault3", "coll3", "last3"}, WriteTmd1(from, to)
      PROVE  IInv'
  <2>1. tmd1' = [tmd1 EXCEPT ![slot] = local]  BY <1>5 DEF WriteTmd1
  <2>2. RingTypes'  BY <1>0, <1>5, <2>1, WrittenBack DEF WriteTmd1, RingTypes
  <2>3. pc' # "copy"  BY <1>5 DEF WriteTmd1
  <2>4. QED  BY <1>0, <1>5, <2>1, <2>2, <2>3, WrittenBack, ChipStep DEF WriteTmd1
<1>6. ASSUME NEW from, TxFault3(from)  PROVE IInv'
  <2>1. RingTypes'  BY <1>0, <1>6 DEF TxFault3, WriteTmd3, RingTypes
  <2>2. QED  BY <1>0, <1>6, <2>1, ChipStep DEF TxFault3, WriteTmd3
<1>7. CASE TxChain3
  <2>1. local' \in Tmd1 /\ local'.own = "host"  BY <1>0, <1>7, Marked DEF TxChain3
  <2>2. RingTypes'  BY <1>0, <1>7, <2>1 DEF TxChain3, WriteTmd3, RingTypes
  <2>3. pc' # "copy"  BY <1>7 DEF TxChain3
  <2>4. QED  BY <1>7, <2>1, <2>2, <2>3, ChipStep DEF TxChain3, WriteTmd3
<1>8. CASE TxShort3 \/ TxLast3
  <2>1. RingTypes'  BY <1>0, <1>8 DEF TxShort3, TxLast3, WriteTmd3, RingTypes
  <2>2. QED  BY <1>0, <1>8, <2>1, ChipStep DEF TxShort3, TxLast3, WriteTmd3
<1>9. CASE TxShort1
  <2>1. tmd1' = [tmd1 EXCEPT ![slot] = local]  BY <1>9 DEF TxShort1
  <2>2. RingTypes'  BY <1>0, <1>9, <2>1, WrittenBack DEF TxShort1, RingTypes
  <2>3. QED  BY <1>0, <1>9, <2>1, <2>2, WrittenBack, ChipStep DEF TxShort1
<1>10. CASE TxCollide
  <2>1. local' \in Tmd1 /\ local'.own = "host"  BY <1>0, <1>10, Marked DEF TxCollide
  <2>2. RingTypes'  BY <1>0, <1>10, <2>1 DEF TxCollide, ringUnchanged, RingTypes
  <2>3. QED  BY <1>10, <2>1, <2>2, ChipStep DEF TxCollide, ringUnchanged
<1>11. CASE TxSend
  <2>1. RingTypes'  BY <1>0, <1>11 DEF TxSend, ringUnchanged, RingTypes
  <2>2. QED  BY <1>0, <1>11, <2>1, ChipStep DEF TxSend, ringUnchanged
<1>12. QED
  BY <1>1, <1>2, <1>3, <1>4, <1>5, <1>6, <1>7, <1>8, <1>9, <1>10, <1>11 DEF DoTransmit

\* Posting a frame fills only free descriptors, which are then in use.
LEMMA PostKeeps == \A n \in PartNos : IInv /\ HostPost(n) => IInv'
<1> SUFFICES ASSUME NEW n \in PartNos, IInv, HostPost(n)  PROVE IInv'
  OBVIOUS
<1> DEFINE filled == {(hoff + k - 1) % N : k \in 1 .. n}
<1>1. n \in 1 .. N /\ N \in Nat \ {0}  BY SMT, NAssumption, MaxAssumption DEF PartNos
<1>2. RingTypes /\ Sides /\ GivenInUse /\ CopiesOwned  BY DEF IInv
<1>3. \A i \in Slots : i \in filled <=> Ahead(i) < n  BY <1>1, <1>2, FilledSlots
<1>4. /\ togive' = filled
      /\ \A i \in Slots \ filled : tmd1'[i] = tmd1[i]
      /\ \A i \in Slots \cap filled : tmd1'[i].own = "host"
  BY DEF HostPost
<1>5. filled \subseteq Slots
  <2> SUFFICES ASSUME NEW k \in 1 .. n  PROVE (hoff + k - 1) % N \in Slots
    OBVIOUS
  <2>1. hoff + k - 1 \in Nat  BY SMT, <1>1, <1>2 DEF RingTypes, Slots
  <2>2. QED  BY <2>1, Wraps
<1>6. tmd1' \in [Slots -> Tmd1]
  <2> DEFINE no == [i \in filled |-> CHOOSE k \in 1 .. n : (hoff + k - 1) % N = i]
             flags(k) == (IF k = 1 THEN {"STP"} ELSE {}) \cup (IF k = n THEN {"ENP"} ELSE {})
  <2>1. \A k : [own |-> "host", flags |-> flags(k)] \in Tmd1  BY DEF Tmd1, TmdFlags
  <2>2. tmd1' = [i \in Slots |-> IF i \in filled
                                 THEN [own |-> "host", flags |-> flags(no[i])]
                                 ELSE tmd1[i]]
    BY DEF HostPost
  <2> HIDE DEF no, flags
  <2>3. QED  BY <1>2, <2>1, <2>2 DEF RingTypes
<1> HIDE DEF filled
<1>7. /\ used' = used + n /\ used + n <= N /\ hpc' = "give"
      /\ UNCHANGED <<slot, tdr_offset, start, scanned, local, pc>>
  BY DEF HostPost, txVars
<1>8. /\ hoff' \in Slots
      /\ hoff' = IF hoff + n < N THEN hoff + n ELSE hoff + n - N
  <2>1. PICK a \in Nat : a = hoff + n /\ a < 2 * N  BY SMT, <1>1, <1>2 DEF RingTypes, Slots
  <2>2. hoff' = a % N  BY <2>1 DEF HostPost
  <2>3. hoff' \in Slots /\ hoff' = IF a < N THEN a ELSE a - N  BY <2>1, <2>2, Wraps
  <2>4. QED  BY SMT, <1>1, <1>2, <2>1, <2>3 DEF RingTypes, Slots
<1>9. RingTypes'
  BY SMT, <1>1, <1>2, <1>4, <1>5, <1>6, <1>7, <1>8 DEF RingTypes
<1>10. Sides'  BY <1>2, <1>7 DEF Sides
<1>11. \A i \in Slots : Ahead(i)' = IF Ahead(i) < n THEN Ahead(i) - n + N ELSE Ahead(i) - n
  <2> TAKE i \in Slots
  <2>1. i \in Nat /\ hoff \in Nat /\ i < N /\ hoff < N
    BY SMT, <1>1, <1>2 DEF RingTypes, Slots
  <2>2. Ahead(i)' = IF i >= hoff' THEN i - hoff' ELSE i - hoff' + N  BY DEF Ahead
  <2>3. CASE hoff + n < N
    <3>1. hoff' = hoff + n  BY <1>8, <2>3
    <3>2. QED  BY SMT, <1>1, <2>1, <2>2, <2>3, <3>1 DEF Ahead
  <2>4. CASE ~(hoff + n < N)
    <3>1. hoff' = hoff + n - N  BY <1>8, <2>4
    <3>2. QED  BY SMT, <1>1, <2>1, <2>2, <2>4, <3>1 DEF Ahead
  <2>5. QED  BY <2>3, <2>4
<1>12. \A i \in Slots : Ahead(i) \in 0 .. N - 1
  BY SMT, <1>1, <1>2 DEF Ahead, RingTypes, Slots
<1>13. GivenInUse'
  <2> SUFFICES ASSUME NEW i \in Slots, tmd1'[i].own = "chip" \/ i \in togive'
               PROVE  Ahead(i)' >= N - used'
    BY DEF GivenInUse
  <2>1. used \in Nat  BY SMT, <1>1, <1>2 DEF RingTypes
  <2>2. CASE Ahead(i) < n  BY SMT, <1>1, <1>7, <1>11, <1>12, <2>1, <2>2
  <2>3. CASE ~(Ahead(i) < n)
    <3>1. tmd1[i].own = "chip"  BY <1>3, <1>4, <2>3
    <3>2. Ahead(i) >= N - used  BY <1>2, <3>1 DEF GivenInUse
    <3>3. QED  BY SMT, <1>1, <1>7, <1>11, <1>12, <2>1, <2>3, <3>2
  <2>4. QED  BY <2>2, <2>3
<1>14. CopiesOwned'
  <2> SUFFICES ASSUME pc = "copy"  PROVE tmd1'[slot].own = "chip"
    BY <1>7 DEF CopiesOwned
  <2>1. slot \in Slots /\ tmd1[slot].own = "chip"  BY <1>2 DEF RingTypes, CopiesOwned
  <2>2. Ahead(slot) >= N - used  BY <1>2, <2>1 DEF GivenInUse
  <2>3. ~(Ahead(slot) < n)
    BY SMT, <1>1, <1>2, <1>7, <1>12, <2>1, <2>2 DEF RingTypes
  <2>4. QED  BY <1>3, <1>4, <2>1, <2>3
<1>15. QED  BY <1>9, <1>10, <1>13, <1>14 DEF IInv

\* The rest of the driver keeps the invariant.
LEMMA HostKeeps == IInv /\ (Host \/ HostDemandsAgain \/ HostAck) => IInv'
<1> SUFFICES ASSUME IInv, Host \/ HostDemandsAgain \/ HostAck  PROVE IInv'
  OBVIOUS
<1> USE DEF txVars, hostVars
<1>0. RingTypes /\ Sides /\ GivenInUse /\ CopiesOwned  BY DEF IInv
<1>1. CASE HostGive
  <2>1. PICK g \in togive : tmd1' = [tmd1 EXCEPT ![g].own = "chip"] /\ togive' = togive \ {g}
    BY <1>1 DEF HostGive
  <2>2. g \in Slots /\ Ahead(g) >= N - used  BY <1>0 DEF RingTypes, GivenInUse
  <2>3. tmd1' \in [Slots -> Tmd1]  BY <1>0, <2>1, <2>2 DEF RingTypes, Tmd1
  <2>4. RingTypes'  BY <1>0, <1>1, <2>1, <2>3 DEF HostGive, RingTypes
  <2>5. Sides'  BY <1>0, <1>1 DEF HostGive, Sides
  <2>6. \A i \in Slots : tmd1'[i].own = IF i = g THEN "chip" ELSE tmd1[i].own
    BY <1>0, <2>1, <2>2 DEF RingTypes, Tmd1
  <2>7. GivenInUse'  BY <1>0, <1>1, <2>1, <2>2, <2>6 DEF HostGive, GivenInUse, Ahead
  <2>8. CopiesOwned'  BY <1>0, <1>1, <2>6 DEF HostGive, CopiesOwned, RingTypes
  <2>9. QED  BY <2>4, <2>5, <2>7, <2>8 DEF IInv
<1>2. CASE HostDemand
  BY <1>0, <1>2 DEF HostDemand, IInv, RingTypes, Sides, GivenInUse, Ahead, CopiesOwned
<1>3. CASE HostReclaim
  <2>1. /\ N \in Nat \ {0} /\ used \in 1 .. N /\ hoff \in Slots /\ togive = {}
        /\ used' = used - 1
    BY SMT, <1>0, <1>3, NAssumption DEF HostReclaim, RingTypes, Sides
  <2>2. Oldest = IF hoff + N - used < N THEN hoff + N - used ELSE hoff - used
    <3>1. PICK a \in Nat : a = hoff + N - used /\ a < 2 * N  BY SMT, <2>1 DEF Slots
    <3>2. Oldest = IF a < N THEN a ELSE a - N  BY <3>1, Wraps DEF Oldest
    <3>3. QED  BY SMT, <2>1, <3>1, <3>2 DEF Slots
  <2>3. \A i \in Slots : Ahead(i) = N - used => i = Oldest
    BY SMT, <2>1, <2>2 DEF Ahead, Slots
  <2>4. tmd1[Oldest].own = "host"  BY <1>3 DEF HostReclaim
  <2>5. GivenInUse'
    <3> SUFFICES ASSUME NEW i \in Slots, tmd1[i].own = "chip"
                 PROVE  Ahead(i) >= N - (used - 1)
      BY <1>3, <2>1 DEF HostReclaim, GivenInUse, Ahead
    <3>1. Ahead(i) >= N - used  BY <1>0 DEF GivenInUse
    <3>2. Ahead(i) # N - used  BY <2>3, <2>4
    <3>3. Ahead(i) \in Nat  BY SMT, <2>1 DEF Ahead, Slots
    <3>4. QED  BY SMT, <2>1, <3>1, <3>2, <3>3
  <2>6. RingTypes'  BY SMT, <1>0, <1>3, <2>1 DEF HostReclaim, RingTypes
  <2>7. QED  BY <1>0, <1>3, <2>5, <2>6 DEF HostReclaim, IInv, Sides, CopiesOwned
<1>4. CASE HostDemandsAgain \/ HostAck
  BY <1>0, <1>4 DEF HostDemandsAgain, HostAck, IInv, RingTypes, Sides, GivenInUse,
                    Ahead, CopiesOwned
<1>5. QED  BY <1>1, <1>2, <1>3, <1>4 DEF Host

\* Every step keeps the invariant.
LEMMA InvKept == IInv /\ [Next]_vars => IInv'
<1> SUFFICES ASSUME IInv, [Next]_vars  PROVE IInv'
  OBVIOUS
<1>1. CASE UNCHANGED vars
  BY <1>1 DEF vars, txVars, hostVars, IInv, RingTypes, Sides, GivenInUse, Ahead,
              CopiesOwned
<1>2. QED  BY <1>1, TransmitKeeps, PostKeeps, HostKeeps DEF Next

\* do_transmit() copies a buffer only while its descriptor belongs to the chip,
\* for every ring length, frame count and chain length, and every driver that
\* fills free descriptors only.
THEOREM CopiesAreOwned == Spec => []CopiesOwned
<1>1. IInv => CopiesOwned  BY DEF IInv
<1>2. QED  BY InitEstablishes, InvKept, <1>1, PTL DEF Spec

-----------------------------------------------------------------------------
(* Errors and their causes.                                                *)

\* A descriptor with ERR has its cause in TMD3, be it the driver's or the chip's,
\* as has the one in do_transmit()'s hands: what it writes back over a cause
\* names a cause too.
CauseInv ==
    /\ tmd3 \in [Slots -> SUBSET Errors] /\ local3 \in SUBSET Errors
    /\ ~reused =>
      /\ \A i \in Slots :
           "ERR" \in tmd1[i].flags =>
             tmd3[i] # {} \/ (pc \in {"fault3", "coll3"} /\ slot = i)
      /\ pc \in {"copy", "chain1", "chain3", "last1", "last3"} /\ "ERR" \in local.flags =>
           local3 # {} /\ tmd3[slot] # {}
      /\ pc \in {"fault1", "fault3", "coll1", "coll3", "short3", "short1"} => local3 # {}
      /\ pc = "short1" => tmd3[slot] # {}
      /\ pc \in {"chain3", "last3"} => tmd1[slot].flags = local.flags

\* CauseInv is inductive.
LEMMA CauseKept == IInv /\ CauseInv /\ [Next]_vars => CauseInv'
<1> SUFFICES ASSUME IInv, CauseInv, [Next]_vars PROVE CauseInv'
  OBVIOUS
<1>0. /\ tmd1 \in [Slots -> Tmd1] /\ {slot, tdr_offset} \subseteq Slots
      /\ tmd3 \in [Slots -> SUBSET Errors] /\ local3 \in SUBSET Errors
  BY DEF IInv, RingTypes, CauseInv
\* The descriptors and what do_transmit() holds are as before, and it is not
\* about to write back.
<1>1. ASSUME UNCHANGED <<tmd1, tmd3, local3, reused>>,
             pc' \in {"idle", "scan", "fetch", "send"},
             pc \notin {"fault3", "coll3"}
      PROVE  CauseInv'
  BY <1>0, <1>1 DEF CauseInv
<1>2. CASE TxDemand \/ TxScan \/ TxSend
  BY <1>1, <1>2 DEF TxDemand, TxScan, TxSend, ringUnchanged, hostVars
<1>3. CASE TxFetch
  <2>1. /\ UNCHANGED <<tmd1, tmd3, reused>> /\ slot' = tdr_offset /\ pc = "fetch"
        /\ \/ /\ local3' = tmd3[tdr_offset] \cup {"BUFF", "UFLO"} /\ pc' = "fault1"
           \/ /\ local3' = tmd3[tdr_offset] /\ pc' \in {"copy", "chain1"}
              /\ local' = [tmd1[tdr_offset] EXCEPT !.own = "host"]
    BY <1>3 DEF TxFetch, ringUnchanged, hostVars
  <2>2. local3' \in SUBSET Errors  BY <1>0, <2>1 DEF Errors
  <2>3. pc' \in {"copy", "chain1"} => local'.flags = tmd1[tdr_offset].flags
    BY <1>0, <2>1 DEF Tmd1
  <2>4. ~reused => (\A i \in Slots : "ERR" \in tmd1[i].flags => tmd3[i] # {})
    BY <2>1 DEF CauseInv
  <2>5. QED  BY <1>0, <2>1, <2>2, <2>3, <2>4 DEF CauseInv
<1>4. CASE TxCopy
  <2>1. /\ UNCHANGED <<tmd1, tmd3, reused, slot, local, local3>>
        /\ pc = "copy" /\ pc' \in {"last1", "chain1"}
    BY <1>4 DEF TxCopy, ringUnchanged, hostVars
  <2>2. QED  BY <1>0, <2>1 DEF CauseInv
\* Word 1 is written back.
<1>5. ASSUME NEW from, NEW to, WriteTmd1(from, to),
             \/ from = "chain1" /\ to = "chain3"
             \/ from = "last1" /\ to = "last3"
             \/ from = "fault1" /\ to = "fault3"
             \/ from = "coll1" /\ to = "coll3"
      PROVE  CauseInv'
  <2>1. /\ UNCHANGED <<tmd3, reused, slot, local, local3>> /\ pc = from /\ pc' = to
        /\ tmd1' = [tmd1 EXCEPT ![slot] = local]
    BY <1>5 DEF WriteTmd1, hostVars
  <2>2. /\ tmd1'[slot] = local
        /\ \A i \in Slots : i # slot => tmd1'[i] = tmd1[i]
    BY <1>0, <2>1
  <2>3. CASE from \in {"chain1", "last1"}
    BY <1>0, <1>5, <2>1, <2>2, <2>3 DEF CauseInv
  <2>4. CASE from \in {"fault1", "coll1"}
    BY <1>0, <1>5, <2>1, <2>2, <2>4 DEF CauseInv
  <2>5. QED  BY <1>5, <2>3, <2>4
\* Word 3 is written back.
<1>6. CASE TxChain3
  <2>1. /\ UNCHANGED <<tmd1, reused, slot>> /\ pc = "chain3"
        /\ tmd3' = [tmd3 EXCEPT ![slot] = local3]
        /\ \/ pc' \in {"fetch", "last1"} /\ UNCHANGED <<local, local3>>
           \/ pc' = "short3" /\ local3' = local3 \cup {"BUFF", "UFLO"}
    BY <1>6 DEF TxChain3, WriteTmd3, hostVars
  <2>2. tmd3' \in [Slots -> SUBSET Errors] /\ local3' \in SUBSET Errors
    BY <1>0, <2>1 DEF Errors
  <2>3. /\ tmd3'[slot] = local3
        /\ \A i \in Slots : i # slot => tmd3'[i] = tmd3[i]
    BY <1>0, <2>1
  <2>4. ~reused => \A i \in Slots : "ERR" \in tmd1[i].flags => tmd3'[i] # {}
    BY <1>0, <2>1, <2>3 DEF CauseInv
  <2>5. QED  BY <1>0, <2>1, <2>2, <2>3, <2>4 DEF CauseInv
<1>7. CASE TxLast3 \/ TxFault3("fault3") \/ TxFault3("coll3") \/ TxShort3
  <2>1. /\ UNCHANGED <<tmd1, reused, slot, local, local3>>
        /\ tmd3' = [tmd3 EXCEPT ![slot] = local3]
        /\ \/ pc = "last3" /\ pc' = "send"
           \/ pc \in {"fault3", "coll3"} /\ pc' = "idle"
           \/ pc = "short3" /\ pc' = "short1"
    BY <1>7 DEF TxLast3, TxFault3, TxShort3, WriteTmd3, hostVars
  <2>2. tmd3' \in [Slots -> SUBSET Errors]  BY <1>0, <2>1
  <2>3. /\ tmd3'[slot] = local3
        /\ \A i \in Slots : i # slot => tmd3'[i] = tmd3[i]
    BY <1>0, <2>1
  <2>4. ~reused => \A i \in Slots : "ERR" \in tmd1[i].flags => tmd3'[i] # {}
    BY <1>0, <2>1, <2>3 DEF CauseInv
  <2>5. QED  BY <1>0, <2>1, <2>2, <2>3, <2>4 DEF CauseInv
<1>8. CASE TxShort1
  <2>1. /\ UNCHANGED <<tmd3, reused, slot, local3>> /\ pc = "short1" /\ pc' = "idle"
        /\ tmd1' = [tmd1 EXCEPT ![slot] = local]
    BY <1>8 DEF TxShort1, hostVars
  <2>2. \A i \in Slots : i # slot => tmd1'[i] = tmd1[i]  BY <1>0, <2>1
  <2>3. QED  BY <1>0, <2>1, <2>2 DEF CauseInv
<1>9. CASE TxCollide
  <2>1. /\ UNCHANGED <<tmd1, tmd3, reused, slot>> /\ pc = "last1" /\ pc' = "coll1"
        /\ local3' = local3 \cup {"RTRY"}
    BY <1>9 DEF TxCollide, ringUnchanged, hostVars
  <2>2. local3' \in SUBSET Errors /\ local3' # {}  BY <1>0, <2>1 DEF Errors
  <2>3. QED  BY <1>0, <2>1, <2>2 DEF CauseInv
\* A frame is posted over old errors, and never over the buffer being copied.
<1>10. ASSUME NEW n \in PartNos, HostPost(n) PROVE CauseInv'
  <2> DEFINE filled == {(hoff + k - 1) % N : k \in 1 .. n}
  <2>1. n \in 1 .. N /\ N \in Nat \ {0} /\ used \in 0 .. N /\ used + n <= N
    BY SMT, <1>10, NAssumption, MaxAssumption DEF PartNos, HostPost, IInv, RingTypes
  <2>2. \A i \in Slots : i \in filled <=> Ahead(i) < n
    BY <2>1, FilledSlots DEF IInv
  <2>3. pc = "copy" => slot \notin filled
    <3>1. pc = "copy" => Ahead(slot) >= N - used
      BY <1>0 DEF IInv, GivenInUse, CopiesOwned
    <3>2. Ahead(slot) \in Nat  BY SMT, <1>0, <2>1 DEF Ahead, IInv, RingTypes, Slots
    <3>3. QED  BY SMT, <1>0, <2>1, <2>2, <3>1, <3>2
  <2>4. tmd3' = [i \in Slots |-> IF i \in filled THEN {} ELSE tmd3[i]]
    BY <1>10 DEF HostPost
  <2>5. /\ \A i \in Slots \ filled : tmd1'[i] = tmd1[i]
        /\ \A i \in Slots \cap filled : "ERR" \notin tmd1'[i].flags
    BY <1>10 DEF HostPost
  <2>6. ~reused' => ~reused /\ ~(slot \in filled /\ pc \in WritingBack)
    BY <1>10 DEF HostPost
  <2>7. UNCHANGED <<pc, slot, local, local3>>  BY <1>10 DEF HostPost, txVars
  <2> HIDE DEF filled
  <2>8. tmd3' \in [Slots -> SUBSET Errors]  BY <1>0, <2>4
  <2>9. ~reused' => \A i \in Slots :
          "ERR" \in tmd1'[i].flags =>
             tmd3'[i] # {} \/ (pc \in {"fault3", "coll3"} /\ slot = i)
    BY <1>0, <2>4, <2>5, <2>6 DEF CauseInv
  <2>10. ~reused' /\ pc \in WritingBack \cup {"copy"} =>
           tmd1'[slot] = tmd1[slot] /\ tmd3'[slot] = tmd3[slot]
    BY <1>0, <2>3, <2>4, <2>5, <2>6
  <2>11. QED
    BY <1>0, <2>6, <2>7, <2>8, <2>9, <2>10 DEF CauseInv, WritingBack
<1>11. CASE HostGive
  <2>1. PICK g \in togive : tmd1' = [tmd1 EXCEPT ![g].own = "chip"]
    BY <1>11 DEF HostGive
  <2>2. \A i \in Slots : tmd1'[i].flags = tmd1[i].flags
    BY <1>0, <2>1 DEF Tmd1
  <2>3. UNCHANGED <<tmd3, reused, pc, slot, local, local3>>
    BY <1>11 DEF HostGive, txVars
  <2>4. QED  BY <1>0, <2>2, <2>3 DEF CauseInv
<1>12. CASE HostDemand \/ HostReclaim \/ HostDemandsAgain \/ HostAck \/ UNCHANGED vars
  <2>1. UNCHANGED <<tmd1, tmd3, reused, pc, slot, local, local3>>
    BY <1>12 DEF HostDemand, HostReclaim, HostDemandsAgain, HostAck, vars, txVars, hostVars
  <2>2. QED  BY <2>1 DEF CauseInv
<1>13. QED
  BY <1>2, <1>3, <1>4, <1>5, <1>6, <1>7, <1>8, <1>9, <1>10, <1>11, <1>12
     DEF Next, DoTransmit, Host

\* A descriptor the driver finds with ERR names the cause, for every ring and
\* chain length and size of transmitbuffer, every order of handing a chain over
\* and every sequence of underflows, short frames and collisions, unless the
\* driver reused a descriptor that do_transmit() had yet to write back.
THEOREM CausesAreNamed == Spec => []CauseSettled
<1>1. Init => CauseInv
  BY SMT DEF Init, CauseInv
<1>2. CauseInv => CauseSettled
  BY DEF CauseInv, CauseSettled
<1>3. QED
  BY <1>1, <1>2, InitEstablishes, InvKept, CauseKept, PTL DEF Spec

=============================================================================
