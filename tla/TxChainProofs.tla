--------------------------- MODULE TxChainProofs ----------------------------
(***************************************************************************)
(* What do_transmit() sends, for a ring of any length and chains of any    *)
(* length: the frames as the driver posted them, each once; and in order   *)
(* and whole, when nothing fails and no TDMD comes without a frame.        *)
(***************************************************************************)
EXTENDS TxRingProofs, SequenceTheorems

\* The leaves are first-order; those with arithmetic, or with many cases, name SMT.
USE ZenonT(30)

-----------------------------------------------------------------------------
(* What is sent.                                                           *)

\* The descriptor after i in the ring.
After(i) == IF i = N - 1 THEN 0 ELSE i + 1

\* The descriptors that are the chip's or will be, and those of them that are not
\* the last of their frame.
given == {i \in Slots : tmd1[i].own = "chip" \/ i \in togive}
open == {i \in given : "ENP" \notin tmd1[i].flags}

DataTypes ==
    /\ buf \in [Slots -> Part]
    /\ out \in Seq(Part)
    /\ wire \in Seq(Seq(Part))
    /\ posted \in Seq(Seq(Part))
    /\ Len(posted) <= MaxFrames
    /\ \A f \in 1 .. Len(posted) :
         /\ Len(posted[f]) \in PartNos
         /\ \A k \in 1 .. Len(posted[f]) : posted[f][k] = [frame |-> f, no |-> k]

\* The next descriptor, without the modulus, and its distance from hoff.
LEMMA Onwards ==
    ASSUME RingTypes, NEW i \in Slots
    PROVE  /\ After(i) \in Slots /\ (i + 1) % N = After(i)
           /\ Ahead(i) \in 0 .. N - 1
           /\ \A j \in Slots : Ahead(i) = Ahead(j) => i = j
           /\ Ahead(i) < N - 1 => Ahead(After(i)) = Ahead(i) + 1
           /\ Ahead(i) = N - 1 <=> After(i) = hoff
<1>0. N \in Nat \ {0} /\ hoff \in Slots  BY NAssumption DEF RingTypes
<1>1. (i + 1) % N = After(i)
  <2>1. PICK a \in Nat : a = i + 1 /\ a < 2 * N  BY SMT, <1>0 DEF Slots
  <2>2. a % N = IF a < N THEN a ELSE a - N  BY <2>1, Wraps
  <2>3. QED  BY SMT, <1>0, <2>1, <2>2 DEF Slots, After
<1>2. QED  BY SMT, <1>0, <1>1 DEF Slots, After, Ahead

\* What posting a frame does: the n descriptors from hoff on get its parts, in order.
LEMMA PostDoes ==
    ASSUME IInv, DataTypes, NEW n \in PartNos, HostPost(n)
    PROVE  /\ n \in 1 .. N /\ \A i \in given : Ahead(i) >= n
           /\ \A i \in Slots : Ahead(i) >= n =>
                tmd1'[i] = tmd1[i] /\ tmd3'[i] = tmd3[i] /\ buf'[i] = buf[i] /\ i \notin togive'
           /\ \A i \in Slots : Ahead(i) < n =>
                /\ i \in togive' /\ tmd1'[i].own = "host"
                /\ "STP" \in tmd1'[i].flags <=> Ahead(i) = 0
                /\ "ENP" \in tmd1'[i].flags <=> Ahead(i) = n - 1
                /\ buf'[i] = [frame |-> Len(posted) + 1, no |-> Ahead(i) + 1]
           /\ given' = given \cup {i \in Slots : Ahead(i) < n}
           /\ open' = open \cup {i \in Slots : Ahead(i) < n - 1}
           /\ togive = {}
           /\ ~reused' => ~reused /\ (pc \in WritingBack => Ahead(slot) >= n)
<1> DEFINE at(k) == (hoff + k - 1) % N
           no == [i \in {at(k) : k \in 1 .. n} |-> CHOOSE k \in 1 .. n : at(k) = i]
           flags(k) == (IF k = 1 THEN {"STP"} ELSE {}) \cup (IF k = n THEN {"ENP"} ELSE {})
<1>0. /\ n \in 1 .. N /\ N \in Nat \ {0} /\ hoff \in Slots /\ used \in 0 .. N /\ used + n <= N
      /\ togive = {} /\ slot \in Slots /\ RingTypes
  BY SMT, NAssumption, MaxAssumption DEF PartNos, IInv, RingTypes, HostPost, Sides
<1>1. \A i \in given : Ahead(i) >= n
  <2> TAKE i \in given
  <2>1. i \in Slots /\ Ahead(i) >= N - used  BY DEF IInv, GivenInUse, given
  <2>2. Ahead(i) \in Nat  BY SMT, <1>0, <2>1, Onwards
  <2>3. QED  BY SMT, <1>0, <2>1, <2>2
<1>2. \A i \in Slots : i \in DOMAIN no <=> Ahead(i) < n
  <2>1. \A i : i \in DOMAIN no <=> \E k \in 1 .. n : i = at(k)  OBVIOUS
  <2>2. QED  BY <1>0, <2>1, FilledSlots
<1>3. \A i \in Slots, k \in 1 .. n : at(k) = i => k = Ahead(i) + 1
  <2> SUFFICES ASSUME NEW i \in Slots, NEW k \in 1 .. n PROVE at(k) = i => k = Ahead(i) + 1
    OBVIOUS
  <2>1. PICK a \in Nat : a = hoff + k - 1 /\ a < 2 * N  BY SMT, <1>0 DEF Slots
  <2>2. a % N = IF a < N THEN a ELSE a - N  BY <2>1, Wraps
  <2>3. QED  BY SMT, <1>0, <2>1, <2>2 DEF Slots, Ahead
<1>4. \A i \in Slots : i \in DOMAIN no => no[i] = Ahead(i) + 1
  <2> SUFFICES ASSUME NEW i \in Slots, i \in DOMAIN no PROVE no[i] = Ahead(i) + 1
    OBVIOUS
  <2>1. \E k \in 1 .. n : at(k) = i  OBVIOUS
  <2>2. no[i] = CHOOSE k \in 1 .. n : at(k) = i  OBVIOUS
  <2> HIDE DEF at, no
  <2>3. no[i] \in 1 .. n /\ at(no[i]) = i  BY <2>1, <2>2
  <2>4. QED  BY <1>3, <2>3
<1>5. /\ buf' = [i \in Slots |-> IF i \in DOMAIN no
                 THEN [frame |-> Len(posted) + 1, no |-> no[i]] ELSE buf[i]]
      /\ tmd1' = [i \in Slots |-> IF i \in DOMAIN no
                  THEN [own |-> "host", flags |-> flags(no[i])] ELSE tmd1[i]]
      /\ tmd3' = [i \in Slots |-> IF i \in DOMAIN no THEN {} ELSE tmd3[i]]
      /\ togive' = DOMAIN no
      /\ reused' = (reused \/ (slot \in DOMAIN no /\ pc \in WritingBack))
  BY DEF HostPost
<1> HIDE DEF no, at
<1>6. \A i \in Slots : Ahead(i) \in 0 .. N - 1  BY <1>0, Onwards
<1>7. ASSUME NEW i \in Slots, Ahead(i) >= n
      PROVE  /\ tmd1'[i] = tmd1[i] /\ tmd3'[i] = tmd3[i] /\ buf'[i] = buf[i]
             /\ i \notin togive'
  <2>1. i \notin DOMAIN no  BY SMT, <1>0, <1>2, <1>6, <1>7
  <2>2. QED  BY <1>5, <2>1
<1>8. ASSUME NEW i \in Slots, Ahead(i) < n
      PROVE  /\ i \in togive' /\ tmd1'[i].own = "host"
             /\ "STP" \in tmd1'[i].flags <=> Ahead(i) = 0
             /\ "ENP" \in tmd1'[i].flags <=> Ahead(i) = n - 1
             /\ buf'[i] = [frame |-> Len(posted) + 1, no |-> Ahead(i) + 1]
  <2>1. i \in DOMAIN no /\ no[i] = Ahead(i) + 1  BY <1>2, <1>4, <1>8
  <2>2. /\ tmd1'[i] = [own |-> "host", flags |-> flags(Ahead(i) + 1)]
        /\ buf'[i] = [frame |-> Len(posted) + 1, no |-> Ahead(i) + 1]
    BY <1>5, <2>1
  <2>3. (Ahead(i) + 1 = 1 <=> Ahead(i) = 0) /\ (Ahead(i) + 1 = n <=> Ahead(i) = n - 1)
    BY SMT, <1>0, <1>6
  <2>4. \A k : ("STP" \in flags(k) <=> k = 1) /\ ("ENP" \in flags(k) <=> k = n)
    OBVIOUS
  <2> HIDE DEF flags
  <2>5. tmd1'[i].own = "host" /\ tmd1'[i].flags = flags(Ahead(i) + 1)  BY SMT, <2>2
  <2>6. i \in togive'  BY <1>5, <2>1
  <2>7. QED  BY <2>2, <2>3, <2>4, <2>5, <2>6
<1> HIDE DEF flags
<1>9. given' = given \cup {i \in Slots : Ahead(i) < n}
  <2>1. ASSUME NEW i \in Slots PROVE i \in given' <=> i \in given \/ Ahead(i) < n
    <3>1. CASE Ahead(i) < n  BY <1>8, <3>1 DEF given
    <3>2. CASE ~(Ahead(i) < n)
      <4>1. Ahead(i) >= n  BY SMT, <1>0, <1>6, <3>2
      <4>2. QED  BY <1>0, <1>7, <3>2, <4>1 DEF given
    <3>3. QED  BY <3>1, <3>2
  <2>2. given' \subseteq Slots /\ given \subseteq Slots  BY DEF given
  <2>3. QED  BY <2>1, <2>2
<1>10. open' = open \cup {i \in Slots : Ahead(i) < n - 1}
  <2>1. ASSUME NEW i \in Slots PROVE i \in open' <=> i \in open \/ Ahead(i) < n - 1
    <3>1. CASE Ahead(i) < n
      <4>1. i \in given' /\ i \notin given  BY SMT, <1>0, <1>1, <1>6, <1>9, <3>1
      <4>2. i \in open' <=> ~(Ahead(i) = n - 1)  BY <1>8, <3>1, <4>1 DEF open
      <4>3. ~(Ahead(i) = n - 1) <=> Ahead(i) < n - 1  BY SMT, <1>0, <1>6, <3>1
      <4>4. QED  BY <4>1, <4>2, <4>3 DEF open
    <3>2. CASE ~(Ahead(i) < n)
      <4>1. Ahead(i) >= n /\ ~(Ahead(i) < n - 1)  BY SMT, <1>0, <1>6, <3>2
      <4>2. QED  BY <1>7, <1>9, <3>2, <4>1 DEF open
    <3>3. QED  BY <3>1, <3>2
  <2>2. open' \subseteq Slots /\ open \subseteq Slots  BY DEF given, open
  <2>3. QED  BY <2>1, <2>2
<1>11. ~reused' => ~reused /\ (pc \in WritingBack => Ahead(slot) >= n)
  <2>1. ~reused' => ~reused /\ (pc \in WritingBack => slot \notin DOMAIN no)
    BY <1>5
  <2>2. slot \notin DOMAIN no => Ahead(slot) >= n  BY SMT, <1>0, <1>2, <1>6
  <2>3. QED  BY <2>1, <2>2
<1>12. QED  BY <1>0, <1>1, <1>7, <1>8, <1>9, <1>10, <1>11

\* The frame posted is the last of those posted.
LEMMA PostAppends ==
    ASSUME DataTypes, NEW n \in PartNos, HostPost(n)
    PROVE  /\ posted \in Seq(Seq(Part)) /\ posted' \in Seq(Seq(Part))
           /\ Len(posted) \in Nat /\ Len(posted) < MaxFrames /\ Len(posted') = Len(posted) + 1
           /\ \A f \in 1 .. Len(posted) : posted'[f] = posted[f]
           /\ Len(posted'[Len(posted) + 1]) = n
           /\ \A k \in 1 .. n : posted'[Len(posted) + 1][k] = [frame |-> Len(posted) + 1, no |-> k]
<1> DEFINE f == Len(posted) + 1
           new == [k \in 1 .. n |-> [frame |-> f, no |-> k]]
<1>1. posted \in Seq(Seq(Part))  BY DEF DataTypes
<1>2. Len(posted) \in Nat /\ Len(posted) < MaxFrames  BY <1>1, LenProperties DEF HostPost
<1>3. n \in Nat /\ n <= MaxParts /\ MaxFrames \in Nat /\ MaxParts \in Nat
  BY SMT, NAssumption, MaxAssumption DEF PartNos
<1>4. new \in [1 .. n -> Part]  BY SMT, <1>2, <1>3 DEF Part
<1>5. new \in Seq(Part)  BY <1>3, <1>4, SeqDef
<1>6. Len(new) = n  BY SMT, <1>3, <1>4, <1>5, LenProperties
<1>7. \A k \in 1 .. n : new[k] = [frame |-> f, no |-> k]  OBVIOUS
<1>8. posted' = Append(posted, new)  BY DEF HostPost
<1> HIDE DEF new
<1>9. QED  BY SMT, <1>1, <1>2, <1>5, <1>6, <1>7, <1>8, AppendProperties

\* The types of what is posted, copied and sent.
LEMMA DataKept == IInv /\ DataTypes /\ [Next]_vars => DataTypes'
<1> SUFFICES ASSUME IInv, DataTypes, [Next]_vars PROVE DataTypes'
  OBVIOUS
<1>0. buf \in [Slots -> Part] /\ out \in Seq(Part) /\ wire \in Seq(Seq(Part)) /\ slot \in Slots
  BY DEF DataTypes, IInv, RingTypes
<1>1. ASSUME UNCHANGED <<buf, posted>>, out' \in Seq(Part), wire' \in Seq(Seq(Part))
      PROVE  DataTypes'
  BY <1>1 DEF DataTypes
<1>2. CASE TxDemand
  <2>1. out' \in Seq(Part)  BY <1>2, EmptySeq DEF TxDemand
  <2>2. QED  BY <1>0, <1>1, <1>2, <2>1 DEF TxDemand, ringUnchanged, hostVars
<1>3. CASE TxCopy
  <2>1. buf[slot] \in Part  BY <1>0
  <2>2. out' \in Seq(Part)  BY <1>0, <1>3, <2>1, AppendProperties DEF TxCopy
  <2>3. QED  BY <1>0, <1>1, <1>3, <2>2 DEF TxCopy, ringUnchanged, hostVars
<1>4. CASE TxSend
  <2>1. wire' \in Seq(Seq(Part))  BY <1>0, <1>4, AppendProperties DEF TxSend
  <2>2. QED  BY <1>0, <1>1, <1>4, <2>1 DEF TxSend, ringUnchanged, hostVars
<1>5. ASSUME NEW n \in PartNos, HostPost(n) PROVE DataTypes'
  <2>1. /\ posted' \in Seq(Seq(Part)) /\ Len(posted) \in Nat /\ Len(posted) < MaxFrames
        /\ Len(posted') = Len(posted) + 1
        /\ \A f \in 1 .. Len(posted) : posted'[f] = posted[f]
        /\ Len(posted'[Len(posted) + 1]) = n
        /\ \A k \in 1 .. n : posted'[Len(posted) + 1][k] = [frame |-> Len(posted) + 1, no |-> k]
    BY <1>5, PostAppends
  <2>2. UNCHANGED <<out, wire>>  BY <1>5 DEF HostPost, txVars
  <2>3. MaxFrames \in Nat /\ N \in Nat \ {0} /\ MaxParts \in Nat /\ n \in Nat /\ n <= MaxParts
    BY SMT, NAssumption, MaxAssumption DEF PartNos
  <2>4. buf' \in [Slots -> Part]
    <3>1. \A i \in Slots : buf'[i] \in Part
      <4> TAKE i \in Slots
      <4>1. Ahead(i) \in Nat  BY SMT, <2>3, Onwards DEF IInv
      <4>2. CASE Ahead(i) < n
        <5>1. buf'[i] = [frame |-> Len(posted) + 1, no |-> Ahead(i) + 1]
          BY <1>5, <4>2, PostDoes
        <5>2. Len(posted) + 1 \in 0 .. MaxFrames /\ Ahead(i) + 1 \in 0 .. MaxParts
          BY SMT, <2>1, <2>3, <4>1, <4>2
        <5>3. QED  BY SMT, <5>1, <5>2 DEF Part
      <4>3. CASE Ahead(i) >= n
        <5>1. buf'[i] = buf[i]  BY <1>5, <4>3, PostDoes
        <5>2. QED  BY <1>0, <5>1
      <4>4. QED  BY SMT, <2>3, <4>1, <4>2, <4>3
    <3>2. DOMAIN buf' = Slots /\ buf' = [i \in Slots |-> buf'[i]]
      BY <1>5 DEF HostPost
    <3>3. QED  BY <3>1, <3>2
  <2>5. \A f \in 1 .. Len(posted') :
         /\ Len(posted'[f]) \in PartNos
         /\ \A k \in 1 .. Len(posted'[f]) : posted'[f][k] = [frame |-> f, no |-> k]
    <3> TAKE f \in 1 .. Len(posted')
    <3>1. CASE f \in 1 .. Len(posted)  BY <2>1, <3>1 DEF DataTypes
    <3>2. CASE f = Len(posted) + 1  BY <2>1, <3>2
    <3>3. QED  BY SMT, <2>1, <3>1, <3>2
  <2>6. Len(posted') <= MaxFrames  BY SMT, <2>1, <2>3
  <2>7. QED  BY <1>0, <2>1, <2>2, <2>4, <2>5, <2>6 DEF DataTypes
<1>6. ASSUME UNCHANGED <<buf, posted, out, wire>> PROVE DataTypes'
  BY <1>0, <1>1, <1>6
<1>7. CASE TxScan \/ TxFetch \/ TxChain3 \/ TxShort3 \/ TxShort1 \/ TxCollide \/ TxLast3
  BY <1>6, <1>7 DEF TxScan, TxFetch, TxChain3, TxShort3, TxShort1, TxCollide, TxLast3,
     WriteTmd3, ringUnchanged, hostVars
<1>8. ASSUME NEW from, NEW to, WriteTmd1(from, to) PROVE DataTypes'
  BY <1>6, <1>8 DEF WriteTmd1, hostVars
<1>9. ASSUME NEW from, TxFault3(from) PROVE DataTypes'
  BY <1>6, <1>9 DEF TxFault3, WriteTmd3, hostVars
<1>10. CASE Host \/ HostDemandsAgain \/ HostAck \/ UNCHANGED vars
  BY <1>6, <1>10 DEF Host, HostGive, HostDemand, HostReclaim, HostDemandsAgain, HostAck,
     vars, txVars, hostVars
<1>11. QED
  BY <1>2, <1>3, <1>4, <1>5, <1>7, <1>8, <1>9, <1>10 DEF Next, DoTransmit

\* The first buffer of a frame is handed over last, and a frame fits into
\* transmitbuffer.
Whole == ChainReady /\ Cap >= MaxParts

\* Word 1 of a descriptor do_transmit() is yet to write belongs to the frame it has
\* in hand: no descriptor was reused too early, or do_transmit() only ever writes
\* those it owns.
Clear == ~reused \/ Whole

\* The descriptors handed over hold the parts of posted frames, flagged as such,
\* each once, and each followed by the next part of its frame.
ChainsOk ==
    /\ \A i \in given :
         /\ buf[i].frame \in 1 .. Len(posted)
         /\ buf[i].no \in 1 .. Len(posted[buf[i].frame])
         /\ "STP" \in tmd1[i].flags <=> buf[i].no = 1
         /\ i \in open <=> buf[i].no < Len(posted[buf[i].frame])
    /\ \A i \in open : /\ After(i) \in given
                       /\ buf[After(i)] = [frame |-> buf[i].frame, no |-> buf[i].no + 1]
    /\ \A i, j \in given : buf[i] = buf[j] => i = j
    /\ \A i \in togive : tmd1[i].own = "host"

\* s holds the part that comes after those in out.
NextPart(s) ==
    /\ s \in given
    /\ buf[s].no = Len(out) + 1
    /\ out # <<>> => buf[s].frame = out[1].frame

\* No descriptor handed over goes on in s.
Headless(s) == \A i \in open : After(i) # s

\* The descriptor in hand has the flags do_transmit() read from it.
Agree ==
    /\ "STP" \in local.flags <=> "STP" \in tmd1[slot].flags
    /\ "ENP" \in local.flags <=> "ENP" \in tmd1[slot].flags

\* do_transmit() has word 1 of slot yet to write.
Rewrites ==
    \/ pc \in {"copy", "chain1", "last1", "coll1", "fault1", "short3", "short1"}
    \/ pc = "chain3" /\ tdr_offset = slot

\* Where do_transmit() is in a chain.
HandOk ==
    /\ pc = "scan" => out = <<>>
    /\ pc = "fetch" \/ (pc = "chain3" /\ tdr_offset # slot) =>
         NextPart(tdr_offset) /\ Headless(tdr_offset)
    /\ pc = "copy" => NextPart(slot) /\ Len(out) < Cap
    /\ pc = "chain1" => tmd1[slot].own = "chip"
    /\ pc = "chain1" /\ tdr_offset # slot =>
         /\ slot \in open /\ tdr_offset = After(slot)
         /\ buf[slot] = [frame |-> out[1].frame, no |-> Len(out)]
    /\ Rewrites => Headless(slot)
    /\ pc \in {"copy", "chain1", "last1", "coll1"} \/ (~reused /\ pc \in WritingBack) => Agree
    /\ pc \in {"chain1", "chain3", "last1", "last3", "send"} => out # <<>>

\* s is the beginning of a posted frame.
Framed(s) ==
    /\ s # <<>> /\ s[1].frame \in 1 .. Len(posted)
    /\ Len(s) <= Len(posted[s[1].frame])
    /\ \A k \in 1 .. Len(s) : s[k] = [frame |-> s[1].frame, no |-> k]

\* The first part of frame f is in the ring.
Live(f) == \E i \in given : buf[i] = [frame |-> f, no |-> 1]

\* What is sent has left the ring, and what is about to be sent is leaving it.
WireOk ==
    /\ \A w \in 1 .. Len(wire) : Framed(wire[w]) /\ ~Live(wire[w][1].frame)
    /\ \A v, w \in 1 .. Len(wire) : wire[v][1].frame = wire[w][1].frame => v = w
    /\ out # <<>> =>
         /\ Framed(out)
         /\ pc # "idle" => \A w \in 1 .. Len(wire) : wire[w][1].frame # out[1].frame
         /\ \/ ~Live(out[1].frame)
            \/ /\ pc \in {"chain1", "last1", "coll1"}
               /\ tmd1[slot].own = "chip" /\ buf[slot] = out[1]

\* A frame not yet handed over whole has its first buffer yet to be given.
FirstLast == \A g \in togive : \E h \in togive : buf[h] = [frame |-> buf[g].frame, no |-> 1]

\* With whole frames the chip owns what do_transmit() comes to, and no
\* transmission fails.
WholeOk ==
    /\ FirstLast
    /\ pc = "fetch" => tmd1[tdr_offset].own = "chip"
    /\ pc = "chain1" => tdr_offset # slot
    /\ pc = "chain3" => tdr_offset # slot /\ tmd1[tdr_offset].own = "chip"
    /\ pc \in {"copy", "chain1", "last1", "coll1"} => tmd1[slot].own = "chip"
    /\ pc \notin {"fault1", "fault3", "short3", "short1"}
    /\ "TXON" \in csr0

Good == ChainsOk /\ HandOk /\ WireOk /\ (Whole => WholeOk)

ChainInv == Clear => Good

\* Facts the steps of do_transmit() share.
LEMMA Basics ==
    ASSUME IInv, DataTypes
    PROVE  /\ N \in Nat \ {0} /\ tmd1 \in [Slots -> Tmd1] /\ local \in Tmd1 /\ local.own = "host"
           /\ slot \in Slots /\ tdr_offset \in Slots /\ togive \subseteq Slots
           /\ given \subseteq Slots /\ open \subseteq given
           /\ buf \in [Slots -> Part] /\ \A i \in Slots : buf[i].frame \in Nat /\ buf[i].no \in Nat
           /\ out \in Seq(Part) /\ Len(out) \in Nat /\ (out = <<>> <=> Len(out) = 0)
           /\ wire \in Seq(Seq(Part)) /\ Len(wire) \in Nat
           /\ posted \in Seq(Seq(Part)) /\ Len(posted) \in Nat
           /\ \A f \in 1 .. Len(posted) : Len(posted[f]) \in Nat /\ Len(posted[f]) <= MaxParts
           /\ MaxParts \in Nat /\ Cap \in Nat \ {0}
           /\ \A i \in Slots : After(i) \in Slots
           /\ \A i, j \in Slots : After(i) = After(j) => i = j
<1>1. N \in Nat \ {0} /\ MaxParts \in Nat /\ Cap \in Nat \ {0} /\ MaxFrames \in Nat
  BY SMT, NAssumption, MaxAssumption
<1>2. /\ tmd1 \in [Slots -> Tmd1] /\ local \in Tmd1 /\ local.own = "host"
      /\ slot \in Slots /\ tdr_offset \in Slots /\ togive \subseteq Slots
  BY DEF IInv, RingTypes, Sides
<1>3. given \subseteq Slots /\ open \subseteq given  BY DEF given, open
<1>4. /\ buf \in [Slots -> Part] /\ out \in Seq(Part) /\ wire \in Seq(Seq(Part))
      /\ posted \in Seq(Seq(Part))
  BY DEF DataTypes
<1>5. /\ Len(out) \in Nat /\ (out = <<>> <=> Len(out) = 0) /\ Len(wire) \in Nat
      /\ Len(posted) \in Nat
  BY <1>4, EmptySeq, LenProperties
<1>6. \A f \in 1 .. Len(posted) : Len(posted[f]) \in Nat /\ Len(posted[f]) <= MaxParts
  BY SMT, <1>1 DEF DataTypes, PartNos
<1>7. \A i \in Slots : buf[i].frame \in Nat /\ buf[i].no \in Nat
  BY SMT, <1>1, <1>4 DEF Part
<1>8. /\ \A i \in Slots : After(i) \in Slots
      /\ \A i, j \in Slots : After(i) = After(j) => i = j
  BY SMT, <1>1 DEF After, Slots
<1>9. QED  BY <1>1, <1>2, <1>3, <1>4, <1>5, <1>6, <1>7, <1>8

\* What follows a part of a frame is another descriptor, and no first part.
LEMMA NextNo ==
    ASSUME IInv, DataTypes, ChainsOk, NEW i \in open
    PROVE  /\ After(i) \in given /\ buf[After(i)].no # 1 /\ After(i) # i
           /\ buf[After(i)] = [frame |-> buf[i].frame, no |-> buf[i].no + 1]
<1>1. i \in given /\ i \in Slots  BY Basics
<1>2. buf[i].no \in Nat  BY <1>1, Basics
<1>3. buf[i].no \in 1 .. Len(posted[buf[i].frame])  BY <1>1 DEF ChainsOk
<1>4. buf[i].no >= 1  BY SMT, <1>2, <1>3
<1>5. After(i) \in given /\ buf[After(i)] = [frame |-> buf[i].frame, no |-> buf[i].no + 1]
  BY DEF ChainsOk
<1>6. buf[After(i)].no = buf[i].no + 1  BY SMT, <1>5
<1>7. QED  BY SMT, <1>2, <1>4, <1>5, <1>6

\* A step that leaves the descriptors alone.
LEMMA QuietRing ==
    ASSUME UNCHANGED <<tmd1, togive, buf, posted>>
    PROVE  given' = given /\ open' = open /\ (ChainsOk => ChainsOk')
<1>1. given' = given  BY DEF given
<1>2. open' = open  BY <1>1 DEF open
<1>3. QED  BY <1>1, <1>2 DEF ChainsOk

\* Writing back a descriptor that no other goes on in keeps the chains.
LEMMA WrittenRing ==
    ASSUME IInv, DataTypes, ChainsOk, Headless(slot), Agree,
           tmd1' = [tmd1 EXCEPT ![slot] = local], UNCHANGED <<togive, buf, posted>>
    PROVE  /\ given' = IF slot \in togive THEN given ELSE given \ {slot}
           /\ open' = open \cap given'
           /\ \A i \in Slots : i # slot => tmd1'[i] = tmd1[i]
           /\ tmd1'[slot] = local
           /\ ChainsOk'
<1>0. /\ tmd1 \in [Slots -> Tmd1] /\ local.own = "host" /\ slot \in Slots
      /\ given \subseteq Slots /\ open \subseteq given
  BY Basics
<1>1. tmd1'[slot] = local /\ \A i \in Slots : i # slot => tmd1'[i] = tmd1[i]
  BY <1>0
<1>2. given' = IF slot \in togive THEN given ELSE given \ {slot}
  BY <1>0, <1>1 DEF given
<1>3. \A i \in given' : /\ "STP" \in tmd1'[i].flags <=> "STP" \in tmd1[i].flags
                        /\ "ENP" \in tmd1'[i].flags <=> "ENP" \in tmd1[i].flags
  <2> TAKE i \in given'
  <2>1. i \in Slots  BY <1>0, <1>2
  <2>2. CASE i = slot  BY <1>1, <2>2 DEF Agree
  <2>3. CASE i # slot  BY <1>1, <2>1, <2>3
  <2>4. QED  BY <2>2, <2>3
<1>4. given' \subseteq given  BY <1>2
<1>5. open' = open \cap given'  BY <1>3, <1>4 DEF open
<1>6. ChainsOk'
  <2>1. \A i \in given' :
         /\ buf'[i].frame \in 1 .. Len(posted')
         /\ buf'[i].no \in 1 .. Len(posted'[buf'[i].frame])
         /\ "STP" \in tmd1'[i].flags <=> buf'[i].no = 1
         /\ i \in open' <=> buf'[i].no < Len(posted'[buf'[i].frame])
    BY <1>3, <1>4, <1>5 DEF ChainsOk
  <2>2. \A i \in open' : /\ After(i) \in given'
                         /\ buf'[After(i)] = [frame |-> buf'[i].frame, no |-> buf'[i].no + 1]
    BY <1>2, <1>5 DEF ChainsOk, Headless
  <2>3. \A i, j \in given' : buf'[i] = buf'[j] => i = j
    BY <1>4 DEF ChainsOk
  <2>4. \A i \in togive' : tmd1'[i].own = "host"
    BY <1>0, <1>1 DEF ChainsOk, IInv, RingTypes
  <2>5. QED  BY <2>1, <2>2, <2>3, <2>4 DEF ChainsOk
<1>7. QED  BY <1>1, <1>2, <1>5, <1>6

\* A step in which nothing is copied, posted or sent.
LEMMA SameWire ==
    ASSUME WireOk, UNCHANGED <<buf, posted, out, wire>>, given' \subseteq given,
           pc' # "idle" => pc # "idle",
           out # <<>> =>
             \/ ~\E i \in given' : buf[i] = [frame |-> out[1].frame, no |-> 1]
             \/ /\ pc' \in {"chain1", "last1", "coll1"}
                /\ tmd1'[slot'].own = "chip" /\ buf[slot'] = out[1]
    PROVE  WireOk'
<1>1. /\ \A w \in 1 .. Len(wire') :
           /\ Framed(wire[w])'
           /\ ~\E i \in given' : buf'[i] = [frame |-> wire'[w][1].frame, no |-> 1]
      /\ \A v, w \in 1 .. Len(wire') : wire'[v][1].frame = wire'[w][1].frame => v = w
  BY DEF WireOk, Framed, Live
<1>2. out' # <<>> =>
         /\ Framed(out)'
         /\ pc' # "idle" => \A w \in 1 .. Len(wire') : wire'[w][1].frame # out'[1].frame
  BY DEF WireOk, Framed
<1>3. QED  BY <1>1, <1>2 DEF WireOk, Live, Framed

\* Reporting and acknowledging TINT leave the transmitter on.
LEMMA OnStays ==
    ASSUME NEW c, "TXON" \in c
    PROVE  "TXON" \in Rethink(c \cup {"TINT"}) /\ "TXON" \in Rethink(Latch(c, {"TINT"}))
  BY DEF Rethink, Latch, WriteOneClears, CommandBits

\* A transmission begins with the first descriptor of a chain.
LEMMA SearchGood == IInv /\ DataTypes /\ Good /\ (TxDemand \/ TxScan) => Good'
<1> SUFFICES ASSUME IInv, DataTypes, Good, TxDemand \/ TxScan PROVE Good'
  OBVIOUS
<1>0. /\ N \in Nat \ {0} /\ given \subseteq Slots /\ open \subseteq given
      /\ \A i \in Slots : buf[i].frame \in Nat /\ buf[i].no \in Nat
      /\ \A i \in Slots : After(i) \in Slots
  BY Basics
<1>1. UNCHANGED <<tmd1, togive, buf, posted, reused, wire, local, slot>>
  BY DEF TxDemand, TxScan, ringUnchanged, hostVars
<1>2. given' = given /\ open' = open /\ ChainsOk'  BY <1>1, QuietRing DEF Good
<1>3. ChainsOk /\ HandOk /\ WireOk /\ (Whole => WholeOk)  BY DEF Good
<1>4. out' = <<>> /\ pc' \in {"scan", "fetch", "idle"}
  <2>1. CASE TxDemand  BY <2>1 DEF TxDemand
  <2>2. CASE TxScan
    <3>1. out' = out /\ pc = "scan"  BY <2>2 DEF TxScan
    <3>2. out = <<>>  BY <1>3, <3>1 DEF HandOk
    <3>3. pc' \in {"scan", "fetch", "idle"}  BY <2>2 DEF TxScan
    <3>4. QED  BY <3>1, <3>2, <3>3
  <2>3. QED  BY <2>1, <2>2
<1>a. Len(out') = 0  BY <1>4
<1>5. pc' = "fetch" => /\ tdr_offset' \in Slots /\ tmd1[tdr_offset'].own = "chip"
                       /\ "STP" \in tmd1[tdr_offset'].flags
  <2>1. RingTypes'  BY TransmitKeeps DEF IInv, DoTransmit
  <2>2. tdr_offset' \in Slots  BY <2>1 DEF RingTypes
  <2>3. QED  BY <2>2 DEF TxDemand, TxScan, Starts
<1>6. pc' = "fetch" => tdr_offset' \in given /\ buf[tdr_offset'].no = 1
  BY <1>3, <1>5 DEF given, ChainsOk
<1>7. pc' = "fetch" => \A i \in open : After(i) # tdr_offset'
  BY <1>3, <1>6, NextNo
<1>8. HandOk'
  BY SMT, <1>1, <1>2, <1>4, <1>a, <1>6, <1>7 DEF HandOk, NextPart, Headless, Rewrites, WritingBack
<1>9. WireOk'
  BY <1>1, <1>2, <1>3, <1>4 DEF WireOk, Live, Framed
<1>10. ASSUME Whole PROVE WholeOk'
  <2>1. "TXON" \in csr0'  BY <1>3, <1>10 DEF TxDemand, TxScan, WholeOk
  <2>2. QED  BY <1>1, <1>2, <1>3, <1>4, <1>5, <1>10, <2>1 DEF WholeOk, FirstLast
<1>11. QED  BY <1>2, <1>8, <1>9, <1>10 DEF Good

\* The next descriptor of the chain holds the next part of the frame; a whole
\* frame is not broken off.
LEMMA FetchGood == IInv /\ DataTypes /\ Good /\ TxFetch => Good'
<1> SUFFICES ASSUME IInv, DataTypes, Good, TxFetch PROVE Good'
  OBVIOUS
<1>0. /\ N \in Nat \ {0} /\ given \subseteq Slots /\ open \subseteq given
      /\ tmd1 \in [Slots -> Tmd1] /\ tdr_offset \in Slots
      /\ Len(out) \in Nat /\ (out = <<>> <=> Len(out) = 0)
      /\ Len(posted) \in Nat
      /\ \A f \in 1 .. Len(posted) : Len(posted[f]) \in Nat /\ Len(posted[f]) <= MaxParts
      /\ MaxParts \in Nat /\ Cap \in Nat \ {0}
      /\ \A i \in Slots : buf[i].frame \in Nat /\ buf[i].no \in Nat
  BY Basics
<1>1. UNCHANGED <<tmd1, togive, buf, posted, reused, wire, out, tdr_offset>>
  BY DEF TxFetch, ringUnchanged, hostVars
<1>2. given' = given /\ open' = open /\ ChainsOk'  BY <1>1, QuietRing DEF Good
<1>3. ChainsOk /\ HandOk /\ WireOk /\ (Whole => WholeOk)  BY DEF Good
<1>4. /\ pc = "fetch" /\ slot' = tdr_offset
      /\ \/ /\ pc' = "fault1" /\ tmd1[tdr_offset].own = "host"
            /\ local' = [tmd1[tdr_offset] EXCEPT !.flags = @ \cup {"ERR"}]
         \/ /\ tmd1[tdr_offset].own = "chip" /\ UNCHANGED csr0
            /\ local' = [tmd1[tdr_offset] EXCEPT !.own = "host"]
            /\ pc' = IF Len(out) < Cap THEN "copy" ELSE "chain1"
  BY DEF TxFetch
<1>5. NextPart(tdr_offset) /\ Headless(tdr_offset)  BY <1>3, <1>4 DEF HandOk
<1>6. Agree'
  <2>1. tmd1[tdr_offset] \in Tmd1  BY <1>0
  <2>2. /\ "STP" \in local'.flags <=> "STP" \in tmd1[tdr_offset].flags
        /\ "ENP" \in local'.flags <=> "ENP" \in tmd1[tdr_offset].flags
    BY SMT, <1>4, <2>1 DEF Tmd1
  <2>3. QED  BY <1>1, <1>4, <2>2 DEF Agree
<1>7. pc' = "chain1" => out # <<>>  BY SMT, <1>0, <1>4
<1>8. HandOk'
  <2>1. NextPart(slot)' /\ Headless(slot)'
    BY <1>1, <1>2, <1>4, <1>5 DEF NextPart, Headless
  <2>2. pc' \in {"fault1", "copy", "chain1"} /\ (pc' = "copy" => Len(out') < Cap)
    BY <1>1, <1>4
  <2>3. pc' = "chain1" => tmd1'[slot'].own = "chip" /\ tdr_offset' = slot'
    BY <1>1, <1>4
  <2>4. QED  BY <1>1, <1>6, <1>7, <2>1, <2>2, <2>3 DEF HandOk, WritingBack
<1>9. WireOk'
  <2>1. out # <<>> => ~\E i \in given' : buf[i] = [frame |-> out[1].frame, no |-> 1]
    BY <1>2, <1>3, <1>4 DEF WireOk, Live
  <2>2. QED  BY <1>1, <1>2, <1>3, <1>4, <2>1, SameWire
<1>10. ASSUME Whole PROVE WholeOk'
  <2>1. WholeOk /\ tmd1[tdr_offset].own = "chip"  BY <1>3, <1>4, <1>10 DEF WholeOk
  <2>2. Len(out) < Cap
    <3>1. /\ buf[tdr_offset].frame \in 1 .. Len(posted)
          /\ buf[tdr_offset].no \in 1 .. Len(posted[buf[tdr_offset].frame])
          /\ buf[tdr_offset].no = Len(out) + 1
      BY <1>3, <1>5 DEF NextPart, ChainsOk
    <3>2. Cap >= MaxParts  BY <1>10 DEF Whole
    <3>3. QED  BY SMT, <1>0, <3>1, <3>2
  <2>3. pc' = "copy" /\ UNCHANGED csr0  BY <1>4, <2>1, <2>2
  <2>4. QED  BY <1>1, <1>2, <1>4, <2>1, <2>3 DEF WholeOk, FirstLast
<1>11. QED  BY <1>2, <1>8, <1>9, <1>10 DEF Good

\* Copying the next part of a frame.
LEMMA CopyGood == IInv /\ DataTypes /\ Good /\ TxCopy => Good'
<1> SUFFICES ASSUME IInv, DataTypes, Good, TxCopy PROVE Good'
  OBVIOUS
<1>0. /\ N \in Nat \ {0} /\ given \subseteq Slots /\ open \subseteq given
      /\ slot \in Slots /\ buf \in [Slots -> Part] /\ out \in Seq(Part)
      /\ Len(out) \in Nat /\ (out = <<>> <=> Len(out) = 0) /\ Len(wire) \in Nat
      /\ Len(posted) \in Nat
      /\ \A f \in 1 .. Len(posted) : Len(posted[f]) \in Nat /\ Len(posted[f]) <= MaxParts
      /\ \A i \in Slots : buf[i].frame \in Nat /\ buf[i].no \in Nat
      /\ \A i \in Slots : After(i) \in Slots
  BY Basics
<1>1. UNCHANGED <<tmd1, togive, buf, posted, reused, wire, slot, local, csr0>>
  BY DEF TxCopy, ringUnchanged, hostVars
<1>2. given' = given /\ open' = open /\ ChainsOk'  BY <1>1, QuietRing DEF Good
<1>3. ChainsOk /\ HandOk /\ WireOk /\ (Whole => WholeOk)  BY DEF Good
<1>4. /\ pc = "copy" /\ out' = Append(out, buf[slot])
      /\ pc' = IF "ENP" \in local.flags THEN "last1" ELSE "chain1"
  BY DEF TxCopy
<1>5. tdr_offset' = After(slot)  BY <1>0, Onwards DEF TxCopy, IInv
<1>6. NextPart(slot) /\ Headless(slot) /\ Agree  BY <1>3, <1>4 DEF HandOk, Rewrites
<1>7. tmd1[slot].own = "chip"  BY <1>4 DEF IInv, CopiesOwned
<1>8. pc' = "chain1" => slot \in open
  <2>1. slot \in given  BY <1>6 DEF NextPart
  <2>2. QED  BY <1>4, <1>6, <2>1 DEF Agree, open
<1>9. /\ buf[slot].frame \in 1 .. Len(posted)
      /\ buf[slot].no \in 1 .. Len(posted[buf[slot].frame])
      /\ buf[slot].no = Len(out) + 1
  BY <1>3, <1>6 DEF NextPart, ChainsOk
<1>10. /\ out' # <<>> /\ Len(out') = Len(out) + 1
       /\ \A k \in 1 .. Len(out) : out'[k] = out[k]
       /\ out'[Len(out) + 1] = buf[slot]
  <2>1. buf[slot] \in Part  BY <1>0
  <2>2. QED  BY SMT, <1>0, <1>4, <2>1, AppendProperties
<1>11. buf[slot] = [frame |-> out'[1].frame, no |-> Len(out')]
  <2>1. out'[1].frame = buf[slot].frame
    <3>1. CASE out = <<>>  BY SMT, <1>0, <1>10, <3>1
    <3>2. CASE out # <<>>
      <4>1. out'[1] = out[1]  BY SMT, <1>0, <1>10, <3>2
      <4>2. QED  BY <1>6, <3>2, <4>1 DEF NextPart
    <3>3. QED  BY <3>1, <3>2
  <2>2. buf[slot] \in Part  BY <1>0
  <2>3. buf[slot] = [frame |-> buf[slot].frame, no |-> buf[slot].no]  BY <2>2 DEF Part
  <2>4. QED  BY <1>9, <1>10, <2>1, <2>3
<1>12. HandOk'
  <2>1. Headless(slot)' /\ Agree'  BY <1>1, <1>2, <1>6 DEF Headless, Agree
  <2>2. tmd1'[slot'].own = "chip"  BY <1>1, <1>7
  <2>3. pc' = "chain1" => slot' \in open' /\ tdr_offset' = After(slot')
    BY <1>1, <1>2, <1>5, <1>8
  <2>4. buf'[slot'] = [frame |-> out'[1].frame, no |-> Len(out')]  BY <1>1, <1>11
  <2>5. pc' \in {"last1", "chain1"}  BY <1>4
  <2>6. QED  BY <1>10, <2>1, <2>2, <2>3, <2>4, <2>5 DEF HandOk
<1>13. Framed(out)'
  <2>1. out'[1].frame = buf[slot].frame /\ buf[slot].no = Len(out')  BY SMT, <1>11
  <2>2. ASSUME NEW k \in 1 .. Len(out')
        PROVE  out'[k] = [frame |-> out'[1].frame, no |-> k]
    <3>1. CASE k = Len(out)+1  BY <1>10, <1>11, <3>1
    <3>2. CASE k \in 1 .. Len(out)
      <4>1. out # <<>> /\ out'[k] = out[k] /\ out'[1] = out[1]  BY SMT, <1>0, <1>10, <3>2
      <4>2. out[k] = [frame |-> out[1].frame, no |-> k]
        BY <1>3, <3>2, <4>1 DEF WireOk, Framed
      <4>3. QED  BY <4>1, <4>2
    <3>3. QED  BY SMT, <1>0, <1>10, <3>1, <3>2
  <2>3. out'[1].frame \in 1 .. Len(posted) /\ Len(out') <= Len(posted[out'[1].frame])
    BY SMT, <1>0, <1>9, <2>1
  <2>4. QED  BY <1>1, <1>10, <2>2, <2>3 DEF Framed
<1>14. WireOk'
  <2>1. /\ \A w \in 1 .. Len(wire') :
           /\ Framed(wire[w])'
           /\ ~\E i \in given' : buf'[i] = [frame |-> wire'[w][1].frame, no |-> 1]
        /\ \A v, w \in 1 .. Len(wire') : wire'[v][1].frame = wire'[w][1].frame => v = w
    BY <1>1, <1>2, <1>3 DEF WireOk, Framed, Live
  <2>2. \A w \in 1 .. Len(wire) : wire[w][1].frame # out'[1].frame
    <3>1. CASE out = <<>>
      <4>1. buf[slot] = [frame |-> out'[1].frame, no |-> 1] /\ slot \in given
        BY SMT, <1>0, <1>6, <1>10, <1>11, <3>1 DEF NextPart
      <4>2. QED  BY <1>3, <4>1 DEF WireOk, Live
    <3>2. CASE out # <<>>
      <4>1. out'[1] = out[1]  BY SMT, <1>0, <1>10, <3>2
      <4>2. QED  BY <1>3, <1>4, <3>2, <4>1 DEF WireOk
    <3>3. QED  BY <3>1, <3>2
  <2>3. \/ ~\E i \in given' : buf'[i] = [frame |-> out'[1].frame, no |-> 1]
        \/ /\ pc' \in {"chain1", "last1", "coll1"}
           /\ tmd1'[slot'].own = "chip" /\ buf'[slot'] = out'[1]
    <3>1. CASE out = <<>>
      <4>1. buf[slot] = out'[1]  BY SMT, <1>0, <1>10, <3>1
      <4>2. QED  BY <1>1, <1>4, <1>7, <4>1
    <3>2. CASE out # <<>>
      <4>1. out'[1] = out[1]  BY SMT, <1>0, <1>10, <3>2
      <4>2. QED  BY <1>1, <1>2, <1>3, <1>4, <3>2, <4>1 DEF WireOk, Live
    <3>3. QED  BY <3>1, <3>2
  <2>4. QED  BY <1>1, <1>13, <2>1, <2>2, <2>3 DEF WireOk, Live
<1>15. ASSUME Whole PROVE WholeOk'
  <2>1. WholeOk  BY <1>3, <1>15
  <2>2. pc' = "chain1" => After(slot) # slot
    BY <1>3, <1>8, NextNo
  <2>3. pc' \in {"chain1", "last1"}  BY <1>4
  <2>4. QED  BY <1>1, <1>2, <1>5, <1>7, <2>1, <2>2, <2>3 DEF WholeOk, FirstLast
<1>16. QED  BY <1>2, <1>12, <1>14, <1>15 DEF Good

\* Word 1 of the descriptor in hand is written back: it leaves the ring, unless
\* the driver is still to hand it over.
LEMMA WordOneGood ==
    ASSUME IInv, DataTypes, Clear, Good,
           \/ pc = "chain1" /\ pc' = "chain3"
           \/ pc = "last1" /\ pc' = "last3"
           \/ pc = "coll1" /\ pc' = "coll3"
           \/ pc = "fault1" /\ pc' = "fault3"
           \/ pc = "short1" /\ pc' = "idle",
           tmd1' = [tmd1 EXCEPT ![slot] = local],
           UNCHANGED <<togive, buf, posted, reused, tdr_offset, slot, local, out, wire>>,
           pc # "short1" => UNCHANGED csr0
    PROVE  Good'
<1>0. /\ given \subseteq Slots /\ open \subseteq given /\ tmd1 \in [Slots -> Tmd1]
      /\ slot \in Slots /\ tdr_offset \in Slots /\ local.own = "host" /\ togive \subseteq Slots
      /\ \A i \in Slots : After(i) \in Slots
      /\ \A i, j \in Slots : After(i) = After(j) => i = j
  BY Basics
<1>1. ChainsOk /\ HandOk /\ WireOk /\ (Whole => WholeOk)  BY DEF Good
<1>2. Headless(slot)  BY <1>1 DEF HandOk, Rewrites
<1>3. Agree
  <2>1. CASE pc \in {"chain1", "last1", "coll1"}  BY <1>1, <2>1 DEF HandOk
  <2>2. CASE pc \in {"fault1", "short1"}
    <3>1. ~Whole  BY <1>1, <2>2 DEF WholeOk
    <3>2. ~reused  BY <3>1 DEF Clear
    <3>3. QED  BY <1>1, <2>2, <3>2 DEF HandOk, WritingBack
  <2>3. QED  BY <2>1, <2>2
<1>4. /\ given' = IF slot \in togive THEN given ELSE given \ {slot}
      /\ open' = open \cap given'
      /\ \A i \in Slots : i # slot => tmd1'[i] = tmd1[i]
      /\ tmd1'[slot] = local
      /\ ChainsOk'
  BY <1>1, <1>2, <1>3, WrittenRing
<1>5. given' \subseteq given /\ open' \subseteq open  BY <1>4
<1>6. tmd1[slot].own = "chip" => slot \in given /\ slot \notin given'
  BY <1>0, <1>1, <1>4 DEF given, ChainsOk
<1>7. Agree'  BY <1>4 DEF Agree
<1>8. ASSUME pc = "chain1", tdr_offset # slot
      PROVE  NextPart(tdr_offset)' /\ Headless(tdr_offset)'
  <2>1. /\ slot \in open /\ tdr_offset = After(slot) /\ tmd1[slot].own = "chip" /\ out # <<>>
        /\ buf[slot] = [frame |-> out[1].frame, no |-> Len(out)]
    BY <1>1, <1>8 DEF HandOk
  <2>2. /\ After(slot) \in given
        /\ buf[After(slot)] = [frame |-> buf[slot].frame, no |-> buf[slot].no + 1]
    BY <1>1, <2>1, NextNo
  <2>3. buf[tdr_offset].no = Len(out) + 1 /\ buf[tdr_offset].frame = out[1].frame
    BY SMT, <2>1, <2>2
  <2>4. tdr_offset \in given'  BY <1>4, <1>8, <2>1, <2>2
  <2>5. slot \notin open'  BY <1>4, <1>6, <2>1
  <2>6. \A i \in open' : After(i) # tdr_offset
    BY <1>0, <1>5, <2>1, <2>5
  <2>7. QED  BY <2>3, <2>4, <2>6 DEF NextPart, Headless
<1>9. HandOk'
  <2>1. Headless(slot)'  BY <1>2, <1>5 DEF Headless
  <2>2. pc' \in {"chain3", "last3"} => out' # <<>>  BY <1>1 DEF HandOk
  <2>3. pc' = "chain3" /\ tdr_offset' # slot' => NextPart(tdr_offset)' /\ Headless(tdr_offset)'
    BY <1>8
  <2>4. QED  BY <1>7, <2>1, <2>2, <2>3 DEF HandOk, Rewrites
<1>10. WireOk'
  <2>1. out # <<>> => ~\E i \in given' : buf[i] = [frame |-> out[1].frame, no |-> 1]
    <3> SUFFICES ASSUME out # <<>>, NEW i \in given', buf[i] = [frame |-> out[1].frame, no |-> 1]
                 PROVE  FALSE
      OBVIOUS
    <3>1. i \in given  BY <1>5
    <3>2. Live(out[1].frame)  BY <3>1 DEF Live
    <3>3. tmd1[slot].own = "chip" /\ buf[slot] = out[1] /\ Framed(out)  BY <1>1, <3>2 DEF WireOk
    <3>4. out[1] = [frame |-> out[1].frame, no |-> 1]
      <4>1. Len(out) \in Nat \ {0}  BY Basics
      <4>2. QED  BY SMT, <3>3, <4>1 DEF Framed
    <3>5. slot \in given /\ buf[i] = buf[slot]  BY <1>6, <3>3, <3>4
    <3>6. i = slot  BY <1>1, <3>1, <3>5 DEF ChainsOk
    <3>7. QED  BY <1>6, <3>3, <3>6
  <2>2. pc # "idle"  OBVIOUS
  <2>3. QED  BY <1>1, <1>5, <2>1, <2>2, SameWire
<1>11. ASSUME Whole PROVE WholeOk'
  <2>1. WholeOk  BY <1>1, <1>11
  <2>2. pc \in {"chain1", "last1", "coll1"} /\ UNCHANGED csr0  BY <2>1 DEF WholeOk
  <2>3. FirstLast'  BY <2>1 DEF WholeOk, FirstLast
  <2>4. pc' = "chain3" => tdr_offset # slot /\ tmd1'[tdr_offset].own = "chip"
    <3> SUFFICES ASSUME pc = "chain1"  PROVE tdr_offset # slot /\ tmd1'[tdr_offset].own = "chip"
      OBVIOUS
    <3>1. tdr_offset # slot /\ tmd1[slot].own = "chip" /\ slot \in given
      BY <1>6, <2>1 DEF WholeOk
    <3>2. /\ slot \in open /\ tdr_offset = After(slot) /\ out # <<>>
          /\ buf[slot] = [frame |-> out[1].frame, no |-> Len(out)]
      BY <1>1, <3>1 DEF HandOk
    <3>3. /\ tdr_offset \in given
          /\ buf[tdr_offset] = [frame |-> buf[slot].frame, no |-> buf[slot].no + 1]
      BY <1>1, <3>2, NextNo
    <3>4. tdr_offset \notin togive
      <4> SUFFICES ASSUME tdr_offset \in togive PROVE FALSE
        OBVIOUS
      <4>1. buf[tdr_offset].frame = out[1].frame  BY SMT, <3>2, <3>3
      <4>2. PICK h \in togive : buf[h] = [frame |-> out[1].frame, no |-> 1]
        BY <2>1, <4>1 DEF WholeOk, FirstLast
      <4>3. h \in given /\ tmd1[h].own = "host"  BY <1>0, <1>1 DEF given, ChainsOk
      <4>4. Live(out[1].frame)  BY <4>2, <4>3 DEF Live
      <4>5. buf[slot] = out[1] /\ Framed(out)  BY <1>1, <3>2, <4>4 DEF WireOk
      <4>6. out[1] = [frame |-> out[1].frame, no |-> 1]
        <5>1. Len(out) \in Nat \ {0}  BY <3>2, Basics
        <5>2. QED  BY SMT, <4>5, <5>1 DEF Framed
      <4>7. h = slot  BY <1>1, <3>1, <4>2, <4>3, <4>5, <4>6 DEF ChainsOk
      <4>8. QED  BY <3>1, <4>3, <4>7
    <3>5. tmd1[tdr_offset].own = "chip"  BY <3>3, <3>4 DEF given
    <3>6. QED  BY <1>0, <1>4, <3>1, <3>5
  <2>5. pc' \in {"chain3", "last3", "coll3"}  BY <2>2
  <2>6. QED  BY <2>1, <2>2, <2>3, <2>4, <2>5 DEF WholeOk
<1>12. QED  BY <1>4, <1>9, <1>10, <1>11 DEF Good

\* The steps between and after these writes, which leave word 1 of the ring alone.
LEMMA BetweenGood ==
    ASSUME IInv, DataTypes, Clear, Good,
           TxChain3 \/ TxShort3 \/ TxLast3 \/ TxFault3("fault3") \/ TxFault3("coll3") \/ TxCollide
    PROVE  Good'
<1>1. ChainsOk /\ HandOk /\ WireOk /\ (Whole => WholeOk)  BY DEF Good
<1>2. /\ UNCHANGED <<tmd1, togive, buf, posted, reused, wire, out, tdr_offset, slot>>
      /\ pc # "idle"
  BY DEF TxChain3, TxShort3, TxLast3, TxFault3, TxCollide, WriteTmd3, ringUnchanged, hostVars
<1>3. given' = given /\ open' = open /\ ChainsOk'  BY <1>1, <1>2, QuietRing
<1>4. \/ pc = "chain3" /\ pc' = "fetch" /\ tdr_offset # slot /\ UNCHANGED <<local, csr0>>
      \/ pc = "chain3" /\ pc' = "last1" /\ tdr_offset = slot /\ UNCHANGED <<local, csr0>>
      \/ pc = "chain3" /\ pc' = "short3" /\ tdr_offset = slot
           /\ local' = [local EXCEPT !.flags = @ \cup {"ERR"}]
      \/ pc = "short3" /\ pc' = "short1" /\ UNCHANGED local
      \/ pc = "last3" /\ pc' = "send" /\ UNCHANGED <<local, csr0>>
      \/ pc \in {"fault3", "coll3"} /\ pc' = "idle" /\ UNCHANGED local
           /\ csr0' = Rethink(csr0 \cup {"TINT"})
      \/ pc = "last1" /\ pc' = "coll1" /\ local' = [local EXCEPT !.flags = @ \cup {"ERR"}]
           /\ UNCHANGED csr0
  BY DEF TxChain3, TxShort3, TxLast3, TxFault3, TxCollide, WriteTmd3
<1>5. Agree => Agree'
  <2>1. local \in Tmd1  BY Basics
  <2>2. /\ "STP" \in local'.flags <=> "STP" \in local.flags
        /\ "ENP" \in local'.flags <=> "ENP" \in local.flags
    BY SMT, <1>4, <2>1 DEF Tmd1
  <2>3. QED  BY <1>2, <2>2 DEF Agree
<1>6. Headless(slot) => Headless(slot)'  BY <1>2, <1>3 DEF Headless
<1>7. HandOk'
  <2>1. CASE pc = "chain3" /\ tdr_offset # slot
    <3>1. NextPart(tdr_offset) /\ Headless(tdr_offset)  BY <1>1, <2>1 DEF HandOk
    <3>2. NextPart(tdr_offset)' /\ Headless(tdr_offset)'
      BY <1>2, <1>3, <3>1 DEF NextPart, Headless
    <3>3. pc' = "fetch"  BY <1>4, <2>1
    <3>4. QED  BY <3>2, <3>3 DEF HandOk, Rewrites, WritingBack
  <2>2. CASE pc = "chain3" /\ tdr_offset = slot
    <3>1. ~Whole  BY <1>1, <2>2 DEF WholeOk
    <3>2. ~reused  BY <3>1 DEF Clear
    <3>3. Headless(slot) /\ Agree /\ out # <<>>
      BY <1>1, <2>2, <3>2 DEF HandOk, Rewrites, WritingBack
    <3>4. pc' \in {"last1", "short3"}  BY <1>4, <2>2
    <3>5. QED  BY <1>2, <1>5, <1>6, <3>3, <3>4 DEF HandOk
  <2>3. CASE pc = "short3"
    <3>1. Headless(slot) /\ (~reused => Agree)
      BY <1>1, <2>3 DEF HandOk, Rewrites, WritingBack
    <3>2. pc' = "short1"  BY <1>4, <2>3
    <3>3. QED  BY <1>2, <1>5, <1>6, <3>1, <3>2 DEF HandOk
  <2>4. CASE pc = "last1"
    <3>1. Headless(slot) /\ Agree  BY <1>1, <2>4 DEF HandOk, Rewrites
    <3>2. pc' = "coll1"  BY <1>4, <2>4
    <3>3. QED  BY <1>5, <1>6, <3>1, <3>2 DEF HandOk
  <2>5. CASE pc \in {"last3", "fault3", "coll3"}
    <3>1. pc' \in {"send", "idle"} /\ (pc' = "send" => out' # <<>>)
      BY <1>1, <1>2, <1>4, <2>5 DEF HandOk
    <3>2. QED  BY <3>1 DEF HandOk, Rewrites, WritingBack
  <2>6. QED  BY <1>4, <2>1, <2>2, <2>3, <2>4, <2>5
<1>8. WireOk'
  <2>1. out # <<>> =>
             \/ ~\E i \in given' : buf[i] = [frame |-> out[1].frame, no |-> 1]
             \/ /\ pc' \in {"chain1", "last1", "coll1"}
                /\ tmd1'[slot'].own = "chip" /\ buf[slot'] = out[1]
    BY <1>1, <1>2, <1>3, <1>4 DEF WireOk, Live
  <2>2. QED  BY <1>1, <1>2, <1>3, <2>1, SameWire
<1>9. ASSUME Whole PROVE WholeOk'
  <2>1. WholeOk  BY <1>1, <1>9
  <2>2. pc' \in {"fetch", "send", "idle", "coll1"} /\ (pc' = "coll1" => pc = "last1")
    BY <1>4, <2>1 DEF WholeOk
  <2>3. "TXON" \in csr0'
    <3>1. UNCHANGED csr0 \/ csr0' = Rethink(csr0 \cup {"TINT"})  BY <1>4, <2>1 DEF WholeOk
    <3>2. "TXON" \in csr0  BY <2>1 DEF WholeOk
    <3>3. QED  BY <3>1, <3>2, OnStays
  <2>4. pc' = "fetch" => pc = "chain3"  BY <1>4
  <2>5. QED  BY <1>2, <1>3, <2>1, <2>2, <2>3, <2>4 DEF WholeOk, FirstLast
<1>10. QED  BY <1>3, <1>7, <1>8, <1>9 DEF Good

\* The frame sent has left the ring and is not among those sent before.
LEMMA SendGood == IInv /\ DataTypes /\ Good /\ TxSend => Good'
<1> SUFFICES ASSUME IInv, DataTypes, Good, TxSend PROVE Good'
  OBVIOUS
<1>0. /\ out \in Seq(Part) /\ wire \in Seq(Seq(Part)) /\ Len(wire) \in Nat
  BY Basics
<1>1. ChainsOk /\ HandOk /\ WireOk /\ (Whole => WholeOk)  BY DEF Good
<1>2. /\ UNCHANGED <<tmd1, togive, buf, posted, reused, out, tdr_offset, slot>>
      /\ pc = "send" /\ pc' = "idle" /\ wire' = Append(wire, out)
      /\ csr0' = Rethink(csr0 \cup {"TINT"})
  BY DEF TxSend, ringUnchanged, hostVars
<1>3. given' = given /\ open' = open /\ ChainsOk'  BY <1>1, <1>2, QuietRing
<1>4. HandOk'  BY <1>2 DEF HandOk, Rewrites, WritingBack
<1>5. /\ Framed(out) /\ ~Live(out[1].frame) /\ out # <<>>
      /\ \A w \in 1 .. Len(wire) : wire[w][1].frame # out[1].frame
  BY <1>1, <1>2 DEF HandOk, WireOk
<1>6. /\ Len(wire') = Len(wire) + 1
      /\ \A w \in 1 .. Len(wire) : wire'[w] = wire[w]
      /\ wire'[Len(wire) + 1] = out
  BY SMT, <1>0, <1>2, AppendProperties
<1>7. ASSUME NEW w \in 1 .. Len(wire')
      PROVE  Framed(wire[w])' /\ ~Live(wire[w][1].frame)'
  <2>1. CASE w \in 1 .. Len(wire)
    <3>1. Framed(wire[w]) /\ ~Live(wire[w][1].frame)  BY <1>1, <2>1 DEF WireOk
    <3>2. wire'[w] = wire[w]  BY <1>6, <2>1
    <3>3. QED  BY <1>2, <1>3, <3>1, <3>2 DEF Framed, Live
  <2>2. CASE w = Len(wire) + 1
    <3>1. wire'[w] = out  BY <1>6, <2>2
    <3>2. QED  BY <1>2, <1>3, <1>5, <3>1 DEF Framed, Live
  <2>3. QED  BY SMT, <1>0, <1>6, <2>1, <2>2
<1>8. \A v, w \in 1 .. Len(wire') : wire'[v][1].frame = wire'[w][1].frame => v = w
  <2> SUFFICES ASSUME NEW v \in 1 .. Len(wire'), NEW w \in 1 .. Len(wire'),
                      wire'[v][1].frame = wire'[w][1].frame
               PROVE  v = w
    OBVIOUS
  <2>1. \A x \in 1 .. Len(wire') : x \in 1 .. Len(wire) \/ x = Len(wire) + 1  BY SMT, <1>0, <1>6
  <2>2. QED  BY <1>1, <1>5, <1>6, <2>1 DEF WireOk
<1>9. WireOk'
  <2>1. Framed(out)' /\ ~\E i \in given' : buf'[i] = [frame |-> out'[1].frame, no |-> 1]
    BY <1>2, <1>3, <1>5 DEF Framed, Live
  <2>2. QED  BY <1>2, <1>7, <1>8, <2>1 DEF WireOk, Live
<1>10. ASSUME Whole PROVE WholeOk'
  <2>1. "TXON" \in csr0'  BY <1>1, <1>2, <1>10, OnStays DEF WholeOk
  <2>2. QED  BY <1>1, <1>2, <1>3, <1>10, <2>1 DEF WholeOk, FirstLast
<1>11. QED  BY <1>3, <1>4, <1>9, <1>10 DEF Good

\* The driver's other steps leave what is handed over, and its flags, alone; when the
\* first buffer is given, none is left to give.
LEMMA HostGood ==
    ASSUME IInv, DataTypes, Good, Host \/ HostDemandsAgain \/ HostAck \/ UNCHANGED vars
    PROVE  Good'
<1>0. /\ tmd1 \in [Slots -> Tmd1] /\ togive \subseteq Slots /\ given \subseteq Slots
      /\ open \subseteq given /\ slot \in Slots /\ tdr_offset \in Slots
      /\ \A i \in Slots : buf[i].no \in Nat
      /\ \A i \in Slots : After(i) \in Slots
  BY Basics
<1>1. ChainsOk /\ HandOk /\ WireOk /\ (Whole => WholeOk)  BY DEF Good
<1>2. UNCHANGED <<buf, posted, reused, out, wire, tdr_offset, slot, local, pc>>
  BY DEF Host, HostGive, HostDemand, HostReclaim, HostDemandsAgain, HostAck, vars, txVars, hostVars
<1>3. \/ UNCHANGED <<tmd1, togive>>
      \/ \E g \in togive :
           /\ ChainReady /\ buf[g].no = 1 => togive = {g}
           /\ tmd1' = [tmd1 EXCEPT ![g].own = "chip"] /\ togive' = togive \ {g}
  BY DEF Host, HostGive, HostDemand, HostReclaim, HostDemandsAgain, HostAck, vars, hostVars
<1>4. \A i \in Slots : /\ tmd1'[i].flags = tmd1[i].flags
                       /\ tmd1[i].own = "chip" => tmd1'[i].own = "chip"
                       /\ i \in given' <=> i \in given
                       /\ i \in togive' => i \in togive /\ tmd1'[i].own = tmd1[i].own
  BY SMT, <1>0, <1>3 DEF Tmd1, given
<1>5. given' = given
  <2>1. given' \subseteq Slots  BY DEF given
  <2>2. QED  BY <1>0, <1>4, <2>1
<1>6. open' = open  BY <1>0, <1>4, <1>5 DEF open
<1>7. ChainsOk'
  <2>1. \A i \in given' :
         /\ buf'[i].frame \in 1 .. Len(posted')
         /\ buf'[i].no \in 1 .. Len(posted'[buf'[i].frame])
         /\ "STP" \in tmd1'[i].flags <=> buf'[i].no = 1
         /\ i \in open' <=> buf'[i].no < Len(posted'[buf'[i].frame])
    <3> TAKE i \in given'
    <3>1. i \in given /\ i \in Slots  BY <1>0, <1>5
    <3>2. tmd1'[i].flags = tmd1[i].flags  BY <1>4, <3>1
    <3>3. QED  BY <1>1, <1>2, <1>6, <3>1, <3>2 DEF ChainsOk
  <2>2. \A i \in togive' : tmd1'[i].own = "host"
    BY <1>0, <1>1, <1>4, <1>5, <1>3 DEF ChainsOk
  <2>3. QED  BY <1>1, <1>2, <1>5, <1>6, <2>1, <2>2 DEF ChainsOk
<1>8. HandOk'
  <2>1. Agree' <=> Agree  BY <1>0, <1>2, <1>4 DEF Agree
  <2>2. QED
    BY <1>0, <1>1, <1>2, <1>4, <1>5, <1>6, <2>1 DEF HandOk, NextPart, Headless, Rewrites
<1>9. WireOk'
  BY <1>0, <1>1, <1>2, <1>4, <1>5, SameWire DEF WireOk, Live
<1>10. ASSUME Whole PROVE WholeOk'
  <2>1. WholeOk  BY <1>1, <1>10
  <2>2. "TXON" \in csr0'
    <3>1. UNCHANGED csr0 \/ csr0' = Rethink(Latch(csr0, {"TINT"}))
      BY DEF Host, HostGive, HostDemand, HostReclaim, HostDemandsAgain, HostAck, vars
    <3>2. QED  BY <2>1, <3>1, OnStays DEF WholeOk
  <2>3. FirstLast'
    <3>1. CASE UNCHANGED togive  BY <1>2, <2>1, <3>1 DEF WholeOk, FirstLast
    <3>2. ASSUME NEW g \in togive, ChainReady /\ buf[g].no = 1 => togive = {g},
                 togive' = togive \ {g}
          PROVE  FirstLast'
      <4>1. SUFFICES ASSUME NEW i \in togive'
                     PROVE  \E h \in togive' : buf[h] = [frame |-> buf[i].frame, no |-> 1]
        BY <1>2 DEF FirstLast
      <4>2. PICK h \in togive : buf[h] = [frame |-> buf[i].frame, no |-> 1]
        BY <2>1, <3>2 DEF WholeOk, FirstLast
      <4>3. buf[h].no = 1  BY SMT, <4>2
      <4>4. h # g  BY <1>10, <3>2, <4>1, <4>3 DEF Whole
      <4>5. QED  BY <3>2, <4>2, <4>4
    <3>3. QED  BY <1>3, <3>1, <3>2
  <2>4. QED  BY <1>0, <1>2, <1>4, <2>1, <2>2, <2>3 DEF WholeOk
<1>11. QED  BY <1>7, <1>8, <1>9, <1>10 DEF Good

\* A frame posted is a new chain, and touches no other and no descriptor whose word 1
\* do_transmit() is yet to write.
LEMMA PostGood ==
    ASSUME IInv, DataTypes, Clear, Clear', Good, NEW n \in PartNos, HostPost(n)
    PROVE  Good'
<1>0. /\ given \subseteq Slots /\ open \subseteq given /\ slot \in Slots /\ tdr_offset \in Slots
      /\ \A i \in Slots : After(i) \in Slots
      /\ \A i \in Slots : buf[i].frame \in Nat /\ buf[i].no \in Nat
      /\ Len(out) \in Nat /\ N \in Nat \ {0}
  BY Basics
<1>1. ChainsOk /\ HandOk /\ WireOk /\ (Whole => WholeOk)  BY DEF Good
<1>2. /\ n \in 1 .. N /\ \A i \in given : Ahead(i) >= n
      /\ \A i \in Slots : Ahead(i) >= n =>
           tmd1'[i] = tmd1[i] /\ buf'[i] = buf[i] /\ i \notin togive'
      /\ \A i \in Slots : Ahead(i) < n =>
           /\ i \in togive' /\ tmd1'[i].own = "host"
           /\ "STP" \in tmd1'[i].flags <=> Ahead(i) = 0
           /\ "ENP" \in tmd1'[i].flags <=> Ahead(i) = n - 1
           /\ buf'[i] = [frame |-> Len(posted) + 1, no |-> Ahead(i) + 1]
      /\ given' = given \cup {i \in Slots : Ahead(i) < n}
      /\ open' = open \cup {i \in Slots : Ahead(i) < n - 1}
      /\ ~reused' => ~reused /\ (pc \in WritingBack => Ahead(slot) >= n)
  BY PostDoes
<1>3. /\ Len(posted) \in Nat /\ Len(posted') = Len(posted) + 1
      /\ \A f \in 1 .. Len(posted) : posted'[f] = posted[f]
      /\ Len(posted'[Len(posted) + 1]) = n
  BY PostAppends
<1>4. UNCHANGED <<tdr_offset, pc, slot, local, out, wire, csr0>>  BY DEF HostPost, txVars
<1>5. \A i \in Slots : Ahead(i) \in Nat /\ (Ahead(i) < n \/ Ahead(i) >= n)
  <2> TAKE i \in Slots
  <2>1. Ahead(i) \in 0 .. N - 1  BY Onwards DEF IInv
  <2>2. QED  BY SMT, <1>2, <2>1
<1>6. \A i \in given : i \in Slots /\ tmd1'[i] = tmd1[i] /\ buf'[i] = buf[i]
  BY <1>0, <1>2
<1>a. n \in Nat /\ n >= 1 /\ n <= N /\ N \in Nat  BY SMT, <1>0, <1>2
<1>b. \A i \in Slots : Ahead(i) < n =>
        buf'[i].frame = Len(posted) + 1 /\ buf'[i].no = Ahead(i) + 1
  <2> TAKE i \in Slots
  <2> HAVE Ahead(i) < n
  <2>1. buf'[i] = [frame |-> Len(posted) + 1, no |-> Ahead(i) + 1]  BY <1>2
  <2>2. QED  BY SMT, <2>1
\* The chain of the frame goes through the descriptors filled.
<1>7. ASSUME NEW i \in Slots, Ahead(i) < n - 1
      PROVE  Ahead(After(i)) = Ahead(i) + 1 /\ Ahead(After(i)) < n /\ After(i) \in Slots
  <2>1. Ahead(i) < N - 1  BY SMT, <1>5, <1>7, <1>a
  <2>2. Ahead(After(i)) = Ahead(i) + 1  BY <2>1, Onwards DEF IInv
  <2>3. QED  BY SMT, <1>0, <1>2, <1>5, <1>7, <2>2
<1>8. \A i \in Slots : Ahead(i) < n - 1 => Ahead(i) < n  BY SMT, <1>2, <1>5
<1>9. ChainsOk'
  <2>1. ASSUME NEW i \in given'
        PROVE  /\ buf'[i].frame \in 1 .. Len(posted')
               /\ buf'[i].no \in 1 .. Len(posted'[buf'[i].frame])
               /\ "STP" \in tmd1'[i].flags <=> buf'[i].no = 1
               /\ i \in open' <=> buf'[i].no < Len(posted'[buf'[i].frame])
    <3>1. CASE i \in given
      <4>1. tmd1'[i] = tmd1[i] /\ buf'[i] = buf[i] /\ i \in Slots  BY <1>6, <3>1
      <4>2. /\ buf[i].frame \in 1 .. Len(posted)
            /\ buf[i].no \in 1 .. Len(posted[buf[i].frame])
            /\ "STP" \in tmd1[i].flags <=> buf[i].no = 1
            /\ i \in open <=> buf[i].no < Len(posted[buf[i].frame])
        BY <1>1, <3>1 DEF ChainsOk
      <4>3. posted'[buf[i].frame] = posted[buf[i].frame]  BY <1>3, <4>2
      <4>4. buf[i].frame \in 1 .. Len(posted')  BY SMT, <1>3, <4>2
      <4>5. i \in open' <=> i \in open  BY <1>2, <1>5, <1>8, <3>1, <4>1
      <4>6. QED  BY <4>1, <4>2, <4>3, <4>4, <4>5
    <3>2. CASE i \notin given
      <4>1. i \in Slots /\ Ahead(i) < n /\ i \notin open  BY <1>0, <1>2, <3>2
      <4>2. buf'[i].frame = Len(posted) + 1 /\ buf'[i].no = Ahead(i) + 1  BY <1>b, <4>1
      <4>3. "STP" \in tmd1'[i].flags <=> Ahead(i) = 0  BY <1>2, <4>1
      <4>4. i \in open' <=> Ahead(i) < n - 1  BY <1>2, <4>1
      <4>5. Len(posted'[buf'[i].frame]) = n  BY <1>3, <4>2
      <4>6. Ahead(i) \in Nat /\ n \in Nat  BY SMT, <1>2, <1>5, <4>1
      <4>7. QED  BY SMT, <1>3, <4>1, <4>2, <4>3, <4>4, <4>5, <4>6
    <3>3. QED  BY <3>1, <3>2
  <2>2. ASSUME NEW i \in open'
        PROVE  /\ After(i) \in given'
               /\ buf'[After(i)] = [frame |-> buf'[i].frame, no |-> buf'[i].no + 1]
    <3>1. CASE i \in open
      <4>1. /\ After(i) \in given
            /\ buf[After(i)] = [frame |-> buf[i].frame, no |-> buf[i].no + 1]
        BY <1>1, <3>1, NextNo
      <4>2. buf'[i] = buf[i] /\ buf'[After(i)] = buf[After(i)]  BY <1>0, <1>6, <3>1, <4>1
      <4>3. QED  BY <1>2, <4>1, <4>2
    <3>2. CASE i \notin open
      <4>1. i \in Slots /\ Ahead(i) < n - 1  BY <1>2, <3>2
      <4>2. Ahead(After(i)) = Ahead(i) + 1 /\ Ahead(After(i)) < n /\ After(i) \in Slots
        BY <1>7, <4>1
      <4>3. /\ buf'[i] = [frame |-> Len(posted) + 1, no |-> Ahead(i) + 1]
            /\ buf'[After(i)] = [frame |-> Len(posted) + 1, no |-> Ahead(After(i)) + 1]
        BY <1>2, <1>8, <4>1, <4>2
      <4>4. QED  BY SMT, <1>2, <4>2, <4>3
    <3>3. QED  BY <3>1, <3>2
  <2>3. ASSUME NEW i \in given', NEW j \in given', buf'[i] = buf'[j]  PROVE i = j
    <3>1. \A k \in given' : k \in given \/ (k \in Slots /\ Ahead(k) < n)  BY <1>2
    <3>2. \A k \in given : buf'[k].frame \in 1 .. Len(posted)
      BY <1>1, <1>6 DEF ChainsOk
    <3>3. \A k \in Slots : Ahead(k) < n =>
            buf'[k].frame = Len(posted) + 1 /\ buf'[k].no = Ahead(k) + 1
      BY <1>b
    <3>4. CASE i \in given /\ j \in given
      BY SMT, <1>1, <1>6, <2>3, <3>4 DEF ChainsOk
    <3>5. CASE i \notin given /\ j \notin given
      <4>1. i \in Slots /\ j \in Slots /\ Ahead(i) + 1 = Ahead(j) + 1
        BY <2>3, <3>1, <3>3, <3>5
      <4>2. Ahead(i) = Ahead(j)  BY SMT, <1>5, <4>1
      <4>3. QED  BY <4>1, <4>2, Onwards DEF IInv
    <3>6. CASE ~(i \in given <=> j \in given)
      BY SMT, <1>3, <2>3, <3>1, <3>2, <3>3, <3>6
    <3>7. QED  BY <3>4, <3>5, <3>6
  <2>4. \A i \in togive' : tmd1'[i].own = "host"
    <3>1. togive' \subseteq Slots
      <4>1. RingTypes'  BY PostKeeps DEF IInv
      <4>2. QED  BY <4>1 DEF RingTypes
    <3>2. QED  BY <1>2, <1>5, <3>1
  <2>5. QED  BY <2>1, <2>2, <2>3, <2>4 DEF ChainsOk
\* What do_transmit() has in hand is not touched.
<1>10. ASSUME NEW s \in Slots, Ahead(s) >= n, Headless(s)
       PROVE  \A i \in open' : After(i) # s
  <2> TAKE i \in open'
  <2>1. CASE i \in open  BY <1>10, <2>1 DEF Headless
  <2>2. CASE i \notin open
    <3>1. i \in Slots /\ Ahead(i) < n - 1  BY <1>2, <2>2
    <3>2. Ahead(After(i)) < n  BY <1>7, <3>1
    <3>3. QED  BY <1>2, <1>5, <1>10, <3>2
  <2>3. QED  BY <2>1, <2>2
<1>11. /\ Rewrites => Ahead(slot) >= n
       /\ ~reused' /\ pc \in WritingBack => Ahead(slot) >= n
       /\ pc \in {"copy", "chain1", "last1", "coll1"} => Ahead(slot) >= n
  <2>1. tmd1[slot].own = "chip" => Ahead(slot) >= n  BY <1>0, <1>2 DEF given
  <2>2. pc = "copy" => Ahead(slot) >= n  BY <2>1 DEF IInv, CopiesOwned
  <2>3. CASE ~reused'
    BY <1>2, <2>2, <2>3 DEF Rewrites, WritingBack
  <2>4. CASE reused' /\ Whole
    <3>1. WholeOk  BY <1>1, <2>4
    <3>2. Rewrites => pc \in {"copy", "chain1", "last1", "coll1"}
      BY <3>1 DEF WholeOk, Rewrites
    <3>3. pc \in {"copy", "chain1", "last1", "coll1"} => Ahead(slot) >= n
      BY <2>1, <3>1 DEF WholeOk
    <3>4. QED  BY <2>4, <3>2, <3>3
  <2>5. QED  BY <2>3, <2>4 DEF Clear
<1>12. HandOk'
  <2>1. pc = "fetch" \/ (pc = "chain3" /\ tdr_offset # slot) =>
          NextPart(tdr_offset)' /\ Headless(tdr_offset)'
    <3> SUFFICES ASSUME pc = "fetch" \/ (pc = "chain3" /\ tdr_offset # slot)
                 PROVE  NextPart(tdr_offset)' /\ Headless(tdr_offset)'
      OBVIOUS
    <3>1. NextPart(tdr_offset) /\ Headless(tdr_offset)  BY <1>1 DEF HandOk
    <3>2. tdr_offset \in given  BY <3>1 DEF NextPart
    <3>3. \A i \in open' : After(i) # tdr_offset  BY <1>0, <1>2, <1>10, <3>1, <3>2
    <3>4. QED  BY <1>2, <1>4, <1>6, <3>1, <3>2, <3>3 DEF NextPart, Headless
  <2>2. pc = "copy" => NextPart(slot)' /\ Len(out') < Cap
    <3>1. pc = "copy" => NextPart(slot) /\ Len(out) < Cap  BY <1>1 DEF HandOk
    <3>2. QED  BY <1>2, <1>4, <1>6, <3>1 DEF NextPart
  <2>3. Rewrites' => Headless(slot)'
    <3>1. Rewrites' <=> Rewrites  BY <1>4 DEF Rewrites
    <3>2. Rewrites => Headless(slot)  BY <1>1 DEF HandOk
    <3>3. Rewrites => \A i \in open' : After(i) # slot  BY <1>0, <1>10, <1>11, <3>2
    <3>4. QED  BY <1>4, <3>1, <3>3 DEF Headless
  <2>4. pc \in {"copy", "chain1", "last1", "coll1"} \/ (~reused' /\ pc \in WritingBack) => Agree'
    <3>1. pc \in {"copy", "chain1", "last1", "coll1"} \/ (~reused' /\ pc \in WritingBack) =>
            Agree /\ Ahead(slot) >= n
      BY <1>1, <1>2, <1>11 DEF HandOk
    <3>2. Ahead(slot) >= n => tmd1'[slot] = tmd1[slot]  BY <1>0, <1>2
    <3>3. QED  BY <1>4, <3>1, <3>2 DEF Agree
  <2>5. pc = "chain1" => tmd1'[slot].own = "chip"
    BY <1>0, <1>1, <1>2, <1>11 DEF HandOk
  <2>6. pc = "chain1" /\ tdr_offset # slot =>
         /\ slot \in open' /\ tdr_offset = After(slot)
         /\ buf'[slot] = [frame |-> out[1].frame, no |-> Len(out)]
    BY <1>0, <1>1, <1>2, <1>6 DEF HandOk
  <2>7. /\ pc = "scan" => out = <<>>
        /\ pc \in {"chain1", "chain3", "last1", "last3", "send"} => out # <<>>
    BY <1>1 DEF HandOk
  <2>8. QED  BY <1>4, <2>1, <2>2, <2>3, <2>4, <2>5, <2>6, <2>7 DEF HandOk
<1>13. WireOk'
  <2>1. ASSUME NEW s, Framed(s)  PROVE /\ s # <<>> /\ s[1].frame \in 1 .. Len(posted')
                                       /\ Len(s) <= Len(posted'[s[1].frame])
                                       /\ \A k \in 1 .. Len(s) : s[k] = [frame |-> s[1].frame, no |-> k]
    BY SMT, <1>3, <2>1 DEF Framed
  <2>2. ASSUME NEW f \in 1 .. Len(posted), ~Live(f)
        PROVE  ~\E i \in given' : buf'[i] = [frame |-> f, no |-> 1]
    <3> SUFFICES ASSUME NEW i \in given', buf'[i] = [frame |-> f, no |-> 1]  PROVE FALSE
      OBVIOUS
    <3>1. CASE i \in given  BY <1>6, <2>2, <3>1 DEF Live
    <3>2. CASE i \notin given
      <4>1. i \in Slots /\ Ahead(i) < n  BY <1>2, <3>2
      <4>2. buf'[i].frame = Len(posted) + 1  BY <1>b, <4>1
      <4>3. f # Len(posted) + 1  BY SMT, <1>3
      <4>4. QED  BY SMT, <4>2, <4>3
    <3>3. QED  BY <3>1, <3>2
  <2>3. ASSUME NEW w \in 1 .. Len(wire)
        PROVE  /\ Framed(wire[w])'
               /\ ~\E i \in given' : buf'[i] = [frame |-> wire[w][1].frame, no |-> 1]
    <3>1. Framed(wire[w]) /\ ~Live(wire[w][1].frame)  BY <1>1 DEF WireOk
    <3>2. wire[w][1].frame \in 1 .. Len(posted)  BY <3>1 DEF Framed
    <3>3. ~\E i \in given' : buf'[i] = [frame |-> wire[w][1].frame, no |-> 1]
      BY <2>2, <3>1, <3>2
    <3>4. QED  BY <1>4, <2>1, <3>1, <3>3 DEF Framed
  <2>4. ASSUME out # <<>>
        PROVE  /\ Framed(out)'
               /\ \/ ~\E i \in given' : buf'[i] = [frame |-> out[1].frame, no |-> 1]
                  \/ /\ pc \in {"chain1", "last1", "coll1"}
                     /\ tmd1'[slot].own = "chip" /\ buf'[slot] = out[1]
    <3>1. /\ Framed(out)
          /\ \/ ~Live(out[1].frame)
             \/ /\ pc \in {"chain1", "last1", "coll1"}
                /\ tmd1[slot].own = "chip" /\ buf[slot] = out[1]
      BY <1>1, <2>4 DEF WireOk
    <3>2. Framed(out)'  BY <1>4, <2>1, <3>1 DEF Framed
    <3>3. out[1].frame \in 1 .. Len(posted)  BY <3>1 DEF Framed
    <3>4. CASE ~Live(out[1].frame)  BY <2>2, <3>2, <3>3, <3>4
    <3>5. CASE /\ pc \in {"chain1", "last1", "coll1"}
               /\ tmd1[slot].own = "chip" /\ buf[slot] = out[1]
      <4>1. slot \in given  BY <1>0, <3>5 DEF given
      <4>2. QED  BY <1>6, <3>2, <3>5, <4>1
    <3>6. QED  BY <3>1, <3>4, <3>5
  <2>5. QED  BY <1>1, <1>4, <2>3, <2>4 DEF WireOk, Live
<1>14. ASSUME Whole PROVE WholeOk'
  <2>1. WholeOk  BY <1>1, <1>14
  <2>2. \A s \in Slots : tmd1[s].own = "chip" => tmd1'[s].own = "chip"
    BY <1>2 DEF given
  <2>3. FirstLast'
    <3>1. hoff \in Slots /\ Ahead(hoff) = 0 /\ Ahead(hoff) < n
      <4>1. hoff \in Slots  BY DEF IInv, RingTypes
      <4>2. hoff \in Int  BY SMT, <1>a, <4>1 DEF Slots
      <4>3. Ahead(hoff) = 0  BY SMT, <4>2 DEF Ahead
      <4>4. QED  BY SMT, <1>a, <4>1, <4>3
    <3>2. hoff \in togive' /\ buf'[hoff] = [frame |-> Len(posted) + 1, no |-> 1]
      <4>1. hoff \in togive' /\ buf'[hoff] = [frame |-> Len(posted) + 1, no |-> Ahead(hoff) + 1]
        BY <1>2, <3>1
      <4>2. Ahead(hoff) + 1 = 1  BY SMT, <3>1
      <4>3. QED  BY <4>1, <4>2
    <3>3. \A g \in togive' : buf'[g].frame = Len(posted) + 1
      <4>1. togive' \subseteq Slots
        <5>1. IInv'  BY InvKept DEF Next
        <5>2. QED  BY <5>1 DEF IInv, RingTypes
      <4>2. QED  BY <1>2, <1>5, <1>b, <4>1
    <3>4. QED  BY <3>2, <3>3 DEF FirstLast
  <2>4. QED  BY <1>0, <1>4, <2>1, <2>2, <2>3 DEF WholeOk
<1>15. QED  BY <1>9, <1>12, <1>13, <1>14 DEF Good

\* ChainInv is inductive.
LEMMA ChainKept == IInv /\ DataTypes /\ ChainInv /\ [Next]_vars => ChainInv'
<1> SUFFICES ASSUME IInv, DataTypes, ChainInv, [Next]_vars, Clear'  PROVE Good'
  BY DEF ChainInv
<1>1. reused' = reused \/ \E n \in PartNos : HostPost(n)
  <2>1. ASSUME NEW from, NEW to, WriteTmd1(from, to) PROVE reused' = reused
    BY <2>1 DEF WriteTmd1, hostVars
  <2>2. ASSUME NEW from, TxFault3(from) PROVE reused' = reused
    BY <2>2 DEF TxFault3, WriteTmd3, hostVars
  <2>3. CASE TxDemand \/ TxScan \/ TxFetch \/ TxCopy \/ TxChain3 \/ TxShort3 \/ TxShort1
             \/ TxCollide \/ TxLast3 \/ TxSend
    BY <2>3 DEF TxDemand, TxScan, TxFetch, TxCopy, TxChain3, TxShort3, TxShort1, TxCollide,
       TxLast3, TxSend, WriteTmd3, ringUnchanged, hostVars
  <2>4. CASE Host \/ HostDemandsAgain \/ HostAck \/ UNCHANGED vars
    BY <2>4 DEF Host, HostGive, HostDemand, HostReclaim, HostDemandsAgain, HostAck, vars, hostVars
  <2>5. QED  BY <2>1, <2>2, <2>3, <2>4 DEF Next, DoTransmit
<1>2. Clear
  <2>1. ASSUME NEW n \in PartNos, HostPost(n) PROVE ~reused' => ~reused
    BY <2>1, PostDoes
  <2>2. ~reused' => ~reused  BY <1>1, <2>1
  <2>3. QED  BY <2>2 DEF Clear, Whole
<1>3. Good  BY <1>2 DEF ChainInv
<1>4. ASSUME NEW from, NEW to, WriteTmd1(from, to),
             \/ from = "chain1" /\ to = "chain3"
             \/ from = "last1" /\ to = "last3"
             \/ from = "coll1" /\ to = "coll3"
             \/ from = "fault1" /\ to = "fault3"
      PROVE  Good'
  <2>1. /\ pc = from /\ pc' = to /\ tmd1' = [tmd1 EXCEPT ![slot] = local]
        /\ UNCHANGED <<togive, buf, posted, reused, tdr_offset, slot, local, out, wire, csr0>>
    BY <1>4 DEF WriteTmd1, hostVars
  <2>2. QED  BY <1>2, <1>3, <1>4, <2>1, WordOneGood
<1>5. CASE TxShort1
  <2>1. /\ pc = "short1" /\ pc' = "idle" /\ tmd1' = [tmd1 EXCEPT ![slot] = local]
        /\ UNCHANGED <<togive, buf, posted, reused, tdr_offset, slot, local, out, wire>>
    BY <1>5 DEF TxShort1, hostVars
  <2>2. QED  BY <1>2, <1>3, <2>1, WordOneGood
<1>6. CASE TxChain3 \/ TxShort3 \/ TxLast3 \/ TxFault3("fault3") \/ TxFault3("coll3") \/ TxCollide
  BY <1>2, <1>3, <1>6, BetweenGood
<1>7. CASE Host \/ HostDemandsAgain \/ HostAck \/ UNCHANGED vars
  BY <1>3, <1>7, HostGood
<1>8. ASSUME NEW n \in PartNos, HostPost(n) PROVE Good'
  BY <1>2, <1>3, <1>8, PostGood
<1>9. QED
  BY <1>3, <1>4, <1>5, <1>6, <1>7, <1>8, SearchGood, FetchGood, CopyGood, SendGood
     DEF Next, DoTransmit

\* The empty ring.
LEMMA ChainStarts == Init => DataTypes /\ ChainInv
<1> SUFFICES ASSUME Init PROVE DataTypes /\ Good
  BY DEF ChainInv
<1>1. /\ pc = "idle" /\ out = <<>> /\ wire = <<>> /\ posted = <<>> /\ togive = {}
      /\ csr0 = {"TXON"} /\ \A i \in Slots : tmd1[i].own = "host"
  BY DEF Init
<1>2. given = {} /\ open = {}  BY <1>1 DEF given, open
<1>3. DataTypes
  <2>1. NoPart \in Part  BY SMT, NAssumption, MaxAssumption DEF NoPart, Part
  <2>2. buf \in [Slots -> Part]  BY <2>1 DEF Init
  <2>3. Len(posted) = 0 /\ posted \in Seq(Seq(Part)) /\ out \in Seq(Part) /\ wire \in Seq(Seq(Part))
    BY <1>1, EmptySeq
  <2>4. QED  BY SMT, <2>2, <2>3, MaxAssumption DEF DataTypes
<1>4. ChainsOk  BY <1>1, <1>2 DEF ChainsOk
<1>5. HandOk  BY <1>1 DEF HandOk, Rewrites, WritingBack
<1>6. WireOk
  <2>1. Len(wire) = 0  BY <1>1
  <2>2. QED  BY SMT, <1>1, <2>1 DEF WireOk
<1>7. WholeOk  BY <1>1, <1>2 DEF WholeOk, FirstLast
<1>8. QED  BY <1>3, <1>4, <1>5, <1>6, <1>7 DEF Good

\* No frame is sent twice, and what is sent is a posted frame or its beginning, for
\* every ring and chain length, size of transmitbuffer and number of TDMDs, every
\* order of handing a chain over and whatever fails on the way, unless the driver
\* reused a descriptor that do_transmit() had yet to write back.
THEOREM FramesSentOnce == Spec => []SentOnce
<1>1. IInv /\ DataTypes /\ ChainInv => SentOnce
  <2> SUFFICES ASSUME IInv, DataTypes, ChainInv, ~reused
               PROVE  /\ \A i, j \in DOMAIN wire : wire[i][1].frame = wire[j][1].frame => i = j
                      /\ \A i \in DOMAIN wire :
                           wire[i] = SubSeq(posted[wire[i][1].frame], 1, Len(wire[i]))
    BY DEF SentOnce
  <2>1. WireOk  BY DEF ChainInv, Clear, Good
  <2>2. wire \in Seq(Seq(Part)) /\ posted \in Seq(Seq(Part))  BY Basics
  <2>3. DOMAIN wire = 1 .. Len(wire)  BY <2>2, LenProperties
  <2>4. ASSUME NEW i \in 1 .. Len(wire)
        PROVE  wire[i] = SubSeq(posted[wire[i][1].frame], 1, Len(wire[i]))
    <3> DEFINE f == wire[i][1].frame
    <3>1. Framed(wire[i]) /\ wire[i] \in Seq(Part)  BY <2>1, <2>2, ElementOfSeq DEF WireOk
    <3>2. Len(wire[i]) \in Nat  BY <3>1, LenProperties
    <3>3. f \in 1 .. Len(posted) /\ Len(wire[i]) <= Len(posted[f])  BY <3>1 DEF Framed
    <3> HIDE DEF f
    <3>4. posted[f] \in Seq(Part)  BY <2>2, <3>3, ElementOfSeq
    <3>5. Len(posted[f]) \in Nat  BY <3>4, LenProperties
    <3>6. /\ \A k \in 1 .. Len(wire[i]) : wire[i][k] = [frame |-> f, no |-> k]
          /\ \A k \in 1 .. Len(posted[f]) : posted[f][k] = [frame |-> f, no |-> k]
      BY <3>1, <3>3 DEF Framed, DataTypes, f
    <3>7. ASSUME NEW k \in 1 .. Len(wire[i])
          PROVE  posted[f][k] \in Part /\ posted[f][k] = wire[i][k]
      <4>1. k \in 1 .. Len(posted[f])  BY SMT, <3>2, <3>3, <3>5
      <4>2. posted[f][k] \in Part  BY <3>4, <4>1, ElementOfSeq
      <4>3. QED  BY <3>6, <4>1, <4>2
    <3> DEFINE t == SubSeq(posted[f], 1, Len(wire[i]))
    <3>8. /\ t \in Seq(Part)
          /\ Len(t) = IF 1 <= Len(wire[i]) THEN Len(wire[i]) - 1 + 1 ELSE 0
          /\ \A k \in 1 .. Len(wire[i]) - 1 + 1 : t[k] = posted[f][1 + k - 1]
      BY SMT, <3>2, <3>7, SubSeqProperties
    <3> HIDE DEF t
    <3>9. Len(t) = Len(wire[i]) /\ \A k \in 1 .. Len(wire[i]) : t[k] = posted[f][k]
      BY SMT, <3>2, <3>8
    <3>10. t = wire[i]  BY SMT, <3>1, <3>7, <3>8, <3>9, SeqEqual
    <3>11. QED  BY <3>10 DEF t, f
  <2>5. QED  BY <2>1, <2>3, <2>4 DEF WireOk
<1>2. QED
  BY <1>1, InitEstablishes, InvKept, ChainStarts, DataKept, ChainKept, PTL DEF Spec

\* The transmitter stays on, in a ring of any length, for a driver that hands over the
\* first buffer of every frame last and whose frames fit into transmitbuffer.
THEOREM TransmitterStaysOn == Whole => (Spec => []StaysOn)
<1> SUFFICES ASSUME Whole PROVE Spec => []StaysOn
  OBVIOUS
<1>1. ChainInv => StaysOn  BY DEF ChainInv, Clear, Good, WholeOk, StaysOn
<1>2. QED
  BY <1>1, InitEstablishes, InvKept, ChainStarts, DataKept, ChainKept, PTL DEF Spec

\* For such a driver do_transmit() alters word 1 of a descriptor only while the chip
\* owns it.
THEOREM WritesAreOwned == Whole => (Spec => WritesOnlyOwned)
<1> DEFINE Owned == UNCHANGED hostVars => \A i \in Slots :
                      tmd1'[i] # tmd1[i] => tmd1[i].own = "chip"
<1> SUFFICES ASSUME Whole PROVE Spec => [][Owned]_vars
  BY DEF WritesOnlyOwned
<1>1. IInv /\ DataTypes /\ ChainInv /\ [Next]_vars => [Owned]_vars
  <2> SUFFICES ASSUME IInv, ChainInv, Next, UNCHANGED hostVars, DataTypes,
                      NEW i \in Slots, tmd1'[i] # tmd1[i]
               PROVE  tmd1[i].own = "chip"
    OBVIOUS
  <2>0. WholeOk /\ tmd1 \in [Slots -> Tmd1] /\ slot \in Slots
    BY Basics DEF ChainInv, Clear, Good
  <2>1. ASSUME NEW from \in {"chain1", "last1", "coll1", "fault1"}, NEW to, WriteTmd1(from, to)
        PROVE  tmd1[i].own = "chip"
    <3>1. pc = from /\ tmd1' = [tmd1 EXCEPT ![slot] = local]  BY <2>1 DEF WriteTmd1
    <3>2. i = slot  BY <2>0, <3>1
    <3>3. QED  BY <2>0, <2>1, <3>1, <3>2 DEF WholeOk
  <2>2. ASSUME NEW from, TxFault3(from) PROVE FALSE
    BY <2>2 DEF TxFault3, WriteTmd3
  <2>3. CASE TxShort1
    BY <2>0, <2>3 DEF TxShort1, WholeOk
  <2>4. CASE TxDemand \/ TxScan \/ TxFetch \/ TxCopy \/ TxChain3 \/ TxShort3
             \/ TxCollide \/ TxLast3 \/ TxSend
    BY <2>4 DEF TxDemand, TxScan, TxFetch, TxCopy, TxChain3, TxShort3, TxCollide,
       TxLast3, TxSend, WriteTmd3, ringUnchanged
  <2>5. CASE HostGive
    BY <2>5 DEF HostGive, hostVars
  <2>6. ASSUME NEW n \in PartNos, HostPost(n) PROVE FALSE
    BY <2>6 DEF HostPost, hostVars
  <2>7. CASE HostDemand \/ HostReclaim \/ HostDemandsAgain \/ HostAck
    BY <2>7 DEF HostDemand, HostReclaim, HostDemandsAgain, HostAck
  <2>8. QED
    BY <2>1, <2>2, <2>3, <2>4, <2>5, <2>6, <2>7 DEF Next, DoTransmit, Host
<1>2. QED
  BY <1>1, InitEstablishes, InvKept, ChainStarts, DataKept, ChainKept, PTL DEF Spec

-----------------------------------------------------------------------------
(* The ring as a queue, for whole frames and one TDMD for each at most.    *)

\* Nothing fails, and do_transmit() never searches without a frame to find.
Ordered == Whole /\ ~Collides /\ MaxExtra = 0

\* Frame f begins at s: it does already, or will when it is posted.
Comes(s, f) ==
    IF f > Len(posted) THEN s = hoff
    ELSE s \in given /\ buf[s] = [frame |-> f, no |-> 1]

\* Every TDMD not yet applied, and every search, has a frame of its own that is
\* handed over.
DemandsOk ==
    /\ demands \in Nat /\ extra = 0
    /\ demands + Len(wire) + (IF pc = "idle" THEN 0 ELSE 1) + (IF hpc = "idle" THEN 0 ELSE 1)
         <= Len(posted)

\* The frames in the ring follow one another, and none of them is sent.
FollowOk ==
    /\ \A i \in togive : buf[i].frame = Len(posted)
    /\ \A i \in given \ open : Comes(After(i), buf[i].frame + 1)
    /\ \A i \in given : buf[i].frame > Len(wire)

\* The frame in hand is the one after those sent; what is left of it in the ring
\* is what has not been copied, and the descriptor in hand.
NextOk ==
    /\ pc \in {"idle", "scan"} => Comes(tdr_offset, Len(wire) + 1)
    /\ pc = "scan" => scanned = 0 /\ start = tdr_offset
    /\ pc \notin {"idle", "scan"} => \A i \in given : buf[i].frame = Len(wire) + 1 =>
         buf[i].no > Len(out) \/ (pc \in {"chain1", "last1"} /\ i = slot)
    /\ pc = "fetch" => buf[tdr_offset].frame = Len(wire) + 1
    /\ pc \in {"copy", "chain1", "last1"} => buf[slot].frame = Len(wire) + 1
    /\ pc \notin {"idle", "scan"} /\ out # <<>> => out[1].frame = Len(wire) + 1
    /\ pc \in {"last1", "last3", "send"} =>
         Len(out) = Len(posted[Len(wire) + 1]) /\ Comes(tdr_offset, Len(wire) + 2)
    /\ pc \notin {"coll1", "coll3"}

QueueInv == DemandsOk /\ FollowOk /\ NextOk

\* The numbers of the frames.
LEMMA Numbers ==
    ASSUME IInv, DataTypes, Good, QueueInv
    PROVE  /\ Len(wire) \in Nat /\ Len(posted) \in Nat /\ Len(out) \in Nat
           /\ Len(wire) <= Len(posted)
           /\ pc # "idle" => Len(wire) + 1 <= Len(posted)
           /\ pc # "idle" /\ hpc # "idle" => Len(wire) + 2 <= Len(posted)
           /\ \A i \in Slots : buf[i].frame \in Nat /\ buf[i].no \in Nat
           /\ \A i \in given : /\ buf[i].frame \in 1 .. Len(posted)
                               /\ buf[i].no \in 1 .. Len(posted[buf[i].frame])
           /\ \A f \in 1 .. Len(posted) : Len(posted[f]) \in Nat \ {0}
<1>1. /\ wire \in Seq(Seq(Part)) /\ posted \in Seq(Seq(Part)) /\ out \in Seq(Part)
      /\ buf \in [Slots -> Part]
  BY DEF DataTypes
<1>2. Len(wire) \in Nat /\ Len(posted) \in Nat /\ Len(out) \in Nat  BY <1>1, LenProperties
<1>3. /\ demands \in Nat
      /\ demands + Len(wire) + (IF pc = "idle" THEN 0 ELSE 1) + (IF hpc = "idle" THEN 0 ELSE 1)
           <= Len(posted)
  BY DEF QueueInv, DemandsOk
<1>4. \A i \in Slots : buf[i].frame \in Nat /\ buf[i].no \in Nat
  BY SMT, <1>1, NAssumption, MaxAssumption DEF Part
<1>5. \A i \in given : /\ buf[i].frame \in 1 .. Len(posted)
                       /\ buf[i].no \in 1 .. Len(posted[buf[i].frame])
  BY DEF Good, ChainsOk
<1>6. \A f \in 1 .. Len(posted) : Len(posted[f]) \in Nat \ {0}
  BY SMT, NAssumption, MaxAssumption DEF DataTypes, PartNos
<1>7. /\ Len(wire) <= Len(posted)
      /\ pc # "idle" => Len(wire) + 1 <= Len(posted)
      /\ pc # "idle" /\ hpc # "idle" => Len(wire) + 2 <= Len(posted)
  BY SMT, <1>2, <1>3
<1>8. QED  BY <1>2, <1>4, <1>5, <1>6, <1>7

\* A step that leaves the ring, what is posted and what is sent alone.
LEMMA SameRing ==
    ASSUME UNCHANGED <<tmd1, togive, buf, posted, wire, hoff>>, FollowOk
    PROVE  given' = given /\ FollowOk'
<1>1. given' = given  BY DEF given
<1>2. open' = open  BY <1>1 DEF open
<1>3. \A s, f : Comes(s, f)' <=> Comes(s, f)  BY <1>1 DEF Comes
<1>4. QED  BY <1>1, <1>2, <1>3 DEF FollowOk

\* A TDMD starts a search where the next frame begins.
LEMMA DemandQueues ==
    ASSUME IInv, DataTypes, Good, QueueInv, TxDemand
    PROVE  QueueInv'
<1>1. DemandsOk /\ FollowOk /\ NextOk  BY DEF QueueInv
<1>2. /\ pc = "idle" /\ pc' = "scan" /\ demands > 0 /\ demands' = demands - 1
      /\ start' = tdr_offset /\ scanned' = 0 /\ out' = <<>>
      /\ UNCHANGED <<tmd1, togive, buf, posted, wire, hoff, hpc, extra, tdr_offset>>
  BY DEF TxDemand, ringUnchanged, hostVars
<1>3. given' = given /\ FollowOk'  BY <1>1, <1>2, SameRing
<1>4. DemandsOk'
  <2>1. Len(wire) \in Nat /\ Len(posted) \in Nat  BY Numbers
  <2>2. QED  BY SMT, <1>1, <1>2, <2>1 DEF DemandsOk
<1>5. NextOk'
  <2>1. Comes(tdr_offset, Len(wire) + 1)'  BY <1>1, <1>2, <1>3 DEF NextOk, Comes
  <2>2. QED  BY <1>2, <2>1 DEF NextOk
<1>6. QED  BY <1>3, <1>4, <1>5 DEF QueueInv

\* The search finds the next frame at once.
LEMMA ScanQueues ==
    ASSUME Ordered, IInv, DataTypes, Good, QueueInv, TxScan
    PROVE  QueueInv'
<1>1. DemandsOk /\ FollowOk /\ NextOk  BY DEF QueueInv
<1>2. pc = "scan" /\ UNCHANGED <<tmd1, togive, buf, posted, wire, hoff, hpc, extra, demands, out>>
  BY DEF TxScan, ringUnchanged, hostVars
<1>3. given' = given /\ FollowOk'  BY <1>1, <1>2, SameRing
<1>4. /\ Len(wire) \in Nat /\ Len(posted) \in Nat /\ Len(wire) + 1 <= Len(posted)
      /\ hpc # "idle" => Len(wire) + 2 <= Len(posted)
      /\ \A i \in given : buf[i].no \in 1 .. Len(posted[buf[i].frame])
  BY <1>2, Numbers
<1>5. tdr_offset \in given /\ buf[tdr_offset] = [frame |-> Len(wire) + 1, no |-> 1]
  <2>1. Comes(tdr_offset, Len(wire) + 1)  BY <1>1, <1>2 DEF NextOk
  <2>2. ~(Len(wire) + 1 > Len(posted))  BY SMT, <1>4
  <2>3. QED  BY <2>1, <2>2 DEF Comes
<1>6. buf[tdr_offset].frame = Len(wire) + 1 /\ buf[tdr_offset].no = 1  BY SMT, <1>5
<1>7. tdr_offset \notin togive
  <2> SUFFICES ASSUME tdr_offset \in togive PROVE FALSE
    OBVIOUS
  <2>1. Len(wire) + 1 = Len(posted)  BY <1>1, <1>6 DEF FollowOk
  <2>2. hpc # "idle"  BY DEF IInv, Sides
  <2>3. QED  BY SMT, <1>4, <2>1, <2>2
<1>8. tmd1[tdr_offset].own = "chip" /\ "STP" \in tmd1[tdr_offset].flags
  <2>1. tmd1[tdr_offset].own = "chip"  BY <1>5, <1>7 DEF given
  <2>2. QED  BY <1>5, <1>6, <2>1 DEF Good, ChainsOk
<1>9. ScanSlot = tdr_offset
  <2>1. scanned = 0 /\ start = tdr_offset  BY <1>1, <1>2 DEF NextOk
  <2>2. tdr_offset \in Slots  BY <1>5 DEF given
  <2>3. QED  BY SMT, <2>1, <2>2, NAssumption DEF ScanSlot, Slots
<1>10. tdr_offset' = tdr_offset /\ pc' = "fetch"
  BY <1>8, <1>9 DEF TxScan, Starts
<1>11. DemandsOk'  BY <1>1, <1>2, <1>10 DEF DemandsOk
<1>12. out = <<>> /\ Len(out) = 0
  BY <1>2 DEF Good, HandOk
<1>13. \A i \in given : buf[i].no > Len(out)
  <2>1. \A i \in given : buf[i].no \in 1 .. Len(posted[buf[i].frame])  BY <1>4
  <2>2. \A a, b : a \in 1 .. b => a > 0  BY SMT
  <2>3. QED  BY <1>12, <2>1, <2>2
<1>14. NextOk'  BY <1>2, <1>3, <1>6, <1>10, <1>12, <1>13 DEF NextOk
<1>15. QED  BY <1>3, <1>11, <1>14 DEF QueueInv

\* The descriptor read is of the frame in hand, and its buffer fits.
LEMMA ReadQueues ==
    ASSUME Ordered, IInv, DataTypes, Good, QueueInv, TxFetch, Good'
    PROVE  QueueInv'
<1>1. DemandsOk /\ FollowOk /\ NextOk  BY DEF QueueInv
<1>2. /\ pc = "fetch" /\ slot' = tdr_offset
      /\ UNCHANGED <<tmd1, togive, buf, posted, wire, hoff, hpc, extra, demands, out, tdr_offset>>
  BY DEF TxFetch, ringUnchanged, hostVars
<1>3. given' = given /\ FollowOk'  BY <1>1, <1>2, SameRing
<1>4. pc' = "copy"
  <2>1. pc' \in {"fault1", "copy", "chain1"}  BY DEF TxFetch
  <2>2. pc' # "fault1" /\ (pc' = "chain1" => tdr_offset' # slot')
    BY DEF Good, WholeOk, Ordered
  <2>3. QED  BY <1>2, <2>1, <2>2
<1>5. DemandsOk'  BY <1>1, <1>2, <1>4 DEF DemandsOk
<1>6. NextOk'  BY <1>1, <1>2, <1>3, <1>4 DEF NextOk
<1>7. QED  BY <1>3, <1>5, <1>6 DEF QueueInv

\* The part copied is the next one of the frame in hand; after the last one the
\* next frame begins.
LEMMA CopyQueues ==
    ASSUME Ordered, IInv, DataTypes, Good, QueueInv, TxCopy
    PROVE  QueueInv'
<1>1. DemandsOk /\ FollowOk /\ NextOk  BY DEF QueueInv
<1>2. /\ pc = "copy" /\ out' = Append(out, buf[slot]) /\ tdr_offset' = (slot + 1) % N
      /\ pc' = IF "ENP" \in local.flags THEN "last1" ELSE "chain1"
      /\ UNCHANGED <<tmd1, togive, buf, posted, wire, hoff, hpc, extra, demands, slot>>
  BY DEF TxCopy, ringUnchanged, hostVars
<1>3. given' = given /\ FollowOk'  BY <1>1, <1>2, SameRing
<1>4. pc' \in {"last1", "chain1"}  BY <1>2
<1>5. DemandsOk'  BY <1>1, <1>2, <1>4 DEF DemandsOk
<1>6. /\ Len(wire) \in Nat /\ Len(posted) \in Nat /\ Len(out) \in Nat
      /\ Len(wire) + 1 <= Len(posted)
      /\ \A i \in Slots : buf[i].frame \in Nat /\ buf[i].no \in Nat
      /\ \A i \in given : /\ buf[i].frame \in 1 .. Len(posted)
                          /\ buf[i].no \in 1 .. Len(posted[buf[i].frame])
      /\ \A f \in 1 .. Len(posted) : Len(posted[f]) \in Nat \ {0}
  BY <1>2, Numbers
<1>7. /\ slot \in given /\ buf[slot].no = Len(out) + 1 /\ buf[slot].frame = Len(wire) + 1
      /\ out # <<>> => out[1].frame = Len(wire) + 1
      /\ Agree
  BY <1>1, <1>2 DEF Good, HandOk, NextPart, NextOk
<1>8. slot \in Slots /\ given \subseteq Slots /\ tdr_offset' = After(slot)
  <2>1. given \subseteq Slots  BY DEF given
  <2>2. RingTypes  BY DEF IInv
  <2>3. slot \in Slots  BY <1>7, <2>1
  <2>4. QED  BY <1>2, <2>1, <2>2, <2>3, Onwards
<1>9. Len(out') = Len(out) + 1 /\ out'[1].frame = Len(wire) + 1
  <2>1. out \in Seq(Part) /\ buf[slot] \in Part  BY <1>8 DEF DataTypes
  <2>2. Len(out') = Len(out) + 1 /\ out'[Len(out) + 1] = buf[slot]
        /\ \A k \in 1 .. Len(out) : out'[k] = out[k]
    BY SMT, <1>2, <2>1, AppendProperties
  <2>3. CASE out = <<>>
    <3>1. Len(out) = 0  BY <2>3
    <3>2. out'[1] = buf[slot]  BY SMT, <2>2, <3>1
    <3>3. QED  BY <1>7, <2>2, <3>2
  <2>4. CASE out # <<>>
    <3>1. Len(out) # 0  BY <2>1, <2>4, EmptySeq
    <3>2. out'[1] = out[1]  BY SMT, <1>6, <2>2, <3>1
    <3>3. QED  BY <1>7, <2>2, <2>4, <3>2
  <2>5. QED  BY <2>3, <2>4
<1>10. ASSUME NEW i \in given, buf[i].frame = Len(wire) + 1
       PROVE  buf[i].no > Len(out) + 1 \/ i = slot
  <2>1. buf[i].no > Len(out)  BY <1>1, <1>2, <1>10 DEF NextOk
  <2>2. CASE buf[i].no = Len(out) + 1
    <3>1. buf[i] \in Part /\ buf[slot] \in Part  BY <1>8 DEF DataTypes
    <3>2. buf[i] = buf[slot]  BY SMT, <1>7, <1>10, <2>2, <3>1 DEF Part
    <3>3. QED  BY <1>7, <3>2 DEF Good, ChainsOk
  <2>3. buf[i].no \in Nat  BY <1>6, <1>8
  <2>4. QED  BY SMT, <1>6, <2>1, <2>2, <2>3
<1>11. ASSUME pc' = "last1"
       PROVE  Len(out') = Len(posted[Len(wire) + 1]) /\ Comes(After(slot), Len(wire) + 2)
  <2>1. "ENP" \in tmd1[slot].flags
    BY <1>2, <1>7, <1>11 DEF Agree
  <2>2. slot \in given \ open  BY <1>7, <2>1 DEF open
  <2>3. Comes(After(slot), buf[slot].frame + 1)  BY <1>1, <2>2 DEF FollowOk
  <2>4. buf[slot].frame + 1 = Len(wire) + 2  BY SMT, <1>6, <1>7
  <2>5. ~(buf[slot].no < Len(posted[Len(wire) + 1]))
    BY <1>7, <2>2 DEF Good, ChainsOk
  <2>6. buf[slot].no \in 1 .. Len(posted[Len(wire) + 1])  BY <1>6, <1>7
  <2>7. Len(posted[Len(wire) + 1]) \in Nat  BY SMT, <1>6
  <2>8. Len(out) + 1 = Len(posted[Len(wire) + 1])  BY SMT, <1>6, <1>7, <2>5, <2>6, <2>7
  <2>9. QED  BY <1>9, <2>3, <2>4, <2>8
<1>12. pc' = "last1" => Comes(tdr_offset, Len(wire) + 2)'
  BY <1>2, <1>3, <1>8, <1>11 DEF Comes
<1>13. \A i \in given' : buf'[i].frame = Len(wire') + 1 =>
         buf'[i].no > Len(out') \/ (pc' \in {"chain1", "last1"} /\ i = slot')
  BY <1>2, <1>3, <1>4, <1>9, <1>10
<1>14. NextOk'
  BY <1>2, <1>4, <1>7, <1>9, <1>11, <1>12, <1>13 DEF NextOk
<1>15. QED  BY <1>3, <1>5, <1>14 DEF QueueInv

\* Word 1 written back takes the descriptor in hand, and no other, out of the ring.
LEMMA WriteQueues ==
    ASSUME Ordered, IInv, DataTypes, Good, QueueInv, NEW from, NEW to, WriteTmd1(from, to),
           \/ from = "chain1" /\ to = "chain3"
           \/ from = "last1" /\ to = "last3"
    PROVE  QueueInv'
<1>1. DemandsOk /\ FollowOk /\ NextOk  BY DEF QueueInv
<1>2. /\ pc = from /\ pc' = to /\ tmd1' = [tmd1 EXCEPT ![slot] = local]
      /\ UNCHANGED <<togive, buf, posted, wire, hoff, hpc, extra, demands, out, slot, tdr_offset>>
  BY DEF WriteTmd1, hostVars
<1>3. /\ Len(wire) \in Nat /\ Len(posted) \in Nat
      /\ Len(wire) + 1 <= Len(posted)
      /\ \A i \in Slots : buf[i].frame \in Nat
  BY <1>2, Numbers
<1>4. pc \in {"chain1", "last1"} /\ pc' \in {"chain3", "last3"}  BY <1>2
<1>5. buf[slot].frame = Len(wire) + 1 /\ tmd1[slot].own = "chip" /\ slot \notin togive
  <2>1. tmd1[slot].own = "chip"  BY <1>4 DEF Good, WholeOk, Ordered
  <2>2. QED  BY <1>1, <1>4, <2>1 DEF NextOk, Good, ChainsOk
<1>6. slot \in Slots /\ tmd1 \in [Slots -> Tmd1] /\ local.own = "host"
  BY DEF IInv, RingTypes, Sides
<1>7. given' = given \ {slot}
  <2>1. ASSUME NEW i \in Slots PROVE i \in given' <=> i \in given /\ i # slot
    <3>1. tmd1'[i] = IF i = slot THEN local ELSE tmd1[i]  BY <1>2, <1>6
    <3>2. QED  BY <1>2, <1>5, <1>6, <3>1 DEF given
  <2>2. given' \subseteq Slots /\ given \subseteq Slots  BY DEF given
  <2>3. QED  BY <2>1, <2>2
<1>8. \A i \in given' : i \in open' <=> i \in open
  <2> TAKE i \in given'
  <2>1. i \in Slots /\ i # slot /\ i \in given  BY <1>7 DEF given
  <2>2. tmd1'[i] = tmd1[i]  BY <1>2, <1>6, <2>1
  <2>3. QED  BY <2>1, <2>2 DEF open
<1>9. ASSUME NEW s, NEW f \in Nat, f > Len(wire) + 1, Comes(s, f) PROVE Comes(s, f)'
  <2>1. CASE f > Len(posted)  BY <1>2, <1>9, <2>1 DEF Comes
  <2>2. CASE ~(f > Len(posted))
    <3>1. s \in given /\ buf[s] = [frame |-> f, no |-> 1]  BY <1>9, <2>2 DEF Comes
    <3>2. buf[s].frame = f  BY SMT, <3>1
    <3>3. s # slot  BY SMT, <1>3, <1>5, <1>9, <3>2
    <3>4. QED  BY <1>2, <1>7, <2>2, <3>1, <3>3 DEF Comes
  <2>3. QED  BY <2>1, <2>2
<1>10. FollowOk'
  <2>1. ASSUME NEW i \in given' \ open' PROVE Comes(After(i), buf[i].frame + 1)'
    <3>1. i \in given \ open /\ i \in Slots  BY <1>7, <1>8 DEF given
    <3>2. Comes(After(i), buf[i].frame + 1) /\ buf[i].frame > Len(wire)
      BY <1>1, <3>1 DEF FollowOk
    <3>3. buf[i].frame + 1 \in Nat /\ buf[i].frame + 1 > Len(wire) + 1
      BY SMT, <1>3, <3>1, <3>2
    <3>4. Comes(After(i), buf[i].frame + 1)'
      BY <1>2, <1>9, <3>2, <3>3 DEF Comes
    <3>5. QED  BY <3>4
  <2>2. \A i \in given' : buf'[i].frame > Len(wire')  BY <1>1, <1>2, <1>7 DEF FollowOk
  <2>3. \A i \in togive' : buf'[i].frame = Len(posted')  BY <1>1, <1>2 DEF FollowOk
  <2>4. QED  BY <2>1, <2>2, <2>3 DEF FollowOk
<1>11. DemandsOk'  BY <1>1, <1>2, <1>4 DEF DemandsOk
<1>12. pc' = "last3" => Comes(tdr_offset, Len(wire) + 2)'
  <2>1. pc' = "last3" => Comes(tdr_offset, Len(wire) + 2)  BY <1>1, <1>2 DEF NextOk
  <2>2. Len(wire) + 2 \in Nat /\ Len(wire) + 2 > Len(wire) + 1  BY SMT, <1>3
  <2>3. QED  BY <1>2, <1>9, <2>1, <2>2 DEF Comes
<1>13. \A i \in given' : buf'[i].frame = Len(wire') + 1 => buf'[i].no > Len(out')
  BY <1>1, <1>2, <1>4, <1>7 DEF NextOk
<1>14. NextOk'
  <2>1. pc' = "last3" => Len(out') = Len(posted'[Len(wire') + 1])
    BY <1>1, <1>2 DEF NextOk
  <2>2. out' # <<>> => out'[1].frame = Len(wire') + 1
    BY <1>1, <1>2, <1>4 DEF NextOk
  <2>3. QED  BY <1>4, <1>12, <1>13, <2>1, <2>2 DEF NextOk
<1>15. QED  BY <1>10, <1>11, <1>14 DEF QueueInv

\* Word 3 written back: on to the next descriptor of the frame, or to sending it.
LEMMA WordThreeQueues ==
    ASSUME Ordered, IInv, DataTypes, Good, QueueInv, TxChain3 \/ TxLast3
    PROVE  QueueInv'
<1>1. DemandsOk /\ FollowOk /\ NextOk  BY DEF QueueInv
<1>2. /\ \/ pc = "chain3" /\ pc' = "fetch"
         \/ pc = "last3" /\ pc' = "send"
      /\ UNCHANGED <<tmd1, togive, buf, posted, wire, hoff, hpc, extra, demands, out, slot,
                     tdr_offset>>
  <2>1. pc = "chain3" => tdr_offset # slot  BY DEF Good, WholeOk, Ordered
  <2>2. QED  BY <2>1 DEF TxChain3, TxLast3, WriteTmd3, hostVars
<1>3. given' = given /\ FollowOk'  BY <1>1, <1>2, SameRing
<1>4. DemandsOk'  BY <1>1, <1>2 DEF DemandsOk
<1>5. out # <<>> /\ out[1].frame = Len(wire) + 1
  <2>1. out # <<>>  BY <1>2 DEF Good, HandOk
  <2>2. QED  BY <1>1, <1>2, <2>1 DEF NextOk
<1>6. pc' = "fetch" => buf'[tdr_offset'].frame = Len(wire') + 1
  <2>1. pc = "chain3" => tdr_offset # slot  BY DEF Good, WholeOk, Ordered
  <2>2. QED  BY <1>2, <1>5, <2>1 DEF Good, HandOk, NextPart
<1>7. \A i \in given' : buf'[i].frame = Len(wire') + 1 => buf'[i].no > Len(out')
  BY <1>1, <1>2, <1>3 DEF NextOk
<1>8. pc' = "send" => Len(out') = Len(posted'[Len(wire') + 1]) /\ Comes(tdr_offset, Len(wire) + 2)'
  BY <1>1, <1>2, <1>3 DEF NextOk, Comes
<1>9. NextOk'  BY <1>2, <1>5, <1>6, <1>7, <1>8 DEF NextOk
<1>10. QED  BY <1>3, <1>4, <1>9 DEF QueueInv

\* What is sent is the oldest frame posted and not yet sent, whole.
LEMMA SendQueues ==
    ASSUME Ordered, IInv, DataTypes, Good, QueueInv, TxSend
    PROVE  QueueInv' /\ Fifo!Take
<1>1. DemandsOk /\ FollowOk /\ NextOk  BY DEF QueueInv
<1>2. /\ pc = "send" /\ pc' = "idle" /\ wire' = Append(wire, out)
      /\ UNCHANGED <<tmd1, togive, buf, posted, hoff, hpc, extra, demands, out, slot, tdr_offset>>
  BY DEF TxSend, ringUnchanged, hostVars
<1>3. /\ Len(wire) \in Nat /\ Len(posted) \in Nat /\ Len(out) \in Nat
      /\ Len(wire) + 1 <= Len(posted)
      /\ \A i \in Slots : buf[i].frame \in Nat /\ buf[i].no \in Nat
      /\ \A i \in given : buf[i].no \in 1 .. Len(posted[buf[i].frame])
  BY <1>2, Numbers
<1>4. Len(wire') = Len(wire) + 1
  <2>1. wire \in Seq(Seq(Part)) /\ out \in Seq(Part)  BY DEF DataTypes
  <2>2. QED  BY <1>2, <2>1, AppendProperties
<1>5. given' = given  BY <1>2 DEF given
<1>6. open' = open  BY <1>2, <1>5 DEF open
<1>7. Len(out) = Len(posted[Len(wire) + 1]) /\ Comes(tdr_offset, Len(wire) + 2)
  BY <1>1, <1>2 DEF NextOk
<1>8. ASSUME NEW i \in given PROVE buf[i].frame > Len(wire) + 1
  <2>0. i \in Slots  BY DEF given
  <2>1. buf[i].frame > Len(wire)  BY <1>1 DEF FollowOk
  <2>2. CASE buf[i].frame = Len(wire) + 1
    <3>1. buf[i].no > Len(out)  BY <1>1, <1>2, <2>2 DEF NextOk
    <3>2. buf[i].no \in 1 .. Len(out)  BY <1>3, <1>7, <2>2
    <3>3. QED  BY SMT, <1>3, <3>1, <3>2
  <2>3. QED  BY SMT, <1>3, <2>0, <2>1, <2>2
<1>9. FollowOk'
  <2>1. \A i \in given' \ open' : Comes(After(i), buf[i].frame + 1)'
    BY <1>1, <1>2, <1>5, <1>6 DEF FollowOk, Comes
  <2>2. \A i \in given' : buf'[i].frame > Len(wire')  BY <1>2, <1>4, <1>5, <1>8
  <2>3. \A i \in togive' : buf'[i].frame = Len(posted')  BY <1>1, <1>2 DEF FollowOk
  <2>4. QED  BY <2>1, <2>2, <2>3 DEF FollowOk
<1>10. DemandsOk'  BY SMT, <1>1, <1>2, <1>3, <1>4 DEF DemandsOk
<1>11. NextOk'
  <2>1. Len(wire') + 1 = Len(wire) + 2  BY SMT, <1>3, <1>4
  <2>2. Comes(tdr_offset, Len(wire) + 1)'  BY <1>2, <1>5, <1>7, <2>1 DEF Comes
  <2>3. QED  BY <1>2, <2>2 DEF NextOk
<1>12. out = posted[Len(wire) + 1]
  <2>1. Len(wire) + 1 \in 1 .. Len(posted)  BY SMT, <1>3
  <2>a. out \in Seq(Part) /\ posted \in Seq(Seq(Part))  BY DEF DataTypes
  <2>2. posted[Len(wire) + 1] \in Seq(Part)  BY <2>1, <2>a, ElementOfSeq
  <2>3. out # <<>> /\ Framed(out) /\ out[1].frame = Len(wire) + 1
    <3>1. out # <<>>  BY <1>2 DEF Good, HandOk
    <3>2. QED  BY <1>1, <1>2, <3>1 DEF Good, WireOk, NextOk
  <2>4. ASSUME NEW k \in 1 .. Len(out) PROVE out[k] = posted[Len(wire) + 1][k]
    <3>1. out[k] = [frame |-> Len(wire) + 1, no |-> k]  BY <2>3 DEF Framed
    <3>2. posted[Len(wire) + 1][k] = [frame |-> Len(wire) + 1, no |-> k]
      BY <1>7, <2>1 DEF DataTypes
    <3>3. QED  BY <3>1, <3>2
  <2>5. QED  BY <1>7, <2>a, <2>2, <2>4, SeqEqual
<1>13. Fifo!Take
  <2>1. Len(wire) < Len(posted)  BY SMT, <1>3
  <2>2. QED  BY <1>2, <1>12, <2>1 DEF Fifo!Take
<1>14. QED  BY <1>9, <1>10, <1>11, <1>13 DEF QueueInv

\* The descriptor after the n posted is the driver's next.
LEMMA AfterPost ==
    ASSUME RingTypes, NEW n \in 1 .. N, NEW i \in Slots, Ahead(i) = n - 1
    PROVE  After(i) = (hoff + n) % N
<1>1. N \in Nat \ {0} /\ hoff \in Slots  BY NAssumption DEF RingTypes
<1>2. PICK a \in Nat : a = hoff + n /\ a < 2 * N  BY SMT, <1>1 DEF Slots
<1>3. a % N = IF a < N THEN a ELSE a - N  BY <1>2, Wraps
<1>4. QED  BY SMT, <1>1, <1>2, <1>3 DEF Slots, Ahead, After

\* A frame posted comes after those in the ring.
LEMMA PostQueues ==
    ASSUME Ordered, IInv, DataTypes, Good, QueueInv, NEW n \in PartNos, HostPost(n), IInv'
    PROVE  QueueInv' /\ Fifo!Accept
<1>1. DemandsOk /\ FollowOk /\ NextOk  BY DEF QueueInv
<1>2. /\ hpc = "idle" /\ hpc' = "give" /\ hoff' = (hoff + n) % N
      /\ UNCHANGED <<wire, extra, demands, pc, out, slot, tdr_offset, start, scanned>>
  BY DEF HostPost, txVars
<1>3. /\ Len(wire) \in Nat /\ Len(posted) \in Nat /\ Len(out) \in Nat
      /\ Len(wire) <= Len(posted)
      /\ pc # "idle" => Len(wire) + 1 <= Len(posted)
      /\ \A i \in Slots : buf[i].frame \in Nat /\ buf[i].no \in Nat
      /\ \A i \in given : buf[i].frame \in 1 .. Len(posted)
  BY Numbers
<1>4. /\ n \in 1 .. N /\ \A i \in given : Ahead(i) >= n
      /\ \A i \in Slots : Ahead(i) >= n => buf'[i] = buf[i] /\ i \notin togive'
      /\ \A i \in Slots : Ahead(i) < n =>
           buf'[i] = [frame |-> Len(posted) + 1, no |-> Ahead(i) + 1]
      /\ given' = given \cup {i \in Slots : Ahead(i) < n}
      /\ open' = open \cup {i \in Slots : Ahead(i) < n - 1}
  BY PostDoes
<1>5. /\ posted \in Seq(Seq(Part)) /\ posted' \in Seq(Seq(Part))
      /\ Len(posted') = Len(posted) + 1
      /\ \A f \in 1 .. Len(posted) : posted'[f] = posted[f]
  BY PostAppends
<1>6. RingTypes /\ given \subseteq Slots /\ \A i \in Slots : After(i) \in Slots /\ Ahead(i) \in 0 .. N - 1
  <2>1. RingTypes  BY DEF IInv
  <2>2. QED  BY <2>1, Onwards DEF given
<1>7. \A i \in given : i \in given' /\ buf'[i] = buf[i]  BY <1>4, <1>6
<1>8. ASSUME NEW i \in Slots, Ahead(i) < n
      PROVE  i \notin given /\ buf'[i].frame = Len(posted) + 1
  <2>1. i \notin given  BY SMT, <1>4, <1>6, <1>8
  <2>2. buf'[i] = [frame |-> Len(posted) + 1, no |-> Ahead(i) + 1]  BY <1>4, <1>8
  <2>3. QED  BY SMT, <2>1, <2>2
<1>9. ASSUME NEW i \in given' PROVE i \in given \/ (i \in Slots /\ Ahead(i) < n)
  BY <1>4, <1>9
<1>10. ASSUME NEW s, NEW f \in Nat, f <= Len(posted) + 1, Comes(s, f)
       PROVE  s \in given' /\ buf'[s] = [frame |-> f, no |-> 1]
  <2>1. CASE f > Len(posted)
    <3>1. s = hoff /\ f = Len(posted) + 1
      <4>1. s = hoff  BY <1>10, <2>1 DEF Comes
      <4>2. QED  BY SMT, <1>3, <1>10, <2>1, <4>1
    <3>2. hoff \in Slots /\ Ahead(hoff) = 0 /\ 0 < n /\ Ahead(hoff) + 1 = 1
      <4>1. hoff \in Slots  BY <1>6 DEF RingTypes
      <4>2. QED  BY SMT, <1>4, <4>1, NAssumption DEF Ahead, Slots
    <3>3. QED  BY <1>4, <3>1, <3>2
  <2>2. CASE ~(f > Len(posted))
    <3>1. s \in given /\ buf[s] = [frame |-> f, no |-> 1]  BY <1>10, <2>2 DEF Comes
    <3>2. QED  BY <1>7, <3>1
  <2>3. QED  BY <2>1, <2>2
<1>11. ASSUME NEW s, NEW f \in Nat, f <= Len(posted) + 1, Comes(s, f)
       PROVE  ~(f > Len(posted')) /\ s \in given' /\ buf'[s] = [frame |-> f, no |-> 1]
  <2>1. ~(f > Len(posted'))  BY SMT, <1>3, <1>5, <1>11
  <2>2. QED  BY <1>10, <1>11, <2>1
<1>12. DemandsOk'  BY SMT, <1>1, <1>2, <1>3, <1>5 DEF DemandsOk
<1>13. FollowOk'
  <2>1. ASSUME NEW i \in togive' PROVE buf'[i].frame = Len(posted')
    <3>1. i \in Slots  BY DEF IInv, RingTypes
    <3>2. Ahead(i) < n  BY SMT, <1>4, <1>6, <3>1
    <3>3. QED  BY <1>5, <1>8, <3>1, <3>2
  <2>2. ASSUME NEW i \in given' \ open' PROVE Comes(After(i), buf[i].frame + 1)'
    <3>1. CASE i \in given
      <4>1. i \in given \ open /\ buf'[i] = buf[i]  BY <1>4, <1>7, <2>2, <3>1
      <4>2. Comes(After(i), buf[i].frame + 1)  BY <1>1, <4>1 DEF FollowOk
      <4>3. buf[i].frame + 1 \in Nat /\ buf[i].frame + 1 <= Len(posted) + 1
        BY SMT, <1>3, <3>1
      <4>4. QED  BY <1>11, <4>1, <4>2, <4>3 DEF Comes
    <3>2. CASE i \in Slots /\ Ahead(i) < n
      <4>1. ~(Ahead(i) < n - 1)  BY <1>4, <2>2, <3>2
      <4>2. Ahead(i) = n - 1  BY SMT, <1>4, <1>6, <3>2, <4>1
      <4>3. After(i) = hoff'  BY <1>2, <1>4, <1>6, <3>2, <4>2, AfterPost
      <4>4. buf'[i].frame + 1 > Len(posted')  BY SMT, <1>3, <1>5, <1>8, <3>2
      <4>5. QED  BY <4>3, <4>4 DEF Comes
    <3>3. QED  BY <1>9, <3>1, <3>2
  <2>3. ASSUME NEW i \in given' PROVE buf'[i].frame > Len(wire')
    <3>1. CASE i \in given  BY <1>1, <1>2, <1>7, <3>1 DEF FollowOk
    <3>2. CASE i \in Slots /\ Ahead(i) < n
      <4>1. Len(posted) + 1 > Len(wire)  BY SMT, <1>3
      <4>2. QED  BY <1>2, <1>8, <3>2, <4>1
    <3>3. QED  BY <1>9, <3>1, <3>2
  <2>4. QED  BY <2>1, <2>2, <2>3 DEF FollowOk
<1>14. NextOk'
  <2>1. pc' \in {"idle", "scan"} => Comes(tdr_offset, Len(wire) + 1)'
    <3>1. Len(wire) + 1 \in Nat /\ Len(wire) + 1 <= Len(posted) + 1  BY SMT, <1>3
    <3>2. QED  BY <1>1, <1>2, <1>11, <3>1 DEF NextOk, Comes
  <2>2. pc' \in {"last1", "last3", "send"} =>
          Len(out') = Len(posted'[Len(wire') + 1]) /\ Comes(tdr_offset, Len(wire) + 2)'
    <3> SUFFICES ASSUME pc \in {"last1", "last3", "send"}
                 PROVE  Len(out) = Len(posted'[Len(wire) + 1]) /\ Comes(tdr_offset, Len(wire) + 2)'
      BY <1>2
    <3>1. /\ Len(wire) + 2 \in Nat /\ Len(wire) + 2 <= Len(posted) + 1
          /\ Len(wire) + 1 \in 1 .. Len(posted)
      BY SMT, <1>3
    <3>2. Len(out) = Len(posted[Len(wire) + 1]) /\ Comes(tdr_offset, Len(wire) + 2)
      BY <1>1 DEF NextOk
    <3>3. QED  BY <1>2, <1>5, <1>11, <3>1, <3>2 DEF Comes
  <2>3. ASSUME pc' \notin {"idle", "scan"}, NEW i \in given', buf'[i].frame = Len(wire') + 1
        PROVE  buf'[i].no > Len(out') \/ (pc' \in {"chain1", "last1"} /\ i = slot')
    <3>1. CASE i \in given  BY <1>1, <1>2, <1>7, <2>3, <3>1 DEF NextOk
    <3>2. CASE i \in Slots /\ Ahead(i) < n
      <4>1. Len(posted) + 1 = Len(wire) + 1 /\ pc # "idle"  BY <1>2, <1>8, <2>3, <3>2
      <4>2. QED  BY SMT, <1>3, <4>1
    <3>3. QED  BY <1>9, <3>1, <3>2
  <2>4. pc' = "fetch" => buf'[tdr_offset'].frame = Len(wire') + 1
    <3>1. pc = "fetch" => tdr_offset \in given  BY DEF Good, HandOk, NextPart
    <3>2. QED  BY <1>1, <1>2, <1>7, <3>1 DEF NextOk
  <2>5. pc' \in {"copy", "chain1", "last1"} => buf'[slot'].frame = Len(wire') + 1
    <3>1. pc \in {"copy", "chain1", "last1"} => slot \in given
      <4>1. pc \in {"copy", "chain1", "last1"} => tmd1[slot].own = "chip"
        BY DEF Good, WholeOk, Ordered
      <4>2. slot \in Slots  BY <1>6 DEF RingTypes
      <4>3. QED  BY <4>1, <4>2 DEF given
    <3>2. QED  BY <1>1, <1>2, <1>7, <3>1 DEF NextOk
  <2>6. QED  BY <1>1, <1>2, <2>1, <2>2, <2>3, <2>4, <2>5 DEF NextOk
<1>15. Fifo!Accept
  <2>1. Len(posted') > Len(posted)  BY SMT, <1>3, <1>5
  <2>2. SubSeq(posted', 1, Len(posted)) = posted
    <3>1. posted' = Append(posted, [k \in 1 .. n |-> [frame |-> Len(posted) + 1, no |-> k]])
      BY DEF HostPost
    <3>2. QED  BY SMT, <1>3, <1>5
  <2>3. QED  BY <1>2, <2>1, <2>2 DEF Fifo!Accept
<1>16. QED  BY <1>12, <1>13, <1>14, <1>15 DEF QueueInv

\* The driver's other steps hand over what is posted, and set TDMD once for it.
LEMMA HostQueues ==
    ASSUME Ordered, IInv, DataTypes, Good, QueueInv,
           Host \/ HostDemandsAgain \/ HostAck \/ UNCHANGED vars
    PROVE  QueueInv' /\ UNCHANGED <<posted, wire>>
<1>0. tmd1 \in [Slots -> Tmd1] /\ togive \subseteq Slots  BY DEF IInv, RingTypes
<1>1. DemandsOk /\ FollowOk /\ NextOk  BY DEF QueueInv
<1>2. UNCHANGED <<buf, posted, wire, hoff, pc, out, slot, tdr_offset, start, scanned>>
  BY DEF Host, HostGive, HostDemand, HostReclaim, HostDemandsAgain, HostAck, vars, txVars, hostVars
<1>3. \/ UNCHANGED <<tmd1, togive>>
      \/ \E g \in togive : tmd1' = [tmd1 EXCEPT ![g].own = "chip"] /\ togive' = togive \ {g}
  BY DEF Host, HostGive, HostDemand, HostReclaim, HostDemandsAgain, HostAck, vars, hostVars
<1>4. \A i \in Slots : /\ tmd1'[i].flags = tmd1[i].flags
                       /\ i \in given' <=> i \in given
                       /\ i \in togive' => i \in togive
  BY SMT, <1>0, <1>3 DEF Tmd1, given
<1>5. given' = given /\ togive' \subseteq togive
  <2>1. given' \subseteq Slots /\ given \subseteq Slots  BY DEF given
  <2>2. togive' \subseteq togive  BY <1>3
  <2>3. QED  BY <1>4, <2>1, <2>2
<1>6. open' = open
  <2>1. given \subseteq Slots  BY DEF given
  <2>2. QED  BY <1>4, <1>5, <2>1 DEF open
<1>7. FollowOk'  BY <1>1, <1>2, <1>5, <1>6 DEF FollowOk, Comes
<1>8. NextOk'  BY <1>1, <1>2, <1>5 DEF NextOk, Comes
<1>9. ~HostDemandsAgain
  <2>1. extra = 0 /\ MaxExtra = 0  BY <1>1 DEF DemandsOk, Ordered
  <2>2. ~(extra < MaxExtra)  BY SMT, <2>1
  <2>3. QED  BY <2>2 DEF HostDemandsAgain
<1>10. /\ extra' = extra
       /\ \/ UNCHANGED <<demands, hpc>>
          \/ UNCHANGED demands /\ hpc = "give"
          \/ hpc = "demand" /\ hpc' = "idle" /\ demands' \in {demands, demands + 1}
  BY <1>9 DEF Host, HostGive, HostDemand, HostReclaim, HostAck, vars, hostVars
<1>11. DemandsOk'
  <2>1. Len(wire) \in Nat /\ Len(posted) \in Nat  BY Numbers
  <2>2. QED  BY SMT, <1>1, <1>2, <1>10, <2>1 DEF DemandsOk
<1>12. QED  BY <1>2, <1>7, <1>8, <1>11 DEF QueueInv

\* QueueInv is inductive, and every step is one of the queue's or leaves it alone.
LEMMA QueueStep ==
    ASSUME Ordered, IInv, DataTypes, ChainInv, QueueInv, [Next]_vars
    PROVE  QueueInv' /\ [Fifo!Next]_<<posted, wire>>
<1>1. Good /\ Good' /\ IInv'
  <2>1. ChainInv' /\ IInv'  BY ChainKept, InvKept
  <2>2. Good  BY DEF ChainInv, Clear, Ordered
  <2>3. Good'  BY <2>1 DEF ChainInv, Clear, Ordered
  <2>4. QED  BY <2>1, <2>2, <2>3
<1>2. /\ pc \notin {"fault1", "fault3", "short3", "short1", "coll1", "coll3"} /\ ~Collides
  BY <1>1 DEF Good, WholeOk, Ordered, QueueInv, NextOk
<1>3. CASE TxDemand \/ TxScan \/ TxFetch \/ TxCopy \/ TxChain3 \/ TxLast3
  <2>1. QueueInv'
    BY <1>1, <1>3, DemandQueues, ScanQueues, ReadQueues, CopyQueues, WordThreeQueues
  <2>2. UNCHANGED <<posted, wire>>
    BY <1>3 DEF TxDemand, TxScan, TxFetch, TxCopy, TxChain3, TxLast3, WriteTmd3,
       ringUnchanged, hostVars
  <2>3. QED  BY <2>1, <2>2
<1>4. CASE WriteTmd1("chain1", "chain3") \/ WriteTmd1("last1", "last3")
  <2>1. QueueInv'  BY <1>1, <1>4, WriteQueues
  <2>2. UNCHANGED <<posted, wire>>  BY <1>4 DEF WriteTmd1, hostVars
  <2>3. QED  BY <2>1, <2>2
<1>5. CASE TxSend  BY <1>1, <1>5, SendQueues DEF Fifo!Next
<1>6. ASSUME NEW n \in PartNos, HostPost(n) PROVE QueueInv' /\ Fifo!Accept
  BY <1>1, <1>6, PostQueues
<1>7. CASE Host \/ HostDemandsAgain \/ HostAck \/ UNCHANGED vars  BY <1>1, <1>7, HostQueues
<1>8. ~(\/ WriteTmd1("fault1", "fault3") \/ TxFault3("fault3") \/ TxShort3 \/ TxShort1
        \/ TxCollide \/ WriteTmd1("coll1", "coll3") \/ TxFault3("coll3"))
  BY <1>2 DEF WriteTmd1, TxFault3, TxShort3, TxShort1, TxCollide, WriteTmd3
<1>9. QED
  BY <1>3, <1>4, <1>5, <1>6, <1>7, <1>8 DEF Next, DoTransmit, Fifo!Next

\* The frames posted are sent whole, unaltered, in order and each once, in a ring of
\* any length and for chains of any length, whenever the driver leaves the first
\* buffer of every frame for the end and sets TDMD at most once for it, its frames
\* fit into transmitbuffer, and no transmission collides; however many TDMDs are
\* lost.  It is the safety part of FifoSpec.
THEOREM TransmitIsFifo == Ordered => (Spec => Fifo!Init /\ [][Fifo!Next]_<<posted, wire>>)
<1> SUFFICES ASSUME Ordered PROVE Spec => Fifo!Init /\ [][Fifo!Next]_<<posted, wire>>
  OBVIOUS
<1>1. Init => QueueInv
  <2> SUFFICES ASSUME Init PROVE QueueInv
    OBVIOUS
  <2>1. /\ pc = "idle" /\ hpc = "idle" /\ wire = <<>> /\ posted = <<>> /\ togive = {}
        /\ hoff = 0 /\ tdr_offset = 0 /\ demands = 0 /\ extra = 0
        /\ \A i \in Slots : tmd1[i].own = "host"
    BY DEF Init
  <2>2. given = {}  BY <2>1 DEF given
  <2>3. Len(wire) = 0 /\ Len(posted) = 0  BY <2>1
  <2>4. Len(wire) + 1 > Len(posted) /\ DemandsOk  BY SMT, <2>1, <2>3 DEF DemandsOk
  <2>5. FollowOk  BY <2>1, <2>2 DEF FollowOk
  <2>6. NextOk  BY <2>1, <2>4 DEF NextOk, Comes
  <2>7. QED  BY <2>4, <2>5, <2>6 DEF QueueInv
<1>2. IInv /\ DataTypes /\ ChainInv /\ QueueInv /\ [Next]_vars =>
        QueueInv' /\ [Fifo!Next]_<<posted, wire>>
  BY QueueStep
<1>3. Init => Fifo!Init  BY DEF Init, Fifo!Init
<1>4. QED
  BY <1>1, <1>2, <1>3, InitEstablishes, InvKept, ChainStarts, DataKept, ChainKept, PTL DEF Spec
=============================================================================
