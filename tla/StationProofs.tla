--------------------------- MODULE StationProofs ----------------------------
(***************************************************************************)
(* For every set of addresses and every bound: no thread of the daemon     *)
(* touches the mapping when it is not there (MappingIsHeld); what the      *)
(* Amiga sends leaves the card under the wire address (WireAddressUsed);   *)
(* it is shown only frames meant for it (ShownToTheRightStation), none of  *)
(* its own (OwnFramesStayAway) and every reply sent to the wire address    *)
(* (RepliesArrive); and CHADDR is translated with its checksum             *)
(* (ChecksumsVerify).                                                      *)
(*                                                                         *)
(* The last four rest on what a frame looks like while it waits in the     *)
(* socket: one of the Amiga's carries the wire address as its source       *)
(* whatever address the chip is given afterwards (QueueInv).               *)
(***************************************************************************)
EXTENDS Station, SequenceTheorems, TLAPS

\* The leaves are first-order; those with arithmetic, or with many cases, name SMT.
USE ZenonT(30)

Started == {"loop", "push", "close", "join"}

\* The receive thread exists only between pthread_create and pthread_join, and main holds
\* the mapping from mmap to after the join.
ThreadInv ==
  /\ pc \in {"open", "mac", "publish", "spawn"} \cup Started => mapped
  /\ rx \in {"loop", "recv", "got", "push"} => pc \in Started
  /\ pc \in {"map", "open", "mac", "publish", "spawn"} => rx = "none"

\* The start of main() up to its mapping satisfies the thread invariant.
LEMMA ThreadInit == Init => ThreadInv
BY DEF Init, ThreadInv, Started

\* Every step of main, of the receive thread, of the Amiga and of the LAN keeps it.
LEMMA ThreadStep == ThreadInv /\ [Next]_vars => ThreadInv'
<1> SUFFICES ASSUME ThreadInv, [Next]_vars PROVE ThreadInv' OBVIOUS
<1> USE DEF ThreadInv, Started
<1>1. CASE HandleSignal BY <1>1 DEF HandleSignal
<1>2. CASE MainMap BY <1>2 DEF MainMap
<1>3. CASE EthernetOpen BY <1>3 DEF EthernetOpen
<1>4. CASE SetDefaultMac BY <1>4 DEF SetDefaultMac
<1>5. CASE WriteMbxMac BY <1>5 DEF WriteMbxMac
<1>6. CASE SpawnRx BY <1>6 DEF SpawnRx
<1>7. CASE MainCommand BY <1>7 DEF MainCommand
<1>8. CASE MainPush BY <1>8 DEF MainPush
<1>9. CASE MainExit BY <1>9 DEF MainExit
<1>10. CASE EthernetClose BY <1>10 DEF EthernetClose
<1>11. CASE JoinAndUnmap BY <1>11 DEF JoinAndUnmap
<1>12. CASE RxLoop BY <1>12 DEF RxLoop
<1>13. CASE RxRecv BY <1>13 DEF RxRecv
<1>14. CASE RxGot BY <1>14 DEF RxGot
<1>15. CASE RxPush BY <1>15 DEF RxPush
<1>16. CASE UNCHANGED threads BY <1>16 DEF threads
<1>17. Autoconfig \/ PeerSends \/ PeerChatter \/ UNCHANGED vars => UNCHANGED threads
  BY DEF Autoconfig, ReadSerialHigh, ReadSerialLow, WriteBase, PeerSends, PeerChatter, vars
<1> QED
  BY <1>1, <1>2, <1>3, <1>4, <1>5, <1>6, <1>7, <1>8, <1>9, <1>10, <1>11, <1>12, <1>13, <1>14,
     <1>15, <1>16, <1>17 DEF Next, Main, Rx

\* Whenever the signal comes, neither main nor the receive thread reads or writes a slot
\* without the mapping of /dev/mem.
THEOREM MappingIsHeld == Spec => []MappingHeld
<1>1. ThreadInv => MappingHeld BY DEF ThreadInv, MappingHeld, Started
<1> QED BY <1>1, ThreadInit, ThreadStep, PTL DEF Spec

-----------------------------------------------------------------------------
Chosen == {"publish", "spawn"} \cup Started

\* mac.cpp and registers.cpp agree on the Amiga's address until CSR12-14 are written; the
\* wire address has been chosen, with a low half that is not zero, before a frame is sent,
\* and is never changed.
AddressInv ==
  /\ hostmac \in Address
  /\ ~patched => station = fakemac
  /\ pc \in Chosen => ~LowIsZero(realmac)
  /\ pc \in {"map", "open", "mac"} => wire = NoFrame
  /\ WireSource

\* Every address daemon_set_default_mac may start from is one with a low half that is not
\* zero.
LEMMA ChosenFrom ==
  ASSUME hostmac \in Address, NEW a \in WireAddresses
  PROVE  a \in Address /\ ~LowIsZero(a)
<1>1. CASE a = hostmac /\ ~LowIsZero(hostmac) BY <1>1
<1>2. CASE a = Eth0 /\ ~LowIsZero(Eth0) BY <1>2, AddressAssumption
<1>3. CASE a \in DeriveUniqueLow
  <2>1. PICK h \in Hashes : a = LET m == <<0, h[1], h[2], h[3]>>
                                IN  IF LowIsZero(m) THEN [m EXCEPT ![4] = 1] ELSE m
    BY <1>3 DEF DeriveUniqueLow
  <2>2. h[1] \in Bits /\ h[2] \in Bits /\ h[3] \in Bits BY AddressAssumption
  <2>3. CASE LowIsZero(<<0, h[1], h[2], h[3]>>)
    <3>1. a = <<0, h[1], h[2], 1>> BY SMT, <2>1, <2>3
    <3> QED BY SMT, <3>1, <2>2 DEF LowIsZero, Address, Bits
  <2>4. CASE ~LowIsZero(<<0, h[1], h[2], h[3]>>)
    BY SMT, <2>1, <2>2, <2>4 DEF Address, Bits
  <2> QED BY <2>3, <2>4
<1> QED BY <1>1, <1>2, <1>3 DEF WireAddresses

\* What it makes of it is an address of Commodore's, still with that low half.
LEMMA ChosenLow ==
  ASSUME hostmac \in Address, NEW a \in WireAddresses
  PROVE  LET r == [a EXCEPT ![1] = Commodore]
         IN  r \in Address /\ r[1] = Commodore /\ ~LowIsZero(r)
<1>1. a \in Address /\ ~LowIsZero(a) BY ChosenFrom
<1> QED BY SMT, <1>1 DEF LowIsZero, Address, Commodore

\* mungepacket puts the wire address where a frame has the Amiga's.
LEMMA MungeOut ==
  ASSUME NEW dst, NEW b, NEW who
  PROVE  LET f == FrameOf(who, dst, fakemac, b)
         IN  /\ Mungepacket(f).src = realmac
             /\ f.src = fakemac
             /\ \A i \in DOMAIN f.hw : f.hw[i] = fakemac => Mungepacket(f).hw[i] = realmac
BY DEF FrameOf, Mungepacket, Dofakemac

\* Nothing is chosen, sent or written to CSR12-14 at the start.
LEMMA AddressInit == Init => AddressInv
<1> SUFFICES ASSUME Init PROVE AddressInv OBVIOUS
<1>1. hostmac \in Address BY SMT DEF Init, Zero, Address, Bits
<1> QED BY <1>1 DEF Init, AddressInv, WireSource, Chosen, Started

\* A frame the driver sends from its own address is on the wire as WireSource says.
LEMMA TransmitStep ==
  ASSUME AddressInv, pc \in Started, Transmit PROVE WireSource'
<1>1. PICK src \in {station, fakemac}, dst \in Peers \cup {Broadcast, Multicast, station} :
        \E b \in Bodies(src, dst) : TransmitFrame(FrameOf("amiga", dst, src, b))
  BY DEF Transmit
<1>2. PICK b \in Bodies(src, dst) : TransmitFrame(FrameOf("amiga", dst, src, b)) BY <1>1
<1> DEFINE f == FrameOf("amiga", dst, src, b)
<1>3. realmac' = realmac /\ patched' = patched BY <1>2 DEF TransmitFrame, addresses
<1>4. wire' = wire \/ wire' = [sent |-> f, out |-> Mungepacket(f)] BY <1>2 DEF TransmitFrame
<1>5. CASE wire' = wire BY <1>3, <1>5 DEF AddressInv, WireSource, LowIsZero
<1>6. CASE wire' = [sent |-> f, out |-> Mungepacket(f)]
  <2> SUFFICES ASSUME ~patched
               PROVE  /\ Mungepacket(f).src = realmac /\ ~LowIsZero(realmac)
                      /\ \A i \in DOMAIN f.hw : f.hw[i] = f.src => Mungepacket(f).hw[i] = realmac
    BY <1>3, <1>6 DEF WireSource, LowIsZero
  <2>1. src = fakemac BY DEF AddressInv
  <2>2. ~LowIsZero(realmac) BY DEF AddressInv, Chosen
  <2> QED BY <2>1, <2>2, MungeOut
<1> QED BY <1>4, <1>5, <1>6

\* Every step keeps the address invariant.
LEMMA AddressStep == AddressInv /\ [Next]_vars => AddressInv'
<1> SUFFICES ASSUME AddressInv, [Next]_vars PROVE AddressInv' OBVIOUS
<1> USE DEF Chosen, Started
<1>1. CASE UNCHANGED <<addresses, history, pc>>
  BY <1>1 DEF AddressInv, WireSource, addresses, history, LowIsZero
<1>2. CASE HandleSignal \/ Autoconfig \/ PeerSends \/ PeerChatter \/ UNCHANGED vars
  BY <1>1, <1>2 DEF HandleSignal, Autoconfig, ReadSerialHigh, ReadSerialLow, WriteBase, PeerSends,
                    PeerChatter, vars, threads
<1>3. CASE UNCHANGED <<addresses, history>> /\ (MainMap \/ SpawnRx \/ MainExit \/ EthernetClose \/ JoinAndUnmap)
  <2>1. /\ pc' \in Chosen => pc \in Chosen
        /\ pc' \in {"map", "open", "mac"} => pc \in {"map", "open", "mac"}
    BY <1>3 DEF MainMap, SpawnRx, MainExit, EthernetClose, JoinAndUnmap
  <2> QED BY <1>3, <2>1 DEF AddressInv, WireSource, addresses, history, LowIsZero
<1>4. CASE EthernetOpen
  <2>1. hostmac' \in Address BY SMT, <1>4, AddressAssumption DEF EthernetOpen, Zero, Address, Bits
  <2> QED BY <1>4, <2>1 DEF EthernetOpen, AddressInv, WireSource, history
<1>5. CASE SetDefaultMac
  <2>1. wire' = NoFrame BY <1>5 DEF SetDefaultMac, AddressInv, history
  <2>2. ~LowIsZero(realmac') BY <1>5, ChosenLow DEF SetDefaultMac, AddressInv
  <2> QED BY <1>5, <2>1, <2>2 DEF SetDefaultMac, AddressInv, WireSource, LowIsZero
<1>6. CASE WriteMbxMac
  BY <1>6 DEF WriteMbxMac, AddressInv, WireSource, addresses, history, LowIsZero
<1>7. CASE MainPush \/ RxGot \/ RxPush
  BY <1>7 DEF MainPush, RxGot, RxPush, AddressInv, WireSource, addresses, LowIsZero
<1>8. CASE RxLoop \/ RxRecv
  BY <1>1, <1>8 DEF RxLoop, RxRecv, history
<1>9. CASE MainCommand
  <2>1. pc = "loop" /\ pc' = "push" /\ Command BY <1>9 DEF MainCommand
  <2>2. CASE ChipInit
    BY <2>1, <2>2 DEF ChipInit, AddressInv, WireSource, LowIsZero
  <2>3. CASE StartOrStop
    BY <2>1, <2>3 DEF StartOrStop, AddressInv, WireSource, LowIsZero, addresses
  <2>4. CASE WputCsr12To14
    BY <2>1, <2>4 DEF WputCsr12To14, AddressInv, WireSource, LowIsZero
  <2>5. CASE Transmit
    <3>1. UNCHANGED addresses /\ UNCHANGED patched BY <2>5 DEF Transmit, TransmitFrame
    <3>2. WireSource' BY <2>1, <2>5, TransmitStep
    <3> QED BY <2>1, <3>1, <3>2 DEF AddressInv, LowIsZero, addresses
  <2> QED BY <2>1, <2>2, <2>3, <2>4, <2>5 DEF Command
<1>10. MainMap \/ SpawnRx \/ MainExit \/ EthernetClose \/ JoinAndUnmap => UNCHANGED <<addresses, history>>
  BY DEF MainMap, SpawnRx, MainExit, EthernetClose, JoinAndUnmap
<1> QED
  BY <1>2, <1>3, <1>4, <1>5, <1>6, <1>7, <1>8, <1>9, <1>10 DEF Next, Main, Rx

\* Whatever address the Amiga got from the ROM or chose itself, its frames leave the card
\* from the wire address, in the ARP and DHCP fields too, and that address is not
\* 00:80:10:00:00:00 (mungepacket after chip_init told mac.cpp).
THEOREM WireAddressUsed == Spec => []WireSource
<1>1. AddressInv => WireSource BY DEF AddressInv
<1> QED BY <1>1, AddressInit, AddressStep, PTL DEF Spec

-----------------------------------------------------------------------------
\* Folding carries back in keeps the remainder modulo 3; only 0 folds to 0.
Residue == [s \in 0..4 * Words |-> IF s = 0 THEN 0 ELSE ((s - 1) % 3) + 1]

\* Residue satisfies the equation that defines Fold, so there is a function that does and
\* Fold is one.
LEMMA FoldUnfolds ==
  Fold = [s \in 0..4 * Words |-> IF s < Words THEN s ELSE Fold[(s % Words) + (s \div Words)]]
<1> DEFINE Unfolds(f) ==
             f = [s \in 0..4 * Words |-> IF s < Words THEN s ELSE f[(s % Words) + (s \div Words)]]
<1>1. Unfolds(Residue)
  <2>1. \A s \in 0..16 : Residue[s] = IF s < 4 THEN s ELSE Residue[(s % 4) + (s \div 4)]
    BY SMT DEF Residue, Words
  <2> QED BY SMT, <2>1 DEF Residue, Words
<1>2. Fold = CHOOSE f : Unfolds(f)
  BY DEF Fold
<1> HIDE DEF Unfolds
<1>3. Unfolds(Fold) BY <1>1, <1>2
<1> QED BY <1>3 DEF Unfolds

\* Folding sums as large as two addresses, the rest and a checksum make.
LEMMA FoldIs == \A s \in 0..13 : Fold[s] = IF s = 0 THEN 0 ELSE ((s - 1) % 3) + 1
<1>1. \A s \in 0..16 : Fold[s] = IF s < 4 THEN s ELSE Fold[(s % 4) + (s \div 4)]
  BY SMT, FoldUnfolds DEF Words
<1>2. \A s \in 0..3 : Fold[s] = s BY SMT, <1>1
<1>3. Fold[4] = 1 /\ Fold[5] = 2 /\ Fold[6] = 3 BY SMT, <1>1
<1>4. Fold[7] = 1 /\ Fold[8] = 2 /\ Fold[9] = 3 BY SMT, <1>1
<1>5. Fold[10] = 1 /\ Fold[11] = 2 /\ Fold[12] = 3 BY SMT, <1>1, <1>2, <1>3
<1>6. Fold[13] = 1 BY SMT, <1>1, <1>3
<1> QED BY SMT, <1>2, <1>3, <1>4, <1>5, <1>6

\* main() before the wire address is chosen.
Early == {"map", "open", "mac"}

\* Frames as the LAN carries them.
Legal == {f \in Frame : /\ Valid(f)
                        /\ f.kind = "dhcp" => f.hw \in [1..1 -> Address]
                        /\ f.dst[1] = Group => f.dst = Multicast
                        /\ f.who = "peer" => f.src \in Peers}

\* The sum of an address's words.
LEMMA WordRange == \A a \in Address : WordOf(a) \in 0..7
BY SMT DEF WordOf, Address, Bits

\* udp_checksum gives a checksum that verifies, for every CHADDR.
LEMMA ChecksumVerifies ==
  ASSUME NEW a \in Address, NEW rest \in 0..Words - 1
  PROVE  /\ UdpChecksum(a, rest) \in 0..Words - 1
         /\ Fold[WordOf(a) + rest + UdpChecksum(a, rest)] = Words - 1
<1>1. PICK w \in 0..10 : w = WordOf(a) + rest BY SMT, WordRange DEF Words
<1>2. PICK r \in 0..3 : r = Fold[w] /\ (w >= r) /\ (r = IF w = 0 THEN 0 ELSE ((w - 1) % 3) + 1)
  BY SMT, FoldIs
<1>3. UdpChecksum(a, rest) = 3 - r BY SMT, <1>1, <1>2 DEF UdpChecksum, Words
<1>4. Fold[w + (3 - r)] = 3
  BY SMT, <1>2, FoldIs
<1> QED BY SMT, <1>1, <1>2, <1>3, <1>4 DEF Words

\* What mungepacket does to each field.
LEMMA MungeFields ==
  ASSUME NEW f \in Frame
  PROVE  LET g == Mungepacket(f)
         IN  /\ g.who = f.who /\ g.kind = f.kind /\ g.rest = f.rest
             /\ g.dst = Dofakemac(f.dst) /\ g.src = Dofakemac(f.src)
             /\ DOMAIN g.hw = DOMAIN f.hw
             /\ \A i \in DOMAIN f.hw : g.hw[i] = Dofakemac(f.hw[i])
             /\ DOMAIN g = DOMAIN f
BY DEF Mungepacket, Dofakemac, Frame

\* mungepacket keeps a frame a frame, and its checksum verifying.
LEMMA MungeTyped ==
  ASSUME realmac \in Address, fakemac \in Address, NEW f \in Frame, Valid(f),
         f.kind = "dhcp" => f.hw \in [1..1 -> Address]
  PROVE  /\ Mungepacket(f) \in Frame
         /\ Valid(Mungepacket(f))
         /\ f.kind = "dhcp" => Mungepacket(f).hw \in [1..1 -> Address]
<1> DEFINE hw == [i \in DOMAIN f.hw |-> Dofakemac(f.hw[i])]
           sum == IF f.kind = "dhcp" /\ f.hw[1] \in {fakemac, realmac} /\ f.sum # 0
                    THEN UdpChecksum(hw[1], f.rest) ELSE f.sum
<1>1. CASE fakemac = realmac BY <1>1 DEF Mungepacket
<1>2. CASE fakemac # realmac
  <2>1. Mungepacket(f) = [f EXCEPT !.dst = Dofakemac(f.dst), !.src = Dofakemac(f.src), !.hw = hw, !.sum = sum]
    BY <1>2 DEF Mungepacket
  <2>2. \A a \in Address : Dofakemac(a) \in Address BY DEF Dofakemac
  <2>3. hw \in {<<>>} \cup [1..1 -> Address] \cup [1..2 -> Address]
    <3>1. CASE f.hw = <<>> BY SMT, <3>1
    <3>2. CASE f.hw \in [1..1 -> Address] BY <3>2, <2>2
    <3>3. CASE f.hw \in [1..2 -> Address] BY <3>3, <2>2
    <3> QED BY <3>1, <3>2, <3>3 DEF Frame
  <2>4. f.kind = "dhcp" => hw \in [1..1 -> Address] /\ hw[1] \in Address BY SMT, <2>2
  <2>5. f.rest \in 0..Words - 1 /\ f.sum \in 0..Words - 1 /\ f.dst \in Address /\ f.src \in Address
    BY DEF Frame
  <2>6. sum \in 0..Words - 1 BY <2>4, <2>5, ChecksumVerifies
  <2>7. f.kind # "dhcp" \/ sum = 0 \/ Fold[WordOf(hw[1]) + f.rest + sum] = Words - 1
    <3>1. CASE f.kind = "dhcp" /\ f.hw[1] \in {fakemac, realmac} /\ f.sum # 0
      <4>1. sum = UdpChecksum(hw[1], f.rest) /\ hw[1] \in Address  BY <3>1, <2>4
      <4> HIDE DEF hw, sum
      <4> QED  BY <4>1, <2>5, ChecksumVerifies
    <3>2. CASE f.kind = "dhcp" /\ f.hw[1] \notin {fakemac, realmac} /\ f.sum # 0
      <4>1. hw[1] = f.hw[1] /\ sum = f.sum BY SMT, <3>2 DEF Dofakemac
      <4> QED BY <4>1, <3>2 DEF Valid
    <3>3. CASE f.kind # "dhcp" \/ f.sum = 0 BY <3>3
    <3> QED BY <3>1, <3>2, <3>3
  <2> HIDE DEF hw, sum
  <2>8. Mungepacket(f) \in Frame
    <3>1. f.who \in {"amiga", "peer"} /\ f.kind \in Kinds BY DEF Frame
    <3>2. Mungepacket(f) = [who |-> f.who, dst |-> Dofakemac(f.dst), src |-> Dofakemac(f.src),
                            kind |-> f.kind, hw |-> hw, rest |-> f.rest, sum |-> sum]
      BY <2>1 DEF Frame
    <3>3. Dofakemac(f.dst) \in Address /\ Dofakemac(f.src) \in Address BY <2>2, <2>5
    <3> QED BY SMT, <3>1, <3>2, <3>3, <2>3, <2>5, <2>6 DEF Frame
  <2>9. /\ Mungepacket(f).kind = f.kind /\ Mungepacket(f).hw = hw /\ Mungepacket(f).sum = sum
        /\ Mungepacket(f).rest = f.rest
    BY <2>1 DEF Frame
  <2> QED BY <2>4, <2>7, <2>8, <2>9 DEF Valid
<1> QED BY <1>1, <1>2

Serial == Bits \X Bits \X Bits

\* The card's addresses are addresses of a station: no ROM contents, serial number, custom
\* address or write to CSR12-14 makes anything else of them.
StationTyped ==
  /\ realmac \in Address /\ fakemac \in Address /\ station \in Address
  /\ rom \in Serial /\ serial \in Serial
  /\ realmac[1] = Commodore /\ fakemac[1] \in {Commodore, Other}

\* They start at 00:80:10:00:00:00.
LEMMA TypedInit == Init => StationTyped
BY SMT DEF Init, StationTyped, Serial, Address, Bits, Zero, Commodore

\* Exchanging the bytes of each pair twice gives the address back.
LEMMA SwappedBack == \A a \in Address : Swapped(Swapped(a)) = a
BY SMT DEF Swapped, Address, Bits

\* Three bits in a row are a serial number.
LEMMA TripleOf == ASSUME NEW t \in Seq(Bits), Len(t) = 3 PROVE t \in Serial
<1> DEFINE u == <<t[1], t[2], t[3]>>
<1>1. \A i \in 1..3 : t[i] \in Bits BY ElementOfSeq
<1>2. t[1] \in Bits /\ t[2] \in Bits /\ t[3] \in Bits BY SMT, <1>1
<1>3. u \in Serial BY <1>2 DEF Serial
<1>4. u \in Seq(Bits) /\ Len(u) = 3 BY SMT, <1>2
<1>5. \A i \in 1..3 : t[i] = u[i] BY SMT
<1> HIDE DEF u
<1>6. t = u BY <1>4, <1>5, SeqEqual
<1> QED BY <1>3, <1>6

\* The address made of a serial number.
LEMMA SerialAddress ==
  ASSUME NEW s \in Serial
  PROVE  <<Commodore>> \o s \in Address /\ (<<Commodore>> \o s)[1] = Commodore
<1>1. PICK a \in Bits, b \in Bits, c \in Bits : s = <<a, b, c>> BY SMT DEF Serial
<1> DEFINE h == <<Commodore>>
           t == <<Commodore, a, b, c>>
<1>2. h \in Seq(Nat) /\ s \in Seq(Nat) /\ t \in Seq(Nat) BY SMT, <1>1 DEF Commodore, Bits
<1>3. Len(h) = 1 /\ Len(s) = 3 /\ Len(t) = 4 /\ h[1] = t[1] BY <1>1
<1>4. s[1] = t[2] /\ s[2] = t[3] /\ s[3] = t[4] BY <1>1
<1>5. t \in Address /\ t[1] = Commodore BY SMT DEF Address, Commodore
<1> HIDE DEF h, t
<1>6. /\ h \o s \in Seq(Nat) /\ Len(h \o s) = Len(h) + Len(s)
      /\ \A i \in 1..Len(h) + Len(s) : (h \o s)[i] = IF i <= Len(h) THEN h[i] ELSE s[i - Len(h)]
  BY <1>2, ConcatProperties
<1> DEFINE r == h \o s
<1> HIDE DEF r
<1>7. r \in Seq(Nat) /\ Len(r) = 4 /\ r[1] = h[1] /\ r[2] = s[1] /\ r[3] = s[2] /\ r[4] = s[3]
  BY SMT, <1>3, <1>6 DEF r
<1>8. \A i \in 1..4 : r[i] = t[i] BY SMT, <1>3, <1>4, <1>7
<1>9. r = t BY <1>2, <1>3, <1>7, <1>8, SeqEqual
<1> QED BY <1>5, <1>9 DEF h, r

\* Every step keeps them so.
LEMMA TypedStep == hostmac \in Address /\ StationTyped /\ [Next]_vars => StationTyped'
<1> SUFFICES ASSUME hostmac \in Address, StationTyped, [Next]_vars PROVE StationTyped' OBVIOUS
<1>1. CASE UNCHANGED <<addresses, rom, serial>>
  BY <1>1 DEF StationTyped, addresses
<1>2. CASE HandleSignal \/ PeerSends \/ PeerChatter \/ WriteBase \/ UNCHANGED vars
  BY <1>1, <1>2 DEF HandleSignal, PeerSends, PeerChatter, WriteBase, vars, amiga
<1>3. CASE MainMap \/ SpawnRx \/ MainPush \/ MainExit \/ EthernetClose \/ JoinAndUnmap \/ Rx
  BY <1>1, <1>3 DEF MainMap, SpawnRx, MainPush, MainExit, EthernetClose, JoinAndUnmap, Rx, RxLoop,
      RxRecv,
                    RxGot, RxPush, amiga
<1>4. CASE EthernetOpen BY <1>4 DEF EthernetOpen, amiga, StationTyped
<1>5. CASE SetDefaultMac
  <2>1. realmac' \in Address /\ realmac'[1] = Commodore BY <1>5, ChosenLow DEF SetDefaultMac
  <2> QED BY <1>5, <2>1 DEF SetDefaultMac, amiga, StationTyped
<1>6. CASE WriteMbxMac
  <2>1. station \in (0..3) \X Bits \X Bits \X Bits BY DEF StationTyped, Address
  <2>2. rom' \in Serial
    <3>1. PICK a \in 0..3, b \in Bits, c \in Bits, d \in Bits : station = <<a, b, c, d>>
      BY SMT, <2>1
    <3>2. /\ SubSeq(station, 2, 4) \in Seq(Bits) /\ Len(SubSeq(station, 2, 4)) = 3
      <4>1. \A i \in 2..4 : station[i] \in Bits BY SMT, <3>1
      <4> QED BY SMT, <4>1, SubSeqProperties
    <3>3. \A t \in Seq(Bits) : Len(t) = 3 => t \in Serial BY TripleOf
    <3> QED BY <1>6, <3>2, <3>3 DEF WriteMbxMac
  <2> QED BY <1>6, <2>2 DEF WriteMbxMac, addresses, StationTyped
<1>7. CASE ReadSerialHigh \/ ReadSerialLow
  <2>1. /\ rom[1] \in Bits /\ rom[2] \in Bits /\ rom[3] \in Bits
        /\ serial[1] \in Bits /\ serial[2] \in Bits /\ serial[3] \in Bits
        /\ \A x \in Bits : 1 - Nibble(x) \in Bits
    BY SMT DEF StationTyped, Serial, Bits, Nibble
  <2>2. serial' \in Serial
    <3>1. CASE ReadSerialHigh BY SMT, <3>1, <2>1 DEF ReadSerialHigh, StationTyped, Serial
    <3>2. CASE ReadSerialLow
      <4>1. serial' = <<serial[1], 1 - Nibble(rom[2]), 1 - Nibble(rom[3])>>
        BY SMT, <3>2 DEF ReadSerialLow
      <4> QED BY <4>1, <2>1 DEF Serial
    <3> QED BY <1>7, <3>1, <3>2
  <2> QED BY <1>7, <2>2 DEF ReadSerialHigh, ReadSerialLow, addresses, StationTyped
<1>8. CASE MainCommand
  <2>1. UNCHANGED <<rom, serial>> /\ Command BY <1>8 DEF MainCommand, amiga
  <2>2. CASE ChipInit
    <3>1. PICK a \in {<<Commodore>> \o serial} \cup Customs : station' = Swapped(Swapped(a))
      BY <2>2 DEF ChipInit
    <3>2. a \in Address /\ a[1] \in {Commodore, Other}
      BY SerialAddress, AddressAssumption, IndividualAssumption DEF StationTyped
    <3>3. station' = a BY <3>1, <3>2, SwappedBack
    <3> QED BY <2>1, <2>2, <3>2, <3>3 DEF ChipInit, StationTyped
  <2>3. CASE StartOrStop \/ Transmit
    <3>1. UNCHANGED addresses BY <2>3 DEF StartOrStop, Transmit, TransmitFrame
    <3> QED BY <1>1, <2>1, <3>1
  <2>4. CASE WputCsr12To14
    <3>1. PICK p \in {1, 3}, v \in Patches : station' = [station EXCEPT ![p] = v[2], ![p + 1] = v[1]]
      BY <2>4 DEF WputCsr12To14
    <3>2. v[1] \in 0..1 /\ v[2] \in 0..1 BY AddressAssumption DEF Bits
    <3>3. station' \in Address
      <4>1. CASE p = 1 BY SMT, <3>1, <3>2, <4>1 DEF StationTyped, Address, Bits
      <4>2. CASE p = 3 BY SMT, <3>1, <3>2, <4>2 DEF StationTyped, Address, Bits
      <4> QED BY <4>1, <4>2
    <3> QED BY <2>1, <2>4, <3>3 DEF WputCsr12To14, StationTyped
  <2> QED BY <2>1, <2>2, <2>3, <2>4 DEF Command
<1> QED
  BY <1>2, <1>3, <1>4, <1>5, <1>6, <1>7, <1>8 DEF Next, Main, Autoconfig

\* One of the Amiga's has the wire address as its source, whatever the chip's address is
\* when it comes back from the socket.
Carried == {f \in Legal : f.who = "amiga" => pc \notin Early /\ (patched \/ f.src = realmac)}

\* What waits in the socket and in the receive thread's buffer.
QueueInv ==
  /\ sockq \in Seq(Carried)
  /\ rx = "got" => buf \in Carried

\* Frames made of a body are frames, and keep the body's checksum.
LEMMA BodyFrame ==
  ASSUME NEW who \in {"amiga", "peer"}, NEW dst \in Address, NEW src \in Address,
         NEW hw1 \in Address, NEW hw2 \in Address, NEW b \in Bodies(hw1, hw2)
  PROVE  LET f == FrameOf(who, dst, src, b)
         IN  /\ f \in Frame /\ Valid(f)
             /\ f.kind = "dhcp" => f.hw \in [1..1 -> Address]
             /\ f.who = who /\ f.dst = dst /\ f.src = src
<1> DEFINE f == FrameOf(who, dst, src, b)
<1>0. f = [who |-> who, dst |-> dst, src |-> src, kind |-> b.kind, hw |-> b.hw, rest |-> b.rest, sum |-> b.sum]
  BY DEF FrameOf
<1>1. CASE b \in [kind : {"arp"}, hw : {<<hw1, hw2>>}, rest : {0}, sum : {0}]
  <2>1. b.kind = "arp" /\ b.hw = <<hw1, hw2>> /\ b.rest = 0 /\ b.sum = 0 BY <1>1
  <2>2. b.hw \in [1..2 -> Address] BY SMT, <2>1
  <2>3. 0 \in 0..Words - 1 BY SMT DEF Words
  <2> QED BY SMT, <1>0, <2>1, <2>2, <2>3 DEF Frame, Kinds, Valid
<1>2. CASE b \in {c \in [kind : {"dhcp"}, hw : {<<hw1>>}, rest : {Words - 1}, sum : 0..Words - 1] : Valid(c)}
  <2>1. b.kind = "dhcp" /\ b.hw = <<hw1>> /\ b.rest = Words - 1 /\ b.sum \in 0..Words - 1 /\ Valid(b)
    BY <1>2
  <2>2. b.hw \in [1..1 -> Address] BY SMT, <2>1
  <2>3. Words - 1 \in 0..Words - 1 BY SMT DEF Words
  <2>4. f \in Frame BY SMT, <1>0, <2>1, <2>2, <2>3 DEF Frame, Kinds
  <2>5. f.kind = b.kind /\ f.hw = b.hw /\ f.rest = b.rest /\ f.sum = b.sum BY SMT, <1>0
  <2>6. Valid(f) BY <2>1, <2>5 DEF Valid
  <2> QED BY SMT, <1>0, <2>2, <2>4, <2>5, <2>6
<1> QED BY <1>1, <1>2 DEF Bodies

\* Addresses of the two groups of receivers.
LEMMA GroupAddresses ==
  /\ Broadcast \in Address /\ Broadcast[1] = 3
  /\ Multicast \in Address /\ Multicast[1] = Group
BY SMT DEF Broadcast, Multicast, Address, Bits, Group

\* Sequences over a set are sequences over a larger one.
LEMMA SeqGrows == ASSUME NEW A, NEW B, A \subseteq B PROVE Seq(A) \subseteq Seq(B)
<1> SUFFICES ASSUME NEW s \in Seq(A) PROVE s \in Seq(B) OBVIOUS
<1>1. \A i \in 1..Len(s) : s[i] \in B BY ElementOfSeq
<1> QED BY SMT, <1>1

\* A frame on its way stays as it is: the wire address is not changed once a frame of the
\* Amiga's can have been sent, and CSR12-14 stay written.
LEMMA CarriedGrows == [Next]_vars => Carried \subseteq Carried'
<1> SUFFICES ASSUME [Next]_vars PROVE Carried \subseteq Carried' OBVIOUS
<1>1. /\ pc \notin Early => pc' \notin Early /\ realmac' = realmac
      /\ patched => patched'
  <2>1. CASE Main
    <3>1. CASE MainCommand
      BY SMT, <3>1 DEF MainCommand, Command, ChipInit, StartOrStop, WputCsr12To14, Transmit,
          TransmitFrame, addresses, Early
    <3>2. CASE ~MainCommand
      BY SMT, <2>1, <3>2 DEF Main, MainMap, EthernetOpen, SetDefaultMac, WriteMbxMac, SpawnRx,
          MainPush,
        MainExit, EthernetClose, JoinAndUnmap, addresses, history, Early
    <3> QED BY <3>1, <3>2
  <2>2. CASE ~Main
    BY SMT, <2>2 DEF Next, HandleSignal, Rx, RxLoop, RxRecv, RxGot, RxPush, Autoconfig,
        ReadSerialHigh, ReadSerialLow,
      WriteBase, PeerSends, PeerChatter, vars, addresses, history, threads
  <2> QED BY <2>1, <2>2
<1> QED BY <1>1 DEF Carried

\* Nothing is queued at the start.
LEMMA QueueInit == Init => QueueInv
BY SMT DEF Init, QueueInv

\* do_transmit puts a frame of that kind on the wire, and the raw socket hands it back.
LEMMA SentCarried ==
  ASSUME StationTyped, AddressInv, pc \notin Early, NEW src \in {station, fakemac},
         NEW dst \in Peers \cup {Broadcast, Multicast}, NEW b \in Bodies(src, dst)
  PROVE  Mungepacket(FrameOf("amiga", dst, src, b)) \in Carried
<1> DEFINE f == FrameOf("amiga", dst, src, b)
           g == Mungepacket(f)
<1>1. src \in Address /\ dst \in Address BY GroupAddresses, AddressAssumption DEF StationTyped
<1>2. f \in Frame /\ Valid(f) /\ (f.kind = "dhcp" => f.hw \in [1..1 -> Address])
  BY <1>1, BodyFrame
<1>3. f.who = "amiga" /\ f.dst = dst /\ f.src = src BY SMT, <1>1, BodyFrame
<1> HIDE DEF f
<1>4. g \in Frame /\ Valid(g) /\ (f.kind = "dhcp" => g.hw \in [1..1 -> Address])
  BY <1>2, MungeTyped DEF StationTyped
<1>5. g.who = "amiga" /\ g.kind = f.kind /\ g.dst = Dofakemac(dst) /\ g.src = Dofakemac(src)
  BY <1>2, <1>3, MungeFields
<1> HIDE DEF g
<1>6. g.dst[1] = Group => g.dst = Multicast
  <2>1. dst[1] = Group => dst = Multicast
    BY SMT, GroupAddresses, IndividualAssumption DEF Group, Commodore, Other
  <2>2. realmac[1] # Group /\ fakemac[1] # Group BY SMT DEF StationTyped, Group, Commodore, Other
  <2> QED BY <1>5, <2>1, <2>2 DEF Dofakemac
<1>7. ~patched => g.src = realmac BY <1>5 DEF AddressInv, Dofakemac
<1>8. g \in Carried BY <1>4, <1>5, <1>6, <1>7 DEF Carried, Legal
<1> QED BY <1>8 DEF g, f

\* Every step keeps what is queued as QueueInv says.
LEMMA QueueStep == StationTyped /\ AddressInv /\ QueueInv /\ [Next]_vars => QueueInv'
<1> SUFFICES ASSUME StationTyped, AddressInv, QueueInv, [Next]_vars PROVE QueueInv' OBVIOUS
<1>1. Carried \subseteq Carried' /\ Seq(Carried) \subseteq Seq(Carried') BY CarriedGrows, SeqGrows
<1>2. CASE UNCHANGED <<sockq, buf>> /\ (rx' = "got" => rx = "got")
  BY <1>1, <1>2 DEF QueueInv
<1>3. CASE HandleSignal \/ Autoconfig \/ UNCHANGED vars
  BY <1>2, <1>3 DEF HandleSignal, Autoconfig, ReadSerialHigh, ReadSerialLow, WriteBase, lan,
      threads, vars
<1>4. CASE Main /\ ~MainCommand
  BY <1>2, <1>4 DEF Main, MainMap, EthernetOpen, SetDefaultMac, WriteMbxMac, SpawnRx, MainPush,
        MainExit, EthernetClose, JoinAndUnmap, lan
<1>5. CASE RxLoop \/ RxPush BY <1>2, <1>5 DEF RxLoop, RxPush, lan
<1>6. CASE RxGot BY <1>1, <1>6 DEF RxGot, lan, QueueInv
<1>7. CASE RxRecv
  <2>1. sockq \in Seq(Carried) /\ sockq # <<>> BY <1>7 DEF RxRecv, QueueInv
  <2>2. Head(sockq) \in Carried /\ Tail(sockq) \in Seq(Carried) BY SMT, <2>1
  <2> QED BY <1>1, <1>7, <2>2 DEF RxRecv, QueueInv
<1>8. CASE PeerSends
  <2>1. PICK src \in Peers, dst \in Peers \cup {realmac, Broadcast, Multicast} :
          \E b \in Bodies(IF dst = realmac THEN realmac ELSE src, dst) :
            sockq' = Append(sockq, FrameOf("peer", dst, src, b))
    BY <1>8 DEF PeerSends
  <2>2. PICK b \in Bodies(IF dst = realmac THEN realmac ELSE src, dst) :
          sockq' = Append(sockq, FrameOf("peer", dst, src, b))
    BY <2>1
  <2> DEFINE f == FrameOf("peer", dst, src, b)
  <2>3. src \in Address /\ dst \in Address /\ (IF dst = realmac THEN realmac ELSE src) \in Address
    BY GroupAddresses, AddressAssumption DEF StationTyped
  <2>4. /\ f \in Frame /\ Valid(f) /\ (f.kind = "dhcp" => f.hw \in [1..1 -> Address])
        /\ f.who = "peer" /\ f.dst = dst /\ f.src = src
    BY SMT, <2>3, BodyFrame
  <2> HIDE DEF f
  <2>5. dst[1] = Group => dst = Multicast
    BY SMT, GroupAddresses, IndividualAssumption DEF StationTyped, Group, Commodore, Other
  <2>6. f \in Carried BY <2>4, <2>5 DEF Carried, Legal
  <2>7. sockq' = Append(sockq, f) BY <2>2 DEF f
  <2>8. sockq' \in Seq(Carried) BY SMT, <2>6, <2>7 DEF QueueInv
  <2> QED BY <1>1, <1>8, <2>8 DEF PeerSends, QueueInv, threads
<1>9. CASE PeerChatter
  <2>1. PICK p \in Peers : sockq' = <<FrameOf("peer", p, p, [kind |-> "ip", hw |-> <<>>, rest |-> 0, sum |-> 0])>>
    BY <1>9, IndividualAssumption DEF PeerChatter
  <2> DEFINE f == FrameOf("peer", p, p, [kind |-> "ip", hw |-> <<>>, rest |-> 0, sum |-> 0])
  <2>2. f = [who |-> "peer", dst |-> p, src |-> p, kind |-> "ip", hw |-> <<>>, rest |-> 0, sum |-> 0]
    BY DEF FrameOf
  <2>3. p \in Address /\ p[1] # Group /\ 0 \in 0..Words - 1
    BY SMT, AddressAssumption, IndividualAssumption DEF Group, Commodore, Other, Words
  <2>4. f \in Frame BY SMT, <2>2, <2>3 DEF Frame, Kinds
  <2>5. f.who = "peer" /\ f.dst = p /\ f.src = p /\ f.kind = "ip" BY SMT, <2>2
  <2> HIDE DEF f
  <2>6. f \in Carried BY <2>3, <2>4, <2>5 DEF Carried, Legal, Valid
  <2>7. sockq' = <<f>> BY <2>1 DEF f
  <2>8. sockq' \in Seq(Carried) BY SMT, <2>6, <2>7
  <2> QED BY <1>1, <1>9, <2>8 DEF PeerChatter, QueueInv, threads
<1>10. CASE MainCommand
  <2>1. pc \notin Early /\ UNCHANGED <<rx, buf>> /\ Command BY <1>10 DEF MainCommand, Early
  <2>2. CASE ~Transmit
    BY <1>2, <2>1, <2>2 DEF Command, ChipInit, StartOrStop, WputCsr12To14, lan
  <2>3. CASE Transmit
    <3>1. PICK src \in {station, fakemac}, dst \in Peers \cup {Broadcast, Multicast, station} :
            \E b \in Bodies(src, dst) : TransmitFrame(FrameOf("amiga", dst, src, b))
      BY <2>3 DEF Transmit
    <3>2. PICK b \in Bodies(src, dst) : TransmitFrame(FrameOf("amiga", dst, src, b)) BY <3>1
    <3> DEFINE f == FrameOf("amiga", dst, src, b)
    <3>3. f.dst = dst BY DEF FrameOf
    <3> HIDE DEF f
    <3>4. \/ sockq' = sockq
          \/ dst # station /\ sockq' = Append(sockq, Mungepacket(f))
      BY <3>2, <3>3 DEF TransmitFrame, Queued, f
    <3>5. sockq' \in Seq(Carried)
      <4>1. CASE sockq' = sockq BY <4>1 DEF QueueInv
      <4>2. CASE dst # station /\ sockq' = Append(sockq, Mungepacket(f))
        <5>1. Mungepacket(f) \in Carried BY <2>1, <4>2, SentCarried DEF f
        <5> QED BY SMT, <4>2, <5>1 DEF QueueInv
      <4> QED BY <3>4, <4>1, <4>2
    <3> QED BY <1>1, <2>1, <3>5 DEF QueueInv
  <2> QED BY <2>2, <2>3
<1> QED BY <1>3, <1>4, <1>5, <1>6, <1>7, <1>8, <1>9, <1>10 DEF Next, Rx

\* What gotfunc has put into the ring, and do_transmit on the wire.
GotInv ==
  /\ pc \in Early => got = NoFrame
  /\ RightStation /\ NoEcho /\ ChecksumHolds

\* gotfunc's filter in normal mode, which compares translated addresses with the Amiga's,
\* lets through only frames to the wire address, to all or to the group, and to the first
\* two none from the wire address.
LEMMA Accepted ==
  ASSUME StationTyped, station = fakemac, mode = {}, NEW f \in Legal, Accepts(Mungepacket(f))
  PROVE  /\ f.dst \in {realmac, Broadcast, Multicast}
         /\ f.dst # Multicast => f.src # realmac
<1> DEFINE g == Mungepacket(f)
<1>1. f \in Frame /\ f.dst \in Address /\ (f.dst[1] = Group => f.dst = Multicast)
  BY DEF Legal, Frame
<1>2. g.dst = Dofakemac(f.dst) /\ g.src = Dofakemac(f.src) BY <1>1, MungeFields
<1>3. Accepts(g) OBVIOUS
<1> HIDE DEF g
<1>4. realmac[1] # Group /\ realmac # Broadcast /\ fakemac # Broadcast
  BY SMT, GroupAddresses DEF StationTyped, Commodore, Other, Group
<1>5. \/ g.dst = Broadcast
      \/ g.dst[1] = Group
      \/ g.dst = station
  BY <1>3 DEF Accepts, Addressed
<1>6. f.dst \in {realmac, Broadcast, Multicast} BY <1>1, <1>2, <1>4, <1>5 DEF Dofakemac
<1>7. ASSUME f.dst # Multicast, f.src = realmac PROVE FALSE
  <2>1. g.src = station BY <1>2, <1>7 DEF Dofakemac
  <2>2. g.dst \in {station, Broadcast} BY <1>2, <1>4, <1>6, <1>7 DEF Dofakemac
  <2> QED BY <1>3, <2>1, <2>2 DEF Accepts
<1> QED BY <1>6, <1>7

\* A step that delivers and sends nothing keeps it.
LEMMA GotKept ==
  ASSUME GotInv, got' = got \/ got' = NoFrame, wire' = wire \/ wire' = NoFrame,
         pc \notin Early => pc' \notin Early /\ realmac' = realmac, patched => patched'
  PROVE  GotInv'
<1>1. (pc \in Early => got = NoFrame)' BY DEF GotInv
<1>2. RightStation' /\ NoEcho' BY DEF GotInv, RightStation, NoEcho
<1>3. ChecksumHolds' BY DEF GotInv, ChecksumHolds
<1> QED BY <1>1, <1>2, <1>3 DEF GotInv

\* gotfunc on a frame from the socket.
LEMMA Delivered ==
  ASSUME StationTyped, AddressInv, pc \notin Early, NEW f \in Carried, Deliver(f), UNCHANGED <<realmac, patched>>
  PROVE  RightStation' /\ NoEcho' /\ (got' # NoFrame => Valid(got'.seen))
<1>0. CASE got' = NoFrame BY <1>0 DEF RightStation, NoEcho
<1>1. CASE got' # NoFrame
  <2>1. f \in Frame /\ f \in Legal /\ Valid(f) /\ (f.kind = "dhcp" => f.hw \in [1..1 -> Address])
    BY DEF Carried, Legal
  <2>2. got' = [raw |-> f, seen |-> Filter(f), station |-> station, mode |-> mode]
    BY <1>1 DEF Deliver
  <2>3. got'.raw = f /\ got'.seen = Filter(f) /\ got'.station = station /\ got'.mode = mode BY <2>2
  <2>4. Filter(f) # NoFrame BY <1>1 DEF Deliver
  <2>5. Valid(got'.seen)
    <3>1. Filter(f) = f \/ Filter(f) = Mungepacket(f) BY <2>4 DEF Filter
    <3>2. Valid(Mungepacket(f)) BY <2>1, MungeTyped DEF StationTyped
    <3> QED BY <2>1, <2>3, <3>1, <3>2
  <2>6. ASSUME ~patched, mode = {}
        PROVE  /\ f.dst \in {realmac, Broadcast, Multicast}
               /\ f.dst # Multicast => f.who = "peer"
               /\ f.dst = realmac => /\ Filter(f).dst = station
                                     /\ \A i \in DOMAIN f.hw : f.hw[i] = realmac => Filter(f).hw[i] = station
    <3>1. station = fakemac BY <2>6 DEF AddressInv
    <3>2. Filter(f) = Mungepacket(f) /\ Accepts(Mungepacket(f)) BY <2>4, <2>6 DEF Filter
    <3>3. f.dst \in {realmac, Broadcast, Multicast} /\ (f.dst # Multicast => f.src # realmac)
      BY <2>1, <2>6, <3>1, <3>2, Accepted
    <3>4. f.who \in {"amiga", "peer"} /\ (f.who = "amiga" => f.src = realmac)
      BY <2>6 DEF Carried, Legal, Frame
    <3>5. /\ Filter(f).dst = Dofakemac(f.dst)
          /\ \A i \in DOMAIN f.hw : Filter(f).hw[i] = Dofakemac(f.hw[i])
      BY <2>1, <3>2, MungeFields
    <3>6. Dofakemac(realmac) = station BY <3>1 DEF Dofakemac
    <3> QED BY <3>3, <3>4, <3>5, <3>6
  <2>7. RightStation'
    <3> SUFFICES ASSUME ~patched, mode = {}
                 PROVE  /\ f.dst \in {realmac, Broadcast, Multicast}
                        /\ f.dst = realmac => /\ Filter(f).dst = station
                                              /\ \A i \in DOMAIN f.hw : f.hw[i] = realmac => Filter(f).hw[i] = station
      BY <2>3 DEF RightStation
    <3> QED BY <2>6
  <2>8. NoEcho' BY <2>3, <2>6 DEF NoEcho
  <2> QED BY <2>5, <2>7, <2>8
<1> QED BY <1>0, <1>1

\* Every step keeps it: gotfunc from the thread, do_transmit looped back or sent.
LEMMA GotStep ==
  ThreadInv /\ StationTyped /\ AddressInv /\ QueueInv /\ GotInv /\ [Next]_vars => GotInv'
<1> SUFFICES ASSUME ThreadInv, StationTyped, AddressInv, QueueInv, GotInv, [Next]_vars PROVE GotInv'
  OBVIOUS
<1>1. CASE HandleSignal \/ Autoconfig \/ PeerSends \/ PeerChatter \/ UNCHANGED vars
  BY SMT, <1>1, GotKept DEF HandleSignal, Autoconfig, ReadSerialHigh, ReadSerialLow, WriteBase,
      PeerSends,
                       PeerChatter, vars, threads, addresses, history
<1>2. CASE Main /\ ~MainCommand
  <2>1. /\ got' = got \/ got' = NoFrame
        /\ wire' = wire \/ wire' = NoFrame
        /\ pc \notin Early => pc' \notin Early /\ realmac' = realmac
        /\ patched => patched'
    BY SMT, <1>2 DEF Main, MainMap, EthernetOpen, SetDefaultMac, WriteMbxMac, SpawnRx, MainPush,
        MainExit, EthernetClose, JoinAndUnmap, addresses, history, Early
  <2> QED BY <2>1, GotKept
<1>3. CASE RxLoop \/ RxRecv \/ RxPush
  BY SMT, <1>3, GotKept DEF RxLoop, RxRecv, RxPush, addresses, history
<1>4. CASE RxGot
  <2>1. pc \notin Early /\ pc' = pc /\ buf \in Carried
    BY <1>4 DEF RxGot, ThreadInv, Started, Early, QueueInv
  <2>2. Deliver(buf) /\ UNCHANGED <<realmac, patched, wire>> BY <1>4 DEF RxGot, addresses
  <2>3. RightStation' /\ NoEcho' /\ (got' # NoFrame => Valid(got'.seen)) BY <2>1, <2>2, Delivered
  <2>4. ChecksumHolds' BY <2>2, <2>3 DEF GotInv, ChecksumHolds
  <2> QED BY <2>1, <2>3, <2>4 DEF GotInv
<1>5. CASE MainCommand
  <2>1. pc \notin Early /\ pc' \notin Early /\ Command BY <1>5 DEF MainCommand, Early
  <2>2. CASE ~Transmit
    BY SMT, <2>1, <2>2, GotKept DEF Command, ChipInit, StartOrStop, WputCsr12To14, addresses
  <2>3. CASE Transmit
    <3>1. PICK src \in {station, fakemac}, dst \in Peers \cup {Broadcast, Multicast, station} :
            \E b \in Bodies(src, dst) : TransmitFrame(FrameOf("amiga", dst, src, b))
      BY <2>3 DEF Transmit
    <3>2. PICK b \in Bodies(src, dst) : TransmitFrame(FrameOf("amiga", dst, src, b)) BY <3>1
    <3> DEFINE f == FrameOf("amiga", dst, src, b)
    <3>3. src \in Address /\ dst \in Address BY GroupAddresses, AddressAssumption DEF StationTyped
    <3>4. f \in Frame /\ Valid(f) /\ (f.kind = "dhcp" => f.hw \in [1..1 -> Address])
      BY <3>3, BodyFrame
    <3> HIDE DEF f
    <3>5. UNCHANGED <<realmac, patched>> BY <3>2 DEF TransmitFrame, addresses
    <3>6. CASE got' = got /\ wire' = wire BY <2>1, <3>5, <3>6, GotKept
    <3>7. CASE "LOOP" \in mode /\ Deliver(f) /\ wire' = wire
      <4>1. got' = NoFrame \/ got' = [raw |-> f, seen |-> f, station |-> station, mode |-> mode]
        BY <3>7 DEF Deliver, Filter
      <4>2. CASE got' = NoFrame BY <2>1, <3>5, <3>7, <4>2, GotKept
      <4>3. CASE got' = [raw |-> f, seen |-> f, station |-> station, mode |-> mode]
        <5>1. got'.seen = f /\ got'.mode # {} BY <3>7, <4>3
        <5>2. RightStation' /\ NoEcho' BY <5>1 DEF RightStation, NoEcho
        <5>3. ChecksumHolds' BY <3>4, <3>7, <5>1 DEF GotInv, ChecksumHolds
        <5> QED BY <2>1, <5>2, <5>3 DEF GotInv
      <4> QED BY <4>1, <4>2, <4>3
    <3>8. CASE got' = got /\ wire' = [sent |-> f, out |-> Mungepacket(f)]
      <4>1. Valid(Mungepacket(f)) BY <3>4, MungeTyped DEF StationTyped
      <4>2. RightStation' /\ NoEcho' BY <3>5, <3>8 DEF GotInv, RightStation, NoEcho
      <4>3. wire'.out = Mungepacket(f) BY <3>8
      <4>4. ChecksumHolds' BY <3>8, <4>1, <4>3 DEF GotInv, ChecksumHolds
      <4> QED BY <2>1, <4>2, <4>4 DEF GotInv
    <3> QED BY <3>2, <3>6, <3>7, <3>8 DEF TransmitFrame, f
  <2> QED BY <2>2, <2>3
<1> QED BY <1>1, <1>2, <1>3, <1>4, <1>5 DEF Next, Rx

\* Nothing is delivered or sent at the start.
LEMMA GotInit == Init => GotInv
BY DEF Init, GotInv, RightStation, NoEcho, ChecksumHolds

StationInv == ThreadInv /\ AddressInv /\ StationTyped /\ QueueInv /\ GotInv

\* The invariants together are inductive.
LEMMA StationHolds == Spec => []StationInv
<1>1. Init => StationInv BY ThreadInit, AddressInit, TypedInit, QueueInit, GotInit DEF StationInv
<1>2. StationInv /\ [Next]_vars => StationInv'
  BY ThreadStep, AddressStep, TypedStep, QueueStep, GotStep DEF StationInv, AddressInv
<1> QED BY <1>1, <1>2, PTL DEF Spec

\* In normal mode the Amiga is shown only frames to the card's wire address, to all or to
\* the group, the first as frames to its own address (mungepacket, then gotfunc's filter),
\* although the chip may have been given another address while the frame waited.
THEOREM ShownToTheRightStation == Spec => []RightStation
<1>1. StationInv => RightStation BY DEF StationInv, GotInv
<1> QED BY <1>1, StationHolds, PTL

\* In normal mode gotfunc drops what the raw socket hands back of the Amiga's own frames,
\* whatever addresses the chip had when they were sent and has when they come back.
THEOREM OwnFramesStayAway == Spec => []NoEcho
<1>1. StationInv => NoEcho BY DEF StationInv, GotInv
<1> QED BY <1>1, StationHolds, PTL

\* Translating CHADDR (mungepacket, udp_checksum) leaves a checksum that verifies, or none,
\* in both directions, for every pair of addresses.
THEOREM ChecksumsVerify == Spec => []ChecksumHolds
<1>1. StationInv => ChecksumHolds BY DEF StationInv, GotInv
<1> QED BY <1>1, StationHolds, PTL

-----------------------------------------------------------------------------
\* The addresses the daemon may use on the wire: what set_default_mac makes of eth1's
\* address, of eth0's or of a hash.
OnWire == {[a EXCEPT ![1] = Commodore] :
             a \in {n \in Nics \cup {Eth0} : ~LowIsZero(n)} \cup DeriveUniqueLow}

\* No other machine has one of them: addresses on a LAN are unique.
Unshared == OnWire \cap Peers = {}

\* The wire address is one of them as soon as it has been chosen.
WireInv ==
  /\ hostmac \in Nics \cup {Zero}
  /\ pc \in Chosen => realmac \in OnWire

\* It has not been chosen at the start.
LEMMA WireInit == Init => WireInv
BY DEF Init, WireInv, Chosen, Started

\* Every step keeps that.
LEMMA WireStep == WireInv /\ [Next]_vars => WireInv'
<1> SUFFICES ASSUME WireInv, [Next]_vars PROVE WireInv' OBVIOUS
<1> USE DEF Chosen, Started
<1>1. CASE UNCHANGED <<hostmac, realmac>> /\ (pc' \in Chosen => pc \in Chosen)
  BY <1>1 DEF WireInv
<1>2. CASE EthernetOpen BY <1>2 DEF EthernetOpen, WireInv
<1>3. CASE SetDefaultMac
  <2>1. PICK a \in WireAddresses : realmac' = [a EXCEPT ![1] = Commodore] BY <1>3 DEF SetDefaultMac
  <2>2. a \in {n \in Nics \cup {Eth0} : ~LowIsZero(n)} \cup DeriveUniqueLow
    BY SMT DEF WireAddresses, WireInv, LowIsZero, Zero
  <2>3. realmac' \in OnWire BY <2>1, <2>2 DEF OnWire
  <2> QED BY <1>3, <2>3 DEF SetDefaultMac, WireInv
<1>4. CASE HandleSignal \/ Autoconfig \/ PeerSends \/ PeerChatter \/ UNCHANGED vars
  BY <1>1, <1>4 DEF HandleSignal, Autoconfig, ReadSerialHigh, ReadSerialLow, WriteBase, PeerSends,
                    PeerChatter, vars, threads, addresses
<1>5. CASE MainMap \/ WriteMbxMac \/ SpawnRx \/ MainPush \/ MainExit \/ EthernetClose \/ JoinAndUnmap \/ Rx
  BY <1>1, <1>5 DEF MainMap, WriteMbxMac, SpawnRx, MainPush, MainExit, EthernetClose, JoinAndUnmap,
      Rx,
                    RxLoop, RxRecv, RxGot, RxPush, addresses
<1>6. CASE MainCommand
  BY <1>1, <1>6 DEF MainCommand, Command, ChipInit, StartOrStop, WputCsr12To14, Transmit,
      TransmitFrame, addresses
<1> QED BY <1>2, <1>3, <1>4, <1>5, <1>6 DEF Next, Main

\* gotfunc delivers a peer's frame to the wire address: translated, it is to the Amiga's
\* address and not from it.
LEMMA ReplyStep ==
  ASSUME Unshared, StationInv, WireInv, Next, rx = "got", rx' = "push", buf.who = "peer", buf.dst = realmac,
         on, mode = {}, ~patched
  PROVE  got' # NoFrame /\ got'.raw = buf /\ got'.seen.dst = station
<1> DEFINE g == Mungepacket(buf)
<1>1. RxGot
  BY DEF Next, HandleSignal, Main, MainMap, EthernetOpen, SetDefaultMac, WriteMbxMac, SpawnRx,
      MainCommand,
    MainPush, MainExit, EthernetClose, JoinAndUnmap, Rx, RxLoop, RxRecv, RxPush, Autoconfig, ReadSerialHigh,
    ReadSerialLow, WriteBase, PeerSends, PeerChatter, threads
<1>2. pc \in Chosen BY DEF StationInv, ThreadInv, Chosen
<1>3. buf \in Frame /\ buf.src \in Peers BY DEF StationInv, QueueInv, Carried, Legal
<1>4. buf.src # realmac BY <1>2, <1>3 DEF Unshared, WireInv
<1>5. station = fakemac /\ fakemac[1] \in {Commodore, Other}
  BY DEF StationInv, AddressInv, StationTyped
<1>6. g.dst = station /\ g.src = Dofakemac(buf.src) /\ DOMAIN g = DOMAIN buf
  BY <1>3, <1>5, MungeFields DEF Dofakemac
<1>7. g.src # station BY <1>4, <1>5, <1>6 DEF Dofakemac
<1>8. Accepts(g) BY <1>5, <1>6, <1>7 DEF Accepts, Addressed
<1>9. g # NoFrame
  <2>1. "dst" \in DOMAIN g BY <1>3, <1>6 DEF Frame
  <2>2. DOMAIN <<>> = {} BY SMT
  <2> QED BY <2>1, <2>2 DEF NoFrame
<1>10. Filter(buf) = g BY <1>8 DEF Filter
<1> HIDE DEF g
<1>11. got' = [raw |-> buf, seen |-> g, station |-> station, mode |-> mode]
  BY <1>1, <1>9, <1>10 DEF RxGot, Deliver
<1>12. got' # NoFrame
  <2>1. "raw" \in DOMAIN got' BY <1>11
  <2>2. DOMAIN <<>> = {} BY SMT
  <2> QED BY <2>1, <2>2 DEF NoFrame
<1> QED BY <1>6, <1>11, <1>12

\* Where no other machine has the card's wire address, a peer's frame to it reaches the
\* Amiga whenever the receiver is on in normal mode, whatever address the Amiga believes
\* to have (gotfunc compares after mungepacket).
THEOREM RepliesArrive == Unshared => (Spec => RepliesReach)
<1> SUFFICES ASSUME Unshared PROVE Spec => RepliesReach OBVIOUS
<1>1. StationInv /\ WireInv /\ [Next]_vars
        => [rx = "got" /\ rx' = "push" /\ buf.who = "peer" /\ buf.dst = realmac /\ on /\ mode = {} /\ ~patched
              => got' # NoFrame /\ got'.raw = buf /\ got'.seen.dst = station]_vars
  BY ReplyStep
<1>2. Spec => []WireInv BY WireInit, WireStep, PTL DEF Spec
<1> QED BY <1>1, <1>2, StationHolds, PTL DEF Spec, RepliesReach
=============================================================================
