------------------------------ MODULE Station -------------------------------
(***************************************************************************)
(* One doorbell daemon from start to stop, as the Amiga and the LAN see    *)
(* it: main() of main_doorbell.cpp (start-up, MAC selection, shutdown),    *)
(* its receive thread, the raw socket of ethernet.cpp, the address         *)
(* translation of mac.cpp, the address filter of gotfunc and the address   *)
(* registers of registers.cpp, and the autoconfig ROM the Amiga reads its  *)
(* own address from.                                                       *)
(*                                                                         *)
(* The card has three addresses: `realmac', used on the wire; `fakemac',   *)
(* which mac.cpp exchanges with it in every frame; and `station', the copy *)
(* in registers.cpp that gotfunc and do_transmit compare with.             *)
(*                                                                         *)
(* An address is <<oui, b3, b4, b5>>: bytes 0..2 as one number, the three  *)
(* low bytes as bits.  CSR0, the rings and the slots are in LanceCsr,      *)
(* RxRing, TxRing and Doorbell; here `on' stands for RXON and TXON, and a  *)
(* command is carried out in one step.                                     *)
(***************************************************************************)
EXTENDS Integers, Sequences

CONSTANTS Nics,        \* addresses eth1 may have
          Eth0,        \* address of the on-board NIC
          Hashes,      \* low halves gethostname, getpid and time may hash to
          Peers,       \* addresses of the other machines on the LAN
          Customs,     \* addresses a driver may use instead of the serial number
          Patches,     \* byte pairs a driver may write to CSR12-14
          Setups,      \* <<mode bits, listens to the group>> of an init block
          MaxFrames,   \* bound: frames sent by either side, chatter apart
          MaxInits,    \* bound: initializations of the chip
          MaxQueue     \* bound: frames waiting in the socket

Commodore == 0
Other     == 1
Group     == 2
Bits      == 0..1
Address   == (0..3) \X Bits \X Bits \X Bits
Broadcast == <<3, 1, 1, 1>>
Multicast == <<Group, 0, 0, 1>>
Zero      == <<0, 0, 0, 0>>

ASSUME AddressAssumption ==
  /\ Nics \subseteq Address /\ Eth0 \in Address /\ Peers \subseteq Address /\ Customs \subseteq Address
  /\ Patches \subseteq Bits \X Bits /\ Setups \subseteq (SUBSET {"LOOP", "PROM"}) \X BOOLEAN
  /\ Hashes \subseteq Bits \X Bits \X Bits
  /\ {MaxFrames, MaxInits, MaxQueue} \subseteq Nat

\* There are other machines, and no station has a group address: an address that belongs
\* to a machine has an even first byte, which is what gotfunc tells the two kinds by.
ASSUME IndividualAssumption ==
  /\ Peers # {}
  /\ \A a \in Peers \cup Customs : a[1] \in {Commodore, Other}

VARIABLES pc, running, mapped, sock, rx, buf,                   \* the daemon's threads
          hostmac, realmac, fakemac, station,                   \* its addresses
          rom, hpc, serial,                                     \* autoconfig and the driver's address
          mode, on, ladrf,                                      \* the chip
          sockq, frames, inits,                                 \* the socket, the two bounds
          wire, got, patched                                    \* history

addresses == <<hostmac, realmac, fakemac, station>>
amiga     == <<rom, hpc, serial>>
chip      == <<mode, on, ladrf>>
history   == <<wire, got, patched>>
lan       == <<sockq, frames, inits>>
threads   == <<pc, running, mapped, sock, rx, buf>>
vars      == <<threads, addresses, amiga, chip, lan, history>>

-----------------------------------------------------------------------------
(* Frames.  `hw' holds the hardware addresses in the body: sender and      *)
(* target of an ARP frame, CHADDR of a DHCP one.  Of a UDP body the model  *)
(* keeps the sum of the words outside CHADDR and the checksum, in words of *)
(* 2 bits; checksum 0 means that the datagram has none.                    *)
Words == 4
Kinds == {"arp", "dhcp", "ip"}
Frame == [who : {"amiga", "peer"}, dst : Address, src : Address, kind : Kinds,
          hw : {<<>>} \cup [1..1 -> Address] \cup [1..2 -> Address], rest : 0..Words - 1, sum : 0..Words - 1]
NoFrame == <<>>

Fold[s \in 0..4 * Words] == IF s < Words THEN s ELSE Fold[(s % Words) + (s \div Words)]

WordOf(a) == a[1] + 2 * a[2] + a[3] + a[4]

\* Complementing the 32-bit sum leaves its upper half set, so the test for 0 that
\* follows in the code never holds and a checksum may come out as 0.
UdpChecksum(ch, rest) == (Words - 1) - Fold[WordOf(ch) + rest]

LowIsZero(a) == a[2] = 0 /\ a[3] = 0 /\ a[4] = 0

\* Mutant: only the Amiga's address is exchanged.
DofakemacOneWay(a) == IF a = fakemac THEN realmac ELSE a

Dofakemac(a) == IF a = fakemac THEN realmac ELSE IF a = realmac THEN fakemac ELSE a

\* Mutant: the checksum is left as it was.
MungepacketKeepsSum(f) ==
  [f EXCEPT !.dst = Dofakemac(@), !.src = Dofakemac(@), !.hw = [i \in DOMAIN @ |-> Dofakemac(@[i])]]

Mungepacket(f) ==
  LET hw == [i \in DOMAIN f.hw |-> Dofakemac(f.hw[i])]
      resum == f.kind = "dhcp" /\ f.hw[1] \in {fakemac, realmac} /\ f.sum # 0
  IN  IF fakemac = realmac THEN f
      ELSE [f EXCEPT !.dst = Dofakemac(@), !.src = Dofakemac(@), !.hw = hw,
                     !.sum = IF resum THEN UdpChecksum(hw[1], f.rest) ELSE @]

Addressed(d) ==
  \/ "PROM" \in mode
  \/ d.dst = Broadcast
  \/ d.dst[1] = Group /\ ladrf
  \/ d.dst[1] \in {Commodore, Other} /\ d.dst = station

Accepts(d) == Addressed(d) /\ ~ (d.dst \in {station, Broadcast} /\ d.src = station)

\* Mutant: the address is also compared before the translation.
FilterEither(f) ==
  IF ~on THEN NoFrame
  ELSE IF "LOOP" \in mode THEN f
  ELSE IF Accepts(Mungepacket(f)) \/ f.dst = station THEN Mungepacket(f) ELSE NoFrame

\* What gotfunc makes of a frame: NoFrame when it drops it.
Filter(f) ==
  IF ~on THEN NoFrame
  ELSE IF "LOOP" \in mode THEN f
  ELSE IF Accepts(Mungepacket(f)) THEN Mungepacket(f) ELSE NoFrame

-----------------------------------------------------------------------------
Init ==
  /\ pc = "map" /\ running = TRUE /\ mapped = FALSE /\ sock = FALSE /\ rx = "none"
  /\ buf = NoFrame
  /\ hostmac = Zero /\ realmac = Zero /\ fakemac = Zero /\ station = Zero
  /\ rom = <<0, 0, 0>> /\ hpc = "serial" /\ serial = <<0, 0, 0>>
  /\ mode = {} /\ on = FALSE /\ ladrf = FALSE
  /\ sockq = <<>> /\ frames = 0 /\ inits = 0
  /\ wire = NoFrame /\ got = NoFrame /\ patched = FALSE

HandleSignal ==
  /\ running /\ running' = FALSE
  /\ UNCHANGED <<pc, mapped, sock, rx, buf, addresses, amiga, chip, lan, history>>

(* main() before its loop. *)
MainMap ==
  /\ pc = "map"
  /\ \/ pc' = "open" /\ mapped' = TRUE
     \/ pc' = "failed" /\ UNCHANGED mapped
  /\ UNCHANGED <<running, sock, rx, buf, addresses, amiga, chip, lan, history>>

\* Any of its system calls may fail; the interface may have no address yet, and the
\* address is kept when only bind fails.
EthernetOpen ==
  /\ pc = "open" /\ pc' = "mac"
  /\ hostmac' \in Nics \cup {Zero}
  /\ sock' \in BOOLEAN
  /\ UNCHANGED <<running, mapped, rx, buf, realmac, fakemac, station, amiga, chip, lan, history>>

DeriveUniqueLow ==
  {LET m == <<0, h[1], h[2], h[3]>>
   IN  IF LowIsZero(m) THEN [m EXCEPT ![4] = 1] ELSE m : h \in Hashes}

WireAddresses ==
  IF ~LowIsZero(hostmac) THEN {hostmac}
  ELSE (IF LowIsZero(Eth0) THEN {} ELSE {Eth0}) \cup DeriveUniqueLow

\* Mutant: an interface without an address is not noticed.
SetDefaultMacUnchecked ==
  /\ pc = "mac" /\ pc' = "publish"
  /\ realmac' = [hostmac EXCEPT ![1] = Commodore]
  /\ fakemac' = realmac' /\ station' = realmac'
  /\ UNCHANGED <<running, mapped, sock, rx, buf, hostmac, amiga, chip, lan, history>>

SetDefaultMac ==
  /\ pc = "mac" /\ pc' = "publish"
  /\ \E a \in WireAddresses : realmac' = [a EXCEPT ![1] = Commodore]
  /\ fakemac' = realmac' /\ station' = realmac'
  /\ UNCHANGED <<running, mapped, sock, rx, buf, hostmac, amiga, chip, lan, history>>

WriteMbxMac ==
  /\ pc = "publish" /\ pc' = "spawn"
  /\ rom' = SubSeq(station, 2, 4)
  /\ UNCHANGED <<running, mapped, sock, rx, buf, addresses, hpc, serial, chip, lan, history>>

SpawnRx ==
  /\ pc = "spawn"
  /\ \/ pc' = "loop" /\ rx' = "loop" /\ UNCHANGED mapped
     \/ pc' = "failed" /\ mapped' = FALSE /\ UNCHANGED rx
  /\ UNCHANGED <<running, sock, buf, addresses, amiga, chip, lan, history>>

-----------------------------------------------------------------------------
(* gotfunc on a frame; the history keeps it as it came and as it was put  *)
(* into the ring, with the chip's state.                                   *)
Deliver(f) ==
  got' = IF Filter(f) = NoFrame THEN NoFrame
         ELSE [raw |-> f, seen |-> Filter(f), station |-> station, mode |-> mode]

(* The receive thread. *)
\* Mutant: the thread does not look at running.
RxLoopForever ==
  /\ rx = "loop"
  /\ rx' = IF sock THEN "recv" ELSE "loop"
  /\ UNCHANGED <<pc, running, mapped, sock, buf, addresses, amiga, chip, lan, history>>

RxLoop ==
  /\ rx = "loop"
  /\ rx' = IF ~running THEN "done" ELSE IF sock THEN "recv" ELSE "loop"
  /\ UNCHANGED <<pc, running, mapped, sock, buf, addresses, amiga, chip, lan, history>>

\* close() in main does not wake a thread that is inside recv.
RxRecv ==
  /\ rx = "recv" /\ sockq # <<>>
  /\ rx' = "got" /\ buf' = Head(sockq) /\ sockq' = Tail(sockq)
  /\ UNCHANGED <<pc, running, mapped, sock, addresses, amiga, chip, frames, inits, wire, got, patched>>

RxGot ==
  /\ rx = "got" /\ rx' = "push"
  /\ buf' = NoFrame
  /\ Deliver(buf)
  /\ UNCHANGED <<pc, running, mapped, sock, addresses, amiga, chip, lan, wire, patched>>

\* push_csr_shadow and update_int_state write two slots (see Doorbell).
RxPush ==
  /\ rx = "push" /\ rx' = "loop"
  /\ got' = NoFrame
  /\ UNCHANGED <<pc, running, mapped, sock, buf, addresses, amiga, chip, lan, wire, patched>>

Rx == RxLoop \/ RxRecv \/ RxGot \/ RxPush

-----------------------------------------------------------------------------
(* The Amiga.  expansion.library reads the serial number nibble by nibble, *)
(* inverted on the bus, and may do so before, while or after the daemon    *)
(* publishes it; then it writes the base address.                          *)
Nibble(x) == 1 - x

ReadSerialHigh ==
  /\ hpc = "serial" /\ hpc' = "serial2"
  /\ serial' = [serial EXCEPT ![1] = 1 - Nibble(rom[1])]
  /\ UNCHANGED <<threads, addresses, rom, chip, lan, history>>

ReadSerialLow ==
  /\ hpc = "serial2" /\ hpc' = "base"
  /\ serial' = [i \in 1..3 |-> IF i = 1 THEN serial[1] ELSE 1 - Nibble(rom[i])]
  /\ UNCHANGED <<threads, addresses, rom, chip, lan, history>>

WriteBase ==
  /\ hpc = "base" /\ hpc' = "up"
  /\ UNCHANGED <<threads, addresses, rom, serial, chip, lan, history>>

Autoconfig == ReadSerialHigh \/ ReadSerialLow \/ WriteBase

\* Init block and CSR12-14 hold an address with the bytes of each pair exchanged.
Swapped(a) == <<a[2], a[1], a[4], a[3]>>

Valid(f) == f.kind # "dhcp" \/ f.sum = 0 \/ Fold[WordOf(f.hw[1]) + f.rest + f.sum] = Words - 1

Bodies(hw1, hw2) ==
  [kind : {"arp"}, hw : {<<hw1, hw2>>}, rest : {0}, sum : {0}]
    \cup {b \in [kind : {"dhcp"}, hw : {<<hw1>>}, rest : {Words - 1}, sum : 0..Words - 1] : Valid(b)}

FrameOf(who, dst, src, b) ==
  [who |-> who, dst |-> dst, src |-> src, kind |-> b.kind, hw |-> b.hw, rest |-> b.rest, sum |-> b.sum]

Queued(f) == IF sock /\ Len(sockq) < MaxQueue THEN Append(sockq, f) ELSE sockq

(* Commands of the driver, as chip_wput carries them out.                  *)
ChipInit ==
  /\ ~on /\ inits < MaxInits /\ inits' = inits + 1
  /\ \E a \in {<<Commodore>> \o serial} \cup Customs : station' = Swapped(Swapped(a))
  /\ fakemac' = station'
  /\ \E s \in Setups : mode' = s[1] /\ ladrf' = s[2]
  /\ UNCHANGED <<hostmac, realmac, on, sockq, frames, wire, got, patched>>

StartOrStop ==
  /\ inits > 0
  /\ on' = ~on
  /\ UNCHANGED <<addresses, mode, ladrf, lan, wire, got, patched>>

WputCsr12To14 ==
  /\ ~patched
  /\ \E p \in {1, 3}, v \in Patches :
       station' = [station EXCEPT ![p] = v[2], ![p + 1] = v[1]]
  /\ patched' = TRUE
  /\ UNCHANGED <<hostmac, realmac, fakemac, chip, lan, wire, got>>

\* do_transmit: looped back, refused as a collision with itself, or sent; the raw
\* socket (ETH_P_ALL) also receives what the host sends.
TransmitFrame(f) ==
  /\ on /\ frames < MaxFrames /\ frames' = frames + 1
  /\ \/ /\ "LOOP" \in mode
        /\ Deliver(f) /\ UNCHANGED <<sockq, wire>>
     \/ "LOOP" \notin mode /\ f.dst = station /\ UNCHANGED <<sockq, wire, got>>
     \/ /\ "LOOP" \notin mode /\ f.dst # station
        /\ wire' = IF sock THEN [sent |-> f, out |-> Mungepacket(f)] ELSE wire
        /\ sockq' = Queued(Mungepacket(f))
        /\ UNCHANGED got
  /\ UNCHANGED <<addresses, mode, on, ladrf, inits, patched>>

Transmit ==
  \E src \in {station, fakemac}, dst \in Peers \cup {Broadcast, Multicast, station} :
    \E b \in Bodies(src, dst) : TransmitFrame(FrameOf("amiga", dst, src, b))

Command == ChipInit \/ StartOrStop \/ WputCsr12To14 \/ Transmit

(* main's loop and its end. *)
MainCommand ==
  /\ pc = "loop" /\ running /\ hpc = "up" /\ pc' = "push"
  /\ Command
  /\ UNCHANGED <<running, mapped, sock, rx, buf, amiga>>

MainPush ==
  /\ pc = "push" /\ pc' = "loop"
  /\ wire' = NoFrame /\ got' = NoFrame
  /\ UNCHANGED <<running, mapped, sock, rx, buf, addresses, amiga, chip, lan, patched>>

MainExit ==
  /\ pc = "loop" /\ ~running /\ pc' = "close"
  /\ UNCHANGED <<running, mapped, sock, rx, buf, addresses, amiga, chip, lan, history>>

EthernetClose ==
  /\ pc = "close" /\ pc' = "join"
  /\ sock' = FALSE
  /\ UNCHANGED <<running, mapped, rx, buf, addresses, amiga, chip, lan, history>>

\* Mutant: the thread is not waited for.
JoinForgets ==
  /\ pc = "join" /\ pc' = "stopped"
  /\ mapped' = FALSE
  /\ UNCHANGED <<running, sock, rx, buf, addresses, amiga, chip, lan, history>>

JoinAndUnmap ==
  /\ pc = "join" /\ rx = "done" /\ pc' = "stopped"
  /\ mapped' = FALSE
  /\ UNCHANGED <<running, sock, rx, buf, addresses, amiga, chip, lan, history>>

Main == \/ MainMap \/ EthernetOpen \/ SetDefaultMac \/ WriteMbxMac \/ SpawnRx
        \/ MainCommand \/ MainPush \/ MainExit \/ EthernetClose \/ JoinAndUnmap

(* The LAN.  The socket is promiscuous, and lives on while recv uses it.   *)
Receiving == sock \/ rx = "recv"

PeerSends ==
  /\ Receiving /\ frames < MaxFrames /\ frames' = frames + 1 /\ Len(sockq) < MaxQueue
  /\ \E src \in Peers, dst \in Peers \cup {realmac, Broadcast, Multicast} :
       \E b \in Bodies(IF dst = realmac THEN realmac ELSE src, dst) :
         sockq' = Append(sockq, FrameOf("peer", dst, src, b))
  /\ UNCHANGED <<threads, addresses, amiga, chip, inits, history>>

\* Traffic between other machines that never ends: it is outside the bound.
PeerChatter ==
  /\ Receiving /\ sockq = <<>>
  /\ LET p == CHOOSE p \in Peers : TRUE
     IN  sockq' = <<FrameOf("peer", p, p, [kind |-> "ip", hw |-> <<>>, rest |-> 0, sum |-> 0])>>
  /\ UNCHANGED <<threads, addresses, amiga, chip, frames, inits, history>>

Next == HandleSignal \/ Main \/ Rx \/ Autoconfig \/ PeerSends \/ PeerChatter

Spec == Init /\ [][Next]_vars /\ WF_vars(Main) /\ WF_vars(Rx) /\ WF_vars(PeerChatter)

-----------------------------------------------------------------------------
\* The variables keep their types; published serial numbers are three bytes.
TypeOK ==
  /\ pc \in {"map", "open", "mac", "publish", "spawn", "loop", "push", "close", "join",
              "stopped", "failed"}
  /\ rx \in {"none", "loop", "recv", "got", "push", "done"}
  /\ {running, mapped, sock, on, ladrf, patched} \subseteq BOOLEAN
  /\ {hostmac, realmac, fakemac, station} \subseteq Address
  /\ rom \in Bits \X Bits \X Bits /\ serial \in Bits \X Bits \X Bits
  /\ hpc \in {"serial", "serial2", "base", "up"}
  /\ mode \subseteq {"LOOP", "PROM"}
  /\ buf \in Frame \cup {NoFrame} /\ \A i \in DOMAIN sockq : sockq[i] \in Frame
  /\ Len(sockq) <= MaxQueue /\ frames \in 0..MaxFrames /\ inits \in 0..MaxInits

\* What leaves the card carries the wire address, with a low half that is not zero,
\* wherever the Amiga put its own - whatever address the Amiga got from a ROM it may have
\* read too early or half-written.  (Excepted: CSR12-14, which do not tell mac.cpp.)
WireSource ==
  wire # NoFrame /\ ~patched =>
    /\ wire.out.src = realmac /\ ~LowIsZero(wire.out.src)
    /\ \A i \in DOMAIN wire.sent.hw : wire.sent.hw[i] = wire.sent.src => wire.out.hw[i] = realmac

\* In normal mode the Amiga is shown only frames sent to the card's wire address, to all
\* or to its groups, the first as frames to its own address, in the body too: two Amigas
\* that both believe to be 00:80:10:00:00:00 do not see each other's frames.
RightStation ==
  got # NoFrame /\ ~patched /\ got.mode = {} =>
    /\ got.raw.dst \in {realmac, Broadcast, Multicast}
    /\ got.raw.dst = realmac =>
         /\ got.seen.dst = got.station
         /\ \A i \in DOMAIN got.raw.hw : got.raw.hw[i] = realmac => got.seen.hw[i] = got.station

\* In normal mode the Amiga does not receive what it sent, although the raw socket does,
\* and although the chip may have been given another address in between.  (Excepted: its
\* own multicasts to a group it listens to, and CSR12-14.)
NoEcho ==
  got # NoFrame /\ ~patched /\ got.mode = {} /\ got.raw.dst # Multicast => got.raw.who = "peer"

\* A peer's frame to the wire address reaches the Amiga whenever the receiver is on,
\* although the filter compares with the Amiga's address and not with the wire's.
RepliesReach ==
  [][rx = "got" /\ rx' = "push" /\ buf.who = "peer" /\ buf.dst = realmac /\ on /\ mode = {} /\ ~patched
       => got' # NoFrame /\ got'.raw = buf /\ got'.seen.dst = station]_vars

\* Translating CHADDR leaves a UDP checksum that verifies, or none.
ChecksumHolds ==
  /\ wire # NoFrame => Valid(wire.out)
  /\ got # NoFrame => Valid(got.seen)

\* No thread reads or writes a slot or board RAM without the mapping, at start-up, in the
\* loop or at shutdown, whenever the signal comes.
MappingHeld ==
  rx \in {"got", "push"} \/ pc \in {"publish", "loop", "push"} => mapped

\* A daemon told to stop stops, on a LAN that is never silent for ever: close() does not
\* end a recv, the next frame does.
Stops == ~running ~> pc \in {"stopped", "failed"}
=============================================================================
