------------------------------- MODULE Checksum -------------------------------
(***************************************************************************)
(* The checksums fbvirtun/ puts into the packets it writes to the device:  *)
(* the RFC 1071 sum of a header or a segment, with the pseudo header for   *)
(* TCP, UDP and ICMPv6.  Sums are uint32 and cannot overflow: a packet has *)
(* at most 2^16 bytes.                                                     *)
(***************************************************************************)
EXTENDS Naturals, Sequences, FiniteSetsExt

CONSTANTS
  Bytes,       \* bytes that occur in packets
  MaxSegment   \* bound on the length of a segment, in bytes

VARIABLE packet \* the segment being sent, its addresses and its protocol

Word(d, i) == d[2 * i - 1] * 256 + (IF 2 * i <= Len(d) THEN d[2 * i] ELSE 0)
SumWords(d) == MapThenSumSet(LAMBDA i : Word(d, i), 1..((Len(d) + 1) \div 2))

\* Mutant: the carries are added once.
FoldOnce(sum) == IF sum > 65535 THEN ((sum \div 65536) + (sum % 65536)) % 65536 ELSE sum
FoldCarry[sum \in Nat] == IF sum > 65535 THEN FoldCarry[(sum \div 65536) + (sum % 65536)] ELSE sum
Folded(sum) == FoldCarry[sum]

\* onesComplementSumFold; onesComplementSum starts at 0.
OnesComplementSum(d, initial) == 65535 - Folded(initial + SumWords(d))

(* The length goes into pseudoChecksum6 as the upper half of a uint32 that *)
(* was made from a uint16: nothing of it is added.                         *)
Pseudo(ver, src, dst, proto, len) ==
  SumWords(src) + SumWords(dst) + proto + (IF ver = 4 THEN len ELSE len \div 65536)

PutUint16(d, off, v) == [d EXCEPT ![off] = v \div 256, ![off + 1] = v % 256]

(* buildUDP4 and the others: the field, at off, is zero while the sum is   *)
(* computed.                                                               *)
Fill(d, off, initial) ==
  LET zeroed == PutUint16(d, off, 0) IN PutUint16(zeroed, off, OnesComplementSum(zeroed, initial))

(* The addresses of an IP version are 4 or 16 bytes, here two bytes that   *)
(* alternate.                                                              *)
Addresses(ver) ==
  {[i \in 1..(IF ver = 4 THEN 4 ELSE 16) |-> IF i % 2 = 1 THEN x ELSE y] : x, y \in Bytes}

Protocols(ver) == IF ver = 4 THEN {6, 17} ELSE {6, 17, 58}

NoPacket == [ver |-> 4, seg |-> <<>>, src |-> <<>>, dst |-> <<>>, proto |-> 6]
ChecksumInit == packet = NoPacket

(* A packet to be sent: its checksum field comes first.                    *)
BuildPacket(ver) ==
  /\ packet = NoPacket
  /\ \E n \in 2..MaxSegment, src, dst \in Addresses(ver), proto \in Protocols(ver) :
       \E rest \in [1..(n - 2) -> Bytes] :
         packet' = [seg |-> Fill(<<255, 255>> \o rest, 1, Pseudo(ver, src, dst, proto, n)),
                    ver |-> ver, src |-> src, dst |-> dst, proto |-> proto]

ChecksumNext == \E ver \in {4, 6} : BuildPacket(ver)

ChecksumSpec == ChecksumInit /\ [][ChecksumNext]_packet

-----------------------------------------------------------------------------
(* What a receiver computes: the pseudo header of RFC 793, 768 and 8200    *)
(* and the segment, checksum included, add up to zero in one's complement, *)
(* that is to a positive multiple of 0xffff.                               *)
Accepted ==
  LET sum == SumWords(packet.src) + SumWords(packet.dst) + packet.proto
               + Len(packet.seg) + SumWords(packet.seg)
  IN sum > 0 /\ sum % 65535 = 0

(* The receiver accepts every packet built over IPv4 (buildUDP4,           *)
(* buildPacket4), for segments of even and odd length and however often    *)
(* carries have to be added.                                               *)
Checksum4Verifies == packet # NoPacket /\ packet.ver = 4 => Accepted

(* What the comment above pseudoChecksum6 says, that it returns the        *)
(* pseudo-header sum of RFC 1071 (virtun.go:460): the receiver accepts     *)
(* every packet built, over IPv6 as well.  The code does not keep it.      *)
ChecksumVerifies == packet # NoPacket => Accepted

=============================================================================
