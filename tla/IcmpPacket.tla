----------------------------- MODULE IcmpPacket -----------------------------
(***************************************************************************)
(* What shared.h, icmp_header.hpp and ipv4_header.hpp make of a message.   *)
(*                                                                         *)
(* A datagram is a sequence of 16-bit words, as a raw socket receives it:  *)
(* the IP header, then the ICMP message. A uint32_t of the body, in network *)
(* order, is the pair of its halves. A datagram ends between two words, and *)
(* its data between two pairs.                                             *)
(***************************************************************************)
EXTENDS Integers, Sequences

CONSTANT Junk    \* the uint32_t that an uninitialized variable may hold

Word == {n \in Nat : n < 65536}

ASSUME JunkAssumption == Junk \subseteq Word \X Word

timestamp_request == 13
timestamp_reply == 14

-----------------------------------------------------------------------------
(* Encoding. *)

SumOf(words) ==
  LET sum[i \in 0 .. Len(words)] == IF i = 0 THEN 0 ELSE sum[i - 1] + words[i]
  IN  sum[Len(words)]

(* compute_checksum's last lines: a sum below 2^32 is folded twice. *)
FoldOnce(sum) ==    \* mutant: one carry is forgotten
  LET once == (sum \div 65536) + (sum % 65536)
  IN  65535 - (once % 65536)
Complement(sum) ==
  LET once == (sum \div 65536) + (sum % 65536)
      twice == once + (once \div 65536)
  IN  65535 - (twice % 65536)

Halves(data) ==
  [i \in 1 .. 2 * Len(data) |-> data[(i + 1) \div 2][IF i % 2 = 1 THEN 1 ELSE 2]]

(* icmp_encode: the header, whose code is 0, with its checksum, then the data. *)
icmp_encode(header, data) ==
  LET first == header.type * 256
      body == Halves(data)
      sum == first + header.identifier + header.sequence_number + SumOf(body)
  IN  <<first, Complement(sum), header.identifier, header.sequence_number>> \o body

(* What the checksum is for (RFC 1071): the words of a message, its checksum
   among them, add up to 16 ones in ones' complement arithmetic.            *)
Verifies(message) == SumOf(message) > 0 /\ SumOf(message) % 65535 = 0

-----------------------------------------------------------------------------
(* Decoding. *)

(* The IP header the kernel puts in front, with so many words of options. *)
IpHeader(options) ==
  <<4 * 4096 + (5 + options) * 256>> \o [i \in 1 .. 9 + 2 * options |-> 0]

version(words) == words[1] \div 4096
header_length(words) == 4 * ((words[1] \div 256) % 16)

(* operator>> of ipv4_header: what is left in the stream. A stream that has
   failed yields nothing any more.                                          *)
AfterIpHeader(words) ==
  IF /\ Len(words) >= 10
     /\ version(words) = 4
     /\ header_length(words) \in 20 .. 60
     /\ 2 * Len(words) >= header_length(words)
  THEN SubSeq(words, header_length(words) \div 2 + 1, Len(words))
  ELSE <<>>

Header(rep_) ==
  [type |-> rep_[1] \div 256, identifier |-> rep_[3], sequence_number |-> rep_[4]]

(* icmp_decode. Nobody looks at the stream's state: what did not arrive is zero
   in the header, and in the data it is whatever was in the variable before.   *)
icmp_decode(words) ==
  LET rest == AfterIpHeader(words)
      rep_ == [i \in 1 .. 4 |-> IF i <= Len(rest) THEN rest[i] ELSE 0]
  IN  [header |-> Header(rep_), body |-> SubSeq(rest, 5, Len(rest))]

(* The values that the k-th uint32_t of the data may then have. *)
DataUnaligned(d, k) ==    \* mutant: read one word too early
  IF 2 * k <= Len(d.body) THEN {<<d.body[k], d.body[k + 1]>>} ELSE Junk
Data(d, k) ==
  IF 2 * k <= Len(d.body) THEN {<<d.body[2 * k - 1], d.body[2 * k]>>} ELSE Junk

=============================================================================
