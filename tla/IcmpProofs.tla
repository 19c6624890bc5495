----------------------------- MODULE IcmpProofs -----------------------------
(***************************************************************************)
(* First the encoding of IcmpPacket: its checksum, for every sum that fits *)
(* an unsigned int, and what the receiver decodes from what was encoded.   *)
(* Then the properties of IcmpTimestamp for every number of clients, hosts *)
(* and datagrams, from one inductive invariant: what is on its way, or     *)
(* waits in a socket, is sound.                                            *)
(***************************************************************************)
EXTENDS IcmpTimestamp, Inductions, SequenceTheorems, FiniteSetTheorems

(* A number in terms of its halves, for sums and for sums of halves. *)
LEMMA Halving ==
  ASSUME NEW n \in Nat
  PROVE  /\ n = 65536 * (n \div 65536) + (n % 65536)
         /\ n \div 65536 \in Nat
         /\ n % 65536 \in Nat /\ n % 65536 <= 65535
         /\ n <= 4294967295 => n \div 65536 <= 65535
         /\ n <= 131070 => n \div 65536 <= 1
         /\ n <= 65535 => n % 65536 = n
  BY SMT

LEMMA MultipleOf65535 ==
  ASSUME NEW n \in Nat
  PROVE  (65535 * n) % 65535 = 0
  BY SMT

(* The sums that an unsigned int holds without overflow. *)
FitsUnsigned(sum) == sum \in Nat /\ sum <= 4294967295

(* compute_checksum (icmp_header.hpp:89-91) folds the sum twice, whatever the
   length of the body: as long as the sum has not overflowed, the second carry
   never makes a third one, and the checksum is what RFC 1071 asks for.      *)
THEOREM TwoFoldsAreEnough ==
  ASSUME NEW sum, FitsUnsigned(sum)
  PROVE  /\ Complement(sum) \in Word
         /\ sum + Complement(sum) > 0
         /\ (sum + Complement(sum)) % 65535 = 0
<1> DEFINE hi == sum \div 65536
           lo == sum % 65536
           once == hi + lo
           carry == once \div 65536
           twice == once + carry
<1>1. /\ sum = 65536 * hi + lo
      /\ hi \in Nat /\ hi <= 65535
      /\ lo \in Nat /\ lo <= 65535
  BY Halving, SMT DEF FitsUnsigned
<1>2. Complement(sum) = 65535 - (twice % 65536)
  BY DEF Complement
<1> HIDE DEF hi, lo
<1>3. once \in Nat /\ once <= 131070
  BY <1>1, SMT
<1> HIDE DEF once
<1>4. /\ once = 65536 * carry + (once % 65536)
      /\ carry \in Nat /\ carry <= 1
      /\ once % 65536 \in Nat /\ once % 65536 <= 65535
  BY <1>3, Halving
<1> HIDE DEF carry
<1>5. twice \in Nat /\ twice \div 65536 = carry
  <2>1. CASE carry = 0
    BY <2>1, <1>3, <1>4, SMT
  <2>2. CASE carry = 1
    BY <2>2, <1>3, <1>4, SMT
  <2> QED  BY <2>1, <2>2, <1>4, SMT
<1>6. /\ twice = 65536 * carry + (twice % 65536)
      /\ twice % 65536 \in Nat /\ twice % 65536 <= 65535
  <2> HIDE DEF twice
  <2> QED  BY <1>5, Halving
<1>7. sum + Complement(sum) = 65535 * (hi + 1 + carry)
  BY <1>1, <1>2, <1>4, <1>6, SMT DEF once
<1>8. hi + 1 + carry \in Nat /\ hi + 1 + carry > 0
  BY <1>1, <1>4, SMT
<1>9. (65535 * (hi + 1 + carry)) % 65535 = 0
  BY <1>8, MultipleOf65535
<1>10. Complement(sum) \in Word
  BY <1>2, <1>6, SMT DEF Word
<1>11. sum + Complement(sum) > 0
  BY <1>7, <1>8, SMT
<1> QED  BY <1>7, <1>9, <1>10, <1>11

-----------------------------------------------------------------------------
(* From the encoder to the decoder. *)

(* The body of a message is its data, half by half. *)
LEMMA HalvesOfData ==
  ASSUME NEW data \in Seq(Word \X Word)
  PROVE  /\ Halves(data) \in Seq(Word) /\ Len(Halves(data)) = 2 * Len(data)
         /\ \A k \in 1 .. Len(data) :
              <<Halves(data)[2 * k - 1], Halves(data)[2 * k]>> = data[k]
<1> DEFINE n == Len(data)
           half(i) == data[(i + 1) \div 2][IF i % 2 = 1 THEN 1 ELSE 2]
<1>1. n \in Nat /\ \A k \in 1 .. n : data[k] \in Word \X Word
  OBVIOUS
<1>2. \A i \in 1 .. 2 * n : half(i) \in Word
  <2> SUFFICES ASSUME NEW i \in 1 .. 2 * n PROVE half(i) \in Word
    OBVIOUS
  <2>1. (i + 1) \div 2 \in 1 .. n
    BY <1>1, SMT
  <2>2. data[(i + 1) \div 2] \in Word \X Word
    BY <1>1, <2>1
  <2> QED  BY <2>2
<1>3. 2 * n \in Nat /\ Halves(data) = [i \in 1 .. 2 * n |-> half(i)]
  BY <1>1 DEF Halves
<1> HIDE DEF half
<1>4. Halves(data) \in Seq(Word) /\ Len(Halves(data)) = 2 * n
  BY <1>2, <1>3
<1>5. ASSUME NEW k \in 1 .. n
      PROVE  <<Halves(data)[2 * k - 1], Halves(data)[2 * k]>> = data[k]
  <2>1. 2 * k - 1 \in 1 .. 2 * n /\ 2 * k \in 1 .. 2 * n
    BY <1>1, <1>5, SMT
  <2>2. /\ ((2 * k - 1) + 1) \div 2 = k /\ (2 * k - 1) % 2 = 1
        /\ (2 * k + 1) \div 2 = k /\ (2 * k) % 2 = 0
    BY <1>5, SMT
  <2>3. half(2 * k - 1) = data[k][1] /\ half(2 * k) = data[k][2]
    BY <2>2 DEF half
  <2>4. data[k] = <<data[k][1], data[k][2]>>
    BY <1>1, <1>5
  <2> QED  BY <1>3, <2>1, <2>3, <2>4
<1> QED  BY <1>4, <1>5

(* operator>> of ipv4_header takes exactly the header, options included, whatever
   the kernel has put in front of a message.                                *)
LEMMA IpHeaderIsStripped ==
  ASSUME NEW options \in 0 .. 10, NEW message \in Seq(Word)
  PROVE  /\ IpHeader(options) \o message \in Seq(Word)
         /\ AfterIpHeader(IpHeader(options) \o message) = message
<1> DEFINE front == IpHeader(options)
           words == front \o message
           n == 10 + 2 * options
<1>1. n \in Nat /\ n >= 10 /\ n <= 30
  OBVIOUS
<1>2. /\ front \in Seq(Word) /\ Len(front) = n
      /\ front[1] = 4 * 4096 + (5 + options) * 256
  <2>1. 4 * 4096 + (5 + options) * 256 \in Word /\ 0 \in Word
    BY SMT DEF Word
  <2>2. 9 + 2 * options \in Nat
    OBVIOUS
  <2> DEFINE zeros == [i \in 1 .. 9 + 2 * options |-> 0]
  <2>3. zeros \in Seq(Word) /\ Len(zeros) = 9 + 2 * options
    BY <2>1, <2>2
  <2> HIDE DEF zeros
  <2>4. front = <<4 * 4096 + (5 + options) * 256>> \o zeros
    BY DEF IpHeader, zeros
  <2> HIDE DEF front
  <2> QED  BY <2>1, <2>3, <2>4, ConcatProperties
<1> HIDE DEF front
<1>3. /\ words \in Seq(Word) /\ Len(words) = n + Len(message)
      /\ words[1] = 4 * 4096 + (5 + options) * 256
      /\ \A i \in 1 .. Len(message) : words[n + i] = message[i]
  BY <1>1, <1>2, ConcatProperties
<1> HIDE DEF words
<1>4. version(words) = 4
  BY <1>3, SMT DEF version
<1>5. header_length(words) = 2 * n
  BY <1>3, SMT DEF header_length
<1>6. AfterIpHeader(words) = SubSeq(words, n + 1, n + Len(message))
  <2>1. Len(message) \in Nat
    OBVIOUS
  <2>2. (2 * n) \div 2 = n
    BY <1>1, SMT
  <2>3. /\ Len(words) >= 10 /\ 2 * n \in 20 .. 60
        /\ 2 * Len(words) >= 2 * n
    BY <1>1, <1>3, <2>1, SMT
  <2> QED  BY <1>3, <1>4, <1>5, <2>2, <2>3 DEF AfterIpHeader
<1>7. SubSeq(words, n + 1, n + Len(message)) = message
  <2> DEFINE rest == SubSeq(words, n + 1, n + Len(message))
  <2>1. /\ Len(rest) = Len(message) /\ rest \in Seq(Word)
        /\ \A i \in 1 .. Len(message) : rest[i] = message[i]
    BY <1>1, <1>3
  <2> HIDE DEF rest
  <2>2. rest = message
    BY <2>1, SeqEqual
  <2> QED  BY <2>2 DEF rest
<1> QED  BY <1>3, <1>6, <1>7 DEF words, front

(* The headers that icmp_encode is given. *)
Headers == [type : {n \in Nat : n < 256}, identifier : Word, sequence_number : Word]

WordSum(header, data) ==
  header.type * 256 + header.identifier + header.sequence_number + SumOf(Halves(data))

(* icmp_encode makes words, as long as their sum fits the unsigned int. *)
LEMMA EncodedWords ==
  ASSUME NEW header \in Headers, NEW data \in Seq(Word \X Word),
         FitsUnsigned(WordSum(header, data))
  PROVE  LET m == icmp_encode(header, data) IN
         /\ m \in Seq(Word) /\ Len(m) = 4 + 2 * Len(data)
         /\ m[1] = header.type * 256 /\ m[2] = Complement(WordSum(header, data))
         /\ m[3] = header.identifier /\ m[4] = header.sequence_number
         /\ \A i \in 1 .. 2 * Len(data) : m[4 + i] = Halves(data)[i]
<1> DEFINE front == <<header.type * 256, Complement(WordSum(header, data)),
                      header.identifier, header.sequence_number>>
           body == Halves(data)
<1>1. icmp_encode(header, data) = front \o body
  BY DEF icmp_encode, WordSum
<1>2. Complement(WordSum(header, data)) \in Word
  BY TwoFoldsAreEnough
<1>3. header.type * 256 \in Word
  BY SMT DEF Headers, Word
<1>4. front \in Seq(Word) /\ Len(front) = 4
  BY <1>2, <1>3 DEF Headers
<1>5. body \in Seq(Word) /\ Len(body) = 2 * Len(data) /\ Len(data) \in Nat
  BY HalvesOfData
<1>6. /\ front[1] = header.type * 256 /\ front[2] = Complement(WordSum(header, data))
      /\ front[3] = header.identifier /\ front[4] = header.sequence_number
  OBVIOUS
<1> HIDE DEF front, body
<1>7. /\ front \o body \in Seq(Word) /\ Len(front \o body) = 4 + 2 * Len(data)
      /\ \A i \in 1 .. 4 : (front \o body)[i] = front[i]
      /\ \A i \in 1 .. 2 * Len(data) : (front \o body)[4 + i] = body[i]
  <2>1. /\ front \o body \in Seq(Word) /\ Len(front \o body) = 4 + Len(body)
        /\ \A i \in 1 .. 4 + Len(body) :
             (front \o body)[i] = IF i <= 4 THEN front[i] ELSE body[i - 4]
    <3>1. body \in Seq(Word) /\ front \in Seq(Word) /\ Len(front) = 4
      BY <1>4, <1>5
    <3>2. /\ front \o body \in Seq(Word) /\ Len(front \o body) = Len(front) + Len(body)
          /\ \A i \in 1 .. Len(front) + Len(body) :
               (front \o body)[i] = IF i <= Len(front) THEN front[i] ELSE body[i - Len(front)]
      BY <3>1, ConcatProperties, Zenon
    <3> QED  BY <3>1, <3>2
  <2>2. ASSUME NEW i \in 1 .. 2 * Len(data) PROVE (front \o body)[4 + i] = body[i]
    <3>1. 4 + i \in 1 .. 4 + Len(body) /\ ~(4 + i <= 4) /\ (4 + i) - 4 = i
      BY <1>5
    <3> QED  BY <2>1, <3>1
  <2>3. \A i \in 1 .. 4 : i \in 1 .. 4 + Len(body) /\ i <= 4
    BY <1>5
  <2> QED  BY <1>5, <2>1, <2>2, <2>3
<1>8. /\ (front \o body)[1] = header.type * 256
      /\ (front \o body)[2] = Complement(WordSum(header, data))
      /\ (front \o body)[3] = header.identifier
      /\ (front \o body)[4] = header.sequence_number
  BY <1>6, <1>7, SMTT(30)
<1> QED  BY <1>1, <1>7, <1>8, ZenonT(40) DEF body

(* What a host decodes is what the other one has encoded, through any IP header:
   the header and every uint32_t of the data, and garbage only beyond them. *)
THEOREM DecodeInvertsEncode ==
  ASSUME NEW header \in Headers, NEW data \in Seq(Word \X Word), NEW options \in 0 .. 10,
         FitsUnsigned(WordSum(header, data))
  PROVE  LET d == icmp_decode(IpHeader(options) \o icmp_encode(header, data)) IN
         /\ d.header = header
         /\ \A k \in 1 .. Len(data) : Data(d, k) = {data[k]}
         /\ \A k \in Nat : k > Len(data) => Data(d, k) = Junk
<1> DEFINE m == icmp_encode(header, data)
           n == Len(data)
           d == icmp_decode(IpHeader(options) \o m)
           rep == [i \in 1 .. 4 |-> IF i <= Len(m) THEN m[i] ELSE 0]
<1>1. /\ m \in Seq(Word) /\ Len(m) = 4 + 2 * n /\ n \in Nat
      /\ m[1] = header.type * 256 /\ m[3] = header.identifier /\ m[4] = header.sequence_number
      /\ \A i \in 1 .. 2 * n : m[4 + i] = Halves(data)[i]
  BY EncodedWords
<1> HIDE DEF m
<1>2. d = [header |-> Header(rep), body |-> SubSeq(m, 5, Len(m))]
  BY <1>1, IpHeaderIsStripped, ZenonT(40) DEF icmp_decode
<1> HIDE DEF d
<1>3. d.header = header
  <2>1. rep[1] = m[1] /\ rep[3] = m[3] /\ rep[4] = m[4]
    BY <1>1
  <2>2. (header.type * 256) \div 256 = header.type
    BY SMT DEF Headers
  <2> QED  BY <1>1, <1>2, <2>1, <2>2 DEF Header, Headers
<1>4. /\ d.body \in Seq(Word) /\ Len(d.body) = 2 * n
      /\ \A i \in 1 .. 2 * n : d.body[i] = Halves(data)[i]
  <2>1. SubSeq(m, 5, Len(m)) \in Seq(Word) /\ Len(SubSeq(m, 5, Len(m))) = 2 * n
    BY <1>1
  <2>2. \A i \in 1 .. 2 * n : SubSeq(m, 5, Len(m))[i] = m[4 + i]
    BY <1>1
  <2> QED  BY <1>1, <1>2, <2>1, <2>2
<1>5. ASSUME NEW k \in 1 .. n PROVE Data(d, k) = {data[k]}
  <2>1. 2 * k - 1 \in 1 .. 2 * n /\ 2 * k \in 1 .. 2 * n /\ 2 * k <= 2 * n
    BY <1>1, <1>5, SMT
  <2>2. <<d.body[2 * k - 1], d.body[2 * k]>> = data[k]
    BY <1>4, <2>1, HalvesOfData
  <2> QED  BY <1>4, <2>1, <2>2 DEF Data
<1>6. ASSUME NEW k \in Nat, k > n PROVE Data(d, k) = Junk
  BY <1>1, <1>4, <1>6 DEF Data
<1> QED  BY <1>3, <1>5, <1>6 DEF d, m

(* A decoded datagram has the types of its words, whoever has sent it. *)
LEMMA DecodedTypes ==
  ASSUME NEW words \in Seq(Word)
  PROVE  /\ icmp_decode(words).header \in Headers
         /\ \A k \in Nat \ {0} : Data(icmp_decode(words), k) \subseteq Word \X Word
<1> DEFINE rest == AfterIpHeader(words)
           rep == [i \in 1 .. 4 |-> IF i <= Len(rest) THEN rest[i] ELSE 0]
<1>1. rest \in Seq(Word)
  <2>1. CASE rest = <<>>
    BY <2>1
  <2>2. CASE rest # <<>>
    <3>1. rest = SubSeq(words, header_length(words) \div 2 + 1, Len(words))
      BY <2>2 DEF AfterIpHeader
    <3>2. header_length(words) \in 20 .. 60
      BY <2>2 DEF AfterIpHeader
    <3> DEFINE from == header_length(words) \div 2 + 1
    <3>3. from \in Int /\ from >= 1 /\ Len(words) \in Nat
      <4>1. \A h \in 20 .. 60 : h \div 2 + 1 \in Int /\ h \div 2 + 1 >= 1
        BY SMT
      <4> HIDE DEF rest
      <4>2. from \in Int /\ from >= 1
        BY <3>2, <4>1, Zenon
      <4> QED  BY <4>2
    <3> HIDE DEF from
    <3>4. \A i \in from .. Len(words) : words[i] \in Word
      BY <3>3
    <3>5. SubSeq(words, from, Len(words)) \in Seq(Word)
      BY <3>3, <3>4, SubSeqProperties
    <3> QED  BY <3>1, <3>5 DEF from
  <2> QED  BY <2>1, <2>2
<1> HIDE DEF rest
<1>2. rep[1] \in Word /\ rep[3] \in Word /\ rep[4] \in Word
  BY <1>1, SMT DEF Word
<1>3. Header(rep) \in Headers
  <2>1. rep[1] \div 256 \in {n \in Nat : n < 256}
    BY <1>2, SMT DEF Word
  <2> HIDE DEF rep
  <2> QED  BY <1>2, <2>1 DEF Header, Headers
<1> DEFINE body == SubSeq(rest, 5, Len(rest))
<1>4. icmp_decode(words) = [header |-> Header(rep), body |-> body]
  BY DEF icmp_decode, rest
<1>5. body \in Seq(Word)
  BY <1>1
<1> HIDE DEF rep, body
<1>6. ASSUME NEW k \in Nat \ {0}
      PROVE  Data(icmp_decode(words), k) \subseteq Word \X Word
  <2>1. CASE 2 * k <= Len(body)
    <3>1. 2 * k - 1 \in 1 .. Len(body) /\ 2 * k \in 1 .. Len(body)
      BY <1>5, <2>1
    <3> QED  BY <1>4, <1>5, <2>1, <3>1 DEF Data
  <2>2. CASE ~(2 * k <= Len(body))
    BY <1>4, <2>2, JunkAssumption DEF Data
  <2> QED  BY <2>1, <2>2
<1> QED  BY <1>3, <1>4, <1>6

-----------------------------------------------------------------------------
(* Sums of words of any number. SumOf is a recursive function; what there is to
   know of it is that it walks along the words, adding up.                  *)

Walk(f, w, n) == f[0] = 0 /\ \A i \in 1 .. n : f[i] = f[i - 1] + w[i]

LEMMA WalkExists ==
  ASSUME NEW w \in Seq(Nat)
  PROVE  \A n \in 0 .. Len(w) : \E g \in [0 .. n -> Nat] : Walk(g, w, n)
<1> DEFINE S == {n \in Nat : n <= Len(w) => \E g \in [0 .. n -> Nat] : Walk(g, w, n)}
<1>1. Len(w) \in Nat /\ \A i \in 1 .. Len(w) : w[i] \in Nat
  BY LenProperties, ElementOfSeq
<1>2. 0 \in S
  <2>1. [i \in 0 .. 0 |-> 0] \in [0 .. 0 -> Nat] /\ Walk([i \in 0 .. 0 |-> 0], w, 0)
    BY DEF Walk
  <2> QED  BY <2>1
<1>3. ASSUME NEW n \in Nat, n \in S PROVE n + 1 \in S
  <2> SUFFICES ASSUME n + 1 <= Len(w)
               PROVE  \E g \in [0 .. n + 1 -> Nat] : Walk(g, w, n + 1)
    OBVIOUS
  <2>1. n <= Len(w) /\ w[n + 1] \in Nat
    BY <1>1
  <2>2. PICK g \in [0 .. n -> Nat] : Walk(g, w, n)
    BY <1>3, <2>1
  <2> DEFINE h == [i \in 0 .. n + 1 |-> IF i = n + 1 THEN g[n] + w[n + 1] ELSE g[i]]
  <2>3. h \in [0 .. n + 1 -> Nat]
    <3>1. \A i \in 0 .. n + 1 : i = n + 1 \/ i \in 0 .. n
      OBVIOUS
    <3>2. g[n] + w[n + 1] \in Nat
      BY <2>1
    <3> QED  BY <3>1, <3>2
  <2>4. h[0] = 0
    BY <2>2 DEF Walk
  <2>5. ASSUME NEW i \in 1 .. n + 1 PROVE h[i] = h[i - 1] + w[i]
    <3>1. CASE i = n + 1
      BY <3>1
    <3>2. CASE i \in 1 .. n
      BY <2>2, <3>2 DEF Walk
    <3> QED  BY <3>1, <3>2
  <2>6. Walk(h, w, n + 1)
    BY <2>4, <2>5 DEF Walk
  <2> QED  BY <2>3, <2>6
<1> HIDE DEF S
<1>4. Nat \subseteq S
  BY <1>2, <1>3, Induction
<1>5. ASSUME NEW n \in 0 .. Len(w)
      PROVE  \E g \in [0 .. n -> Nat] : Walk(g, w, n)
  <2>1. n \in Nat /\ n <= Len(w)
    BY <1>1
  <2>2. n \in S
    BY <1>4, <2>1
  <2> QED  BY <2>1, <2>2, Zenon DEF S
<1> QED  BY <1>5

LEMMA WalksAgree ==
  ASSUME NEW w, NEW n \in Nat, NEW f, NEW g, Walk(f, w, n), Walk(g, w, n)
  PROVE  \A i \in 0 .. n : f[i] = g[i]
<1> DEFINE S == {i \in Nat : i <= n => f[i] = g[i]}
<1>1. 0 \in S
  BY DEF Walk
<1>2. ASSUME NEW i \in Nat, i \in S PROVE i + 1 \in S
  <2> SUFFICES ASSUME i + 1 <= n PROVE f[i + 1] = g[i + 1]
    OBVIOUS
  <2>1. i + 1 \in 1 .. n /\ (i + 1) - 1 = i /\ i <= n
    OBVIOUS
  <2>2. f[i + 1] = f[i] + w[i + 1] /\ g[i + 1] = g[i] + w[i + 1]
    BY <2>1 DEF Walk
  <2> QED  BY <1>2, <2>1, <2>2
<1> HIDE DEF S
<1>3. Nat \subseteq S
  BY <1>1, <1>2, Induction
<1> QED  BY <1>3 DEF S

(* The sum is where any walk ends. *)
LEMMA SumIsWalk ==
  ASSUME NEW w \in Seq(Nat), NEW g, Walk(g, w, Len(w))
  PROVE  SumOf(w) = g[Len(w)]
<1> DEFINE n == Len(w)
           IsSum(f) == f = [i \in 0 .. n |-> IF i = 0 THEN 0 ELSE f[i - 1] + w[i]]
           f == CHOOSE f : IsSum(f)
<1>1. n \in Nat
  BY LenProperties
<1>2. SumOf(w) = f[n]
  BY DEF SumOf
<1> HIDE DEF n
<1>3. IsSum(f)
  <2>1. PICK h \in [0 .. n -> Nat] : Walk(h, w, n)
    BY <1>1, WalkExists DEF n
  <2>2. \A i \in 0 .. n : h[i] = IF i = 0 THEN 0 ELSE h[i - 1] + w[i]
    <3>1. \A i \in 0 .. n : i = 0 \/ i \in 1 .. n
      BY <1>1
    <3> QED  BY <2>1, <3>1 DEF Walk
  <2>3. h = [i \in 0 .. n |-> h[i]]
    OBVIOUS
  <2>4. IsSum(h)
    BY <2>2, <2>3, Zenon
  <2> HIDE DEF IsSum
  <2> QED  BY <2>4
<1> HIDE DEF f
<1>4. Walk(f, w, n)
  <2>1. f[0] = 0
    BY <1>1, <1>3
  <2>2. ASSUME NEW i \in 1 .. n PROVE f[i] = f[i - 1] + w[i]
    <3>1. i \in 0 .. n /\ i # 0
      BY <1>1
    <3> QED  BY <1>3, <3>1
  <2> QED  BY <2>1, <2>2 DEF Walk
<1>5. f[n] = g[n]
  <2>1. Walk(g, w, n) /\ n \in 0 .. n
    BY <1>1 DEF n
  <2> QED  BY <1>1, <1>4, <2>1, WalksAgree
<1> QED  BY <1>2, <1>5 DEF n

LEMMA SumHasWalk ==
  ASSUME NEW w \in Seq(Nat)
  PROVE  /\ SumOf(w) \in Nat /\ Len(w) \in Nat
         /\ \E g \in [0 .. Len(w) -> Nat] : Walk(g, w, Len(w)) /\ SumOf(w) = g[Len(w)]
<1>1. Len(w) \in Nat /\ Len(w) \in 0 .. Len(w)
  BY LenProperties
<1>2. PICK g \in [0 .. Len(w) -> Nat] : Walk(g, w, Len(w))
  BY <1>1, WalkExists
<1>3. SumOf(w) = g[Len(w)]
  BY <1>2, SumIsWalk
<1> QED  BY <1>1, <1>2, <1>3

(* The sum of a message is the sum of its parts. *)
LEMMA SumOfConcat ==
  ASSUME NEW v \in Seq(Nat), NEW w \in Seq(Nat)
  PROVE  SumOf(v \o w) = SumOf(v) + SumOf(w)
<1> DEFINE m == Len(v)
           n == Len(w)
           u == v \o w
<1>1. PICK f \in [0 .. m -> Nat] : Walk(f, v, m) /\ SumOf(v) = f[m]
  BY SumHasWalk
<1>2. PICK g \in [0 .. n -> Nat] : Walk(g, w, n) /\ SumOf(w) = g[n]
  BY SumHasWalk
<1>3. /\ m \in Nat /\ n \in Nat
      /\ u \in Seq(Nat) /\ Len(u) = m + n
      /\ \A i \in 1 .. m + n : u[i] = IF i <= m THEN v[i] ELSE w[i - m]
  BY SumHasWalk, ConcatProperties
<1> HIDE DEF m, n, u
<1> DEFINE h == [i \in 0 .. m + n |-> IF i <= m THEN f[i] ELSE f[m] + g[i - m]]
<1>4. h[0] = 0
  BY <1>1, <1>3 DEF Walk
<1>5. ASSUME NEW i \in 1 .. m + n PROVE h[i] = h[i - 1] + u[i]
  <2>1. CASE i <= m
    <3>1. i \in 1 .. m /\ i - 1 \in 0 .. m + n /\ i \in 0 .. m + n /\ i - 1 <= m
      BY <1>3, <2>1
    <3>2. h[i] = f[i] /\ h[i - 1] = f[i - 1] /\ u[i] = v[i]
      BY <1>3, <2>1, <3>1
    <3>3. f[i] = f[i - 1] + v[i]
      BY <1>1, <3>1 DEF Walk
    <3> QED  BY <3>2, <3>3
  <2>2. CASE i > m
    <3> DEFINE j == i - m
    <3>1. j \in 1 .. n /\ j - 1 \in 0 .. n /\ ~(i <= m) /\ i \in 0 .. m + n /\ m \in 0 .. m
      BY <1>3, <2>2, SMTT(30)
    <3>2. f[m] \in Nat /\ g[j] \in Nat /\ g[j - 1] \in Nat /\ w[j] \in Nat
      <4>1. j \in 0 .. n
        BY <3>1, <1>3
      <4>2. w[j] \in Nat
        BY <3>1, ElementOfSeq DEF n
      <4> QED  BY <1>1, <1>2, <3>1, <4>1, <4>2
    <3>3. g[j] = g[j - 1] + w[j]
      BY <1>2, <3>1 DEF Walk
    <3>4. h[i] = f[m] + g[j] /\ u[i] = w[j]
      BY <1>3, <3>1
    <3>5. h[i - 1] = f[m] + g[j - 1]
      <4>1. CASE i - 1 = m
        <5>1. m \in 0 .. m + n /\ j - 1 = 0 /\ g[0] = 0
          BY <1>2, <1>3, <4>1 DEF Walk
        <5>2. h[m] = f[m]
          BY <1>3, <5>1
        <5>3. f[m] = f[m] + g[j - 1]
          BY <5>1, <3>2
        <5> QED  BY <4>1, <5>2, <5>3
      <4>2. CASE i - 1 # m
        <5>1. ~(i - 1 <= m) /\ i - 1 \in 0 .. m + n /\ (i - 1) - m = j - 1
          BY <1>3, <2>2, <4>2
        <5> QED  BY <5>1
      <4> QED  BY <4>1, <4>2
    <3> HIDE DEF h, j
    <3>6. f[m] + (g[j - 1] + w[j]) = (f[m] + g[j - 1]) + w[j]
      BY <3>2
    <3> QED  BY <3>3, <3>4, <3>5, <3>6
  <2>3. i \in Int /\ m \in Int
    BY <1>3
  <2> QED  BY <2>1, <2>2, <2>3
<1>6. SumOf(u) = h[m + n]
  <2>1. Walk(h, u, m + n)
    BY <1>4, <1>5 DEF Walk
  <2> HIDE DEF h
  <2> QED  BY <1>3, <2>1, SumIsWalk
<1>7. h[m + n] = f[m] + g[n]
  <2>1. CASE n = 0
    <3>1. g[n] = 0 /\ m + n = m /\ m \in 0 .. m + n /\ f[m] \in Nat
      BY <1>2, <1>3, <2>1 DEF Walk
    <3> QED  BY <3>1
  <2>2. CASE n # 0
    BY <1>3, <2>2
  <2> QED  BY <2>1, <2>2
<1> QED  BY <1>1, <1>2, <1>6, <1>7 DEF u

(* A sum of the four words in front. *)
LEMMA SumOfFour ==
  ASSUME NEW a \in Nat, NEW b \in Nat, NEW c \in Nat, NEW d \in Nat
  PROVE  SumOf(<<a, b, c, d>>) = (a + c + d) + b
<1> DEFINE w == <<a, b, c, d>>
           g == [i \in 0 .. 4 |-> IF i = 0 THEN 0 ELSE IF i = 1 THEN a ELSE IF i = 2 THEN a + b
                                  ELSE IF i = 3 THEN a + b + c ELSE a + b + c + d]
<1>1. w \in Seq(Nat) /\ Len(w) = 4 /\ w[1] = a /\ w[2] = b /\ w[3] = c /\ w[4] = d
  OBVIOUS
<1>2. g[0] = 0 /\ g[1] = a /\ g[2] = a + b /\ g[3] = a + b + c /\ g[4] = a + b + c + d
  OBVIOUS
<1> HIDE DEF w, g
<1>3. ASSUME NEW i \in 1 .. 4 PROVE g[i] = g[i - 1] + w[i]
  <2>1. i = 1 \/ i = 2 \/ i = 3 \/ i = 4
    OBVIOUS
  <2> QED  BY <1>1, <1>2, <2>1
<1>4. Walk(g, w, 4)
  BY <1>2, <1>3 DEF Walk
<1>5. SumOf(w) = g[4]
  BY <1>1, <1>4, SumIsWalk
<1>6. a + b + c + d = (a + c + d) + b
  OBVIOUS
<1> QED  BY <1>2, <1>5, <1>6 DEF w

LEMMA WordBounds == \A x \in Word : x \in Nat /\ x <= 65535
BY SMT DEF Word

LEMMA WordsAreNaturals ==
  ASSUME NEW w \in Seq(Word)
  PROVE  w \in Seq(Nat) /\ Len(w) \in Nat /\ \A i \in 1 .. Len(w) : w[i] \in Word
<1>1. Word \subseteq Nat
  BY SMT DEF Word
<1>2. Len(w) \in Nat /\ \A i \in 1 .. Len(w) : w[i] \in Word
  BY LenProperties, ElementOfSeq
<1> QED  BY <1>1, <1>2, SeqMonotonic, Zenon

LEMMA SumIsBounded ==
  ASSUME NEW w \in Seq(Word)
  PROVE  SumOf(w) \in Nat /\ SumOf(w) <= 65535 * Len(w)
<1>1. w \in Seq(Nat) /\ Len(w) \in Nat /\ \A i \in 1 .. Len(w) : w[i] \in Word
  BY WordsAreNaturals
<1> DEFINE n == Len(w)
<1>2. PICK g \in [0 .. n -> Nat] : Walk(g, w, n) /\ SumOf(w) = g[n]
  BY <1>1, SumHasWalk
<1> HIDE DEF n
<1> DEFINE S == {i \in Nat : i <= n => g[i] <= 65535 * i}
<1>3. 0 \in S
  BY <1>2 DEF Walk
<1>4. ASSUME NEW i \in Nat, i \in S PROVE i + 1 \in S
  <2> SUFFICES ASSUME i + 1 <= n PROVE g[i + 1] <= 65535 * (i + 1)
    OBVIOUS
  <2>1. n \in Nat /\ i + 1 \in 1 .. n /\ i \in 0 .. n /\ (i + 1) - 1 = i
    BY <1>1 DEF n
  <2>2. g[i + 1] = g[i] + w[i + 1]
    BY <1>2, <2>1 DEF Walk
  <2>3. w[i + 1] \in Nat /\ w[i + 1] <= 65535
    BY <1>1, <2>1, WordBounds DEF n
  <2>4. g[i] \in Nat /\ g[i] <= 65535 * i
    BY <1>4, <2>1
  <2> HIDE DEF S
  <2> QED  BY <2>2, <2>3, <2>4, SMT
<1> HIDE DEF S
<1>5. Nat \subseteq S
  BY <1>3, <1>4, Induction
<1>6. n \in S /\ n \in Nat /\ n <= n /\ g[n] \in Nat
  BY <1>1, <1>5 DEF n
<1> QED  BY <1>2, <1>6 DEF S, n

(* The sum is an unsigned int: it cannot overflow before the data are twice as
   long as the longest datagram of IP.                                      *)
LongestData == 32767

LEMMA DataFits ==
  ASSUME NEW header \in Headers, NEW data \in Seq(Word \X Word), Len(data) <= LongestData
  PROVE  FitsUnsigned(WordSum(header, data))
<1> DEFINE body == Halves(data)
<1>1. body \in Seq(Word) /\ Len(body) = 2 * Len(data) /\ Len(data) \in Nat
  BY HalvesOfData
<1> DEFINE type == header.type
           identifier == header.identifier
           number == header.sequence_number
           total == SumOf(body)
           n == Len(data)
<1>2. total \in Nat /\ total <= 65535 * (2 * n)
  BY <1>1, SumIsBounded
<1>3. type \in Nat /\ type < 256 /\ identifier \in Word /\ number \in Word
  BY DEF Headers
<1>4. WordSum(header, data) = type * 256 + identifier + number + total
  BY DEF WordSum
<1>5. n \in Nat /\ n <= 32767
  BY <1>1 DEF LongestData
<1> HIDE DEF type, identifier, number, total, n, body
<1>6. identifier \in Nat /\ identifier <= 65535 /\ number \in Nat /\ number <= 65535
  BY <1>3, WordBounds
<1> QED  BY <1>2, <1>3, <1>4, <1>5, <1>6, SMT DEF FitsUnsigned

(* Every message that icmp_encode makes carries the checksum that RFC 1071 asks
   for: all its words, the checksum among them, add up to ones.             *)
THEOREM EncodedVerifies ==
  ASSUME NEW header \in Headers, NEW data \in Seq(Word \X Word),
         FitsUnsigned(WordSum(header, data))
  PROVE  Verifies(icmp_encode(header, data))
<1> DEFINE sum == WordSum(header, data)
           a == header.type * 256
           c == header.identifier
           d == header.sequence_number
           body == Halves(data)
           front == <<a, Complement(sum), c, d>>
<1>1. icmp_encode(header, data) = front \o body
  BY DEF icmp_encode, WordSum
<1>2. sum = a + c + d + SumOf(body)
  BY DEF WordSum
<1>3. body \in Seq(Nat)
  BY HalvesOfData, WordsAreNaturals
<1>4. /\ Complement(sum) \in Nat
      /\ sum + Complement(sum) > 0 /\ (sum + Complement(sum)) % 65535 = 0
  BY TwoFoldsAreEnough, WordBounds
<1>5. a \in Nat /\ c \in Nat /\ d \in Nat
  <2>1. header.type \in Nat /\ c \in Word /\ d \in Word
    BY DEF Headers
  <2> QED  BY <2>1, WordBounds
<1> HIDE DEF sum, a, c, d, body
<1>6. front \in Seq(Nat) /\ SumOf(front) = (a + c + d) + Complement(sum)
  BY <1>4, <1>5, SumOfFour
<1> HIDE DEF front
<1>7. SumOf(front \o body) = SumOf(front) + SumOf(body)
  BY <1>3, <1>6, SumOfConcat
<1>8. SumOf(body) \in Nat
  BY <1>3, SumHasWalk
<1>9. SumOf(front \o body) = sum + Complement(sum)
  BY <1>2, <1>4, <1>5, <1>6, <1>7, <1>8
<1> QED  BY <1>1, <1>4, <1>9 DEF Verifies

-----------------------------------------------------------------------------
(* The client and the server. *)

Decoded(d) == icmp_decode(d.words)

(* What a client sends: one stamp of its host, to the server. *)
FromClient(d) ==
  /\ d.to = ServerHost /\ d.from \in Hosts
  /\ Decoded(d).header.type = timestamp_request
  /\ Data(Decoded(d), 1) \subseteq RequestStamps(d.from)

(* What the server sends: a stamp of the host that gets it, and its own two. *)
FromServer(d) ==
  /\ d.to \in Hosts
  /\ Decoded(d).header.type = timestamp_reply
  /\ Data(Decoded(d), 1) \subseteq RequestStamps(d.to)
  /\ \E t \in given[d.to] :
       Data(Decoded(d), 2) = {TimeOfDay(t[1])} /\ Data(Decoded(d), 3) = {TimeOfDay(t[2])}

Sound(d) ==
  /\ d \in Strange \/ Verifies(AfterIpHeader(d.words))
  /\ \A k \in 1 .. 3 : Data(Decoded(d), k) \subseteq Stamps
  /\ strange = <<>> => FromClient(d) \/ FromServer(d)

(* Every datagram there is: on its way, or in a socket. *)
Everywhere == DOMAIN net \cup UNION {Range(inbox[p]) : p \in Processes}
EverythingIsSound == \A d \in Everywhere : Sound(d)

(* The request that the server is about to answer was made by a client. *)
JobIsSound ==
  strange = <<>> /\ job # None =>
    \E h \in Hosts : job.ep = h /\ job.data \in RequestStamps(h)

IInv == TypeOK /\ EverythingIsSound /\ JobIsSound

-----------------------------------------------------------------------------
(* Stamps. *)

LEMMA TimesAreWords ==
  ASSUME NEW t \in Times
  PROVE  TimeOfDay(t) \in Word \X Word
<1> DEFINE ms == 1000 * ((Start + t) % 86400)
<1>1. Start \in Nat /\ t \in Nat
  BY IcmpAssumption, SMT DEF Times
<1>2. ms \in Nat /\ ms <= 1000 * 86399
  BY <1>1, SMT
<1>3. TimeOfDay(t) = <<ms \div 65536, ms % 65536>>
  BY DEF TimeOfDay
<1> HIDE DEF ms
<1>4. ms \div 65536 \in Word /\ ms % 65536 \in Word
  BY <1>2, SMT DEF Word
<1> QED  BY <1>3, <1>4

LEMMA StampsAreWords ==
  /\ Stamps \subseteq Word \X Word
  /\ \A t \in Times : TimeOfDay(t) \in Stamps
  /\ Junk \subseteq Stamps
  /\ \A d \in Strange : \A k \in 1 .. 3 : Data(Decoded(d), k) \subseteq Stamps
<1>1. ASSUME NEW d \in Strange, NEW k \in 1 .. 3
      PROVE  Data(icmp_decode(d.words), k) \subseteq Word \X Word
  <2>1. d \in Datagrams
    BY StrangeAssumption
  <2>2. d.words \in Seq(Word)
    BY <2>1, Zenon DEF Datagrams
  <2>3. k \in Nat \ {0}
    OBVIOUS
  <2> QED  BY <2>2, <2>3, DecodedTypes
<1>2. Stamps \subseteq Word \X Word
  <2> SUFFICES ASSUME NEW s \in Stamps PROVE s \in Word \X Word
    OBVIOUS
  <2>1. CASE \E t \in Times : s = TimeOfDay(t)
    BY <2>1, TimesAreWords
  <2>2. CASE s \in Junk
    BY <2>2, JunkAssumption
  <2>3. CASE \E d \in Strange, k \in 1 .. 3 : s \in Data(icmp_decode(d.words), k)
    BY <2>3, <1>1
  <2> QED  BY <2>1, <2>2, <2>3 DEF Stamps
<1> QED  BY <1>2 DEF Stamps, Decoded

-----------------------------------------------------------------------------
(* Datagrams. *)

Arrives(d, from, to, header, data) ==
  /\ d \in Datagrams /\ d.from = from /\ d.to = to
  /\ Verifies(AfterIpHeader(d.words))
  /\ Decoded(d).header = header
  /\ \A k \in 1 .. Len(data) : Data(Decoded(d), k) = {data[k]}
  /\ \A k \in Nat : k > Len(data) => Data(Decoded(d), k) = Junk

LEMMA StampsFit ==
  ASSUME NEW n \in {1, 3}
  PROVE  n <= LongestData
BY SMT DEF LongestData

(* What the programs send arrives as it was sent, and verifies. *)
LEMMA MessageArrives ==
  ASSUME NEW from \in Addresses, NEW to \in Addresses, NEW header \in Headers,
         NEW data \in Seq(Word \X Word), Len(data) \in {1, 3},
         NEW d, d = Datagram(from, to, icmp_encode(header, data))
  PROVE  Arrives(d, from, to, header, data)
<1> DEFINE m == icmp_encode(header, data)
<1>1. d = [from |-> from, to |-> to, words |-> IpHeader(0) \o m]
  BY DEF Datagram
<1>2. FitsUnsigned(WordSum(header, data)) /\ 0 \in 0 .. 10
  <2>1. Len(data) <= LongestData
    BY StampsFit, Zenon
  <2>2. FitsUnsigned(WordSum(header, data))
    BY <2>1, DataFits, Zenon
  <2> QED  BY <2>2
<1>3. m \in Seq(Word) /\ Verifies(m)
  BY <1>2, EncodedWords, EncodedVerifies
<1>4. IpHeader(0) \o m \in Seq(Word) /\ AfterIpHeader(IpHeader(0) \o m) = m
  BY <1>2, <1>3, IpHeaderIsStripped
<1>5. LET e == icmp_decode(IpHeader(0) \o m) IN
      /\ e.header = header
      /\ \A k \in 1 .. Len(data) : Data(e, k) = {data[k]}
      /\ \A k \in Nat : k > Len(data) => Data(e, k) = Junk
  BY <1>2, DecodeInvertsEncode, SMTT(30)
<1> HIDE DEF m
<1> QED  BY <1>1, <1>3, <1>4, <1>5 DEF Arrives, Datagrams, Decoded

LEMMA Sent ==
  ASSUME TypeOK, NEW d \in Datagrams, net' = Send(d)
  PROVE  /\ DOMAIN net' = DOMAIN net \cup {d}
         /\ DOMAIN net' \subseteq Datagrams /\ \A e \in DOMAIN net' : net'[e] \in Nat \ {0}
<1>1. Copies(d) \in Nat
  BY DEF Copies, TypeOK
<1> QED  BY <1>1 DEF Send, TypeOK

LEMMA Removed ==
  ASSUME TypeOK, NEW d \in DOMAIN net, net' = Remove(d)
  PROVE  /\ DOMAIN net' \subseteq DOMAIN net
         /\ DOMAIN net' \subseteq Datagrams /\ \A e \in DOMAIN net' : net'[e] \in Nat \ {0}
<1>1. \A e \in DOMAIN net : net[e] \in Nat \ {0}
  BY DEF TypeOK
<1> QED  BY <1>1 DEF Remove, TypeOK

(* Both are hosts of processes. *)
LEMMA HostsHaveAddresses ==
  /\ ServerHost \in Addresses
  /\ \A c \in Clients : Host[c] \in Hosts /\ Host[c] \in Addresses /\ Address(c) = Host[c]
<1>1. Server \in Processes /\ Address(Server) = ServerHost
  BY DEF Processes, Address
<1>2. \A c \in Clients : c \in Processes /\ Address(c) = Host[c]
  BY IcmpAssumption DEF Processes, Address
<1> QED  BY <1>1, <1>2 DEF Addresses, Hosts

-----------------------------------------------------------------------------
(* Nothing that was sent is taken back. *)
History ==
  /\ strange' = <<>> => strange = <<>>
  /\ \A h \in Hosts : RequestStamps(h) \subseteq RequestStamps(h)' /\ given[h] \subseteq given'[h]

LEMMA SoundStays ==
  ASSUME NEW d, Sound(d), History
  PROVE  Sound(d)'
<1>1. FromClient(d) => FromClient(d)'
  BY DEF FromClient, History
<1>2. FromServer(d) => FromServer(d)'
  BY DEF FromServer, History
<1> QED  BY <1>1, <1>2 DEF Sound, History

LEMMA EverythingStaysSound ==
  ASSUME EverythingIsSound, History,
         \A d \in Everywhere' : d \in Everywhere \/ Sound(d)'
  PROVE  EverythingIsSound'
BY SoundStays DEF EverythingIsSound

LEMMA JobStaysSound ==
  ASSUME JobIsSound, History, job' \in {job, None}
  PROVE  JobIsSound'
BY DEF JobIsSound, History

LEMMA NothingNew ==
  ASSUME UNCHANGED <<requests, given, strange>>
  PROVE  History
BY DEF History, RequestStamps

-----------------------------------------------------------------------------
(* Sockets. *)

LEMMA RangeOfTail ==
  ASSUME NEW S, NEW s \in Seq(S), s # <<>>
  PROVE  /\ Head(s) \in S /\ Head(s) \in Range(s)
         /\ Tail(s) \in Seq(S) /\ Range(Tail(s)) \subseteq Range(s)
<1>1. Len(s) \in Nat \ {0} /\ DOMAIN s = 1 .. Len(s)
  BY EmptySeq, LenProperties
<1>2. Head(s) = s[1] /\ 1 \in DOMAIN s
  BY <1>1
<1>3. /\ Head(s) \in S /\ Tail(s) \in Seq(S) /\ Len(Tail(s)) = Len(s) - 1
      /\ \A i \in 1 .. Len(Tail(s)) : Tail(s)[i] = s[i + 1]
  BY HeadTailProperties
<1>4. ASSUME NEW i \in DOMAIN Tail(s) PROVE Tail(s)[i] = s[i + 1] /\ i + 1 \in DOMAIN s
  <2>1. DOMAIN Tail(s) = 1 .. Len(Tail(s))
    BY <1>3, LenProperties
  <2> QED  BY <1>1, <1>3, <2>1
<1> QED  BY <1>2, <1>3, <1>4 DEF Range

LEMMA RangeOfAppend ==
  ASSUME NEW S, NEW s \in Seq(S), NEW e \in S
  PROVE  Append(s, e) \in Seq(S) /\ Range(Append(s, e)) = Range(s) \cup {e}
<1>1. /\ Append(s, e) \in Seq(S) /\ Len(Append(s, e)) = Len(s) + 1 /\ Len(s) \in Nat
      /\ \A i \in 1 .. Len(s) : Append(s, e)[i] = s[i]
      /\ Append(s, e)[Len(s) + 1] = e
  BY AppendProperties
<1>2. DOMAIN s = 1 .. Len(s) /\ DOMAIN Append(s, e) = 1 .. Len(s) + 1
  BY <1>1, LenProperties
<1>3. \A i \in 1 .. Len(s) + 1 : i \in 1 .. Len(s) \/ i = Len(s) + 1
  BY <1>1
<1>4. 1 .. Len(s) \subseteq 1 .. Len(s) + 1 /\ Len(s) + 1 \in 1 .. Len(s) + 1
  BY <1>1
<1> QED  BY <1>1, <1>2, <1>3, <1>4 DEF Range

InboxTypeOK ==
  /\ inbox \in [Processes -> Seq(Datagrams)]
  /\ \A p \in Processes : \A d \in Range(inbox[p]) : d.to = Address(p)

(* A socket that is read, or closed, has no more in it than before. *)
LEMMA InboxShrinks ==
  ASSUME InboxTypeOK, NEW p \in Processes, NEW rest,
         inbox' = [inbox EXCEPT ![p] = rest],
         rest = <<>> \/ (inbox[p] # <<>> /\ rest = Tail(inbox[p]))
  PROVE  InboxTypeOK' /\ \A q \in Processes : Range(inbox'[q]) \subseteq Range(inbox[q])
<1>1. inbox[p] \in Seq(Datagrams)
  BY DEF InboxTypeOK
<1>2. rest \in Seq(Datagrams) /\ Range(rest) \subseteq Range(inbox[p])
  <2>1. CASE rest = <<>>
    <3>1. rest \in Seq(Datagrams) /\ Len(rest) = 0
      BY <2>1, EmptySeq
    <3>2. DOMAIN rest = {}
      BY <3>1, LenProperties
    <3> QED  BY <3>1, <3>2 DEF Range
  <2>2. CASE inbox[p] # <<>> /\ rest = Tail(inbox[p])
    BY <1>1, <2>2, RangeOfTail
  <2> QED  BY <2>1, <2>2
<1>3. \A q \in Processes : inbox'[q] = IF q = p THEN rest ELSE inbox[q]
  BY DEF InboxTypeOK
<1>4. \A q \in Processes : Range(inbox'[q]) \subseteq Range(inbox[q])
  BY <1>2, <1>3
<1>5. inbox' \in [Processes -> Seq(Datagrams)]
  BY <1>2 DEF InboxTypeOK
<1> QED  BY <1>4, <1>5 DEF InboxTypeOK

LEMMA NothingAppears ==
  ASSUME DOMAIN net' \subseteq DOMAIN net,
         \A q \in Processes : Range(inbox'[q]) \subseteq Range(inbox[q])
  PROVE  Everywhere' \subseteq Everywhere
BY DEF Everywhere

LEMMA OneAppears ==
  ASSUME NEW d, DOMAIN net' = DOMAIN net \cup {d}, inbox' = inbox
  PROVE  Everywhere' = Everywhere \cup {d}
BY DEF Everywhere

-----------------------------------------------------------------------------
(* The steps. *)

LEMMA ConstantsAreTyped ==
  /\ 0 \in Times /\ MaxTime \in Nat /\ MaxNoise \in Nat /\ Times \subseteq Nat
  /\ \A t : t \in Times <=> t \in Nat /\ t <= MaxTime
  /\ \A h \in Hosts : h \in Addresses
  /\ RequestHeader \in Headers
<1>1. MaxTime \in Nat /\ MaxNoise \in Nat
  BY IcmpAssumption
<1>2. 0 \in Word
  BY SMT DEF Word
<1>3. RequestHeader \in Headers
  BY <1>2 DEF RequestHeader, timestamp_request, Headers
<1>4. \A h \in Hosts : h \in Addresses
  BY HostsHaveAddresses DEF Hosts
<1> QED  BY <1>1, <1>3, <1>4 DEF Times

(* A client's request carries a stamp that its host has now asked with. *)
LEMMA SendRequestKeeps ==
  ASSUME IInv, NEW c \in Clients, send_request(c)
  PROVE  IInv'
<1> DEFINE h == Host[c]
<1>1. TypeOK /\ EverythingIsSound /\ JobIsSound /\ h \in Hosts /\ h \in Addresses /\ ServerHost \in Addresses
  BY HostsHaveAddresses DEF IInv
<1> HIDE DEF h
<1>2. PICK s, d : /\ s = TimeOfDay(now)
                  /\ d = Datagram(h, ServerHost, icmp_encode(RequestHeader, <<s>>))
                  /\ net' = Send(d)
  BY DEF send_request, h
<1>3. now \in Times /\ s \in Word \X Word /\ s \in Stamps
  BY <1>1, <1>2, TimesAreWords, StampsAreWords DEF TypeOK
<1> DEFINE data == <<s>>
<1>4. data \in Seq(Word \X Word) /\ Len(data) \in {1, 3} /\ Len(data) = 1 /\ data[1] = s
  BY <1>3
<1> HIDE DEF data
<1>5. Arrives(d, h, ServerHost, RequestHeader, data)
  <2>1. d = Datagram(h, ServerHost, icmp_encode(RequestHeader, data))
    BY <1>2 DEF data
  <2>2. RequestHeader \in Headers
    BY ConstantsAreTyped
  <2>3. h \in Addresses /\ ServerHost \in Addresses /\ data \in Seq(Word \X Word) /\ Len(data) \in {1, 3}
    BY <1>1, <1>4
  <2> QED  BY <2>1, <2>2, <2>3, MessageArrives, Zenon
<1>6. Data(Decoded(d), 1) = {s} /\ Data(Decoded(d), 2) = Junk /\ Data(Decoded(d), 3) = Junk
  BY <1>4, <1>5 DEF Arrives
<1>7. requests' = [requests EXCEPT ![h] = Append(@, now)] /\ requests \in [Hosts -> Seq(Times)]
  BY <1>1 DEF send_request, TypeOK, h
<1>8. requests[h] \in Seq(Times)
  BY <1>1, <1>7
<1>9. /\ Append(requests[h], now) \in Seq(Times)
      /\ Len(Append(requests[h], now)) = Len(requests[h]) + 1 /\ Len(requests[h]) \in Nat
      /\ \A i \in 1 .. Len(requests[h]) : Append(requests[h], now)[i] = requests[h][i]
      /\ Append(requests[h], now)[Len(requests[h]) + 1] = now
  BY <1>3, <1>8, AppendProperties, LenProperties
<1>10. /\ DOMAIN requests[h] = 1 .. Len(requests[h])
       /\ DOMAIN requests'[h] = 1 .. Len(requests[h]) + 1
       /\ \A i \in DOMAIN requests[h] : i \in DOMAIN requests'[h] /\ requests'[h][i] = requests[h][i]
       /\ Len(requests[h]) + 1 \in DOMAIN requests'[h]
       /\ requests'[h][Len(requests[h]) + 1] = now
  <2>1. requests'[h] = Append(requests[h], now)
    BY <1>1, <1>7
  <2>2. DOMAIN requests[h] = 1 .. Len(requests[h])
    BY <1>8, LenProperties
  <2>3. DOMAIN requests'[h] = 1 .. Len(requests[h]) + 1
    BY <1>9, <2>1, LenProperties
  <2> QED  BY <1>9, <2>1, <2>2, <2>3
<1>11. \A g \in Hosts : g # h => requests'[g] = requests[g]
  BY <1>7
<1>12. RequestStamps(h) \subseteq RequestStamps(h)' /\ s \in RequestStamps(h)'
  BY <1>2, <1>10 DEF RequestStamps
<1>13. UNCHANGED <<now, inbox, job, given, replies, duplicated, strange, lost>>
  BY DEF send_request
<1>14. History
  <2>1. \A g \in Hosts : RequestStamps(g) \subseteq RequestStamps(g)'
    BY <1>11, <1>12 DEF RequestStamps
  <2> QED  BY <1>13, <2>1 DEF History
<1>15. Sound(d)'
  <2>1. FromClient(d)'
    BY <1>1, <1>5, <1>6, <1>12 DEF FromClient, RequestHeader, Arrives
  <2>2. \A k \in 1 .. 3 : Data(Decoded(d), k) \subseteq Stamps
    <3>1. \A k \in 1 .. 3 : k = 1 \/ k = 2 \/ k = 3
      OBVIOUS
    <3> QED  BY <1>3, <1>6, <3>1, StampsAreWords
  <2> QED  BY <1>5, <2>1, <2>2 DEF Sound, Arrives
<1>16. TypeOK'
  <2>1. running' \subseteq Processes /\ told' \in [Clients -> {None} \cup (Stamps \X Stamps)]
    BY <1>1 DEF send_request, TypeOK, Processes
  <2>2. requests' \in [Hosts -> Seq(Times)]
    BY <1>7, <1>9
  <2>3. DOMAIN net' \subseteq Datagrams /\ \A e \in DOMAIN net' : net'[e] \in Nat \ {0}
    BY <1>1, <1>2, <1>5, Sent DEF Arrives
  <2> QED  BY <1>1, <1>13, <2>1, <2>2, <2>3 DEF TypeOK
<1>17. EverythingIsSound'
  <2>1. Everywhere' = Everywhere \cup {d}
    BY <1>1, <1>2, <1>5, <1>13, Sent, OneAppears DEF Arrives
  <2> QED  BY <1>1, <1>14, <1>15, <2>1, EverythingStaysSound
<1>18. JobIsSound'
  BY <1>1, <1>13, <1>14, JobStaysSound
<1> QED  BY <1>16, <1>17, <1>18 DEF IInv

(* The first datagram in a socket. *)
LEMMA HeadIsSound ==
  ASSUME IInv, NEW p \in Processes, inbox[p] # <<>>
  PROVE  Head(inbox[p]) \in Datagrams /\ Sound(Head(inbox[p]))
<1>1. inbox[p] \in Seq(Datagrams)
  BY DEF IInv, TypeOK
<1>2. Head(inbox[p]) \in Datagrams /\ Head(inbox[p]) \in Range(inbox[p])
  BY <1>1, RangeOfTail
<1>3. Head(inbox[p]) \in Everywhere
  BY <1>2 DEF Everywhere
<1> QED  BY <1>2, <1>3 DEF IInv, EverythingIsSound

(* Steps that only take something out of a socket. *)
LEMMA ReadingKeepsSound ==
  ASSUME IInv, NEW p \in Processes, NEW rest,
         inbox' = [inbox EXCEPT ![p] = rest],
         rest = <<>> \/ (inbox[p] # <<>> /\ rest = Tail(inbox[p])),
         UNCHANGED <<net, requests, given, strange>>
  PROVE  InboxTypeOK' /\ EverythingIsSound' /\ History
<1>1. InboxTypeOK
  BY DEF IInv, TypeOK, InboxTypeOK
<1>2. InboxTypeOK' /\ \A q \in Processes : Range(inbox'[q]) \subseteq Range(inbox[q])
  BY <1>1, InboxShrinks
<1>3. Everywhere' \subseteq Everywhere
  BY <1>2, NothingAppears
<1>4. History
  BY NothingNew
<1> QED  BY <1>2, <1>3, <1>4, EverythingStaysSound DEF IInv

LEMMA ReceiveReplyKeeps ==
  ASSUME IInv, NEW c \in Clients, receive_reply(c)
  PROVE  IInv'
<1>1. c \in Processes /\ inbox[c] # <<>> /\ TypeOK /\ JobIsSound
  BY DEF receive_reply, Processes, IInv
<1>2. UNCHANGED <<now, net, job, requests, given, replies, duplicated, strange, lost>>
  BY DEF receive_reply, counts
<1>3. PICK rest : /\ inbox' = [inbox EXCEPT ![c] = rest]
                  /\ rest = <<>> \/ rest = Tail(inbox[c])
  BY <1>1 DEF receive_reply, TypeOK
<1>4. InboxTypeOK' /\ EverythingIsSound' /\ History
  <2>1. UNCHANGED <<net, requests, given, strange>>
    BY <1>2
  <2>2. rest = <<>> \/ (inbox[c] # <<>> /\ rest = Tail(inbox[c]))
    BY <1>1, <1>3
  <2> QED  BY <1>1, <1>3, <2>1, <2>2, ReadingKeepsSound, Zenon
<1>5. running' \subseteq Processes
  BY <1>1 DEF receive_reply, TypeOK
<1>6. told' \in [Clients -> {None} \cup (Stamps \X Stamps)]
  <2> DEFINE d == Decoded(Head(inbox[c]))
  <2>1. Data(d, 2) \subseteq Stamps /\ Data(d, 3) \subseteq Stamps
    BY <1>1, HeadIsSound DEF Sound
  <2>2. \/ \E ts1 \in Data(d, 2), ts2 \in Data(d, 3) : told' = [told EXCEPT ![c] = <<ts1, ts2>>]
        \/ told' = told
    BY DEF receive_reply, Decoded
  <2> HIDE DEF d
  <2>3. told \in [Clients -> {None} \cup (Stamps \X Stamps)]
    BY <1>1 DEF TypeOK
  <2>4. ASSUME NEW ts1 \in Data(d, 2), NEW ts2 \in Data(d, 3), told' = [told EXCEPT ![c] = <<ts1, ts2>>]
        PROVE  told' \in [Clients -> {None} \cup (Stamps \X Stamps)]
    <3>1. <<ts1, ts2>> \in {None} \cup (Stamps \X Stamps)
      BY <2>1
    <3> QED  BY <2>3, <2>4, <3>1
  <2> QED  BY <2>2, <2>3, <2>4
<1>7. TypeOK'
  BY <1>1, <1>2, <1>4, <1>5, <1>6 DEF TypeOK, InboxTypeOK
<1>8. JobIsSound'
  BY <1>1, <1>2, <1>4, JobStaysSound
<1> QED  BY <1>4, <1>7, <1>8 DEF IInv

(* GiveUp of a client, and the end of the server. *)
LEMMA EndingKeeps ==
  ASSUME IInv, (\E c \in Clients : GiveUp(c)) \/ ServerEnds
  PROVE  IInv'
<1>1. TypeOK /\ JobIsSound
  BY DEF IInv
<1>2. PICK p \in Processes : /\ inbox' = [inbox EXCEPT ![p] = <<>>]
                             /\ running' = running \ {p}
  BY DEF GiveUp, ServerEnds, Processes
<1>3. /\ UNCHANGED <<now, net, told, requests, given, replies, duplicated, strange, lost>>
      /\ job' \in {job, None}
  BY DEF GiveUp, ServerEnds, counts
<1>4. InboxTypeOK' /\ EverythingIsSound' /\ History
  <2>1. UNCHANGED <<net, requests, given, strange>>
    BY <1>3
  <2> QED  BY <1>2, <2>1, ReadingKeepsSound, Zenon
<1>5. TypeOK'
  BY <1>1, <1>2, <1>3, <1>4 DEF TypeOK, InboxTypeOK
<1>6. JobIsSound'
  BY <1>1, <1>3, <1>4, JobStaysSound
<1> QED  BY <1>4, <1>5, <1>6 DEF IInv

(* What the server is about to answer is what it has read. *)
LEMMA ReceiveRequestKeeps ==
  ASSUME IInv, receive_request
  PROVE  IInv'
<1> DEFINE packet == Head(inbox[Server])
           d == Decoded(packet)
           Job(data) == [ep |-> packet.from, identifier |-> d.header.identifier,
                         sequence_number |-> d.header.sequence_number, data |-> data]
<1>1. Server \in Processes /\ inbox[Server] # <<>> /\ TypeOK /\ JobIsSound
  BY DEF receive_request, Processes, IInv
<1>2. UNCHANGED <<now, running, net, told, requests, given, replies, duplicated, strange, lost>>
  BY DEF receive_request, counts
<1>3. inbox' = [inbox EXCEPT ![Server] = Tail(inbox[Server])]
  BY <1>1 DEF receive_request, TypeOK
<1>4. InboxTypeOK' /\ EverythingIsSound' /\ History
  BY <1>1, <1>2, <1>3, ReadingKeepsSound
<1>5. packet \in Datagrams /\ Sound(packet)
  BY <1>1, HeadIsSound
<1>6. packet.from \in Addresses /\ packet.words \in Seq(Word)
  BY <1>5 DEF Datagrams
<1>7. d.header \in Headers
  BY <1>6, DecodedTypes DEF Decoded
<1>8. \/ job' = job
      \/ IsRequest(d) /\ \E data \in Data(d, 1) : job' = Job(data)
  BY DEF receive_request, Decoded
<1> HIDE DEF packet, d
<1>9. CASE job' = job
  <2>1. TypeOK'
    BY <1>1, <1>2, <1>4, <1>9 DEF TypeOK, InboxTypeOK
  <2>2. JobIsSound'
    BY <1>1, <1>4, <1>9, JobStaysSound
  <2> QED  BY <1>4, <2>1, <2>2 DEF IInv
<1>10. CASE IsRequest(d) /\ \E data \in Data(d, 1) : job' = Job(data)
  <2>1. PICK data \in Data(d, 1) : job' = Job(data)
    BY <1>10
  <2>2. data \in Stamps
    <3>1. Data(d, 1) \subseteq Stamps
      BY <1>5 DEF Sound, d
    <3> QED  BY <3>1
  <2>3. job' \in [ep : Addresses, identifier : Word, sequence_number : Word, data : Stamps]
    BY <1>6, <1>7, <2>1, <2>2 DEF Headers
  <2>4. TypeOK'
    BY <1>1, <1>2, <1>4, <2>3 DEF TypeOK, InboxTypeOK
  <2>5. JobIsSound'
    <3> SUFFICES ASSUME strange' = <<>>
                 PROVE  \E h \in Hosts : job'.ep = h /\ job'.data \in RequestStamps(h)'
      BY DEF JobIsSound
    <3>1. FromClient(packet) \/ FromServer(packet)
      BY <1>2, <1>5 DEF Sound
    <3>2. ~FromServer(packet)
      BY <1>10 DEF FromServer, IsRequest, timestamp_request, timestamp_reply, d
    <3>3. packet.from \in Hosts /\ Data(d, 1) \subseteq RequestStamps(packet.from)
      BY <3>1, <3>2 DEF FromClient, d
    <3>4. PICK h \in Hosts : packet.from = h /\ data \in RequestStamps(h)
      BY <2>1, <3>3
    <3>5. data \in RequestStamps(h)'
      BY <1>4, <3>4 DEF History
    <3>6. job'.ep = h /\ job'.data = data
      BY <2>1, <3>4
    <3> QED  BY <3>5, <3>6
  <2> QED  BY <1>4, <2>4, <2>5 DEF IInv
<1> QED  BY <1>8, <1>9, <1>10

(* The server's reply repeats the stamp, and carries the two it has just given. *)
LEMMA SendReplyKeeps ==
  ASSUME IInv, send_reply
  PROVE  IInv'
<1>1. TypeOK /\ EverythingIsSound /\ JobIsSound /\ job # None /\ ServerHost \in Addresses
  BY HostsHaveAddresses DEF IInv, send_reply
<1>2. PICK ep, identifier, number, s1 :
        /\ ep = job.ep /\ identifier = job.identifier
        /\ number = job.sequence_number /\ s1 = job.data
  OBVIOUS
<1>3. ep \in Addresses /\ identifier \in Word /\ number \in Word /\ s1 \in Stamps
  BY <1>1, <1>2 DEF TypeOK
<1>4. now \in Times /\ now' \in Times
  <2>1. now \in Times /\ now \in Nat
    BY <1>1, ConstantsAreTyped DEF TypeOK
  <2>2. now' \in {now, now + 1} /\ now' <= MaxTime
    BY DEF send_reply
  <2>3. now' \in Nat
    BY <2>1, <2>2
  <2> QED  BY <2>1, <2>2, <2>3, ConstantsAreTyped
<1>5. PICK s2, s3 : s2 = TimeOfDay(now) /\ s3 = TimeOfDay(now')
  OBVIOUS
<1>6. PICK header, data, d :
        /\ header = [type |-> timestamp_reply, identifier |-> identifier, sequence_number |-> number]
        /\ data = <<s1, s2, s3>>
        /\ d = Datagram(ServerHost, ep, icmp_encode(header, data))
        /\ net' = Send(d)
  BY <1>2, <1>5 DEF send_reply, ReplyHeader, ReplyData
<1>7. s1 \in Word \X Word /\ s2 \in Word \X Word /\ s3 \in Word \X Word /\ s2 \in Stamps /\ s3 \in Stamps
  BY <1>3, <1>4, <1>5, StampsAreWords
<1>8. data \in Seq(Word \X Word) /\ Len(data) = 3 /\ data[1] = s1 /\ data[2] = s2 /\ data[3] = s3
  BY <1>6, <1>7
<1>9. header \in Headers
  BY <1>3, <1>6 DEF Headers, timestamp_reply
<1>10. Arrives(d, ServerHost, ep, header, data)
  <2>1. Len(data) \in {1, 3}
    BY <1>8
  <2> QED  BY <1>1, <1>3, <1>6, <1>8, <1>9, <2>1, MessageArrives, Zenon
<1>11. d \in Datagrams /\ Decoded(d).header.type = timestamp_reply /\ d.to = ep
  BY <1>6, <1>10 DEF Arrives
<1>12. Data(Decoded(d), 1) = {s1} /\ Data(Decoded(d), 2) = {s2} /\ Data(Decoded(d), 3) = {s3}
  BY <1>8, <1>10 DEF Arrives
<1>13. /\ UNCHANGED <<running, inbox, told, requests, duplicated, strange, lost>>
       /\ job' = None /\ replies' = replies + 1
  BY DEF send_reply
<1>14. /\ given \in [Hosts -> SUBSET (Times \X Times)]
       /\ given' = [h \in Hosts |-> IF h = ep THEN given[h] \cup {<<now, now'>>} ELSE given[h]]
  BY <1>1, <1>2 DEF send_reply, TypeOK
<1>15. History
  <2>1. \A h \in Hosts : RequestStamps(h) = RequestStamps(h)'
    BY <1>13 DEF RequestStamps
  <2> QED  BY <1>13, <1>14, <2>1 DEF History
<1>16. Sound(d)'
  <2>1. \A k \in 1 .. 3 : Data(Decoded(d), k) \subseteq Stamps
    <3>1. \A k \in 1 .. 3 : k = 1 \/ k = 2 \/ k = 3
      OBVIOUS
    <3> QED  BY <1>3, <1>7, <1>12, <3>1
  <2>2. ASSUME strange' = <<>> PROVE FromServer(d)'
    <3>1. PICK h \in Hosts : ep = h /\ s1 \in RequestStamps(h)
      BY <1>1, <1>2, <1>13, <2>2 DEF JobIsSound
    <3>2. s1 \in RequestStamps(h)'
      BY <1>15, <3>1 DEF History
    <3>3. PICK t : t = <<now, now'>>
      OBVIOUS
    <3>4. t \in given'[h] /\ s2 = TimeOfDay(t[1]) /\ s3 = TimeOfDay(t[2])
      BY <1>5, <1>14, <3>1, <3>3
    <3> QED  BY <1>11, <1>12, <3>1, <3>2, <3>4 DEF FromServer
  <2> QED  BY <1>10, <2>1, <2>2 DEF Sound, Arrives
<1>17. TypeOK'
  <2>1. given' \in [Hosts -> SUBSET (Times \X Times)]
    BY <1>4, <1>14
  <2>2. DOMAIN net' \subseteq Datagrams /\ \A e \in DOMAIN net' : net'[e] \in Nat \ {0}
    BY <1>1, <1>6, <1>11, Sent
  <2> QED  BY <1>1, <1>4, <1>13, <2>1, <2>2 DEF TypeOK
<1>18. EverythingIsSound'
  <2>1. Everywhere' = Everywhere \cup {d}
    BY <1>1, <1>6, <1>11, <1>13, Sent, OneAppears
  <2> QED  BY <1>1, <1>15, <1>16, <2>1, EverythingStaysSound
<1>19. JobIsSound'
  BY <1>13 DEF JobIsSound
<1> QED  BY <1>17, <1>18, <1>19 DEF IInv

(* A datagram that arrives was on its way. *)
LEMMA DeliverKeeps ==
  ASSUME IInv, NEW d \in DOMAIN net, Deliver(d)
  PROVE  IInv'
<1>1. TypeOK /\ EverythingIsSound /\ JobIsSound /\ InboxTypeOK /\ d \in Datagrams
  BY DEF IInv, TypeOK, InboxTypeOK
<1>2. UNCHANGED <<now, running, job, told, requests, given, replies, duplicated, strange, lost>>
  BY DEF Deliver, counts
<1>3. /\ DOMAIN net' \subseteq DOMAIN net
      /\ DOMAIN net' \subseteq Datagrams /\ \A e \in DOMAIN net' : net'[e] \in Nat \ {0}
  BY <1>1, Removed DEF Deliver
<1>4. ASSUME NEW p \in Processes
      PROVE  /\ inbox'[p] \in Seq(Datagrams)
             /\ \A e \in Range(inbox'[p]) :
                  e \in Range(inbox[p]) \/ (e = d /\ e.to = Address(p))
  <2>1. inbox[p] \in Seq(Datagrams)
    BY <1>1 DEF InboxTypeOK
  <2>2. CASE p \in running /\ Address(p) = d.to
    <3>1. inbox'[p] = Append(inbox[p], d)
      BY <2>2 DEF Deliver
    <3>2. inbox'[p] \in Seq(Datagrams) /\ Range(inbox'[p]) = Range(inbox[p]) \cup {d}
      BY <1>1, <2>1, <3>1, RangeOfAppend
    <3> QED  BY <2>2, <3>2
  <2>3. CASE ~(p \in running /\ Address(p) = d.to)
    <3>1. inbox'[p] = inbox[p]
      BY <2>3 DEF Deliver
    <3> QED  BY <2>1, <3>1
  <2> QED  BY <2>2, <2>3
<1>5. InboxTypeOK'
  <2>1. inbox' \in [Processes -> Seq(Datagrams)]
    <3>1. inbox' = [p \in Processes |-> inbox'[p]]
      BY DEF Deliver
    <3> QED  BY <1>4, <3>1
  <2> QED  BY <1>1, <1>4, <2>1 DEF InboxTypeOK
<1>6. History
  BY <1>2, NothingNew
<1>7. TypeOK'
  BY <1>1, <1>2, <1>3, <1>5 DEF TypeOK, InboxTypeOK
<1>8. EverythingIsSound'
  <2>1. Everywhere' \subseteq Everywhere
    BY <1>3, <1>4 DEF Everywhere
  <2> QED  BY <1>1, <1>6, <2>1, EverythingStaysSound
<1>9. JobIsSound'
  BY <1>1, <1>2, <1>6, JobStaysSound
<1> QED  BY <1>7, <1>8, <1>9 DEF IInv

LEMMA LoseKeeps ==
  ASSUME IInv, NEW d \in DOMAIN net, Lose(d)
  PROVE  IInv'
<1>1. TypeOK /\ EverythingIsSound /\ JobIsSound
  BY DEF IInv
<1>2. /\ UNCHANGED <<now, running, inbox, job, told, requests, given, replies, duplicated, strange>>
      /\ lost' = TRUE
  BY DEF Lose
<1>3. /\ DOMAIN net' \subseteq DOMAIN net
      /\ DOMAIN net' \subseteq Datagrams /\ \A e \in DOMAIN net' : net'[e] \in Nat \ {0}
  BY <1>1, Removed DEF Lose
<1>4. History
  BY <1>2, NothingNew
<1>5. TypeOK'
  BY <1>1, <1>2, <1>3 DEF TypeOK
<1>6. EverythingIsSound'
  <2>1. Everywhere' \subseteq Everywhere
    BY <1>2, <1>3 DEF Everywhere
  <2> QED  BY <1>1, <1>4, <2>1, EverythingStaysSound
<1>7. JobIsSound'
  BY <1>1, <1>2, <1>4, JobStaysSound
<1> QED  BY <1>5, <1>6, <1>7 DEF IInv

LEMMA DuplicateKeeps ==
  ASSUME IInv, NEW d \in DOMAIN net, Duplicate(d)
  PROVE  IInv'
<1>1. TypeOK /\ EverythingIsSound /\ JobIsSound /\ d \in Datagrams /\ d \in Everywhere
  BY DEF IInv, TypeOK, Everywhere
<1>2. /\ UNCHANGED <<now, running, inbox, job, told, requests, given, replies, strange, lost>>
      /\ net' = Send(d)
  BY DEF Duplicate
<1>3. duplicated' \in 0 .. MaxNoise
  <2>1. duplicated' = duplicated + 1 /\ duplicated + Len(strange) < MaxNoise
    BY DEF Duplicate
  <2>2. duplicated \in Nat /\ Len(strange) \in Nat /\ MaxNoise \in Nat
    BY <1>1, ConstantsAreTyped, LenProperties DEF TypeOK
  <2> QED  BY <2>1, <2>2
<1>4. /\ DOMAIN net' = DOMAIN net \cup {d}
      /\ DOMAIN net' \subseteq Datagrams /\ \A e \in DOMAIN net' : net'[e] \in Nat \ {0}
  BY <1>1, <1>2, Sent
<1>5. History
  BY <1>2, NothingNew
<1>6. TypeOK'
  BY <1>1, <1>2, <1>3, <1>4 DEF TypeOK
<1>7. EverythingIsSound'
  <2>1. Everywhere' \subseteq Everywhere
    BY <1>1, <1>2, <1>4, OneAppears
  <2> QED  BY <1>1, <1>5, <2>1, EverythingStaysSound
<1>8. JobIsSound'
  BY <1>1, <1>2, <1>5, JobStaysSound
<1> QED  BY <1>6, <1>7, <1>8 DEF IInv

(* Once strangers have spoken, only the types are promised. *)
LEMMA IntrudeKeeps ==
  ASSUME IInv, NEW d \in Strange, Intrude(d)
  PROVE  IInv'
<1>1. TypeOK /\ EverythingIsSound /\ JobIsSound /\ d \in Datagrams
  BY StrangeAssumption DEF IInv
<1>2. /\ UNCHANGED <<now, running, inbox, job, told, requests, given, replies, duplicated, lost>>
      /\ net' = Send(d) /\ strange' = Append(strange, d)
  BY DEF Intrude
<1>3. strange \in Seq(Strange) /\ strange' \in Seq(Strange) /\ strange' # <<>>
  <2>1. strange \in Seq(Strange)
    BY <1>1 DEF TypeOK
  <2>2. strange' \in Seq(Strange) /\ Len(strange') = Len(strange) + 1 /\ Len(strange) \in Nat
    BY <1>2, <2>1, AppendProperties, LenProperties
  <2> QED  BY <2>1, <2>2, EmptySeq
<1>4. /\ DOMAIN net' = DOMAIN net \cup {d}
      /\ DOMAIN net' \subseteq Datagrams /\ \A e \in DOMAIN net' : net'[e] \in Nat \ {0}
  BY <1>1, <1>2, Sent
<1>5. History
  BY <1>2, <1>3 DEF History, RequestStamps
<1>6. Sound(d)'
  BY <1>3, StampsAreWords DEF Sound
<1>7. TypeOK'
  BY <1>1, <1>2, <1>3, <1>4 DEF TypeOK
<1>8. EverythingIsSound'
  <2>1. Everywhere' = Everywhere \cup {d}
    BY <1>2, <1>4, OneAppears
  <2> QED  BY <1>1, <1>5, <1>6, <2>1, EverythingStaysSound
<1>9. JobIsSound'
  BY <1>3 DEF JobIsSound
<1> QED  BY <1>7, <1>8, <1>9 DEF IInv

LEMMA TimeKeeps ==
  ASSUME IInv, Tick \/ UNCHANGED vars
  PROVE  IInv'
<1>1. TypeOK /\ EverythingIsSound /\ JobIsSound
  BY DEF IInv
<1>2. UNCHANGED <<running, inbox, net, job, told, requests, given, replies, duplicated, strange, lost>>
  BY DEF Tick, vars, counts
<1>3. now' \in Times
  <2>1. now \in Nat /\ now <= MaxTime /\ MaxTime \in Nat
    BY <1>1, ConstantsAreTyped DEF TypeOK
  <2>2. now' = now \/ (now < MaxTime /\ now' = now + 1)
    BY DEF Tick, vars
  <2> QED  BY <2>1, <2>2, ConstantsAreTyped
<1>4. History
  BY <1>2, NothingNew
<1>5. TypeOK'
  BY <1>1, <1>2, <1>3 DEF TypeOK
<1>6. EverythingIsSound'
  <2>1. Everywhere' \subseteq Everywhere
    BY <1>2 DEF Everywhere
  <2> QED  BY <1>1, <1>4, <2>1, EverythingStaysSound
<1>7. JobIsSound'
  BY <1>1, <1>2, <1>4, JobStaysSound
<1> QED  BY <1>5, <1>6, <1>7 DEF IInv

-----------------------------------------------------------------------------
(* Requests, counted. Each reply takes one away; only a client's main, the
   network and strangers make new ones.                                     *)

Requested(s) == {i \in DOMAIN s : IsRequest(Decoded(s[i]))}
OnTheWay == UNION {{d} \X (1 .. net[d]) : d \in {e \in DOMAIN net : IsRequest(Decoded(e))}}
Weight(d) == IF IsRequest(Decoded(d)) THEN 1 ELSE 0
InHand == IF job = None THEN 0 ELSE 1

Counted == IsFiniteSet(OnTheWay) /\ IsFiniteSet(SentRequests)
Budget ==
  replies + Cardinality(OnTheWay) + Cardinality(Requested(inbox[Server])) + InHand
  <= Cardinality(SentRequests) + duplicated + Cardinality(Requested(strange))

LEMMA RequestedIsCounted ==
  ASSUME NEW S, NEW s \in Seq(S)
  PROVE  IsFiniteSet(Requested(s)) /\ Cardinality(Requested(s)) \in Nat
<1>1. Len(s) \in Nat /\ DOMAIN s = 1 .. Len(s)
  BY LenProperties
<1>2. IsFiniteSet(1 .. Len(s))
  BY <1>1, FS_Interval
<1>3. Requested(s) \in SUBSET (1 .. Len(s))
  BY <1>1 DEF Requested
<1>4. IsFiniteSet(Requested(s))
  BY <1>2, <1>3, FS_Subset
<1> QED  BY <1>4, FS_CardinalityType

LEMMA RequestedAppend ==
  ASSUME NEW S, NEW s \in Seq(S), NEW d \in S
  PROVE  Cardinality(Requested(Append(s, d))) = Cardinality(Requested(s)) + Weight(d)
<1>1. /\ Append(s, d) \in Seq(S) /\ Len(Append(s, d)) = Len(s) + 1 /\ Len(s) \in Nat
      /\ \A i \in 1 .. Len(s) : Append(s, d)[i] = s[i]
      /\ Append(s, d)[Len(s) + 1] = d
  BY AppendProperties
<1>2. DOMAIN s = 1 .. Len(s) /\ DOMAIN Append(s, d) = 1 .. Len(s) + 1
  BY <1>1, LenProperties
<1> DEFINE last == Len(s) + 1
<1>3. /\ \A i : i \in DOMAIN Append(s, d) <=> i \in DOMAIN s \/ i = last
      /\ last \notin DOMAIN s
  BY <1>1, <1>2
<1>4. /\ \A i \in DOMAIN s : Append(s, d)[i] = s[i]
      /\ Append(s, d)[last] = d
  BY <1>1, <1>2
<1>5. IsFiniteSet(Requested(s)) /\ Cardinality(Requested(s)) \in Nat
  BY RequestedIsCounted
<1> HIDE DEF last
<1>6. CASE IsRequest(Decoded(d))
  <2>1. Requested(Append(s, d)) = Requested(s) \cup {last} /\ last \notin Requested(s)
    BY <1>3, <1>4, <1>6 DEF Requested
  <2> QED  BY <1>5, <1>6, <2>1, FS_AddElement DEF Weight
<1>7. CASE ~IsRequest(Decoded(d))
  <2>1. Requested(Append(s, d)) = Requested(s)
    BY <1>3, <1>4, <1>7 DEF Requested
  <2> QED  BY <1>5, <1>7, <2>1 DEF Weight
<1> QED  BY <1>6, <1>7

LEMMA RequestedTail ==
  ASSUME NEW S, NEW s \in Seq(S), s # <<>>
  PROVE  Cardinality(Requested(Tail(s))) = Cardinality(Requested(s)) - Weight(Head(s))
<1> DEFINE rest == Requested(s) \ {1}
           back == [i \in rest |-> i - 1]
<1>1. /\ Len(s) \in Nat \ {0} /\ DOMAIN s = 1 .. Len(s)
      /\ Tail(s) \in Seq(S) /\ Len(Tail(s)) = Len(s) - 1
      /\ \A i \in 1 .. Len(Tail(s)) : Tail(s)[i] = s[i + 1]
  BY EmptySeq, LenProperties, HeadTailProperties
<1>2. Head(s) = s[1] /\ 1 \in DOMAIN s
  BY <1>1
<1>3. DOMAIN Tail(s) = 1 .. Len(s) - 1
  BY <1>1, LenProperties
<1>4. \A i : i \in rest <=> i - 1 \in Requested(Tail(s)) /\ i \in Int
  <2>1. ASSUME NEW i \in Int
        PROVE  i \in DOMAIN s /\ i # 1 <=> i - 1 \in DOMAIN Tail(s)
    BY <1>1, <1>3
  <2>2. ASSUME NEW i \in Int, i - 1 \in DOMAIN Tail(s)
        PROVE  Tail(s)[i - 1] = s[i]
    <3>1. i - 1 \in 1 .. Len(Tail(s)) /\ (i - 1) + 1 = i
      BY <1>1, <1>3, <2>2
    <3> QED  BY <1>1, <3>1
  <2>3. \A i \in rest : i \in Int
    BY <1>1 DEF Requested
  <2> QED  BY <2>1, <2>2, <2>3 DEF Requested
<1>5. \A k \in Requested(Tail(s)) : k \in Int /\ (k + 1) - 1 = k
  BY <1>1, <1>3 DEF Requested
<1>6. IsFiniteSet(Requested(s)) /\ Cardinality(Requested(s)) \in Nat
  BY RequestedIsCounted
<1>7. /\ IsFiniteSet(rest)
      /\ Cardinality(rest) = Cardinality(Requested(s)) - Weight(Head(s))
  <2>1. 1 \in Requested(s) <=> IsRequest(Decoded(Head(s)))
    BY <1>2 DEF Requested
  <2> QED  BY <1>6, <2>1, FS_RemoveElement DEF Weight
<1> HIDE DEF rest
<1>8. back \in Bijection(rest, Requested(Tail(s)))
  <2>1. back \in [rest -> Requested(Tail(s))]
    BY <1>4
  <2>2. \A i, j \in rest : back[i] = back[j] => i = j
    <3>1. \A i, j \in rest : i \in Int /\ j \in Int
      BY <1>4
    <3> QED  BY <3>1
  <2>3. \A k \in Requested(Tail(s)) : \E i \in rest : back[i] = k
    <3>1. \A k \in Requested(Tail(s)) : k + 1 \in rest /\ back[k + 1] = k
      BY <1>4, <1>5
    <3> QED  BY <3>1
  <2> HIDE DEF back
  <2> QED  BY <2>1, <2>2, <2>3 DEF Bijection, Injection, Surjection, IsInjective
<1>9. Cardinality(Requested(Tail(s))) = Cardinality(rest)
  BY <1>7, <1>8, FS_Bijection DEF ExistsBijection
<1> QED  BY <1>7, <1>9

(* One more of a datagram on its way, and one less. *)
LEMMA OneMoreOnTheWay ==
  ASSUME TypeOK, IsFiniteSet(OnTheWay), NEW d \in Datagrams, net' = Send(d)
  PROVE  /\ IsFiniteSet(OnTheWay') /\ Cardinality(OnTheWay) \in Nat
         /\ Cardinality(OnTheWay') = Cardinality(OnTheWay) + Weight(d)
<1> DEFINE new == <<d, Copies(d) + 1>>
<1>1. /\ Copies(d) \in Nat
      /\ DOMAIN net' = DOMAIN net \cup {d} /\ net'[d] = Copies(d) + 1
      /\ \A e \in DOMAIN net : net[e] \in Nat /\ (e # d => net'[e] = net[e])
      /\ d \in DOMAIN net => net[d] = Copies(d)
  BY DEF Copies, Send, TypeOK
<1>2. Cardinality(OnTheWay) \in Nat
  BY FS_CardinalityType
<1>3. 1 .. Copies(d) + 1 = (1 .. Copies(d)) \cup {Copies(d) + 1}
  BY <1>1
<1>4. d \notin DOMAIN net => Copies(d) = 0 /\ 1 .. Copies(d) = {}
  BY DEF Copies
<1>5. CASE IsRequest(Decoded(d))
  <2>1. OnTheWay' = OnTheWay \cup {new}
    <3>1. ASSUME NEW t \in OnTheWay' PROVE t \in OnTheWay \cup {new}
      <4>1. PICK e, k : e \in DOMAIN net' /\ k \in 1 .. net'[e] /\ t = <<e, k>> /\ IsRequest(Decoded(e))
        BY <3>1 DEF OnTheWay
      <4>2. CASE e = d
        BY <1>1, <1>3, <1>4, <1>5, <4>1, <4>2 DEF OnTheWay
      <4>3. CASE e # d
        BY <1>1, <4>1, <4>3 DEF OnTheWay
      <4> QED  BY <4>2, <4>3
    <3>2. ASSUME NEW t \in OnTheWay PROVE t \in OnTheWay'
      <4>1. PICK e, k : e \in DOMAIN net /\ k \in 1 .. net[e] /\ t = <<e, k>> /\ IsRequest(Decoded(e))
        BY <3>2 DEF OnTheWay
      <4>2. k \in 1 .. net'[e]
        BY <1>1, <1>3, <4>1
      <4> QED  BY <1>1, <4>1, <4>2 DEF OnTheWay
    <3>3. new \in OnTheWay'
      <4>1. Copies(d) + 1 \in 1 .. net'[d]
        BY <1>1
      <4> QED  BY <1>1, <1>5, <4>1 DEF OnTheWay
    <3> QED  BY <3>1, <3>2, <3>3
  <2>2. new \notin OnTheWay
    <3>1. d \in DOMAIN net => Copies(d) + 1 \notin 1 .. net[d]
      BY <1>1
    <3> QED  BY <3>1 DEF OnTheWay
  <2> HIDE DEF new
  <2> QED  BY <1>2, <1>5, <2>1, <2>2, FS_AddElement DEF Weight
<1>6. CASE ~IsRequest(Decoded(d))
  <2>1. OnTheWay' = OnTheWay
    BY <1>1, <1>6 DEF OnTheWay
  <2> QED  BY <1>2, <1>6, <2>1 DEF Weight
<1> QED  BY <1>5, <1>6, <1>2

LEMMA OneLessOnTheWay ==
  ASSUME TypeOK, IsFiniteSet(OnTheWay), NEW d \in DOMAIN net, net' = Remove(d)
  PROVE  /\ IsFiniteSet(OnTheWay') /\ Cardinality(OnTheWay) \in Nat
         /\ Cardinality(OnTheWay') = Cardinality(OnTheWay) - Weight(d)
<1> DEFINE old == <<d, net[d]>>
<1>1. /\ net[d] \in Nat \ {0}
      /\ \A e \in DOMAIN net : e # d => e \in DOMAIN net' /\ net'[e] = net[e]
      /\ \A e \in DOMAIN net' : e \in DOMAIN net
      /\ net[d] > 1 => d \in DOMAIN net' /\ net'[d] = net[d] - 1
      /\ d \in DOMAIN net' => net[d] > 1
  BY DEF Remove, TypeOK
<1>2. Cardinality(OnTheWay) \in Nat
  BY FS_CardinalityType
<1>3. CASE IsRequest(Decoded(d))
  <2>1. OnTheWay' = OnTheWay \ {old}
    <3>1. ASSUME NEW t \in OnTheWay' PROVE t \in OnTheWay \ {old}
      <4>1. PICK e, k : e \in DOMAIN net' /\ k \in 1 .. net'[e] /\ t = <<e, k>> /\ IsRequest(Decoded(e))
        BY <3>1 DEF OnTheWay
      <4>2. CASE e = d
        <5>1. k \in 1 .. net[d] /\ k # net[d]
          BY <1>1, <4>1, <4>2
        <5> QED  BY <1>1, <4>1, <4>2, <5>1 DEF OnTheWay
      <4>3. CASE e # d
        BY <1>1, <4>1, <4>3 DEF OnTheWay
      <4> QED  BY <4>2, <4>3
    <3>2. ASSUME NEW t \in OnTheWay \ {old} PROVE t \in OnTheWay'
      <4>1. PICK e, k : e \in DOMAIN net /\ k \in 1 .. net[e] /\ t = <<e, k>> /\ IsRequest(Decoded(e))
        BY <3>2 DEF OnTheWay
      <4>2. CASE e = d
        <5>1. k # net[d]
          BY <3>2, <4>1, <4>2
        <5>2. net[d] > 1 /\ k \in 1 .. net[d] - 1
          BY <1>1, <4>1, <4>2, <5>1
        <5> QED  BY <1>1, <1>3, <4>1, <4>2, <5>2 DEF OnTheWay
      <4>3. CASE e # d
        BY <1>1, <4>1, <4>3 DEF OnTheWay
      <4> QED  BY <4>2, <4>3
    <3> QED  BY <3>1, <3>2
  <2>2. old \in OnTheWay
    <3>1. net[d] \in 1 .. net[d]
      BY <1>1
    <3> QED  BY <1>3, <3>1 DEF OnTheWay
  <2> HIDE DEF old
  <2> QED  BY <1>2, <1>3, <2>1, <2>2, FS_RemoveElement DEF Weight
<1>4. CASE ~IsRequest(Decoded(d))
  <2>1. OnTheWay' = OnTheWay
    <3>1. \A e \in DOMAIN net : IsRequest(Decoded(e)) => e # d
      BY <1>4
    <3> QED  BY <1>1, <3>1 DEF OnTheWay
  <2> QED  BY <1>2, <1>4, <2>1 DEF Weight
<1> QED  BY <1>3, <1>4, <1>2

CountsAreNumbers ==
  /\ replies \in Nat /\ duplicated \in Nat /\ InHand \in Nat
  /\ Cardinality(OnTheWay) \in Nat /\ Cardinality(SentRequests) \in Nat
  /\ Cardinality(Requested(inbox[Server])) \in Nat /\ Cardinality(Requested(strange)) \in Nat

CountsAreTyped ==
  /\ inbox[Server] \in Seq(Datagrams) /\ strange \in Seq(Strange)
  /\ CountsAreNumbers

LEMMA CountsHaveTypes ==
  ASSUME TypeOK, Counted
  PROVE  CountsAreTyped
<1>1. Server \in Processes
  BY DEF Processes
<1>2. /\ replies \in Nat /\ duplicated \in Nat /\ InHand \in Nat
      /\ inbox[Server] \in Seq(Datagrams) /\ strange \in Seq(Strange)
  BY <1>1 DEF TypeOK, InHand
<1> QED  BY <1>2, RequestedIsCounted, FS_CardinalityType DEF Counted, CountsAreTyped, CountsAreNumbers

(* A client's request is one more that was sent. *)
LEMMA OneMoreSent ==
  ASSUME TypeOK, IsFiniteSet(SentRequests), NEW c \in Clients, send_request(c)
  PROVE  /\ IsFiniteSet(SentRequests')
         /\ Cardinality(SentRequests') = Cardinality(SentRequests) + 1
<1> DEFINE h == Host[c]
           n == Len(requests[h]) + 1
           new == <<h, n>>
<1>1. h \in Hosts /\ now \in Times /\ requests \in [Hosts -> Seq(Times)]
  BY HostsHaveAddresses DEF TypeOK
<1>2. requests' = [requests EXCEPT ![h] = Append(@, now)]
  BY DEF send_request
<1> HIDE DEF h
<1>3. requests[h] \in Seq(Times) /\ requests'[h] = Append(requests[h], now)
  BY <1>1, <1>2
<1>4. /\ Append(requests[h], now) \in Seq(Times)
      /\ Len(Append(requests[h], now)) = n /\ n - 1 \in Nat /\ Len(requests[h]) = n - 1
  BY <1>1, <1>3, AppendProperties, LenProperties
<1>5. /\ \A i : i \in DOMAIN requests'[h] <=> i \in DOMAIN requests[h] \/ i = n
      /\ n \notin DOMAIN requests[h]
  <2>1. DOMAIN requests[h] = 1 .. n - 1
    BY <1>3, <1>4, LenProperties
  <2>2. DOMAIN requests'[h] = 1 .. n
    BY <1>3, <1>4, LenProperties
  <2> HIDE DEF n
  <2> QED  BY <1>4, <2>1, <2>2
<1>6. \A g \in Hosts : g # h => requests'[g] = requests[g]
  BY <1>1, <1>2
<1> HIDE DEF n
<1>7. SentRequests' = SentRequests \cup {new}
  <2>1. ASSUME NEW r \in SentRequests' PROVE r \in SentRequests \cup {new}
    <3>1. PICK g, i : g \in Hosts /\ i \in DOMAIN requests'[g] /\ r = <<g, i>>
      BY <2>1 DEF SentRequests
    <3>2. CASE g = h
      BY <1>1, <1>5, <3>1, <3>2 DEF SentRequests
    <3>3. CASE g # h
      BY <1>6, <3>1, <3>3 DEF SentRequests
    <3> QED  BY <3>2, <3>3
  <2>2. ASSUME NEW r \in SentRequests PROVE r \in SentRequests'
    <3>1. PICK g, i : g \in Hosts /\ i \in DOMAIN requests[g] /\ r = <<g, i>>
      BY <2>2 DEF SentRequests
    <3>2. i \in DOMAIN requests'[g]
      BY <1>5, <1>6, <3>1
    <3> QED  BY <3>1, <3>2 DEF SentRequests
  <2>3. new \in SentRequests'
    BY <1>1, <1>5 DEF SentRequests
  <2> QED  BY <2>1, <2>2, <2>3
<1>8. new \notin SentRequests
  BY <1>5 DEF SentRequests
<1> HIDE DEF new
<1> QED  BY <1>7, <1>8, FS_AddElement, FS_CardinalityType

(* The server's replies are not requests. *)
LEMMA ReplyIsNoRequest ==
  ASSUME IInv, send_reply
  PROVE  \E d \in Datagrams : net' = Send(d) /\ Weight(d) = 0
<1>1. TypeOK /\ job # None /\ ServerHost \in Addresses
  BY HostsHaveAddresses DEF IInv, send_reply
<1>2. PICK ep, identifier, number, s1 :
        /\ ep = job.ep /\ identifier = job.identifier
        /\ number = job.sequence_number /\ s1 = job.data
  OBVIOUS
<1>3. ep \in Addresses /\ identifier \in Word /\ number \in Word /\ s1 \in Stamps
  BY <1>1, <1>2 DEF TypeOK
<1>4. now \in Times /\ now' \in Times
  <2>1. now \in Times /\ now \in Nat
    BY <1>1, ConstantsAreTyped DEF TypeOK
  <2>2. now' \in {now, now + 1} /\ now' <= MaxTime
    BY DEF send_reply
  <2>3. now' \in Nat
    BY <2>1, <2>2
  <2> QED  BY <2>1, <2>2, <2>3, ConstantsAreTyped
<1>5. PICK s2, s3 : s2 = TimeOfDay(now) /\ s3 = TimeOfDay(now')
  OBVIOUS
<1>6. PICK header, data, d :
        /\ header = [type |-> timestamp_reply, identifier |-> identifier, sequence_number |-> number]
        /\ data = <<s1, s2, s3>>
        /\ d = Datagram(ServerHost, ep, icmp_encode(header, data))
        /\ net' = Send(d)
  BY <1>2, <1>5 DEF send_reply, ReplyHeader, ReplyData
<1>7. s1 \in Word \X Word /\ s2 \in Word \X Word /\ s3 \in Word \X Word
  BY <1>3, <1>4, <1>5, StampsAreWords
<1>8. data \in Seq(Word \X Word) /\ Len(data) \in {1, 3}
  BY <1>6, <1>7
<1>9. header \in Headers
  BY <1>3, <1>6 DEF Headers, timestamp_reply
<1>10. Arrives(d, ServerHost, ep, header, data)
  BY <1>1, <1>3, <1>6, <1>8, <1>9, MessageArrives, Zenon
<1>11. d \in Datagrams /\ Decoded(d).header.type = timestamp_reply
  BY <1>6, <1>10 DEF Arrives
<1> QED  BY <1>6, <1>11 DEF Weight, IsRequest, timestamp_request, timestamp_reply

LEMMA BudgetStays ==
  ASSUME IInv, Counted, Budget,
         UNCHANGED <<replies, net, inbox[Server], job, requests, duplicated, strange>>
  PROVE  Counted' /\ Budget'
BY DEF Counted, Budget, OnTheWay, InHand, SentRequests

LEMMA StepsKeepBudget == IInv /\ Counted /\ Budget /\ [Next]_vars => Counted' /\ Budget'
<1> SUFFICES ASSUME IInv, Counted, Budget, [Next]_vars
             PROVE  Counted' /\ Budget'
  OBVIOUS
<1>1. TypeOK /\ CountsAreTyped /\ CountsAreNumbers /\ Server \in Processes
  BY CountsHaveTypes DEF IInv, Processes, CountsAreTyped
<1>2. CASE \E c \in Clients : send_request(c)
  <2>1. PICK c \in Clients : send_request(c)
    BY <1>2
  <2>2. UNCHANGED <<replies, inbox, job, duplicated, strange>>
    BY <2>1 DEF send_request
  <2>3. PICK d : d = Datagram(Host[c], ServerHost, icmp_encode(RequestHeader, <<TimeOfDay(now)>>)) /\ net' = Send(d)
    BY <2>1 DEF send_request
  <2>4. d \in Datagrams
    <3>1. PICK s, data : s = TimeOfDay(now) /\ data = <<s>>
      OBVIOUS
    <3>2. s \in Word \X Word
      BY <1>1, <3>1, TimesAreWords DEF TypeOK
    <3>3. data \in Seq(Word \X Word) /\ Len(data) \in {1, 3}
      BY <3>1, <3>2
    <3>4. d = Datagram(Host[c], ServerHost, icmp_encode(RequestHeader, data))
      BY <2>3, <3>1
    <3>5. Arrives(d, Host[c], ServerHost, RequestHeader, data)
      BY <3>3, <3>4, HostsHaveAddresses, ConstantsAreTyped, MessageArrives, Zenon
    <3> QED  BY <3>5 DEF Arrives
  <2>5. /\ IsFiniteSet(OnTheWay') /\ Cardinality(OnTheWay) \in Nat
        /\ Cardinality(OnTheWay') = Cardinality(OnTheWay) + Weight(d)
    BY <1>1, <2>3, <2>4, OneMoreOnTheWay DEF Counted
  <2>6. /\ IsFiniteSet(SentRequests')
        /\ Cardinality(SentRequests') = Cardinality(SentRequests) + 1
    BY <1>1, <2>1, OneMoreSent DEF Counted
  <2>7. Budget'
    <3>1. /\ Weight(d) \in {0, 1} /\ InHand' = InHand
          /\ replies' = replies
          /\ Cardinality(Requested(inbox'[Server])) = Cardinality(Requested(inbox[Server]))
          /\ duplicated' = duplicated
          /\ Cardinality(Requested(strange')) = Cardinality(Requested(strange))
      BY <2>2 DEF Weight, InHand
    <3> QED  BY <1>1, <2>5, <2>6, <3>1, SMT DEF Budget, CountsAreNumbers
  <2> QED  BY <2>5, <2>6, <2>7 DEF Counted
<1>3. CASE (\E c \in Clients : receive_reply(c) \/ GiveUp(c)) \/ Tick \/ UNCHANGED vars
  <2>1. UNCHANGED <<replies, net, job, requests, duplicated, strange>>
    BY <1>3 DEF receive_reply, GiveUp, Tick, vars, counts
  <2>2. inbox'[Server] = inbox[Server]
    <3>1. Server \notin Clients
      BY IcmpAssumption
    <3>2. inbox \in [Processes -> Seq(Datagrams)]
      BY <1>1 DEF TypeOK
    <3> QED  BY <1>1, <1>3, <3>1, <3>2 DEF receive_reply, GiveUp, Tick, vars, counts
  <2> QED  BY <2>1, <2>2, BudgetStays
<1>4. CASE receive_request
  <2>1. UNCHANGED <<replies, net, requests, duplicated, strange>>
    BY <1>4 DEF receive_request, counts
  <2>2. inbox[Server] # <<>> /\ job = None /\ inbox'[Server] = Tail(inbox[Server])
    BY <1>1, <1>4 DEF receive_request, TypeOK
  <2>3. Cardinality(Requested(inbox'[Server]))
        = Cardinality(Requested(inbox[Server])) - Weight(Head(inbox[Server]))
    BY <1>1, <2>2, RequestedTail DEF CountsAreTyped
  <2>4. InHand = 0 /\ InHand' <= Weight(Head(inbox[Server])) /\ InHand' \in {0, 1}
    BY <1>4, <2>2 DEF receive_request, InHand, Weight, Decoded
  <2>5. Counted'
    BY <2>1 DEF Counted, OnTheWay, SentRequests
  <2>6. OnTheWay' = OnTheWay /\ SentRequests' = SentRequests /\ Weight(Head(inbox[Server])) \in {0, 1}
    BY <2>1 DEF OnTheWay, SentRequests, Weight
  <2>7. Budget'
    <3>1. /\ replies' = replies
          /\ Cardinality(OnTheWay') = Cardinality(OnTheWay)
          /\ Cardinality(SentRequests') = Cardinality(SentRequests)
          /\ duplicated' = duplicated
          /\ Cardinality(Requested(strange')) = Cardinality(Requested(strange))
      BY <2>1, <2>6
    <3> QED  BY <1>1, <3>1, <2>3, <2>4, <2>6, SMT DEF Budget, CountsAreNumbers
  <2> QED  BY <2>5, <2>7
<1>5. CASE send_reply
  <2>1. UNCHANGED <<inbox, requests, duplicated, strange>> /\ replies' = replies + 1 /\ job # None /\ job' = None
    BY <1>5 DEF send_reply
  <2>2. PICK d \in Datagrams : net' = Send(d) /\ Weight(d) = 0
    BY <1>5, ReplyIsNoRequest
  <2>3. IsFiniteSet(OnTheWay') /\ Cardinality(OnTheWay') = Cardinality(OnTheWay) + Weight(d)
    BY <1>1, <2>2, OneMoreOnTheWay DEF Counted
  <2>4. SentRequests' = SentRequests /\ InHand = 1 /\ InHand' = 0
    BY <2>1 DEF SentRequests, InHand
  <2>5. Counted'
    BY <2>3, <2>4 DEF Counted
  <2>6. Budget'
    <3>1. /\ Cardinality(Requested(inbox'[Server])) = Cardinality(Requested(inbox[Server]))
          /\ Cardinality(SentRequests') = Cardinality(SentRequests)
          /\ duplicated' = duplicated
          /\ Cardinality(Requested(strange')) = Cardinality(Requested(strange))
      BY <2>1, <2>4
    <3> QED  BY <1>1, <3>1, <2>1, <2>2, <2>3, <2>4, SMT DEF Budget, CountsAreNumbers
  <2> QED  BY <2>5, <2>6
<1>6. CASE ServerEnds
  <2>1. UNCHANGED <<replies, net, requests, duplicated, strange>> /\ job' = None
    BY <1>6 DEF ServerEnds, counts
  <2>2. inbox'[Server] = <<>>
    BY <1>1, <1>6 DEF ServerEnds, TypeOK
  <2>3. Cardinality(Requested(inbox'[Server])) = 0
    <3>1. <<>> \in Seq(Datagrams) /\ Len(<<>>) = 0
      BY EmptySeq
    <3>2. DOMAIN <<>> = {}
      BY <3>1, LenProperties
    <3>3. Requested(inbox'[Server]) = {}
      BY <2>2, <3>2 DEF Requested
    <3> QED  BY <3>3, FS_EmptySet
  <2>4. OnTheWay' = OnTheWay /\ SentRequests' = SentRequests /\ InHand' = 0 /\ InHand \in {0, 1}
    BY <2>1 DEF OnTheWay, SentRequests, InHand
  <2>5. Budget'
    <3>1. /\ replies' = replies
          /\ Cardinality(OnTheWay') = Cardinality(OnTheWay)
          /\ Cardinality(SentRequests') = Cardinality(SentRequests)
          /\ duplicated' = duplicated
          /\ Cardinality(Requested(strange')) = Cardinality(Requested(strange))
      BY <2>1, <2>4
    <3> QED  BY <1>1, <3>1, <2>3, <2>4, SMT DEF Budget, CountsAreNumbers
  <2> QED  BY <2>4, <2>5 DEF Counted
<1>7. CASE DeliverAny
  <2>1. PICK d \in DOMAIN net : Deliver(d)
    BY <1>7 DEF DeliverAny
  <2>2. UNCHANGED <<replies, job, requests, duplicated, strange>> /\ net' = Remove(d)
    BY <2>1 DEF Deliver, counts
  <2>3. /\ IsFiniteSet(OnTheWay')
        /\ Cardinality(OnTheWay') = Cardinality(OnTheWay) - Weight(d)
    BY <1>1, <2>2, OneLessOnTheWay DEF Counted
  <2>4. \/ Cardinality(Requested(inbox'[Server])) = Cardinality(Requested(inbox[Server]))
        \/ Cardinality(Requested(inbox'[Server])) = Cardinality(Requested(inbox[Server])) + Weight(d)
    <3>1. inbox'[Server] \in {inbox[Server], Append(inbox[Server], d)}
      BY <1>1, <2>1 DEF Deliver
    <3>2. d \in Datagrams /\ inbox[Server] \in Seq(Datagrams)
      BY <1>1 DEF TypeOK, CountsAreTyped
    <3> QED  BY <3>1, <3>2, RequestedAppend
  <2>5. SentRequests' = SentRequests /\ InHand' = InHand /\ Weight(d) \in {0, 1}
    BY <2>2 DEF SentRequests, InHand, Weight
  <2>6. Budget'
    <3>1. /\ replies' = replies
          /\ InHand' = InHand
          /\ Cardinality(SentRequests') = Cardinality(SentRequests)
          /\ duplicated' = duplicated
          /\ Cardinality(Requested(strange')) = Cardinality(Requested(strange))
      BY <2>2, <2>5
    <3> QED  BY <1>1, <3>1, <2>3, <2>4, <2>5, SMT DEF Budget, CountsAreNumbers
  <2> QED  BY <2>3, <2>5, <2>6 DEF Counted
<1>8. CASE \E d \in DOMAIN net : Lose(d)
  <2>1. PICK d \in DOMAIN net : Lose(d)
    BY <1>8
  <2>2. UNCHANGED <<replies, inbox, job, requests, duplicated, strange>> /\ net' = Remove(d)
    BY <2>1 DEF Lose
  <2>3. /\ IsFiniteSet(OnTheWay')
        /\ Cardinality(OnTheWay') = Cardinality(OnTheWay) - Weight(d)
    BY <1>1, <2>2, OneLessOnTheWay DEF Counted
  <2>4. SentRequests' = SentRequests /\ InHand' = InHand /\ Weight(d) \in {0, 1}
    BY <2>2 DEF SentRequests, InHand, Weight
  <2>5. Budget'
    <3>1. /\ replies' = replies
          /\ Cardinality(Requested(inbox'[Server])) = Cardinality(Requested(inbox[Server]))
          /\ InHand' = InHand
          /\ Cardinality(SentRequests') = Cardinality(SentRequests)
          /\ duplicated' = duplicated
          /\ Cardinality(Requested(strange')) = Cardinality(Requested(strange))
      BY <2>2, <2>4
    <3> QED  BY <1>1, <3>1, <2>3, <2>4, SMT DEF Budget, CountsAreNumbers
  <2> QED  BY <2>3, <2>4, <2>5 DEF Counted
<1>9. CASE \E d \in DOMAIN net : Duplicate(d)
  <2>1. PICK d \in DOMAIN net : Duplicate(d)
    BY <1>9
  <2>2. /\ UNCHANGED <<replies, inbox, job, requests, strange>>
        /\ net' = Send(d) /\ duplicated' = duplicated + 1 /\ d \in Datagrams
    BY <1>1, <2>1 DEF Duplicate, TypeOK
  <2>3. /\ IsFiniteSet(OnTheWay')
        /\ Cardinality(OnTheWay') = Cardinality(OnTheWay) + Weight(d)
    BY <1>1, <2>2, OneMoreOnTheWay DEF Counted
  <2>4. SentRequests' = SentRequests /\ InHand' = InHand /\ Weight(d) \in {0, 1}
    BY <2>2 DEF SentRequests, InHand, Weight
  <2>5. Budget'
    <3>1. /\ replies' = replies
          /\ Cardinality(Requested(inbox'[Server])) = Cardinality(Requested(inbox[Server]))
          /\ InHand' = InHand
          /\ Cardinality(SentRequests') = Cardinality(SentRequests)
          /\ Cardinality(Requested(strange')) = Cardinality(Requested(strange))
      BY <2>2, <2>4
    <3> QED  BY <1>1, <3>1, <2>2, <2>3, <2>4, SMT DEF Budget, CountsAreNumbers
  <2> QED  BY <2>3, <2>4, <2>5 DEF Counted
<1>10. CASE \E d \in Strange : Intrude(d)
  <2>1. PICK d \in Strange : Intrude(d)
    BY <1>10
  <2>2. /\ UNCHANGED <<replies, inbox, job, requests, duplicated>>
        /\ net' = Send(d) /\ strange' = Append(strange, d) /\ d \in Datagrams
    BY <2>1, StrangeAssumption DEF Intrude
  <2>3. /\ IsFiniteSet(OnTheWay')
        /\ Cardinality(OnTheWay') = Cardinality(OnTheWay) + Weight(d)
    BY <1>1, <2>2, OneMoreOnTheWay DEF Counted
  <2>4. Cardinality(Requested(strange')) = Cardinality(Requested(strange)) + Weight(d)
    BY <1>1, <2>1, <2>2, RequestedAppend DEF CountsAreTyped
  <2>5. SentRequests' = SentRequests /\ InHand' = InHand /\ Weight(d) \in {0, 1}
    BY <2>2 DEF SentRequests, InHand, Weight
  <2>6. Budget'
    <3>1. /\ replies' = replies
          /\ Cardinality(Requested(inbox'[Server])) = Cardinality(Requested(inbox[Server]))
          /\ InHand' = InHand
          /\ Cardinality(SentRequests') = Cardinality(SentRequests)
          /\ duplicated' = duplicated
      BY <2>2, <2>5
    <3> QED  BY <1>1, <3>1, <2>3, <2>4, <2>5, SMT DEF Budget, CountsAreNumbers
  <2> QED  BY <2>3, <2>5, <2>6 DEF Counted
<1> QED  BY <1>2, <1>3, <1>4, <1>5, <1>6, <1>7, <1>8, <1>9, <1>10 DEF Next

LEMMA InitIsWithinBudget == Init => Counted /\ Budget
<1> SUFFICES ASSUME Init PROVE Counted /\ Budget
  OBVIOUS
<1>1. /\ net = <<>> /\ job = None /\ replies = 0 /\ duplicated = 0 /\ strange = <<>>
      /\ requests = [h \in Hosts |-> <<>>] /\ inbox[Server] = <<>>
  BY DEF Init, Processes
<1>2. DOMAIN <<>> = {}
  <2>1. <<>> \in Seq(Datagrams) /\ Len(<<>>) = 0
    BY EmptySeq
  <2> QED  BY <2>1, LenProperties
<1>3. OnTheWay = {} /\ SentRequests = {} /\ Requested(inbox[Server]) = {} /\ Requested(strange) = {}
  BY <1>1, <1>2 DEF OnTheWay, SentRequests, Requested
<1>4. IsFiniteSet({}) /\ Cardinality({}) = 0
  BY FS_EmptySet
<1>5. Counted
  BY <1>3, <1>4 DEF Counted
<1>6. Budget
  <2>1. /\ Cardinality(OnTheWay) = 0 /\ Cardinality(SentRequests) = 0
        /\ Cardinality(Requested(inbox[Server])) = 0 /\ Cardinality(Requested(strange)) = 0
    BY <1>3, <1>4, Zenon
  <2>2. InHand = 0 /\ replies = 0 /\ duplicated = 0
    BY <1>1 DEF InHand
  <2> QED  BY <2>1, <2>2 DEF Budget
<1> QED  BY <1>5, <1>6

-----------------------------------------------------------------------------
(* The theorems. *)

LEMMA InitIsSound == Init => IInv
<1> SUFFICES ASSUME Init PROVE IInv
  OBVIOUS
<1>1. /\ now = 0 /\ running = {Server} /\ inbox = [p \in Processes |-> <<>>] /\ net = <<>>
      /\ job = None /\ told = [c \in Clients |-> None]
      /\ requests = [h \in Hosts |-> <<>>] /\ given = [h \in Hosts |-> {}]
      /\ replies = 0 /\ duplicated = 0 /\ strange = <<>> /\ lost = FALSE
  BY DEF Init
<1>2. DOMAIN net = {}
  <2>1. net \in Seq(Nat) /\ Len(net) = 0
    BY <1>1, EmptySeq
  <2> QED  BY <2>1, LenProperties
<1>3. \A p \in Processes : inbox[p] \in Seq(Datagrams) /\ Range(inbox[p]) = {}
  <2>1. <<>> \in Seq(Datagrams) /\ Len(<<>>) = 0
    BY EmptySeq
  <2>2. DOMAIN <<>> = {}
    BY <2>1, LenProperties
  <2>3. Range(<<>>) = {}
    BY <2>2 DEF Range
  <2> QED  BY <1>1, <2>1, <2>3
<1>4. TypeOK
  <2>1. now \in Times /\ 0 \in 0 .. MaxNoise /\ Server \in Processes
    BY <1>1, ConstantsAreTyped DEF Processes
  <2>2. requests \in [Hosts -> Seq(Times)] /\ strange \in Seq(Strange)
    BY <1>1, EmptySeq
  <2>3. inbox \in [Processes -> Seq(Datagrams)]
    BY <1>1, EmptySeq
  <2> QED  BY <1>1, <1>2, <1>3, <2>1, <2>2, <2>3 DEF TypeOK
<1>5. EverythingIsSound /\ JobIsSound
  BY <1>1, <1>2, <1>3 DEF EverythingIsSound, Everywhere, JobIsSound
<1> QED  BY <1>4, <1>5 DEF IInv

LEMMA StepsKeep == IInv /\ [Next]_vars => IInv'
<1> SUFFICES ASSUME IInv, [Next]_vars PROVE IInv'
  OBVIOUS
<1>1. CASE \E c \in Clients : send_request(c)
  BY <1>1, SendRequestKeeps
<1>2. CASE \E c \in Clients : receive_reply(c)
  BY <1>2, ReceiveReplyKeeps
<1>3. CASE (\E c \in Clients : GiveUp(c)) \/ ServerEnds
  BY <1>3, EndingKeeps
<1>4. CASE receive_request
  BY <1>4, ReceiveRequestKeeps
<1>5. CASE send_reply
  BY <1>5, SendReplyKeeps
<1>6. CASE DeliverAny
  BY <1>6, DeliverKeeps DEF DeliverAny
<1>7. CASE \E d \in DOMAIN net : Lose(d)
  BY <1>7, LoseKeeps
<1>8. CASE \E d \in DOMAIN net : Duplicate(d)
  BY <1>8, DuplicateKeeps
<1>9. CASE \E d \in Strange : Intrude(d)
  BY <1>9, IntrudeKeeps
<1>10. CASE Tick \/ UNCHANGED vars
  BY <1>10, TimeKeeps
<1> QED  BY <1>1, <1>2, <1>3, <1>4, <1>5, <1>6, <1>7, <1>8, <1>9, <1>10 DEF Next

(* What is on its way, or waits in a socket, is sound: the network may lose,
   repeat and reorder it, and clients may come and go.                      *)
THEOREM InvariantHolds == Spec => []IInv
BY InitIsSound, StepsKeep, PTL DEF Spec

(* Every variable keeps its type, whatever strangers send: what a client prints is
   a time of the day, or an uint32_t that nobody has written or a stranger has. *)
THEOREM TypeCorrect == Spec => []TypeOK
<1>1. IInv => TypeOK
  BY DEF IInv
<1> QED  BY <1>1, InvariantHolds, PTL

(* A reply repeats a stamp of its addressee's requests. *)
THEOREM RepliesAreEchoes == Spec => []RepliesEcho
<1>1. IInv => RepliesEcho
  <2> SUFFICES ASSUME IInv, strange = <<>>, NEW d \in DOMAIN net, d.from = ServerHost
               PROVE  Data(icmp_decode(d.words), 1) \subseteq RequestStamps(d.to)
    BY DEF RepliesEcho
  <2>1. FromClient(d) \/ FromServer(d)
    BY DEF IInv, EverythingIsSound, Everywhere, Sound
  <2>2. CASE FromClient(d)
    BY <2>2 DEF FromClient, Decoded
  <2>3. CASE FromServer(d)
    BY <2>3 DEF FromServer, Decoded
  <2> QED  BY <2>1, <2>2, <2>3
<1> QED  BY <1>1, InvariantHolds, PTL

(* The programs put a checksum into their messages that verifies. *)
THEOREM MessagesVerify == Spec => []ChecksumsVerify
<1>1. IInv => ChecksumsVerify
  BY DEF IInv, EverythingIsSound, Everywhere, Sound, ChecksumsVerify
<1> QED  BY <1>1, InvariantHolds, PTL

(* The server's replies never outnumber the requests that clients, strangers and
   the network have made: there is one less on the way, in its socket or in its
   hands for each.                                                          *)
THEOREM RepliesAreBounded == Spec => []NoAmplification
<1>1. Init => Counted /\ Budget
  BY InitIsWithinBudget
<1>2. IInv /\ (Counted /\ Budget) /\ [Next]_vars => (Counted /\ Budget)'
  BY StepsKeepBudget
<1>3. IInv /\ (Counted /\ Budget) => NoAmplification
  <2> SUFFICES ASSUME IInv, Counted, Budget PROVE NoAmplification
    OBVIOUS
  <2>1. CountsAreTyped
    BY CountsHaveTypes DEF IInv
  <2>2. StrangeRequests = Requested(strange)
    BY DEF StrangeRequests, Requested, IsRequest, Decoded
  <2> QED  BY <2>1, <2>2 DEF NoAmplification, Budget, CountsAreTyped, CountsAreNumbers
<1> QED  BY <1>1, <1>2, <1>3, InvariantHolds, PTL DEF Spec

-----------------------------------------------------------------------------
(* The programs are a TimeService. *)

Waiting == running \ {Server}
Asked == {h \in DOMAIN requests : requests[h] # <<>>}
Quiet == UNCHANGED <<now, Waiting, Asked, given, told, strange>>

LEMMA QuietIsStuttering ==
  ASSUME Quiet
  PROVE  [Service!Next]_(Service!serviceVars)
BY DEF Quiet, Waiting, Asked, Service!serviceVars

LEMMA InitIsService == Init => Service!Init
<1> SUFFICES ASSUME Init PROVE Service!Init
  OBVIOUS
<1>1. running \ {Server} = {} /\ {h \in DOMAIN requests : requests[h] # <<>>} = {}
  BY DEF Init
<1> QED  BY <1>1 DEF Init, Service!Init, Hosts

LEMMA SendRequestAsks ==
  ASSUME IInv, NEW c \in Clients, send_request(c)
  PROVE  Service!Ask(c)
<1>1. c # Server /\ c \notin running /\ running' = running \cup {c}
  <2>1. c # Server
    BY IcmpAssumption
  <2> QED  BY <2>1 DEF send_request
<1>2. requests \in [Hosts -> Seq(Times)] /\ Host[c] \in Hosts /\ now \in Times
  BY HostsHaveAddresses DEF IInv, TypeOK
<1>3. requests' = [requests EXCEPT ![Host[c]] = Append(@, now)]
  BY DEF send_request
<1>4. requests'[Host[c]] # <<>>
  <2>1. requests[Host[c]] \in Seq(Times) /\ requests'[Host[c]] = Append(requests[Host[c]], now)
    BY <1>2, <1>3
  <2>2. Len(requests'[Host[c]]) = Len(requests[Host[c]]) + 1 /\ Len(requests[Host[c]]) \in Nat
    BY <1>2, <2>1, AppendProperties, LenProperties
  <2> QED  BY <2>2, EmptySeq
<1>5. {h \in DOMAIN requests' : requests'[h] # <<>>}
      = {h \in DOMAIN requests : requests[h] # <<>>} \cup {Host[c]}
  <2>1. DOMAIN requests' = Hosts /\ DOMAIN requests = Hosts
    BY <1>2, <1>3
  <2>2. \A h \in Hosts : h # Host[c] => requests'[h] = requests[h]
    BY <1>2, <1>3
  <2> QED  BY <1>2, <1>4, <2>1, <2>2
<1>6. running' \ {Server} = (running \ {Server}) \cup {c} /\ c \notin running \ {Server}
  BY <1>1
<1>7. told' = [told EXCEPT ![c] = None] /\ UNCHANGED <<now, given, strange>>
  BY DEF send_request
<1> QED  BY <1>5, <1>6, <1>7 DEF Service!Ask

(* What a client prints are two stamps of one reply to its host. *)
LEMMA ReceiveReplyTells ==
  ASSUME IInv, NEW c \in Clients, receive_reply(c)
  PROVE  Service!Tell(c) \/ Quiet
<1> DEFINE packet == Head(inbox[c])
           d == Decoded(packet)
<1>1. c \in Processes /\ c # Server /\ c \in running /\ inbox[c] # <<>> /\ TypeOK
  <2>1. c # Server
    BY IcmpAssumption
  <2> QED  BY <2>1 DEF receive_reply, Processes, IInv
<1>2. UNCHANGED <<now, net, requests, given, strange>>
  BY DEF receive_reply, counts
<1>3. Sound(packet) /\ packet.to = Host[c]
  <2>1. inbox[c] \in Seq(Datagrams)
    BY <1>1 DEF TypeOK
  <2>2. packet \in Range(inbox[c])
    BY <1>1, <2>1, RangeOfTail
  <2>3. packet.to = Address(c) /\ Address(c) = Host[c]
    BY <1>1, <2>2, HostsHaveAddresses DEF TypeOK
  <2> QED  BY <1>1, <2>3, HeadIsSound
<1> HIDE DEF packet
<1>4. \/ /\ IsMyReply(d) /\ running' = running \ {c}
         /\ \E ts1 \in Data(d, 2), ts2 \in Data(d, 3) : told' = [told EXCEPT ![c] = <<ts1, ts2>>]
      \/ UNCHANGED <<running, told>>
  BY DEF receive_reply, Decoded, packet
<1>5. CASE UNCHANGED <<running, told>>
  BY <1>2, <1>5 DEF Quiet, Waiting, Asked
<1>6. CASE /\ IsMyReply(d) /\ running' = running \ {c}
           /\ \E ts1 \in Data(d, 2), ts2 \in Data(d, 3) : told' = [told EXCEPT ![c] = <<ts1, ts2>>]
  <2>1. PICK ts1 \in Data(d, 2), ts2 \in Data(d, 3) : told' = [told EXCEPT ![c] = <<ts1, ts2>>]
    BY <1>6
  <2>2. /\ c \in running \ {Server}
        /\ running' \ {Server} = (running \ {Server}) \ {c}
    BY <1>1, <1>6
  <2>3. \/ \E t \in given[Host[c]] :
             told' = [told EXCEPT ![c] = <<TimeOfDay(t[1]), TimeOfDay(t[2])>>]
        \/ strange # <<>> /\ \A v \in Clients \ {c} : told'[v] = told[v]
    <3>1. CASE strange = <<>>
      <4>1. FromClient(packet) \/ FromServer(packet)
        BY <1>3, <3>1 DEF Sound
      <4>2. ~FromClient(packet)
        BY <1>6 DEF FromClient, IsMyReply, timestamp_request, timestamp_reply
      <4>3. PICK t \in given[packet.to] : Data(d, 2) = {TimeOfDay(t[1])} /\ Data(d, 3) = {TimeOfDay(t[2])}
        BY <4>1, <4>2 DEF FromServer
      <4>4. ts1 = TimeOfDay(t[1]) /\ ts2 = TimeOfDay(t[2])
        BY <4>3
      <4> QED  BY <1>3, <2>1, <4>4
    <3>2. CASE strange # <<>>
      BY <1>1, <2>1, <3>2 DEF TypeOK
    <3> QED  BY <3>1, <3>2
  <2> QED  BY <1>2, <2>2, <2>3 DEF Service!Tell
<1> QED  BY <1>4, <1>5, <1>6

(* The server gives its stamps to a host that has asked. *)
LEMMA SendReplyGives ==
  ASSUME IInv, send_reply
  PROVE  \/ \E h \in DOMAIN given : Service!Give(h)
         \/ Service!Pass
         \/ Quiet
<1>1. TypeOK /\ JobIsSound /\ job # None /\ given \in [Hosts -> SUBSET (Times \X Times)]
  BY DEF IInv, send_reply, TypeOK
<1>2. UNCHANGED <<running, told, requests, strange>>
  BY DEF send_reply
<1>3. now \in Nat /\ (now' = now \/ now' = now + 1)
  BY <1>1, ConstantsAreTyped DEF send_reply, TypeOK
<1>4. given' = [h \in Hosts |-> IF h = job.ep THEN given[h] \cup {<<now, now'>>} ELSE given[h]]
  BY <1>1 DEF send_reply
<1>5. CASE job.ep \in Hosts
  <2>1. PICK h \in Hosts : h = job.ep
    BY <1>5
  <2>2. given' = [given EXCEPT ![h] = @ \cup {<<now, now'>>}]
    BY <1>1, <1>4, <2>1
  <2>3. h \in {g \in DOMAIN requests : requests[g] # <<>>} \/ strange # <<>>
    <3> SUFFICES ASSUME strange = <<>>
                 PROVE  h \in DOMAIN requests /\ requests[h] # <<>>
      OBVIOUS
    <3>1. job.data \in RequestStamps(h) /\ requests \in [Hosts -> Seq(Times)]
      BY <1>1, <2>1 DEF JobIsSound, TypeOK
    <3>2. PICK i \in DOMAIN requests[h] : TRUE
      BY <3>1 DEF RequestStamps
    <3>3. requests[h] \in Seq(Times) /\ DOMAIN requests[h] = 1 .. Len(requests[h])
      BY <3>1, LenProperties
    <3> QED  BY <3>1, <3>2, <3>3, EmptySeq
  <2>4. now' >= now
    BY <1>3
  <2>5. Service!Give(h)
    BY <1>2, <2>2, <2>3, <2>4 DEF Service!Give
  <2> QED  BY <1>1, <2>5
<1>6. CASE job.ep \notin Hosts
  <2>1. given' = given
    BY <1>1, <1>4, <1>6
  <2>2. CASE now' = now
    BY <1>2, <2>1, <2>2 DEF Quiet, Waiting, Asked
  <2>3. CASE now' = now + 1
    <3>1. now' > now
      BY <1>3, <2>3
    <3> QED  BY <1>2, <2>1, <3>1 DEF Service!Pass
  <2> QED  BY <1>3, <2>2, <2>3
<1> QED  BY <1>5, <1>6

LEMMA IntrudeSpeaks ==
  ASSUME IInv, NEW d \in Strange, Intrude(d)
  PROVE  Service!Speak
<1>1. strange \in Seq(Strange) /\ strange' = Append(strange, d)
  BY DEF IInv, TypeOK, Intrude
<1>2. strange' # <<>>
  <2>1. Len(strange') = Len(strange) + 1 /\ Len(strange) \in Nat
    BY <1>1, AppendProperties, LenProperties
  <2> QED  BY <2>1, EmptySeq
<1> QED  BY <1>2 DEF Intrude, Service!Speak

(* Every step of the programs and of the network is a step of the service, or
   one that its users do not see.                                           *)
LEMMA StepsAreServed ==
  IInv /\ [Next]_vars => [Service!Next]_(Service!serviceVars)
<1> SUFFICES ASSUME IInv, [Next]_vars
             PROVE  [Service!Next]_(Service!serviceVars)
  OBVIOUS
<1>1. CASE \E c \in Clients : send_request(c)
  BY <1>1, SendRequestAsks DEF Service!Next
<1>2. CASE \E c \in Clients : receive_reply(c)
  BY <1>2, ReceiveReplyTells, QuietIsStuttering DEF Service!Next
<1>3. CASE \E c \in Clients : GiveUp(c)
  <2>1. PICK c \in Clients : GiveUp(c)
    BY <1>3
  <2>2. c # Server
    BY IcmpAssumption
  <2>3. Service!GiveUp(c)
    BY <2>1, <2>2 DEF GiveUp, counts, Service!GiveUp
  <2> QED  BY <2>3 DEF Service!Next
<1>4. CASE receive_request \/ ServerEnds \/ DeliverAny \/ (\E d \in DOMAIN net : Lose(d) \/ Duplicate(d)) \/ UNCHANGED vars
  <2>1. Waiting' = Waiting /\ UNCHANGED <<now, given, told, requests, strange>>
    BY <1>4 DEF receive_request, ServerEnds, DeliverAny, Deliver, Lose, Duplicate, vars, counts, Waiting
  <2> QED  BY <2>1, QuietIsStuttering DEF Quiet, Asked
<1>5. CASE send_reply
  BY <1>5, SendReplyGives, QuietIsStuttering DEF Service!Next
<1>6. CASE \E d \in Strange : Intrude(d)
  BY <1>6, IntrudeSpeaks DEF Service!Next
<1>7. CASE Tick
  <2>1. now \in Nat
    BY ConstantsAreTyped DEF IInv, TypeOK
  <2>2. now' > now
    BY <1>7, <2>1 DEF Tick
  <2>3. Service!Pass
    BY <1>7, <2>2 DEF Tick, counts, Service!Pass
  <2> QED  BY <2>3 DEF Service!Next
<1> QED  BY <1>1, <1>2, <1>3, <1>4, <1>5, <1>6, <1>7 DEF Next

(* Clients, server and network together are the time service that a client's user
   may rely on, as long as no stranger speaks.                              *)
THEOREM ProgramsAreTimeService == Spec => ImplementsService
<1>1. Init => Service!Init
  BY InitIsService
<1>2. IInv /\ [Next]_vars => [Service!Next]_(Service!serviceVars)
  BY StepsAreServed
<1> QED  BY <1>1, <1>2, InvariantHolds, PTL DEF Spec, ImplementsService, Service!Spec

=============================================================================
