------------------------- MODULE ServiceBytesProofs -------------------------
(***************************************************************************)
(* Theorems about ServiceBytes, for any types, any services whose strings  *)
(* a length of four bytes can tell, and any number of them: the bytes of   *)
(* services and of trees are read as what was written, and a digest is     *)
(* read as the leaf it stands for.                                         *)
(***************************************************************************)
EXTENDS ServiceBytes, SequenceLemmas

-----------------------------------------------------------------------------
(* Digests.                                                                *)

Hash == [1 .. 32 -> Byte]

LEMMA HashLength ==
    ASSUME NEW h \in Hash
    PROVE  h \in Seq(Byte) /\ Len(h) = 32
<1>1. h \in Seq(Byte)
  <2>1. h \in [1 .. 32 -> Byte] /\ 32 \in Nat
    BY DEF Hash
  <2> QED
    BY <2>1, SeqDef
<1>2. DOMAIN h = 1 .. 32
  BY DEF Hash
<1> QED
  BY <1>1, <1>2, LenProperties

LEMMA MixedByte ==
    ASSUME NEW h \in Byte, NEW c \in Byte, NEW i \in Nat
    PROVE  Mixed(h, c, i) \in Byte
<1> DEFINE x == BitXor(h, c)
           y == (x \div 2) + (x % 2) * 128
           z == (i * 31) % 256
<1>1. x \in Byte
  BY BitXorAssumption
<1> HIDE DEF x
<1>2. y \in Byte
  BY <1>1 DEF Byte
<1>3. z \in Byte
  BY DEF Byte
<1> HIDE DEF y, z
<1>4. BitXor(y, z) \in Byte
  BY <1>2, <1>3, BitXorAssumption
<1> QED
  BY <1>4 DEF Mixed, x, y, z

\* Each character of a lane is one of the string, and the byte they are mixed into
\* is a byte.
LEMMA LaneByte ==
    ASSUME NEW input \in Seq(Byte), NEW j \in 0 .. 31
    PROVE  Lane(input, j) \in Byte
<1> DEFINE Rounds == (Len(input) - j + 31) \div 32
           c(k) == input[32 * (k - 1) + j + 1]
           After(f, m) ==
             f = [k \in 0 .. m |->
                    IF k = 0 THEN 0
                    ELSE Mixed(f[k - 1], input[32 * (k - 1) + j + 1], 32 * (k - 1) + j)]
           after == CHOOSE f : After(f, Rounds)
<1>1. Lane(input, j) = IF Rounds > 0 THEN after[Rounds] ELSE 0
  BY DEF Lane
<1>2. 0 \in Byte
  BY DEF Byte
<1>3. CASE ~ (Rounds > 0)
  BY <1>1, <1>2, <1>3
<1>4. CASE Rounds > 0
  <2>1. Len(input) \in Nat /\ Rounds \in Nat
    BY <1>4, LenProperties
  <2>2. \A k \in 1 .. Rounds : c(k) \in Byte
    <3> TAKE k \in 1 .. Rounds
    <3>1. 32 * (k - 1) + j + 1 \in 1 .. Len(input)
      BY <1>4, <2>1
    <3> QED
      BY <3>1, ElementOfSeq
  <2> DEFINE T == {m \in Nat : \E f : After(f, m)}
  <2>3. 0 \in T
    <3>1. After([k \in 0 .. 0 |-> 0], 0)
      OBVIOUS
    <3> HIDE DEF After
    <3> QED
      BY <3>1
  <2>4. ASSUME NEW m \in Nat, m \in T PROVE m + 1 \in T
    <3>1. PICK f : After(f, m)
      BY <2>4
    <3> DEFINE g == [k \in 0 .. m + 1 |->
                       IF k <= m THEN f[k]
                       ELSE Mixed(f[k - 1], input[32 * (k - 1) + j + 1], 32 * (k - 1) + j)]
    <3>2. ASSUME NEW k \in 0 .. m + 1
          PROVE  g[k] = IF k = 0 THEN 0
                        ELSE Mixed(g[k - 1], input[32 * (k - 1) + j + 1], 32 * (k - 1) + j)
      <4>1. k # 0 => k - 1 \in 0 .. m + 1 /\ k - 1 <= m /\ g[k - 1] = f[k - 1]
        OBVIOUS
      <4>2. CASE k <= m
        <5>1. k \in 0 .. m /\ g[k] = f[k]
          BY <4>2
        <5>2. f[k] = IF k = 0 THEN 0
                     ELSE Mixed(f[k - 1], input[32 * (k - 1) + j + 1], 32 * (k - 1) + j)
          BY <3>1, <5>1
        <5> QED
          BY <4>1, <5>1, <5>2
      <4>3. CASE ~ (k <= m)
        <5>1. k # 0
          BY <4>3
        <5>2. g[k] = Mixed(f[k - 1], input[32 * (k - 1) + j + 1], 32 * (k - 1) + j)
          BY <4>3
        <5> QED
          BY <4>1, <5>1, <5>2
      <4> QED
        BY <4>2, <4>3
    <3>3. After(g, m + 1)
      BY <3>2
    <3> HIDE DEF After, g
    <3> QED
      BY <3>3
  <2>5. \A m \in Nat : m \in T
    <3> HIDE DEF T
    <3> QED
      BY <2>3, <2>4, SetInduction
  <2>6. After(after, Rounds)
    BY <2>1, <2>5
  <2> HIDE DEF after, Rounds
  <2> DEFINE B == {k \in Nat : k <= Rounds => after[k] \in Byte}
  <2>7. 0 \in B
    BY <1>2, <2>1, <2>6
  <2>8. ASSUME NEW k \in Nat, k \in B PROVE k + 1 \in B
    <3> SUFFICES ASSUME k + 1 <= Rounds PROVE after[k + 1] \in Byte
      OBVIOUS
    <3>1. k + 1 \in 0 .. Rounds /\ k + 1 \in 1 .. Rounds /\ k + 1 # 0 /\ (k + 1) - 1 = k
      BY <2>1
    <3>2. after[k + 1] = Mixed(after[k], c(k + 1), 32 * k + j)
      BY <2>6, <3>1
    <3>3. after[k] \in Byte
      BY <2>1, <2>8
    <3>4. c(k + 1) \in Byte
      BY <2>2, <3>1
    <3>5. 32 * k + j \in Nat
      OBVIOUS
    <3> HIDE DEF c
    <3> QED
      BY <3>2, <3>3, <3>4, <3>5, MixedByte
  <2>9. \A k \in Nat : k \in B
    <3> HIDE DEF B
    <3> QED
      BY <2>7, <2>8, SetInduction
  <2> QED
    BY <1>1, <1>4, <2>1, <2>9
<1> QED
  BY <1>3, <1>4

\* Two digits for each byte, at its place.
LEMMA HexDigits ==
    ASSUME NEW data \in Seq(Byte)
    PROVE  /\ to_hex(data) \in Seq(Byte)
           /\ Len(to_hex(data)) = 2 * Len(data)
           /\ \A i \in 1 .. Len(data) :
                 /\ to_hex(data)[2 * i - 1] = Digit(data[i] \div 16)
                 /\ to_hex(data)[2 * i] = Digit(data[i] % 16)
<1> DEFINE Pair(b) == <<Digit(b \div 16), Digit(b % 16)>>
           pairs == [i \in DOMAIN data |-> Pair(data[i])]
<1>1. Len(data) \in Nat /\ DOMAIN data = 1 .. Len(data) /\ \A i \in 1 .. Len(data) : data[i] \in Byte
  BY LenProperties
<1>2. \A b \in Byte : Digit(b \div 16) \in Byte /\ Digit(b % 16) \in Byte
  BY DEF Digit, Byte
<1>3. \A b \in Byte : Pair(b) \in Seq(Byte) /\ Len(Pair(b)) = 2
  BY <1>2
<1>4. /\ pairs \in Seq(Seq(Byte)) /\ Len(pairs) = Len(data)
      /\ \A i \in 1 .. Len(data) : pairs[i] = Pair(data[i])
  <2> HIDE DEF Pair
  <2> QED
    BY <1>1, <1>3
<1>5. to_hex(data) = FlattenSeq(pairs)
  BY DEF to_hex
<1> HIDE DEF pairs
<1>6. \A i \in 1 .. Len(pairs) : Len(pairs[i]) = 2
  BY <1>1, <1>3, <1>4
<1>7. /\ Len(FlattenSeq(pairs)) = 2 * Len(pairs)
      /\ \A k \in 0 .. Len(pairs) - 1 : Holds(FlattenSeq(pairs), 2 * k, pairs[k + 1])
  BY <1>4, <1>6, FlattenEqual
<1>8. FlattenSeq(pairs) \in Seq(Byte)
  BY <1>4, FlattenType
<1>9. \A i \in 1 .. Len(data) :
        /\ to_hex(data)[2 * i - 1] = Digit(data[i] \div 16)
        /\ to_hex(data)[2 * i] = Digit(data[i] % 16)
  <2> TAKE i \in 1 .. Len(data)
  <2>1. i - 1 \in 0 .. Len(pairs) - 1 /\ (i - 1) + 1 = i
    BY <1>1, <1>4
  <2>2. Holds(to_hex(data), 2 * (i - 1), pairs[i])
    BY <1>5, <1>7, <2>1
  <2>3. pairs[i] = <<Digit(data[i] \div 16), Digit(data[i] % 16)>>
    BY <1>4
  <2>4. /\ to_hex(data)[2 * (i - 1) + 1] = Digit(data[i] \div 16)
        /\ to_hex(data)[2 * (i - 1) + 2] = Digit(data[i] % 16)
    BY <2>2, <2>3 DEF Holds
  <2>5. 2 * (i - 1) + 1 = 2 * i - 1 /\ 2 * (i - 1) + 2 = 2 * i
    OBVIOUS
  <2> QED
    BY <2>4, <2>5
<1> QED
  BY <1>4, <1>5, <1>7, <1>8, <1>9

\* The digits of a hash are read as the hash.
LEMMA HexRead ==
    ASSUME NEW data \in Hash
    PROVE  /\ to_hex(data) \in Seq(Byte)
           /\ Len(to_hex(data)) = 64
           /\ HashFromString(to_hex(data)) = data
<1>1. data \in Seq(Byte) /\ Len(data) = 32
  BY HashLength
<1> DEFINE hex == to_hex(data)
<1>2. /\ hex \in Seq(Byte) /\ Len(hex) = 64
      /\ \A i \in 1 .. 32 : /\ hex[2 * i - 1] = Digit(data[i] \div 16)
                            /\ hex[2 * i] = Digit(data[i] % 16)
  <2>1. /\ hex \in Seq(Byte) /\ Len(hex) = 2 * Len(data)
        /\ \A i \in 1 .. Len(data) : /\ hex[2 * i - 1] = Digit(data[i] \div 16)
                                     /\ hex[2 * i] = Digit(data[i] % 16)
    BY <1>1, HexDigits
  <2> HIDE DEF hex
  <2>2. 2 * Len(data) = 64 /\ 1 .. Len(data) = 1 .. 32
    BY <1>1
  <2> QED
    BY <2>1, <2>2
<1> HIDE DEF hex
<1>3. \A d \in 0 .. 15 : Value(Digit(d)) = d
  BY DEF Value, Digit
<1>4. \A i \in 1 .. 32 : 16 * Value(hex[2 * i - 1]) + Value(hex[2 * i]) = data[i]
  <2> TAKE i \in 1 .. 32
  <2> DEFINE b == data[i]
  <2>1. b \in Byte
    BY DEF Hash
  <2>2. hex[2 * i - 1] = Digit(b \div 16) /\ hex[2 * i] = Digit(b % 16)
    BY <1>2
  <2> HIDE DEF b
  <2>3. b \div 16 \in 0 .. 15 /\ b % 16 \in 0 .. 15 /\ 16 * (b \div 16) + (b % 16) = b
    BY <2>1 DEF Byte
  <2> QED
    BY <1>3, <2>2, <2>3 DEF b
<1>5. HashFromString(hex) = data
  <2>1. HashFromString(hex) = [i \in 1 .. 32 |-> data[i]]
    BY <1>4 DEF HashFromString
  <2> QED
    BY <2>1 DEF Hash
<1> QED
  BY <1>2, <1>5 DEF hex

\* A digest is the digits of a hash.
LEMMA DigestOfString ==
    ASSUME NEW input \in Seq(Byte)
    PROVE  /\ improved_hash(input) \in Seq(Byte)
           /\ Len(improved_hash(input)) = 64
           /\ HashFromString(improved_hash(input)) \in Hash
           /\ to_hex(HashFromString(improved_hash(input))) = improved_hash(input)
<1> DEFINE hash == [j \in 1 .. 32 |-> Lane(input, j - 1)]
<1>1. hash \in Hash
  <2>1. \A j \in 1 .. 32 : Lane(input, j - 1) \in Byte
    <3> TAKE j \in 1 .. 32
    <3>1. j - 1 \in 0 .. 31
      OBVIOUS
    <3> QED
      BY <3>1, LaneByte
  <2> QED
    BY <2>1 DEF Hash
<1>2. improved_hash(input) = to_hex(hash)
  BY DEF improved_hash
<1> HIDE DEF hash
<1> QED
  BY <1>1, <1>2, HexRead

LEMMA ServiceDigest ==
    ASSUME NEW s \in Service
    PROVE  hashService(s) \in Seq(Byte)
<1> DEFINE name == s.service_name
           id == s.instance_id
           node == s.nodeId
           alive == <<IF s.is_alive THEN 49 ELSE 48>>
<1>1. /\ name \in Seq(Byte) /\ id \in Seq(Byte) /\ node \in Seq(Byte)
      /\ alive \in Seq(Byte)
  BY DEF Service, String, Byte
<1>2. hashService(s) = improved_hash(name \o id \o node \o alive)
  BY DEF hashService
<1> HIDE DEF name, id, node, alive
<1>3. name \o id \o node \o alive \in Seq(Byte)
  BY <1>1, ConcatProperties
<1> QED
  BY <1>2, <1>3, DigestOfString

LEMMA VectorDigest ==
    ASSUME NEW v \in Seq(Service)
    PROVE  /\ Len(hashServices(v)) = 64
           /\ HashFromString(hashServices(v)) \in Hash
           /\ to_hex(HashFromString(hashServices(v))) = hashServices(v)
<1> DEFINE digests == [i \in DOMAIN v |-> hashService(v[i])]
<1>1. DOMAIN v = 1 .. Len(v) /\ Len(v) \in Nat /\ \A i \in 1 .. Len(v) : v[i] \in Service
  BY LenProperties
<1>2. digests \in Seq(Seq(Byte))
  BY <1>1, ServiceDigest
<1>3. hashServices(v) = improved_hash(FlattenSeq(digests))
  BY DEF hashServices
<1> HIDE DEF digests
<1> QED
  BY <1>2, <1>3, FlattenType, DigestOfString

-----------------------------------------------------------------------------
(* Numbers and strings.                                                    *)

LEMMA MaxLengthValue == MaxLength \in Nat /\ MaxLength < 128 * 16777216
BY SMT DEF MaxLength

LEMMA MaxLengthNat == MaxLength \in Nat
BY MaxLengthValue, SMT

LEMMA MaxServicesNat == MaxServices \in Nat /\ MaxServices <= MaxLength /\ MaxLength \in Nat
BY MaxLengthNat, MaxServicesAssumption

\* A number is the sum of its bytes.
LEMMA Uint32Bytes ==
    ASSUME NEW n \in 0 .. MaxLength
    PROVE  /\ uint32(n) \in Seq(Byte) /\ Len(uint32(n)) = 4
           /\ uint32(n)[1] + 256 * uint32(n)[2] + 65536 * uint32(n)[3]
              + 16777216 * uint32(n)[4] = n
<1> DEFINE b1 == n % 256
           b2 == (n \div 256) % 256
           b3 == (n \div 65536) % 256
           b4 == (n \div 16777216) % 256
<1>1. b1 \in Byte /\ b2 \in Byte /\ b3 \in Byte /\ b4 \in Byte
  <2>1. \A m \in Nat : m % 256 \in Byte
    BY DEF Byte
  <2>2. /\ n \in Nat /\ n \div 256 \in Nat /\ n \div 65536 \in Nat
        /\ n \div 16777216 \in Nat
    BY SMT
  <2> QED
    BY <2>1, <2>2, SMT
<1>2. b1 + 256 * b2 + 65536 * b3 + 16777216 * b4 = n
  <2> DEFINE q2 == n \div 256
             q3 == n \div 65536
             q4 == n \div 16777216
  <2>1. n \in Nat /\ q2 \in Nat /\ q3 \in Nat /\ q4 \in Nat
    BY SMT
  <2>2. n = 256 * q2 + b1
    BY SMT
  <2>3. q2 = 256 * q3 + b2
    BY SMT
  <2>4. q3 = 256 * q4 + b3
    BY SMT
  <2>5. q4 = b4
    <3>1. n \in Nat /\ n < 128 * 16777216
      BY MaxLengthValue, SMT
    <3>2. q4 \in 0 .. 127
      BY <3>1, SMT
    <3>3. \A q \in 0 .. 127 : q % 256 = q
      OBVIOUS
    <3>4. b4 = q4 % 256
      OBVIOUS
    <3> HIDE DEF q4, b4
    <3> QED
      BY <3>2, <3>3, <3>4
  <2>6. b1 \in Nat /\ b2 \in Nat /\ b3 \in Nat /\ b4 \in Nat
    BY <1>1 DEF Byte
  <2> HIDE DEF q2, q3, q4, b1, b2, b3, b4
  <2> QED
    BY <2>1, <2>2, <2>3, <2>4, <2>5, <2>6, SMT
<1>3. uint32(n) = <<b1, b2, b3, b4>>
  BY DEF uint32
<1> HIDE DEF b1, b2, b3, b4
<1> QED
  BY <1>1, <1>2, <1>3

LEMMA Uint32Read ==
    ASSUME NEW n \in 0 .. MaxLength, NEW in \in Seq(Byte), NEW offset \in Nat,
           Holds(in, offset, uint32(n))
    PROVE  ReadUint32(in, offset) = n
<1> DEFINE b == uint32(n)
<1>1. Len(b) = 4 /\ b[1] + 256 * b[2] + 65536 * b[3] + 16777216 * b[4] = n
  BY Uint32Bytes
<1>2. \A i \in 1 .. Len(b) : in[offset + i] = b[i]
  BY DEF Holds
<1> HIDE DEF b
<1>3. /\ in[offset + 1] = b[1] /\ in[offset + 2] = b[2]
      /\ in[offset + 3] = b[3] /\ in[offset + 4] = b[4]
  BY <1>1, <1>2
<1> QED
  BY <1>1, <1>3 DEF ReadUint32

LEMMA Uint64Bytes ==
    ASSUME NEW n \in 0 .. MaxLength
    PROVE  /\ serialise_uint64_t(n) \in Seq(Byte) /\ Len(serialise_uint64_t(n)) = 8
           /\ \A i \in 1 .. 4 : serialise_uint64_t(n)[9 - i] = uint32(n)[i]
<1> DEFINE b == uint32(n)
           high == <<0, 0, 0, 0>>
           low == Reverse(b)
<1>1. b \in Seq(Byte) /\ Len(b) = 4 /\ \A i \in 1 .. 4 : b[i] \in Byte
  BY Uint32Bytes, ElementOfSeq
<1>2. high \in Seq(Byte) /\ Len(high) = 4
  BY DEF Byte
<1>3. serialise_uint64_t(n) = high \o low
  BY DEF serialise_uint64_t
<1> HIDE DEF b, high
<1>4. low = [i \in 1 .. 4 |-> b[(4 - i) + 1]]
  BY <1>1 DEF Reverse
<1>5. /\ low \in Seq(Byte) /\ Len(low) = 4
      /\ \A i \in 1 .. 4 : low[i] = b[5 - i]
  <2>1. \A i \in 1 .. 4 : (4 - i) + 1 \in 1 .. 4 /\ (4 - i) + 1 = 5 - i
    OBVIOUS
  <2> QED
    BY <1>1, <1>4, <2>1
<1> HIDE DEF low
<1>6. /\ high \o low \in Seq(Byte) /\ Len(high \o low) = 8
      /\ \A i \in 1 .. 8 : (high \o low)[i] = IF i <= 4 THEN high[i] ELSE low[i - 4]
  <2>1. /\ high \o low \in Seq(Byte) /\ Len(high \o low) = Len(high) + Len(low)
        /\ \A i \in 1 .. Len(high) + Len(low) :
              (high \o low)[i] = IF i <= Len(high) THEN high[i] ELSE low[i - Len(high)]
    BY <1>2, <1>5, ConcatProperties
  <2>2. Len(high) + Len(low) = 8
    BY <1>2, <1>5
  <2> QED
    BY <1>2, <2>1, <2>2
<1>7. \A i \in 1 .. 4 : (high \o low)[9 - i] = b[i]
  <2> TAKE i \in 1 .. 4
  <2>1. 9 - i \in 1 .. 8 /\ ~ (9 - i <= 4) /\ (9 - i) - 4 = 5 - i /\ 5 - i \in 1 .. 4
        /\ 5 - (5 - i) = i
    OBVIOUS
  <2> QED
    BY <1>5, <1>6, <2>1
<1> QED
  BY <1>3, <1>6, <1>7 DEF b

LEMMA Uint64Read ==
    ASSUME NEW n \in 0 .. MaxLength, NEW in \in Seq(Byte), NEW offset \in Nat,
           Holds(in, offset, serialise_uint64_t(n))
    PROVE  deserialise_uint64_t(in, offset) = n
<1> DEFINE b == uint32(n)
           w == serialise_uint64_t(n)
<1>1. b[1] + 256 * b[2] + 65536 * b[3] + 16777216 * b[4] = n
  BY Uint32Bytes
<1>2. Len(w) = 8 /\ \A i \in 1 .. 4 : w[9 - i] = b[i]
  BY Uint64Bytes
<1>3. \A i \in 1 .. Len(w) : in[offset + i] = w[i]
  BY DEF Holds
<1> HIDE DEF b, w
<1>4. w[8] = b[1] /\ w[7] = b[2] /\ w[6] = b[3] /\ w[5] = b[4]
  <2>1. 9 - 1 = 8 /\ 9 - 2 = 7 /\ 9 - 3 = 6 /\ 9 - 4 = 5
    OBVIOUS
  <2>2. w[9 - 1] = b[1] /\ w[9 - 2] = b[2] /\ w[9 - 3] = b[3] /\ w[9 - 4] = b[4]
    BY <1>2
  <2> QED
    BY <2>1, <2>2
<1>5. /\ in[offset + 8] = b[1] /\ in[offset + 7] = b[2]
      /\ in[offset + 6] = b[3] /\ in[offset + 5] = b[4]
  BY <1>2, <1>3, <1>4
<1> QED
  BY <1>1, <1>5 DEF deserialise_uint64_t

LEMMA StringBytes ==
    ASSUME NEW str \in String
    PROVE  /\ serialize_string(str) \in Seq(Byte)
           /\ Len(serialize_string(str)) = 4 + Len(str)
           /\ str \in Seq(Byte) /\ Len(str) \in 0 .. MaxLength
<1>1. str \in Seq(Byte) /\ Len(str) \in 0 .. MaxLength
  BY LenProperties DEF String
<1>2. uint32(Len(str)) \in Seq(Byte) /\ Len(uint32(Len(str))) = 4
  BY <1>1, Uint32Bytes
<1> DEFINE b == uint32(Len(str))
<1>3. serialize_string(str) = b \o str
  BY DEF serialize_string
<1> HIDE DEF b
<1>4. b \o str \in Seq(Byte) /\ Len(b \o str) = Len(b) + Len(str)
  BY <1>1, <1>2, ConcatProperties DEF b
<1> QED
  BY <1>1, <1>2, <1>3, <1>4 DEF b

\* A string is read where it was written, and reading goes on behind it.
LEMMA StringRead ==
    ASSUME NEW str \in String, NEW in \in Seq(Byte), NEW offset \in Nat,
           Holds(in, offset, serialize_string(str))
    PROVE  deserialize_string(in, offset) =
             [str |-> str, offset |-> offset + Len(serialize_string(str))]
<1> DEFINE n == Len(str)
           b == uint32(n)
<1>1. str \in Seq(Byte) /\ n \in 0 .. MaxLength /\ n \in Nat
  BY StringBytes
<1>2. b \in Seq(Byte) /\ Len(b) = 4
  BY <1>1, Uint32Bytes
<1>3. serialize_string(str) = b \o str /\ Len(serialize_string(str)) = 4 + n
  BY StringBytes DEF serialize_string
<1>4. Holds(in, offset, b) /\ Holds(in, offset + 4, str)
  <2> HIDE DEF b
  <2>1. Holds(in, offset, b) /\ Holds(in, offset + Len(b), str)
    BY <1>1, <1>2, <1>3, HoldsParts
  <2> QED
    BY <1>2, <2>1
<1>5. ReadUint32(in, offset) = n
  BY <1>1, <1>4, Uint32Read
<1>6. SubSeq(in, offset + 5, offset + 4 + n) = str
  <2>1. offset + 4 \in Nat /\ (offset + 4) + 1 = offset + 5
    OBVIOUS
  <2>2. SubSeq(in, (offset + 4) + 1, (offset + 4) + Len(str)) = str
    BY <1>1, <1>4, <2>1, HoldsSubSeq
  <2> QED
    BY <2>1, <2>2
<1>7. offset + 4 + n = offset + (4 + n)
  BY <1>1
<1> HIDE DEF n, b
<1> QED
  BY <1>3, <1>5, <1>6, <1>7 DEF deserialize_string

-----------------------------------------------------------------------------
(* Services.                                                               *)

AliveByte(s) == <<IF s.is_alive THEN 1 ELSE 0>>

LEMMA ServiceBytesType ==
    ASSUME NEW s \in Service
    PROVE  /\ s.service_name \in String /\ s.instance_id \in String
           /\ s.nodeId \in String /\ s.is_alive \in BOOLEAN
           /\ AliveByte(s) \in Seq(Byte) /\ Len(AliveByte(s)) = 1
           /\ serialize(s) \in Seq(Byte) /\ Len(serialize(s)) > 0
<1>1. /\ s.service_name \in String /\ s.instance_id \in String
      /\ s.nodeId \in String /\ s.is_alive \in BOOLEAN
  BY DEF Service
<1>2. AliveByte(s) \in Seq(Byte) /\ Len(AliveByte(s)) = 1
  BY DEF AliveByte, Byte
<1> DEFINE name == serialize_string(s.service_name)
           id == serialize_string(s.instance_id)
           node == serialize_string(s.nodeId)
           alive == AliveByte(s)
<1>3. name \in Seq(Byte) /\ id \in Seq(Byte) /\ node \in Seq(Byte)
  BY <1>1, StringBytes
<1>4. serialize(s) = name \o id \o node \o alive
  BY DEF serialize, AliveByte
<1> HIDE DEF name, id, node, alive
<1>5. name \o id \o node \in Seq(Byte)
  BY <1>3, ConcatProperties
<1>6. /\ serialize(s) \in Seq(Byte)
      /\ Len(serialize(s)) = Len(name \o id \o node) + 1
  <2> DEFINE strings == name \o id \o node
  <2>1. strings \in Seq(Byte) /\ alive \in Seq(Byte) /\ Len(alive) = 1
    BY <1>2, <1>5 DEF alive
  <2>2. serialize(s) = strings \o alive
    BY <1>4
  <2> HIDE DEF strings
  <2>3. strings \o alive \in Seq(Byte) /\ Len(strings \o alive) = Len(strings) + Len(alive)
    BY <2>1, ConcatProperties
  <2>4. serialize(s) \in Seq(Byte) /\ Len(serialize(s)) = Len(strings) + 1
    BY <2>1, <2>2, <2>3
  <2> QED
    BY <2>4 DEF strings
<1>7. Len(name \o id \o node) \in Nat
  BY <1>5, LenProperties
<1> QED
  BY <1>1, <1>2, <1>6, <1>7

\* A service is read where it was written, and reading goes on behind it.
LEMMA ServiceRead ==
    ASSUME NEW s \in Service, NEW in \in Seq(Byte), NEW offset \in Nat,
           Holds(in, offset, serialize(s))
    PROVE  deserialize(in, offset) = [service |-> s, offset |-> offset + Len(serialize(s))]
<1> DEFINE name == serialize_string(s.service_name)
           id == serialize_string(s.instance_id)
           node == serialize_string(s.nodeId)
           alive == AliveByte(s)
           o1 == offset + Len(name)
           o2 == o1 + Len(id)
           o3 == o2 + Len(node)
<1>1. /\ s.service_name \in String /\ s.instance_id \in String
      /\ s.nodeId \in String /\ s.is_alive \in BOOLEAN
      /\ alive \in Seq(Byte) /\ Len(alive) = 1
  BY ServiceBytesType
<1>2. name \in Seq(Byte) /\ id \in Seq(Byte) /\ node \in Seq(Byte)
  BY <1>1, StringBytes
<1>3. Len(name) \in Nat /\ Len(id) \in Nat /\ Len(node) \in Nat
  BY <1>2, LenProperties
<1>4. serialize(s) = name \o id \o node \o alive
  BY DEF serialize, AliveByte
<1>5. o1 \in Nat /\ o2 \in Nat /\ o3 \in Nat
  BY <1>3
<1>6. /\ Holds(in, offset, name) /\ Holds(in, o1, id) /\ Holds(in, o2, node)
      /\ Holds(in, o3, alive) /\ offset + Len(serialize(s)) = o3 + 1
  <2> HIDE DEF name, id, node, alive
  <2>1. name \o id \in Seq(Byte) /\ Len(name \o id) = Len(name) + Len(id)
    BY <1>2, ConcatProperties
  <2>2. /\ name \o id \o node \in Seq(Byte)
        /\ Len(name \o id \o node) = Len(name) + Len(id) + Len(node)
    BY <1>2, <2>1, ConcatProperties
  <2>3. Len(serialize(s)) = Len(name) + Len(id) + Len(node) + 1
    <3> DEFINE strings == name \o id \o node
    <3>1. /\ strings \in Seq(Byte) /\ Len(strings) = Len(name) + Len(id) + Len(node)
          /\ alive \in Seq(Byte) /\ Len(alive) = 1 /\ serialize(s) = strings \o alive
      BY <1>1, <1>4, <2>2 DEF alive
    <3> HIDE DEF strings
    <3>2. Len(strings \o alive) = Len(strings) + Len(alive)
      BY <3>1, ConcatProperties
    <3> QED
      BY <3>1, <3>2
  <2>4. /\ Holds(in, offset, name \o id \o node)
        /\ Holds(in, offset + Len(name \o id \o node), alive)
    BY <1>1, <1>4, <2>2, HoldsParts
  <2>5. /\ Holds(in, offset, name \o id)
        /\ Holds(in, offset + Len(name \o id), node)
    BY <1>2, <2>1, <2>4, HoldsParts
  <2>6. Holds(in, offset, name) /\ Holds(in, o1, id)
    BY <1>2, <2>5, HoldsParts
  <2>7. offset + Len(name \o id) = o2 /\ offset + Len(name \o id \o node) = o3
    BY <1>3, <2>1, <2>2
  <2>8. offset + Len(serialize(s)) = o3 + 1
    BY <1>3, <2>3
  <2> QED
    BY <2>4, <2>5, <2>6, <2>7, <2>8
<1>7. deserialize_string(in, offset) = [str |-> s.service_name, offset |-> o1]
  BY <1>1, <1>6, StringRead
<1>8. deserialize_string(in, o1) = [str |-> s.instance_id, offset |-> o2]
  <2> HIDE DEF o1
  <2> QED
    BY <1>1, <1>5, <1>6, StringRead
<1>9. deserialize_string(in, o2) = [str |-> s.nodeId, offset |-> o3]
  <2> HIDE DEF o2
  <2> QED
    BY <1>1, <1>5, <1>6, StringRead
<1> HIDE DEF o1, o2, o3
<1>10. in[o3 + 1] = IF s.is_alive THEN 1 ELSE 0
  BY <1>1, <1>6 DEF Holds, AliveByte
<1>11. (in[o3 + 1] # 0) = s.is_alive
  BY <1>1, <1>10
<1>12. deserialize(in, offset) =
         [service |-> [service_name |-> s.service_name, instance_id |-> s.instance_id,
                       nodeId |-> s.nodeId, is_alive |-> in[o3 + 1] # 0],
          offset |-> o3 + 1]
  BY <1>7, <1>8, <1>9 DEF deserialize
<1>13. s = [service_name |-> s.service_name, instance_id |-> s.instance_id,
           nodeId |-> s.nodeId, is_alive |-> s.is_alive]
  BY DEF Service
<1> QED
  BY <1>6, <1>11, <1>12, <1>13

\* Services are read one after the other, up to the last byte.
LEMMA ServicesRead ==
    ASSUME NEW v \in Seq(Service), Len(v) <= MaxLength
    PROVE  /\ serialize_services(v) \in Seq(Byte)
           /\ deserialize_services(serialize_services(v)) =
                [services |-> v, offset |-> Len(serialize_services(v))]
           /\ Len(serialize_services(v)) > 4 <=> v # <<>>
<1> DEFINE n == Len(v)
           sers == [i \in DOMAIN v |-> serialize(v[i])]
           flat == FlattenSeq(sers)
           num == uint32(n)
           data == serialize_services(v)
<1>1. n \in Nat /\ DOMAIN v = 1 .. n /\ n \in 0 .. MaxLength /\ \A i \in 1 .. n : v[i] \in Service
  BY LenProperties, MaxLengthNat
<1>2. /\ sers \in Seq(Seq(Byte)) /\ Len(sers) = n
      /\ \A i \in 1 .. n : sers[i] = serialize(v[i]) /\ Len(sers[i]) > 0
  BY <1>1, ServiceBytesType
<1>3. num \in Seq(Byte) /\ Len(num) = 4
  BY <1>1, Uint32Bytes
<1>4. data = num \o flat
  BY DEF serialize_services
<1> HIDE DEF sers, num, data
<1>5. flat \in Seq(Byte)
  BY <1>2, FlattenType
<1>6. data \in Seq(Byte) /\ Len(data) = 4 + Len(flat) /\ Len(flat) \in Nat
  <2> HIDE DEF flat
  <2>1. num \o flat \in Seq(Byte) /\ Len(num \o flat) = Len(num) + Len(flat)
    BY <1>3, <1>5, ConcatProperties
  <2> QED
    BY <1>3, <1>4, <1>5, <2>1, LenProperties
<1>7. Holds(data, 0, num) /\ Holds(data, 4, flat)
  <2> HIDE DEF flat
  <2>1. Holds(data, 0, num \o flat)
    BY <1>4, <1>6, HoldsItself
  <2>2. Holds(data, 0, num) /\ Holds(data, 0 + Len(num), flat)
    BY <1>3, <1>5, <1>6, <2>1, HoldsParts
  <2>3. 0 + Len(num) = 4
    BY <1>3
  <2> QED
    BY <2>2, <2>3
<1>8. ReadUint32(data, 0) = n
  BY <1>1, <1>6, <1>7, Uint32Read DEF num
<1> DEFINE at(k) == 4 + Len(FlatPrefix(sers, k))
<1>9. \A k \in 0 .. n : at(k) \in Nat
  BY <1>2, FlatPrefixType, LenProperties
<1>10. \A k \in 0 .. n - 1 :
         /\ at(k + 1) = at(k) + Len(sers[k + 1])
         /\ deserialize(data, at(k)) = [service |-> v[k + 1], offset |-> at(k + 1)]
  <2> TAKE k \in 0 .. n - 1
  <2> DEFINE p == Len(FlatPrefix(sers, k))
  <2>1. k \in 0 .. Len(sers) - 1 /\ k + 1 \in 1 .. n /\ k \in 0 .. Len(sers)
    BY <1>1, <1>2
  <2>2. FlatPrefix(sers, k) \in Seq(Byte) /\ sers[k + 1] \in Seq(Byte)
    BY <1>2, <2>1, FlatPrefixType, ElementOfSeq
  <2>3. p \in Nat /\ Len(sers[k + 1]) \in Nat
    BY <2>2, LenProperties
  <2>4. at(k + 1) = at(k) + Len(sers[k + 1])
    <3>1. FlatPrefix(sers, k + 1) = FlatPrefix(sers, k) \o sers[k + 1]
      BY <1>2, <2>1, FlatPrefixStep
    <3>2. Len(FlatPrefix(sers, k + 1)) = p + Len(sers[k + 1])
      BY <2>2, <3>1, ConcatProperties
    <3>3. 4 + (p + Len(sers[k + 1])) = (4 + p) + Len(sers[k + 1])
      <4>1. \A x, y \in Nat : 4 + (x + y) = (4 + x) + y
        OBVIOUS
      <4> HIDE DEF p
      <4> QED
        BY <2>3, <4>1
    <3> QED
      BY <3>2, <3>3
  <2>5. Holds(flat, p, sers[k + 1])
    BY <1>2, <2>1, FlattenHolds
  <2> HIDE DEF p, flat
  <2>6. Holds(data, 4 + p, sers[k + 1])
    BY <1>5, <1>6, <1>7, <2>2, <2>3, <2>5, HoldsWithin
  <2>7. 4 + p \in Nat /\ at(k) = 4 + p
    BY <2>3 DEF p
  <2>8. sers[k + 1] = serialize(v[k + 1]) /\ v[k + 1] \in Service
    BY <1>1, <1>2, <2>1
  <2> HIDE DEF at
  <2>9. deserialize(data, at(k)) =
          [service |-> v[k + 1], offset |-> at(k) + Len(serialize(v[k + 1]))]
    BY <1>6, <2>6, <2>7, <2>8, ServiceRead
  <2> QED
    BY <2>4, <2>8, <2>9
<1>11. at(0) = 4
  <2>1. Len(FlatPrefix(sers, 0)) = 0
    BY FlatPrefixEmpty, EmptySeq
  <2> QED
    BY <2>1
<1>12. at(n) = Len(data)
  <2>1. FlatPrefix(sers, n) = flat
    BY <1>2, FlatPrefixType
  <2> QED
    BY <1>6, <2>1
<1> DEFINE N == ReadUint32(data, 0)
           Read(f) ==
             f = [k \in 0 .. N |->
                    IF k = 0 THEN [services |-> <<>>, offset |-> 4]
                    ELSE LET before == f[k - 1]
                             next == deserialize(data, before.offset)
                         IN  [services |-> Append(before.services, next.service),
                              offset   |-> next.offset]]
           read == CHOOSE f : Read(f)
           g == [k \in 0 .. n |-> [services |-> SubSeq(v, 1, k), offset |-> at(k)]]
<1>13. deserialize_services(data) = read[N]
  BY DEF deserialize_services
<1> HIDE DEF at
<1>14. Read(g)
  <2>1. ASSUME NEW k \in 0 .. n
        PROVE  g[k] = IF k = 0 THEN [services |-> <<>>, offset |-> 4]
                      ELSE [services |-> Append(g[k - 1].services,
                                                deserialize(data, g[k - 1].offset).service),
                            offset   |-> deserialize(data, g[k - 1].offset).offset]
    <3>1. CASE k = 0
      <4>1. SubSeq(v, 1, 0) = <<>>
        BY SubSeqEmpty
      <4> QED
        BY <1>11, <3>1, <4>1
    <3>2. CASE k # 0
      <4> DEFINE j == k - 1
      <4>1. j \in 0 .. n - 1 /\ j \in 0 .. n /\ j + 1 = k
        BY <1>1, <3>2
      <4>2. g[j] = [services |-> SubSeq(v, 1, j), offset |-> at(j)]
        BY <4>1
      <4>3. g[k] = [services |-> SubSeq(v, 1, k), offset |-> at(k)]
        OBVIOUS
      <4>4. deserialize(data, at(j)) = [service |-> v[k], offset |-> at(k)]
        BY <1>10, <4>1
      <4>5. SubSeq(v, 1, k) = Append(SubSeq(v, 1, j), v[k])
        <5> HIDE DEF j
        <5>1. SubSeq(v, 1, j + 1) = Append(SubSeq(v, 1, j), v[j + 1])
          BY <4>1, PrefixStep
        <5> QED
          BY <4>1, <5>1
      <4>6. g[j].services = SubSeq(v, 1, j) /\ g[j].offset = at(j)
        BY <4>2
      <4>7. /\ deserialize(data, g[j].offset).service = v[k]
            /\ deserialize(data, g[j].offset).offset = at(k)
        <5> HIDE DEF g, j
        <5> QED
          BY <4>4, <4>6
      <4> HIDE DEF g, j
      <4>8. g[k] = [services |-> Append(g[j].services, deserialize(data, g[j].offset).service),
                    offset   |-> deserialize(data, g[j].offset).offset]
        BY <4>3, <4>5, <4>6, <4>7
      <4> QED
        BY <3>2, <4>8 DEF j
    <3> QED
      BY <3>1, <3>2
  <2> DEFINE h == [k \in 0 .. n |->
                     IF k = 0 THEN [services |-> <<>>, offset |-> 4]
                     ELSE [services |-> Append(g[k - 1].services,
                                               deserialize(data, g[k - 1].offset).service),
                           offset   |-> deserialize(data, g[k - 1].offset).offset]]
  <2>2. \A k \in 0 .. n : g[k] = h[k]
    BY <2>1
  <2>3. g = h
    <3>1. DOMAIN g = 0 .. n /\ DOMAIN h = 0 .. n
      OBVIOUS
    <3>2. g = [k \in 0 .. n |-> g[k]] /\ h = [k \in 0 .. n |-> h[k]]
      OBVIOUS
    <3> HIDE DEF g, h
    <3> QED
      BY <2>2, <3>2
  <2> HIDE DEF g
  <2>4. N = n
    BY <1>8
  <2> QED
    BY <2>3, <2>4
<1>15. Read(read)
  <2> HIDE DEF Read, g
  <2> QED
    BY <1>14
<1> HIDE DEF read
<1>16. \A k \in 0 .. n : read[k] = g[k]
  <2> DEFINE T == {k \in Nat : k <= n => read[k] = g[k]}
  <2>1. \A k \in 0 .. n :
          read[k] = IF k = 0 THEN [services |-> <<>>, offset |-> 4]
                    ELSE [services |-> Append(read[k - 1].services,
                                              deserialize(data, read[k - 1].offset).service),
                          offset   |-> deserialize(data, read[k - 1].offset).offset]
    <3>1. N = n
      BY <1>8
    <3> HIDE DEF N, g
    <3> QED
      BY <1>15, <3>1
  <2>2. \A k \in 0 .. n :
          g[k] = IF k = 0 THEN [services |-> <<>>, offset |-> 4]
                 ELSE [services |-> Append(g[k - 1].services,
                                           deserialize(data, g[k - 1].offset).service),
                       offset   |-> deserialize(data, g[k - 1].offset).offset]
    <3>1. N = n
      BY <1>8
    <3> HIDE DEF N, g
    <3> QED
      BY <1>14, <3>1
  <2> HIDE DEF g, Read, N
  <2>3. 0 \in T
    <3>1. 0 \in 0 .. n
      BY <1>1
    <3>2. read[0] = [services |-> <<>>, offset |-> 4]
      BY <2>1, <3>1
    <3>3. g[0] = [services |-> <<>>, offset |-> 4]
      BY <2>2, <3>1
    <3> QED
      BY <3>2, <3>3
  <2>4. ASSUME NEW k \in Nat, k \in T PROVE k + 1 \in T
    <3> SUFFICES ASSUME k + 1 <= n PROVE read[k + 1] = g[k + 1]
      OBVIOUS
    <3>1. k + 1 \in 0 .. n /\ k + 1 # 0 /\ (k + 1) - 1 = k /\ k <= n
      BY <1>1
    <3>2. read[k] = g[k]
      BY <2>4, <3>1
    <3>3. read[k + 1] = [services |-> Append(read[k].services,
                                             deserialize(data, read[k].offset).service),
                         offset   |-> deserialize(data, read[k].offset).offset]
      BY <2>1, <3>1
    <3>4. g[k + 1] = [services |-> Append(g[k].services,
                                          deserialize(data, g[k].offset).service),
                      offset   |-> deserialize(data, g[k].offset).offset]
      BY <2>2, <3>1
    <3> QED
      BY <3>2, <3>3, <3>4
  <2>5. \A k \in Nat : k \in T
    <3> HIDE DEF T
    <3> QED
      BY <2>3, <2>4, SetInduction
  <2> QED
    BY <1>1, <2>5
<1>17. deserialize_services(data) = [services |-> v, offset |-> Len(data)]
  <2>1. n \in 0 .. n /\ N = n
    BY <1>1, <1>8
  <2>2. g[n] = [services |-> SubSeq(v, 1, n), offset |-> at(n)]
    BY <2>1
  <2>3. SubSeq(v, 1, n) = v
    BY SubSeqFull
  <2> HIDE DEF n, g, N, Read
  <2> QED
    BY <1>12, <1>13, <1>16, <2>1, <2>2, <2>3
<1>18. Len(data) > 4 <=> v # <<>>
  <2>1. CASE v = <<>>
    <3>1. n = 0
      BY <2>1, EmptySeq
    <3> QED
      BY <1>11, <1>12, <2>1, <3>1
  <2>2. CASE v # <<>>
    <3>1. n # 0
      BY <2>2, EmptySeq
    <3>2. 0 \in 0 .. Len(sers) - 1 /\ 0 + 1 \in 1 .. n /\ 0 \in 0 .. Len(sers)
      BY <1>1, <1>2, <3>1
    <3>3. Holds(flat, Len(FlatPrefix(sers, 0)), sers[0 + 1])
      BY <1>2, <3>2, FlattenHolds
    <3>4. Len(FlatPrefix(sers, 0)) = 0
      BY FlatPrefixEmpty, EmptySeq
    <3>5. Len(sers[0 + 1]) > 0 /\ sers[0 + 1] \in Seq(Byte)
      BY <1>2, <3>2, ElementOfSeq
    <3>6. Len(sers[0 + 1]) \in Nat
      BY <3>5, LenProperties
    <3> HIDE DEF flat
    <3>7. Len(flat) > 0
      BY <1>6, <3>3, <3>4, <3>5, <3>6 DEF Holds
    <3> QED
      BY <1>6, <2>2, <3>7
  <2> QED
    BY <2>1, <2>2
<1> QED
  BY <1>6, <1>17, <1>18 DEF data

-----------------------------------------------------------------------------
(* Trees and paths.                                                        *)

LEMMA HashRead ==
    ASSUME NEW h \in Hash, NEW in \in Seq(Byte), NEW position \in Nat,
           Holds(in, position, h)
    PROVE  HashAt(in, position) = h
<1>1. h \in Seq(Byte) /\ Len(h) = 32
  BY HashLength
<1>2. SubSeq(in, position + 1, position + Len(h)) = h
  BY <1>1, HoldsSubSeq
<1> QED
  BY <1>1, <1>2 DEF HashAt

\* Hashes one after the other begin at multiples of 32.
LEMMA HashesFlattened ==
    ASSUME NEW hashes \in Seq(Hash)
    PROVE  /\ FlattenSeq(hashes) \in Seq(Byte)
           /\ \A k \in 0 .. Len(hashes) - 1 :
                 Holds(FlattenSeq(hashes), 32 * k, hashes[k + 1])
<1>1. Hash \subseteq Seq(Byte)
  BY HashLength
<1>2. hashes \in Seq(Seq(Byte))
  BY <1>1, SeqMonotonic
<1>3. \A i \in 1 .. Len(hashes) : Len(hashes[i]) = 32
  BY HashLength, ElementOfSeq
<1> QED
  BY <1>2, <1>3, FlattenEqual, FlattenType

LEMMA TreeRead ==
    ASSUME NEW leaves \in Seq(Hash), Len(leaves) <= MaxLength
    PROVE  deserialise(serialise(leaves)) = [leaves |-> leaves, flushed |-> 0]
<1> DEFINE n == Len(leaves)
           count == serialise_uint64_t(n)
           none == serialise_uint64_t(0)
           flat == FlattenSeq(leaves)
           bytes == serialise(leaves)
<1>1. n \in Nat /\ n \in 0 .. MaxLength /\ 0 \in 0 .. MaxLength
  BY LenProperties, MaxLengthNat
<1>2. /\ count \in Seq(Byte) /\ Len(count) = 8
      /\ none \in Seq(Byte) /\ Len(none) = 8
  BY <1>1, Uint64Bytes
<1>3. /\ flat \in Seq(Byte)
      /\ \A k \in 0 .. n - 1 : Holds(flat, 32 * k, leaves[k + 1])
  BY HashesFlattened
<1>4. bytes = count \o none \o flat
  BY DEF serialise
<1> HIDE DEF n, count, none, flat, bytes
<1> DEFINE front == count \o none
<1>5. front \in Seq(Byte) /\ Len(front) = 16
  <2>1. front \in Seq(Byte) /\ Len(front) = Len(count) + Len(none)
    BY <1>2, ConcatProperties
  <2> QED
    BY <1>2, <2>1
<1>6. bytes = front \o flat
  BY <1>4
<1>7. bytes \in Seq(Byte)
  <2> HIDE DEF front
  <2> QED
    BY <1>3, <1>5, <1>6, ConcatProperties
<1>8. Holds(bytes, 0, front) /\ Holds(bytes, 16, flat)
  <2> HIDE DEF front
  <2>1. Holds(bytes, 0, front \o flat)
    BY <1>6, <1>7, HoldsItself
  <2>2. Holds(bytes, 0, front) /\ Holds(bytes, 0 + Len(front), flat)
    BY <1>3, <1>5, <1>7, <2>1, HoldsParts
  <2>3. 0 + Len(front) = 16
    BY <1>5
  <2> QED
    BY <2>2, <2>3
<1>9. Holds(bytes, 0, count) /\ Holds(bytes, 8, none)
  <2>1. Holds(bytes, 0, count) /\ Holds(bytes, 0 + Len(count), none)
    BY <1>2, <1>7, <1>8, HoldsParts
  <2>2. 0 + Len(count) = 8
    BY <1>2
  <2> QED
    BY <2>1, <2>2
<1>10. deserialise_uint64_t(bytes, 0) = n /\ deserialise_uint64_t(bytes, 8) = 0
  BY <1>1, <1>7, <1>9, Uint64Read DEF count, none
<1>11. \A i \in 1 .. n : LeafAt(bytes, i) = leaves[i]
  <2> TAKE i \in 1 .. n
  <2> DEFINE at == 32 * (i - 1)
             h == leaves[i]
  <2>1. i - 1 \in 0 .. n - 1 /\ (i - 1) + 1 = i /\ at \in Nat /\ 16 + at \in Nat
    BY <1>1
  <2>2. Holds(flat, at, h)
    BY <1>3, <2>1
  <2>3. h \in Hash /\ h \in Seq(Byte)
    BY ElementOfSeq, HashLength DEF n
  <2>4. LeafAt(bytes, i) = HashAt(bytes, 16 + at)
    BY DEF LeafAt
  <2> HIDE DEF at, h
  <2>5. Holds(bytes, 16 + at, h)
    BY <1>3, <1>7, <1>8, <2>1, <2>2, <2>3, HoldsWithin
  <2>6. HashAt(bytes, 16 + at) = h
    BY <1>7, <2>1, <2>3, <2>5, HashRead
  <2> QED
    BY <2>4, <2>6 DEF h
<1>12. [i \in 1 .. n |-> LeafAt(bytes, i)] = leaves
  <2>1. leaves = [i \in 1 .. n |-> leaves[i]]
    BY LenProperties DEF n
  <2> QED
    BY <1>11, <2>1
<1>13. deserialise(bytes) = [leaves |-> leaves, flushed |-> 0]
  BY <1>10, <1>12 DEF deserialise
<1> QED
  BY <1>13 DEF bytes

Element == [hash : Hash, direction : {"PATH_LEFT", "PATH_RIGHT"}]

Path == [leaf : Hash, leaf_index : 0 .. MaxLength, max_index : 0 .. MaxLength,
         elements : {e \in Seq(Element) : Len(e) <= MaxLength}]

\* The bytes of an element of a path.
ElementBytes(e) == e.hash \o <<IF e.direction = "PATH_LEFT" THEN 1 ELSE 0>>

LEMMA ElementWritten ==
    ASSUME NEW e \in Element
    PROVE  /\ ElementBytes(e) \in Seq(Byte) /\ Len(ElementBytes(e)) = 33
           /\ \A in \in Seq(Byte) : \A position \in Nat :
                 Holds(in, position, ElementBytes(e)) =>
                   /\ HashAt(in, position) = e.hash
                   /\ Direction(in[position + 33]) = e.direction
<1> DEFINE h == e.hash
           d == <<IF e.direction = "PATH_LEFT" THEN 1 ELSE 0>>
<1>1. h \in Hash /\ h \in Seq(Byte) /\ Len(h) = 32
  BY HashLength DEF Element
<1>2. d \in Seq(Byte) /\ Len(d) = 1
  BY DEF Byte
<1>3. /\ e.direction \in {"PATH_LEFT", "PATH_RIGHT"}
      /\ d[1] = IF e.direction = "PATH_LEFT" THEN 1 ELSE 0
  BY DEF Element
<1>4. ElementBytes(e) = h \o d
  BY DEF ElementBytes
<1> HIDE DEF h, d
<1>5. h \o d \in Seq(Byte) /\ Len(h \o d) = Len(h) + Len(d)
  BY <1>1, <1>2, ConcatProperties
<1>6. ASSUME NEW in \in Seq(Byte), NEW position \in Nat, Holds(in, position, h \o d)
      PROVE  HashAt(in, position) = h /\ Direction(in[position + 33]) = e.direction
  <2>1. Holds(in, position, h) /\ Holds(in, position + Len(h), d)
    BY <1>1, <1>2, <1>6, HoldsParts
  <2>2. HashAt(in, position) = h
    BY <1>1, <2>1, HashRead
  <2>3. in[position + 33] = d[1]
    <3>1. 1 \in 1 .. Len(d) /\ (position + Len(h)) + 1 = position + 33
      BY <1>1, <1>2
    <3>2. in[(position + Len(h)) + 1] = d[1]
      BY <2>1, <3>1 DEF Holds
    <3> QED
      BY <3>1, <3>2
  <2> QED
    BY <1>3, <2>2, <2>3 DEF Direction
<1> QED
  BY <1>1, <1>2, <1>4, <1>5, <1>6 DEF h

LEMMA PathRead ==
    ASSUME NEW p \in Path
    PROVE  DeserialisedPath(SerialisedPath(p)) = p
<1> DEFINE leaf == p.leaf
           es == p.elements
           n == Len(es)
           index == serialise_uint64_t(p.leaf_index)
           max == serialise_uint64_t(p.max_index)
           count == serialise_uint64_t(n)
           items == [i \in DOMAIN es |-> ElementBytes(es[i])]
           flat == FlattenSeq(items)
           bytes == SerialisedPath(p)
<1>1. /\ leaf \in Hash /\ leaf \in Seq(Byte) /\ Len(leaf) = 32
      /\ p.leaf_index \in 0 .. MaxLength /\ p.max_index \in 0 .. MaxLength
      /\ es \in Seq(Element) /\ n <= MaxLength
  BY HashLength DEF Path
<1>2. /\ n \in Nat /\ n \in 0 .. MaxLength /\ DOMAIN es = 1 .. n
      /\ \A i \in 1 .. n : es[i] \in Element
      /\ es = [i \in 1 .. n |-> es[i]]
  <2>1. n \in Nat /\ DOMAIN es = 1 .. n /\ es \in [1 .. n -> Element]
    BY <1>1, LenProperties
  <2> HIDE DEF es, n
  <2> QED
    BY <1>1, <2>1, MaxLengthNat
<1>3. /\ items \in Seq(Seq(Byte)) /\ Len(items) = n
      /\ \A i \in 1 .. n : items[i] = ElementBytes(es[i]) /\ Len(items[i]) = 33
  <2> HIDE DEF es, n
  <2> QED
    BY <1>2, ElementWritten
<1>4. /\ index \in Seq(Byte) /\ Len(index) = 8
      /\ max \in Seq(Byte) /\ Len(max) = 8
      /\ count \in Seq(Byte) /\ Len(count) = 8
  <2> HIDE DEF n
  <2> QED
    BY <1>1, <1>2, Uint64Bytes
<1>5. /\ flat \in Seq(Byte)
      /\ \A k \in 0 .. n - 1 : Holds(flat, 33 * k, items[k + 1])
  <2> HIDE DEF items, n
  <2> QED
    BY <1>3, FlattenEqual, FlattenType
<1>6. bytes = leaf \o index \o max \o count \o flat
  BY DEF SerialisedPath, ElementBytes
<1> HIDE DEF leaf, es, n, index, max, count, items, flat, bytes
<1> DEFINE f2 == leaf \o index
           f3 == f2 \o max
           f4 == f3 \o count
<1>7. f2 \in Seq(Byte) /\ Len(f2) = 40
  <2>1. f2 \in Seq(Byte) /\ Len(f2) = Len(leaf) + Len(index)
    BY <1>1, <1>4, ConcatProperties
  <2> QED
    BY <1>1, <1>4, <2>1
<1>8. f3 \in Seq(Byte) /\ Len(f3) = 48
  <2> HIDE DEF f2
  <2>1. f3 \in Seq(Byte) /\ Len(f3) = Len(f2) + Len(max)
    BY <1>4, <1>7, ConcatProperties
  <2> QED
    BY <1>4, <1>7, <2>1
<1>9. f4 \in Seq(Byte) /\ Len(f4) = 56
  <2> HIDE DEF f3
  <2>1. f4 \in Seq(Byte) /\ Len(f4) = Len(f3) + Len(count)
    BY <1>4, <1>8, ConcatProperties
  <2> QED
    BY <1>4, <1>8, <2>1
<1>10. bytes = f4 \o flat
  BY <1>6
<1>11. bytes \in Seq(Byte)
  <2> HIDE DEF f4
  <2> QED
    BY <1>5, <1>9, <1>10, ConcatProperties
<1>12. Holds(bytes, 0, f4) /\ Holds(bytes, 56, flat)
  <2> HIDE DEF f4
  <2>1. Holds(bytes, 0, f4 \o flat)
    BY <1>10, <1>11, HoldsItself
  <2>2. Holds(bytes, 0, f4) /\ Holds(bytes, 0 + Len(f4), flat)
    BY <1>5, <1>9, <1>11, <2>1, HoldsParts
  <2>3. 0 + Len(f4) = 56
    BY <1>9
  <2> QED
    BY <2>2, <2>3
<1>13. Holds(bytes, 0, f3) /\ Holds(bytes, 48, count)
  <2> HIDE DEF f3
  <2>1. Holds(bytes, 0, f3) /\ Holds(bytes, 0 + Len(f3), count)
    BY <1>4, <1>8, <1>11, <1>12, HoldsParts
  <2>2. 0 + Len(f3) = 48
    BY <1>8
  <2> QED
    BY <2>1, <2>2
<1>14. Holds(bytes, 0, f2) /\ Holds(bytes, 40, max)
  <2> HIDE DEF f2
  <2>1. Holds(bytes, 0, f2) /\ Holds(bytes, 0 + Len(f2), max)
    BY <1>4, <1>7, <1>11, <1>13, HoldsParts
  <2>2. 0 + Len(f2) = 40
    BY <1>7
  <2> QED
    BY <2>1, <2>2
<1>15. Holds(bytes, 0, leaf) /\ Holds(bytes, 32, index)
  <2>1. Holds(bytes, 0, leaf) /\ Holds(bytes, 0 + Len(leaf), index)
    BY <1>1, <1>4, <1>11, <1>14, HoldsParts
  <2>2. 0 + Len(leaf) = 32
    BY <1>1
  <2> QED
    BY <2>1, <2>2
<1> HIDE DEF f2, f3, f4
<1>16. /\ HashAt(bytes, 0) = leaf
       /\ deserialise_uint64_t(bytes, 32) = p.leaf_index
       /\ deserialise_uint64_t(bytes, 40) = p.max_index
       /\ deserialise_uint64_t(bytes, 48) = n
  <2>1. HashAt(bytes, 0) = leaf
    BY <1>1, <1>11, <1>15, HashRead
  <2>2. deserialise_uint64_t(bytes, 32) = p.leaf_index
    BY <1>1, <1>11, <1>15, Uint64Read DEF index
  <2>3. deserialise_uint64_t(bytes, 40) = p.max_index
    BY <1>1, <1>11, <1>14, Uint64Read DEF max
  <2>4. deserialise_uint64_t(bytes, 48) = n
    BY <1>2, <1>11, <1>13, Uint64Read DEF count
  <2> QED
    BY <2>1, <2>2, <2>3, <2>4
<1>17. \A i \in 1 .. n :
         [hash      |-> HashAt(bytes, 56 + 33 * (i - 1)),
          direction |-> Direction(bytes[56 + 33 * i])] = es[i]
  <2> TAKE i \in 1 .. n
  <2> DEFINE at == 33 * (i - 1)
             e == es[i]
             item == items[i]
  <2>1. /\ i - 1 \in 0 .. n - 1 /\ (i - 1) + 1 = i /\ at \in Nat
        /\ 56 + at \in Nat /\ 56 + 33 * i = (56 + at) + 33
    BY <1>2
  <2>2. Holds(flat, at, item)
    BY <1>5, <2>1
  <2>3. e \in Element /\ item = ElementBytes(e) /\ item \in Seq(Byte)
    BY <1>2, <1>3, ElementWritten
  <2>4. e = [hash |-> e.hash, direction |-> e.direction]
    BY <2>3 DEF Element
  <2> HIDE DEF at, e, item
  <2>5. Holds(bytes, 56 + at, item)
    BY <1>5, <1>11, <1>12, <2>1, <2>2, <2>3, HoldsWithin
  <2>6. /\ HashAt(bytes, 56 + at) = e.hash
        /\ Direction(bytes[(56 + at) + 33]) = e.direction
    BY <1>11, <2>1, <2>3, <2>5, ElementWritten
  <2>7. [hash      |-> HashAt(bytes, 56 + at),
         direction |-> Direction(bytes[56 + 33 * i])] = e
    BY <2>1, <2>4, <2>6
  <2> QED
    BY <2>7 DEF at, e
<1>18. [i \in 1 .. n |-> [hash      |-> HashAt(bytes, 56 + 33 * (i - 1)),
                          direction |-> Direction(bytes[56 + 33 * i])]] = es
  BY <1>2, <1>17
<1>19. DeserialisedPath(bytes) =
         [leaf |-> leaf, leaf_index |-> p.leaf_index, max_index |-> p.max_index,
          elements |-> es]
  BY <1>16, <1>18 DEF DeserialisedPath
<1>20. p = [leaf |-> p.leaf, leaf_index |-> p.leaf_index, max_index |-> p.max_index,
           elements |-> p.elements]
  BY DEF Path
<1> QED
  BY <1>19, <1>20 DEF leaf, es, bytes

-----------------------------------------------------------------------------
(* The registry.                                                           *)

\* A vector of services for each type, and no more of them than MaxServices.
BytesInvariant ==
    /\ registry \in [DOMAIN TypeNames -> Seq(Service)]
    /\ Len(Services) <= MaxServices

\* Such a map is a sequence of vectors, as many as there are types.
LEMMA MapIsSequence ==
    ASSUME NEW reg \in [DOMAIN TypeNames -> Seq(Service)]
    PROVE  /\ reg \in Seq(Seq(Service)) /\ Len(reg) = Len(TypeNames)
           /\ DOMAIN reg = 1 .. Len(reg) /\ Len(reg) \in 0 .. MaxLength
<1> DEFINE n == Len(TypeNames)
<1>1. n \in Nat /\ DOMAIN TypeNames = 1 .. n /\ n <= MaxLength
  BY TypeNamesAssumption, LenProperties
<1> HIDE DEF n
<1>2. reg \in [1 .. n -> Seq(Service)]
  BY <1>1
<1>3. reg \in Seq(Seq(Service))
  BY <1>1, <1>2, SeqDef
<1>4. DOMAIN reg = 1 .. Len(reg) /\ Len(reg) \in Nat /\ DOMAIN reg = 1 .. n
  BY <1>2, <1>3, LenProperties
<1>5. Len(reg) = n
  BY <1>1, <1>4
<1> QED
  BY <1>1, <1>3, <1>4, <1>5, MaxLengthNat DEF n

LEMMA InitBytes == Init => BytesInvariant
<1> SUFFICES ASSUME Init PROVE BytesInvariant
  OBVIOUS
<1>1. registry \in [DOMAIN TypeNames -> Seq(Service)]
  BY EmptySeq DEF Init
<1>2. registry \in Seq(Seq(Service)) /\ DOMAIN registry = 1 .. Len(registry)
  BY <1>1, MapIsSequence
<1>3. \A i \in 1 .. Len(registry) : Len(registry[i]) = 0
  <2>1. \A i \in DOMAIN TypeNames : registry[i] = <<>>
    BY DEF Init
  <2> QED
    BY <1>1, <1>2, <2>1, EmptySeq
<1>4. Len(FlattenSeq(registry)) = 0 * Len(registry)
  BY <1>2, <1>3, FlattenEqual
<1>5. 0 * Len(registry) = 0
  BY <1>2, LenProperties
<1> QED
  BY <1>1, <1>4, <1>5, MaxServicesNat DEF BytesInvariant, Services

\* A service is added to the vector of its type only.
LEMMA AddKeeps ==
    ASSUME BytesInvariant, NEW s \in Catalog, Add(s)
    PROVE  BytesInvariant'
<1> DEFINE new == registry'
<1>1. /\ registry \in [DOMAIN TypeNames -> Seq(Service)]
      /\ Len(FlattenSeq(registry)) < MaxServices
      /\ new = [n \in DOMAIN TypeNames |->
                  IF TypeNames[n] = s.service_name THEN Append(registry[n], s)
                                                   ELSE registry[n]]
  BY DEF BytesInvariant, Add, Services
<1> HIDE DEF new
<1>2. s \in Service
  BY CatalogAssumption
<1>3. PICK m \in DOMAIN TypeNames : TypeNames[m] = s.service_name
  BY CatalogAssumption
<1>4. \A n \in DOMAIN TypeNames : TypeNames[n] = s.service_name <=> n = m
  BY <1>3, TypeNamesAssumption
<1>5. \A n \in DOMAIN TypeNames :
        /\ new[n] \in Seq(Service)
        /\ Len(new[n]) = Len(registry[n]) + (IF n = m THEN 1 ELSE 0)
  <2> TAKE n \in DOMAIN TypeNames
  <2> DEFINE v == registry[n]
  <2>1. v \in Seq(Service) /\ new[n] = IF n = m THEN Append(v, s) ELSE v
    BY <1>1, <1>4
  <2>2. Len(v) \in Nat
    BY <2>1, LenProperties
  <2> DEFINE w == Append(v, s)
  <2> HIDE DEF v
  <2>3. w \in Seq(Service) /\ Len(w) = Len(v) + 1
    BY <1>2, <2>1, AppendProperties
  <2> HIDE DEF w
  <2>4. /\ new[n] \in Seq(Service)
        /\ Len(new[n]) = Len(v) + (IF n = m THEN 1 ELSE 0)
    <3>1. CASE n = m
      <4>1. new[n] = w
        BY <2>1, <3>1 DEF w
      <4> QED
        BY <2>3, <3>1, <4>1
    <3>2. CASE n # m
      <4>1. new[n] = v /\ Len(v) + 0 = Len(v)
        BY <2>1, <2>2, <3>2
      <4> QED
        BY <2>1, <3>2, <4>1
    <3> QED
      BY <3>1, <3>2
  <2> QED
    BY <2>4 DEF v
<1>6. new \in [DOMAIN TypeNames -> Seq(Service)]
  <2>1. new = [n \in DOMAIN TypeNames |-> new[n]]
    BY <1>1
  <2> QED
    BY <1>5, <2>1
<1>7. /\ registry \in Seq(Seq(Service)) /\ new \in Seq(Seq(Service))
      /\ Len(registry) = Len(new) /\ DOMAIN TypeNames = 1 .. Len(registry)
  BY <1>1, <1>6, MapIsSequence
<1>8. Len(FlattenSeq(new)) =
        Len(FlattenSeq(registry)) + (IF m \in 1 .. Len(registry) THEN 1 ELSE 0)
  <2> DEFINE d == 1
             a == registry
  <2>1. \A i \in 1 .. Len(a) : Len(new[i]) = Len(a[i]) + (IF i = m THEN d ELSE 0)
    BY <1>5, <1>7
  <2>2. /\ a \in Seq(Seq(Service)) /\ new \in Seq(Seq(Service))
        /\ Len(a) = Len(new) /\ d \in Nat
    BY <1>7
  <2> HIDE DEF d, a
  <2>3. Len(FlattenSeq(new)) =
          Len(FlattenSeq(a)) + (IF m \in 1 .. Len(a) THEN d ELSE 0)
    BY <2>1, <2>2, FlattenGrows
  <2> QED
    BY <2>3 DEF d, a
<1>9. Len(FlattenSeq(registry)) \in Nat
  BY <1>7, FlattenType, LenProperties
<1>10. Len(FlattenSeq(new)) <= MaxServices
  <2>1. Len(FlattenSeq(new)) = Len(FlattenSeq(registry)) + 1
    BY <1>3, <1>7, <1>8
  <2> QED
    BY <1>1, <1>9, <2>1, MaxServicesNat
<1> QED
  BY <1>6, <1>10 DEF BytesInvariant, Services, new

LEMMA FlipKeeps ==
    ASSUME BytesInvariant, NEW n \in DOMAIN registry, NEW i \in DOMAIN registry[n],
           Flip(n, i)
    PROVE  BytesInvariant'
<1> DEFINE new == registry'
           v == registry[n]
           s == v[i]
           t == [s EXCEPT !.is_alive = ~@]
<1>1. /\ registry \in [DOMAIN TypeNames -> Seq(Service)]
      /\ Len(FlattenSeq(registry)) <= MaxServices
      /\ new = [registry EXCEPT ![n] = [v EXCEPT ![i] = t]]
  BY DEF BytesInvariant, Flip, Services
<1>2. n \in DOMAIN TypeNames /\ v \in Seq(Service) /\ i \in 1 .. Len(v)
  BY <1>1, LenProperties
<1>3. s \in Service
  <2> HIDE DEF v
  <2> QED
    BY <1>2, ElementOfSeq
<1>4. t \in Service
  <2> HIDE DEF s
  <2> QED
    BY <1>3 DEF Service
<1> HIDE DEF new, v, t
<1>5. [v EXCEPT ![i] = t] \in Seq(Service) /\ Len([v EXCEPT ![i] = t]) = Len(v)
  BY <1>2, <1>4, ExceptSeq
<1>6. new \in [DOMAIN TypeNames -> Seq(Service)]
  BY <1>1, <1>2, <1>5
<1>7. /\ registry \in Seq(Seq(Service)) /\ new \in Seq(Seq(Service))
      /\ Len(registry) = Len(new) /\ DOMAIN TypeNames = 1 .. Len(registry)
  BY <1>1, <1>6, MapIsSequence
<1>8. \A j \in 1 .. Len(registry) :
        Len(new[j]) = Len(registry[j]) + (IF j = n THEN 0 ELSE 0)
  <2> TAKE j \in 1 .. Len(registry)
  <2>1. Len(new[j]) = Len(registry[j])
    BY <1>1, <1>5, <1>7 DEF v
  <2>2. Len(registry[j]) \in Nat
    BY <1>7, ElementOfSeq, LenProperties
  <2> QED
    BY <2>1, <2>2
<1>9. Len(FlattenSeq(new)) = Len(FlattenSeq(registry)) + 0
  <2>1. Len(FlattenSeq(new)) =
          Len(FlattenSeq(registry)) + (IF n \in 1 .. Len(registry) THEN 0 ELSE 0)
    BY <1>7, <1>8, FlattenGrows
  <2> QED
    BY <2>1
<1>10. Len(FlattenSeq(registry)) \in Nat
  BY <1>7, FlattenType, LenProperties
<1>11. Len(FlattenSeq(new)) <= MaxServices
  BY <1>1, <1>9, <1>10
<1> QED
  BY <1>6, <1>11 DEF BytesInvariant, Services, new

\* Every step of Next keeps it.
LEMMA NextBytes == BytesInvariant /\ [Next]_registry => BytesInvariant'
<1> SUFFICES ASSUME BytesInvariant, [Next]_registry PROVE BytesInvariant'
  OBVIOUS
<1>1. ASSUME NEW s \in Catalog, Add(s) PROVE BytesInvariant'
  BY <1>1, AddKeeps
<1>2. ASSUME NEW n \in DOMAIN registry, NEW i \in DOMAIN registry[n], Flip(n, i)
      PROVE  BytesInvariant'
  BY <1>2, FlipKeeps
<1>3. CASE UNCHANGED registry
  BY <1>3 DEF BytesInvariant, Services
<1> QED
  BY <1>1, <1>2, <1>3 DEF Next

\* The registry is always a map from the types to vectors of services.
THEOREM BytesInvariance == Spec => []BytesInvariant
<1> QED
  BY InitBytes, NextBytes, PTL DEF Spec

\* All services of all types are written and read as they are.
LEMMA MessageRead == BytesInvariant => MessageRoundTrip
<1> SUFFICES ASSUME BytesInvariant PROVE MessageRoundTrip
  OBVIOUS
<1> DEFINE v == Services
           data == serialize_services(v)
<1>1. registry \in Seq(Seq(Service)) /\ Len(v) <= MaxServices
  BY MapIsSequence DEF BytesInvariant
<1>2. v \in Seq(Service)
  BY <1>1, FlattenType DEF Services
<1>3. Len(v) <= MaxLength
  BY <1>1, <1>2, LenProperties, MaxServicesNat
<1> HIDE DEF v
<1>4. /\ data \in Seq(Byte)
      /\ deserialize_services(data) = [services |-> v, offset |-> Len(data)]
      /\ Len(data) > 4 <=> v # <<>>
  BY <1>2, <1>3, ServicesRead
<1> HIDE DEF data
<1>5. \A i \in DOMAIN data : data[i] \in Byte
  BY <1>4, LenProperties
<1> QED
  BY <1>4, <1>5 DEF MessageRoundTrip, v, data

\* What a formation receives are the services the other one sent
\* (serialize_services and deserialize_services).
THEOREM MessagesRead == Spec => []MessageRoundTrip
<1> QED
  BY BytesInvariance, MessageRead, PTL

LEMMA DigestsRead == BytesInvariant => DigestsMakeLeaves
<1> SUFFICES ASSUME BytesInvariant, NEW n \in DOMAIN registry
             PROVE  LET digest == hashServices(registry[n])
                    IN  Len(digest) = 64 /\ to_hex(HashFromString(digest)) = digest
  BY DEF DigestsMakeLeaves
<1>1. registry[n] \in Seq(Service)
  BY DEF BytesInvariant
<1> QED
  BY <1>1, VectorDigest

\* Every digest has 64 digits and stands for the bytes of a leaf
\* (buildMerkleTree).
THEOREM DigestsAreRead == Spec => []DigestsMakeLeaves
<1> QED
  BY BytesInvariance, DigestsRead, PTL

\* A leaf for each type at most, each of them a hash.
LEMMA LeavesAreHashes ==
    ASSUME BytesInvariant
    PROVE  Leaves \in Seq(Hash) /\ Len(Leaves) \in 0 .. MaxLength
<1> DEFINE leaf == [n \in DOMAIN registry |-> LeafOf(registry[n])]
<1>1. /\ registry \in Seq(Seq(Service)) /\ DOMAIN registry = 1 .. Len(registry)
      /\ Len(registry) \in 0 .. MaxLength
  BY MapIsSequence DEF BytesInvariant
<1>2. \A v \in Seq(Service) : LeafOf(v) \in Seq(Hash) /\ Len(LeafOf(v)) <= 1
  <2> TAKE v \in Seq(Service)
  <2> DEFINE h == HashFromString(hashServices(v))
  <2>1. h \in Hash
    BY VectorDigest
  <2> HIDE DEF h
  <2>2. <<h>> \in Seq(Hash) /\ Len(<<h>>) = 1 /\ <<>> \in Seq(Hash) /\ Len(<<>>) = 0
    BY <2>1
  <2>3. LeafOf(v) = IF v = <<>> THEN <<>> ELSE <<h>>
    BY DEF LeafOf, h
  <2> QED
    BY <2>2, <2>3
<1>3. \A n \in 1 .. Len(registry) : registry[n] \in Seq(Service)
  BY <1>1, ElementOfSeq
<1>4. /\ leaf \in Seq(Seq(Hash)) /\ Len(leaf) = Len(registry)
      /\ \A n \in 1 .. Len(leaf) : Len(leaf[n]) <= 1
  BY <1>1, <1>2, <1>3, MaxLengthNat
<1>5. Leaves = FlattenSeq(leaf)
  BY DEF Leaves
<1> HIDE DEF leaf
<1>6. Leaves \in Seq(Hash) /\ Len(Leaves) <= Len(registry)
  BY <1>4, <1>5, FlattenType, FlattenBounded
<1> QED
  BY <1>1, <1>6, LenProperties, MaxLengthNat

\* The paths of the leaves can be written.
LEMMA PathsWritten ==
    ASSUME NEW leaves \in Seq(Hash), Len(leaves) \in 0 .. MaxLength,
           NEW k \in DOMAIN leaves, NEW other, NEW side,
           \A i \in 1 .. Len(leaves) - 1 :
             other[i] \in DOMAIN leaves /\ side[i] \in {"PATH_LEFT", "PATH_RIGHT"}
    PROVE  [leaf |-> leaves[k], leaf_index |-> k - 1, max_index |-> Len(leaves) - 1,
            elements |-> [i \in 1 .. Len(leaves) - 1 |->
                            [hash |-> leaves[other[i]], direction |-> side[i]]]] \in Path
<1> DEFINE n == Len(leaves) - 1
           es == [i \in 1 .. n |-> [hash |-> leaves[other[i]], direction |-> side[i]]]
<1>1. DOMAIN leaves = 1 .. Len(leaves) /\ Len(leaves) \in Nat /\ Len(leaves) <= MaxLength
  BY LenProperties, MaxLengthNat
<1>2. n \in Nat /\ n \in 0 .. MaxLength /\ k - 1 \in 0 .. MaxLength
  BY <1>1, MaxLengthNat
<1>3. leaves[k] \in Hash
  BY <1>1, ElementOfSeq
<1>4. \A i \in 1 .. n : [hash |-> leaves[other[i]], direction |-> side[i]] \in Element
  <2> TAKE i \in 1 .. n
  <2>1. leaves[other[i]] \in Hash
    BY <1>1, ElementOfSeq
  <2> QED
    BY <2>1 DEF Element
<1> HIDE DEF n
<1>5. es \in Seq(Element) /\ Len(es) = n
  BY <1>2, <1>4
<1> HIDE DEF es
<1>6. es \in {e \in Seq(Element) : Len(e) <= MaxLength}
  BY <1>2, <1>5, MaxLengthNat
<1>7. [leaf |-> leaves[k], leaf_index |-> k - 1, max_index |-> n, elements |-> es] \in Path
  BY <1>2, <1>3, <1>6 DEF Path
<1> QED
  BY <1>7 DEF n, es

LEMMA TreesRead == BytesInvariant => TreeRoundTrip
<1> SUFFICES ASSUME BytesInvariant PROVE TreeRoundTrip
  OBVIOUS
<1> DEFINE leaves == Leaves
<1>1. leaves \in Seq(Hash) /\ Len(leaves) \in 0 .. MaxLength /\ Len(leaves) <= MaxLength
  BY LeavesAreHashes, MaxLengthNat
<1> HIDE DEF leaves
<1>2. deserialise(serialise(leaves)) = [leaves |-> leaves, flushed |-> 0]
  BY <1>1, TreeRead
<1>3. ASSUME NEW p \in Paths PROVE p \in Path
  <2> DEFINE Other(k, i) == IF i < k THEN i ELSE i + 1
  <2>1. PICK k \in DOMAIN leaves :
          p = [leaf |-> leaves[k], leaf_index |-> k - 1, max_index |-> Len(leaves) - 1,
               elements |-> [i \in 1 .. Len(leaves) - 1 |->
                               [hash      |-> leaves[Other(k, i)],
                                direction |-> IF Other(k, i) < k THEN "PATH_LEFT"
                                                                 ELSE "PATH_RIGHT"]]]
    BY <1>3 DEF Paths, leaves
  <2> DEFINE other == [i \in 1 .. Len(leaves) - 1 |-> Other(k, i)]
             side == [i \in 1 .. Len(leaves) - 1 |->
                        IF Other(k, i) < k THEN "PATH_LEFT" ELSE "PATH_RIGHT"]
             path == [leaf |-> leaves[k], leaf_index |-> k - 1, max_index |-> Len(leaves) - 1,
                      elements |-> [i \in 1 .. Len(leaves) - 1 |->
                                      [hash |-> leaves[other[i]], direction |-> side[i]]]]
  <2>2. p = path
    BY <2>1
  <2>3. DOMAIN leaves = 1 .. Len(leaves) /\ Len(leaves) \in Nat
    BY <1>1, LenProperties
  <2>4. \A i \in 1 .. Len(leaves) - 1 :
          other[i] \in DOMAIN leaves /\ side[i] \in {"PATH_LEFT", "PATH_RIGHT"}
    BY <2>3
  <2> HIDE DEF other, side
  <2>5. path \in Path
    BY <1>1, <2>4, PathsWritten
  <2> QED
    BY <2>2, <2>5
<1>4. \A p \in Paths : DeserialisedPath(SerialisedPath(p)) = p
  BY <1>3, PathRead
<1> QED
  BY <1>2, <1>4 DEF TreeRoundTrip, leaves

\* The tree and the paths read are those that were written (serialise and
\* deserialise of merklecpp.h).
THEOREM TreesAreRead == Spec => []TreeRoundTrip
<1> QED
  BY BytesInvariance, TreesRead, PTL
=============================================================================
