---------------------------- MODULE ServiceBytes ----------------------------
(***************************************************************************)
(* What formations exchange, byte by byte: the digests of services, the    *)
(* bytes of a tree that has a leaf for each type, and the bytes of a       *)
(* message with services.  The other modules take for granted what is      *)
(* checked here: that what is written is what is read, and that a digest   *)
(* tells a changed service from the unchanged one.                         *)
(*                                                                         *)
(* A byte is a number below 256 and a string a sequence of bytes.  The     *)
(* registry is its map, with the types in key order.  It grows by services *)
(* of Catalog up to MaxServices, and the availability of any of them may   *)
(* change.                                                                 *)
(***************************************************************************)
EXTENDS Integers, SequencesExt

CONSTANTS
    TypeNames,      \* the keys of the map, in their order
    Catalog,        \* the services that may be added
    MaxServices,    \* bound: the services of a registry
    BitXor(_, _)    \* the exclusive or of two bytes

Byte == 0 .. 255

\* A length is written in four bytes.  (TLC's numbers end here.)
MaxLength == 2147483647

String == {str \in Seq(Byte) : Len(str) <= MaxLength}

Service == [service_name : String, instance_id : String, nodeId : String,
            is_alive : BOOLEAN]

ASSUME TypeNamesAssumption ==
    /\ TypeNames \in Seq(String) /\ Len(TypeNames) <= MaxLength
    /\ \A m, n \in DOMAIN TypeNames : TypeNames[m] = TypeNames[n] => m = n

ASSUME CatalogAssumption ==
    /\ Catalog \subseteq Service
    /\ \A s \in Catalog : \E n \in DOMAIN TypeNames : TypeNames[n] = s.service_name

ASSUME MaxServicesAssumption == MaxServices \in 0 .. MaxLength

ASSUME BitXorAssumption == \A a, b \in Byte : BitXor(a, b) \in Byte

VARIABLE registry     \* a vector of services for each type

-----------------------------------------------------------------------------
(* Digests.                                                                *)

\* Mutants of Mixed: the rotation is a shift; the position is left out.
Mixed_Shift(h, c, i) == BitXor(BitXor(h, c) \div 2, (i * 31) % 256)

Mixed_NoIndex(h, c, i) == LET x == BitXor(h, c) IN (x \div 2) + (x % 2) * 128

\* One round on the byte h for the character c at position i: exclusive or,
\* rotate to the right by one, exclusive or with the position.
Mixed(h, c, i) ==
    LET x == BitXor(h, c)
    IN  BitXor((x \div 2) + (x % 2) * 128, (i * 31) % 256)

\* The characters at the positions j, j + 32, ... go into byte j.
Lane(input, j) ==
    LET Rounds == (Len(input) - j + 31) \div 32
        after[k \in 0 .. Rounds] ==
            IF k = 0 THEN 0
            ELSE Mixed(after[k - 1], input[32 * (k - 1) + j + 1], 32 * (k - 1) + j)
    IN  IF Rounds > 0 THEN after[Rounds] ELSE 0

\* The ASCII character of a hexadecimal digit, and back.
Digit(d) == IF d < 10 THEN 48 + d ELSE 87 + d

Value(c) == IF c < 58 THEN c - 48 ELSE c - 87

\* Mutant of to_hex: no setw and setfill, so leading zeros are not written.
to_hex_Unpadded(data) ==
    FlattenSeq([i \in DOMAIN data |->
        IF data[i] < 16 THEN <<Digit(data[i])>>
                        ELSE <<Digit(data[i] \div 16), Digit(data[i] % 16)>>])

to_hex(data) ==
    FlattenSeq([i \in DOMAIN data |->
        LET b == data[i] IN <<Digit(b \div 16), Digit(b % 16)>>])

improved_hash(input) == to_hex([j \in 1 .. 32 |-> Lane(input, j - 1)])

hashService(s) ==
    improved_hash(s.service_name \o s.instance_id \o s.nodeId
                  \o <<IF s.is_alive THEN 49 ELSE 48>>)

hashServices(services) ==
    improved_hash(FlattenSeq([i \in DOMAIN services |-> hashService(services[i])]))

\* HashT from a string: the bytes of its pairs of digits.
HashFromString(s) ==
    [i \in 1 .. 32 |-> 16 * Value(s[2 * i - 1]) + Value(s[2 * i])]

\* The leaf of a type, if it has services.
LeafOf(v) == IF v = <<>> THEN <<>> ELSE <<HashFromString(hashServices(v))>>

Leaves == FlattenSeq([n \in DOMAIN registry |-> LeafOf(registry[n])])

-----------------------------------------------------------------------------
(* Numbers and strings as bytes.                                           *)

\* Mutant of uint32: only the last byte is written.
uint32_Low(n) == <<n % 256, 0, 0, 0>>

\* The four bytes of a uint32_t in memory, the lowest first.
uint32(n) ==
    <<n % 256, (n \div 256) % 256, (n \div 65536) % 256, (n \div 16777216) % 256>>

ReadUint32(in, offset) ==
    in[offset + 1] + 256 * in[offset + 2] + 65536 * in[offset + 3]
    + 16777216 * in[offset + 4]

\* Eight bytes, the highest first.  A number here fits into four.
serialise_uint64_t(n) == <<0, 0, 0, 0>> \o Reverse(uint32(n))

deserialise_uint64_t(bytes, index) ==
    bytes[index + 8] + 256 * bytes[index + 7] + 65536 * bytes[index + 6]
    + 16777216 * bytes[index + 5]

serialize_string(str) == uint32(Len(str)) \o str

\* The string at an offset, and the offset behind it.
deserialize_string(in, offset) ==
    LET length == ReadUint32(in, offset)
    IN  [str    |-> SubSeq(in, offset + 5, offset + 4 + length),
         offset |-> offset + 4 + length]

-----------------------------------------------------------------------------
(* Services as bytes.                                                      *)

serialize(s) ==
    serialize_string(s.service_name) \o serialize_string(s.instance_id)
    \o serialize_string(s.nodeId) \o <<IF s.is_alive THEN 1 ELSE 0>>

\* The service at an offset, and the offset behind it.
deserialize(in, offset) ==
    LET name == deserialize_string(in, offset)
        id   == deserialize_string(in, name.offset)
        node == deserialize_string(in, id.offset)
    IN  [service |-> [service_name |-> name.str, instance_id |-> id.str,
                      nodeId |-> node.str, is_alive |-> in[node.offset + 1] # 0],
         offset  |-> node.offset + 1]

serialize_services(services) ==
    uint32(Len(services))
    \o FlattenSeq([i \in DOMAIN services |-> serialize(services[i])])

\* The services read, and the offset behind the last.
deserialize_services(data) ==
    LET num_services == ReadUint32(data, 0)
        read[k \in 0 .. num_services] ==
            IF k = 0 THEN [services |-> <<>>, offset |-> 4]
            ELSE LET before == read[k - 1]
                     next == deserialize(data, before.offset)
                 IN  [services |-> Append(before.services, next.service),
                      offset   |-> next.offset]
    IN  read[num_services]

-----------------------------------------------------------------------------
(* The tree as bytes.  A registry never flushes its tree, so no hash of the *)
(* left edge follows those of the leaves.                                   *)

serialise(leaves) ==
    serialise_uint64_t(Len(leaves)) \o serialise_uint64_t(0) \o FlattenSeq(leaves)

\* A hash at a position.
HashAt(bytes, position) == SubSeq(bytes, position + 1, position + 32)

\* Mutant of LeafAt: the first hash is taken to follow the first number.
LeafAt_Eight(bytes, i) == HashAt(bytes, 8 + 32 * (i - 1))

LeafAt(bytes, i) == HashAt(bytes, 16 + 32 * (i - 1))

\* The leaves, and how many were flushed.
deserialise(bytes) ==
    [leaves  |-> [i \in 1 .. deserialise_uint64_t(bytes, 0) |-> LeafAt(bytes, i)],
     flushed |-> deserialise_uint64_t(bytes, 8)]

\* A path from a leaf to the root, with the hashes beside it.
SerialisedPath(p) ==
    p.leaf \o serialise_uint64_t(p.leaf_index) \o serialise_uint64_t(p.max_index)
    \o serialise_uint64_t(Len(p.elements))
    \o FlattenSeq([i \in DOMAIN p.elements |->
           p.elements[i].hash \o <<IF p.elements[i].direction = "PATH_LEFT" THEN 1 ELSE 0>>])

Direction(b) == IF b # 0 THEN "PATH_LEFT" ELSE "PATH_RIGHT"

DeserialisedPath(bytes) ==
    [leaf       |-> HashAt(bytes, 0),
     leaf_index |-> deserialise_uint64_t(bytes, 32),
     max_index  |-> deserialise_uint64_t(bytes, 40),
     elements   |-> [i \in 1 .. deserialise_uint64_t(bytes, 48) |->
                       [hash      |-> HashAt(bytes, 56 + 33 * (i - 1)),
                        direction |-> Direction(bytes[56 + 33 * i])]]]

-----------------------------------------------------------------------------
(* The registry.                                                           *)

\* getServiceList, or the services of all types selected for a message.
Services == FlattenSeq(registry)

Init == registry = [n \in DOMAIN TypeNames |-> <<>>]

Add(s) ==
    /\ Len(Services) < MaxServices
    /\ registry' = [n \in DOMAIN TypeNames |->
                      IF TypeNames[n] = s.service_name THEN Append(registry[n], s)
                                                       ELSE registry[n]]

Flip(n, i) == registry' = [registry EXCEPT ![n][i].is_alive = ~@]

Next ==
    \/ \E s \in Catalog : Add(s)
    \/ \E n \in DOMAIN registry : \E i \in DOMAIN registry[n] : Flip(n, i)

Spec == Init /\ [][Next]_registry

-----------------------------------------------------------------------------
(***************************************************************************)
(* Properties.                                                             *)
(***************************************************************************)

\* What a formation receives are the services the other one sent, up to the
\* last byte, whatever their strings contain (serialize_services and
\* deserialize_services), and a message is longer than four bytes exactly when
\* it has a service: main tests that length before it sends.
MessageRoundTrip ==
    LET data == serialize_services(Services)
    IN  /\ \A i \in DOMAIN data : data[i] \in Byte
        /\ deserialize_services(data) = [services |-> Services, offset |-> Len(data)]
        /\ Len(data) > 4 <=> Services # <<>>

\* A path for each leaf, with the hashes of the others beside it: those of a tree
\* that has at most two.
Paths ==
    LET Other(k, i) == IF i < k THEN i ELSE i + 1
    IN  {[leaf |-> Leaves[k], leaf_index |-> k - 1, max_index |-> Len(Leaves) - 1,
          elements |-> [i \in 1 .. Len(Leaves) - 1 |->
                          [hash      |-> Leaves[Other(k, i)],
                           direction |-> IF Other(k, i) < k THEN "PATH_LEFT"
                                                            ELSE "PATH_RIGHT"]]] :
             k \in DOMAIN Leaves}

\* The tree a formation reads from the bytes has the leaves of the other's,
\* and a path the hashes that were written, each on its side (serialise and
\* deserialise of a tree and of a path).
TreeRoundTrip ==
    /\ deserialise(serialise(Leaves)) = [leaves |-> Leaves, flushed |-> 0]
    /\ \A p \in Paths : DeserialisedPath(SerialisedPath(p)) = p

\* buildMerkleTree may make a leaf of each digest: it has the 64 digits without
\* which HashT throws, and stands for the bytes it was made from.
DigestsMakeLeaves ==
    \A n \in DOMAIN registry :
        LET digest == hashServices(registry[n])
        IN  Len(digest) = 64 /\ to_hex(HashFromString(digest)) = digest

\* No change goes unnoticed: when a service of a type is added, or becomes
\* available or unavailable, the type's leaf is another one, although two
\* hashes fold every character of the vector onto 32 bytes (hashServices).
ChangeChangesLeaf ==
    [][\A n \in DOMAIN registry :
          registry'[n] # registry[n] => LeafOf(registry'[n]) # LeafOf(registry[n])]_registry
=============================================================================
