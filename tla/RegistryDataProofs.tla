------------------------- MODULE RegistryDataProofs -------------------------
(***************************************************************************)
(* Lemmas about the operators of RegistryData, for every finite set of     *)
(* service types and any instances and nodes: the positions of elements in *)
(* an ordered container, the selection of elements of a vector, and from   *)
(* them what the methods of a registry keep, remove and report.            *)
(***************************************************************************)
EXTENDS RegistryData, SequenceLemmas

-----------------------------------------------------------------------------
(* Positions.                                                              *)

\* Rank counts the smaller elements, so it grows with the element.
LEMMA RankMonotonic ==
    ASSUME NEW S \in SUBSET Nat, IsFiniteSet(S), NEW x \in S, NEW y \in S, x < y
    PROVE  Rank(S, x) \in Nat /\ Rank(S, y) \in Nat /\ Rank(S, x) < Rank(S, y)
<1> DEFINE X == {z \in S : z < x}
           Y == {z \in S : z < y}
<1>1. IsFiniteSet(X) /\ IsFiniteSet(Y)
  BY FS_Subset, X \in SUBSET S, Y \in SUBSET S
<1>2. X \in SUBSET Y /\ X # Y
  <2>1. \A z \in S : z < x => z < y
    OBVIOUS
  <2>2. x \in Y /\ x \notin X
    OBVIOUS
  <2> QED
    BY <2>1, <2>2
<1>3. Cardinality(X) <= Cardinality(Y) /\ Cardinality(X) # Cardinality(Y)
  BY <1>1, <1>2, FS_Subset
<1>4. Cardinality(X) \in Nat /\ Cardinality(Y) \in Nat
  BY <1>1, FS_CardinalityType
<1> QED
  BY <1>3, <1>4 DEF Rank

\* The rank of an element is one of the positions 0 .. size - 1.
LEMMA RankType ==
    ASSUME NEW S \in SUBSET Nat, IsFiniteSet(S), NEW x \in S
    PROVE  Rank(S, x) \in 0 .. Cardinality(S) - 1
<1> DEFINE X == {z \in S : z < x}
<1>1. X \in SUBSET S /\ X # S
  BY x \notin X
<1>2. IsFiniteSet(X) /\ Cardinality(X) <= Cardinality(S) /\ Cardinality(X) # Cardinality(S)
  BY <1>1, FS_Subset
<1>3. Cardinality(X) \in Nat /\ Cardinality(S) \in Nat
  BY <1>2, FS_CardinalityType
<1> QED
  BY <1>2, <1>3 DEF Rank

\* Two elements have different ranks.
LEMMA RankInjective ==
    ASSUME NEW S \in SUBSET Nat, IsFiniteSet(S), NEW x \in S, NEW y \in S,
           Rank(S, x) = Rank(S, y)
    PROVE  x = y
<1>1. CASE x < y
  BY <1>1, RankMonotonic
<1>2. CASE y < x
  BY <1>2, RankMonotonic
<1> QED
  BY <1>1, <1>2

\* Advancing an iterator by less than the size lands on the element of that
\* rank: there is one at every position.
LEMMA NthProperties ==
    ASSUME NEW S \in SUBSET Nat, IsFiniteSet(S), NEW i \in 0 .. Cardinality(S) - 1
    PROVE  Nth(S, i) \in S /\ Rank(S, Nth(S, i)) = i
<1> DEFINE P == 0 .. Cardinality(S) - 1
           f == [x \in S |-> Rank(S, x)]
<1>1. Cardinality(S) \in Nat
  BY FS_CardinalityType
<1>2. IsFiniteSet(P) /\ Cardinality(P) = Cardinality(S)
  BY <1>1, FS_Interval
<1>3. f \in [S -> P]
  BY RankType
<1>4. \A x, y \in S : f[x] = f[y] => x = y
  BY RankInjective
<1>5. f \in Injection(S, P)
  BY <1>3, <1>4 DEF Injection, IsInjective
<1>6. f \in Surjection(S, P)
  BY <1>2, <1>5, FS_Injection
<1>7. \E x \in S : Rank(S, x) = i
  BY <1>6 DEF Surjection
<1> QED
  BY <1>7 DEF Nth

\* The element at the rank of x is x.
LEMMA NthOfRank ==
    ASSUME NEW S \in SUBSET Nat, IsFiniteSet(S), NEW x \in S
    PROVE  Nth(S, Rank(S, x)) = x
<1>1. \A y \in S : Rank(S, y) = Rank(S, x) => y = x
  BY RankInjective
<1>2. Rank(S, x) \in 0 .. Cardinality(S) - 1
  BY RankType
<1>3. Nth(S, Rank(S, x)) \in S /\ Rank(S, Nth(S, Rank(S, x))) = Rank(S, x)
  BY <1>2, NthProperties
<1> QED
  BY <1>1, <1>3

-----------------------------------------------------------------------------
(* Selections from a vector.                                               *)

\* A vector has as many indexes as elements.
LEMMA DomainCardinality ==
    ASSUME NEW S, NEW v \in Seq(S)
    PROVE  Cardinality(DOMAIN v) = Len(v)
<1>1. Len(v) \in Nat /\ DOMAIN v = 1 .. Len(v)
  BY LenProperties
<1>2. Cardinality(1 .. Len(v)) = IF 1 > Len(v) THEN 0 ELSE Len(v) - 1 + 1
  BY <1>1, FS_Interval
<1> QED
  BY <1>1, <1>2

\* A selection is a vector of the selected elements, one per index.
LEMMA PickProperties ==
    ASSUME NEW S, NEW v \in Seq(S), NEW I \in SUBSET DOMAIN v
    PROVE  /\ IsFiniteSet(I)
           /\ Pick(v, I) \in Seq(S)
           /\ Len(Pick(v, I)) = Cardinality(I)
           /\ Contents(Pick(v, I)) = {v[i] : i \in I}
<1> DEFINE N == Cardinality(I)
<1>1. Len(v) \in Nat /\ DOMAIN v = 1 .. Len(v) /\ \A i \in DOMAIN v : v[i] \in S
  BY LenProperties, ElementOfSeq
<1>2. IsFiniteSet(I) /\ I \in SUBSET Nat
  <2>1. IsFiniteSet(DOMAIN v)
    BY <1>1, FS_Interval
  <2>2. IsFiniteSet(I)
    BY <2>1, FS_Subset
  <2>3. DOMAIN v \in SUBSET Nat
    BY <1>1
  <2> QED
    BY <2>2, <2>3
<1>3. N \in Nat
  BY <1>2, FS_CardinalityType
<1>4. \A k \in 1 .. N : Nth(I, k - 1) \in I
  BY <1>2, <1>3, NthProperties
<1>5. \A k \in 1 .. N : v[Nth(I, k - 1)] \in S
  BY <1>1, <1>4
<1>6. Pick(v, I) = [k \in 1 .. N |-> v[Nth(I, k - 1)]]
  BY DEF Pick
<1>7. Pick(v, I) \in Seq(S)
  BY <1>3, <1>5, <1>6, IsASeq
<1>8. DOMAIN Pick(v, I) = 1 .. N /\ Len(Pick(v, I)) = N
  BY <1>3, <1>6, <1>7, LenProperties
<1>9. \A i \in I : Rank(I, i) + 1 \in 1 .. N /\ Nth(I, (Rank(I, i) + 1) - 1) = i
  <2> TAKE i \in I
  <2>1. Rank(I, i) \in 0 .. N - 1 /\ Nth(I, Rank(I, i)) = i
    BY <1>2, RankType, NthOfRank
  <2>2. (Rank(I, i) + 1) - 1 = Rank(I, i)
    BY <2>1, <1>3
  <2> QED
    BY <2>1, <2>2, <1>3
<1>10. Contents(Pick(v, I)) \subseteq {v[i] : i \in I}
  BY <1>4, <1>6, <1>8 DEF Contents
<1>11. \A i \in I : v[i] \in Contents(Pick(v, I))
  BY <1>6, <1>8, <1>9 DEF Contents
<1> QED
  BY <1>2, <1>7, <1>8, <1>10, <1>11

\* Nothing selected, nothing there.
LEMMA PickEmpty ==
    ASSUME NEW S, NEW v \in Seq(S), NEW I \in SUBSET DOMAIN v
    PROVE  Pick(v, I) = <<>> <=> I = {}
<1>1. IsFiniteSet(I) /\ Pick(v, I) \in Seq(S) /\ Len(Pick(v, I)) = Cardinality(I)
  BY PickProperties
<1>2. Cardinality(I) = 0 <=> I = {}
  BY <1>1, FS_EmptySet
<1>3. Pick(v, I) = <<>> <=> Len(Pick(v, I)) = 0
  BY <1>1, EmptySeq
<1> QED
  BY <1>1, <1>2, <1>3

\* Concatenation joins the contents.
LEMMA ConcatContents ==
    ASSUME NEW S, NEW u \in Seq(S), NEW v \in Seq(S)
    PROVE  Contents(u \o v) = Contents(u) \cup Contents(v)
<1>1. u \o v \in Seq(S) /\ Len(u \o v) = Len(u) + Len(v)
  BY ConcatProperties
<1>2. \A i \in 1 .. Len(u) + Len(v) :
         (u \o v)[i] = IF i <= Len(u) THEN u[i] ELSE v[i - Len(u)]
  BY ConcatProperties
<1>3. /\ Len(u) \in Nat /\ Len(v) \in Nat
      /\ DOMAIN u = 1 .. Len(u) /\ DOMAIN v = 1 .. Len(v)
      /\ DOMAIN (u \o v) = 1 .. Len(u) + Len(v)
  BY <1>1, LenProperties
<1>4. \A i \in DOMAIN u : i \in DOMAIN (u \o v) /\ (u \o v)[i] = u[i]
  BY <1>2, <1>3
<1>5. \A i \in DOMAIN v :
         Len(u) + i \in DOMAIN (u \o v) /\ (u \o v)[Len(u) + i] = v[i]
  <2> TAKE i \in DOMAIN v
  <2>1. Len(u) + i \in 1 .. Len(u) + Len(v) /\ ~(Len(u) + i <= Len(u))
        /\ (Len(u) + i) - Len(u) = i
    BY <1>3
  <2> QED
    BY <2>1, <1>2, <1>3
<1>6. \A i \in DOMAIN (u \o v) : (u \o v)[i] \in Contents(u) \cup Contents(v)
  <2> TAKE i \in DOMAIN (u \o v)
  <2>1. CASE i <= Len(u)
    BY <2>1, <1>2, <1>3 DEF Contents
  <2>2. CASE ~(i <= Len(u))
    <3>1. i - Len(u) \in DOMAIN v /\ (u \o v)[i] = v[i - Len(u)]
      BY <2>2, <1>2, <1>3
    <3> QED
      BY <3>1 DEF Contents
  <2> QED
    BY <2>1, <2>2
<1> QED
  BY <1>4, <1>5, <1>6 DEF Contents

-----------------------------------------------------------------------------
(* Receiving services.                                                     *)

\* The vector of a type after receiving new services for it: the old services
\* on nodes no new one is on, and of the new services the last of each node.
\* With at least one new service it is not empty.
LEMMA ReceivedProperties ==
    ASSUME NEW old \in Seq(Service), NEW new \in Seq(Service)
    PROVE  /\ Received(old, new) \in Seq(Service)
           /\ Contents(Received(old, new)) =
                {s \in Contents(old) : \A t \in Contents(new) : t.nodeId # s.nodeId}
                \cup
                {new[i] : i \in {k \in DOMAIN new :
                    \A j \in DOMAIN new : j > k => new[j].nodeId # new[k].nodeId}}
           /\ new # <<>> => Received(old, new) # <<>>
<1> DEFINE I == {i \in DOMAIN old : \A j \in DOMAIN new : new[j].nodeId # old[i].nodeId}
           J == {i \in DOMAIN new :
                   \A j \in DOMAIN new : j > i => new[j].nodeId # new[i].nodeId}
<1>1. I \in SUBSET DOMAIN old /\ J \in SUBSET DOMAIN new
  OBVIOUS
<1>2. Pick(old, I) \in Seq(Service) /\ Contents(Pick(old, I)) = {old[i] : i \in I}
  BY <1>1, PickProperties
<1>3. Pick(new, J) \in Seq(Service) /\ Contents(Pick(new, J)) = {new[i] : i \in J}
  BY <1>1, PickProperties
<1>4. Received(old, new) = Pick(old, I) \o Pick(new, J)
  BY DEF Received
<1>5. Received(old, new) \in Seq(Service)
  BY <1>2, <1>3, <1>4, ConcatProperties
<1>6. Contents(Received(old, new)) = {old[i] : i \in I} \cup {new[i] : i \in J}
  <2>1. Contents(Pick(old, I) \o Pick(new, J)) = Contents(Pick(old, I)) \cup Contents(Pick(new, J))
    BY <1>2, <1>3, ConcatContents
  <2> HIDE DEF I, J
  <2> QED
    BY <2>1, <1>2, <1>3, <1>4
<1>7. {old[i] : i \in I} =
        {s \in Contents(old) : \A t \in Contents(new) : t.nodeId # s.nodeId}
  BY DEF Contents
<1>8. ASSUME new # <<>> PROVE Received(old, new) # <<>>
  <2>1. Len(new) \in Nat \ {0} /\ DOMAIN new = 1 .. Len(new)
    BY <1>8, EmptySeq, LenProperties
  <2>2. Len(new) \in J
    BY <2>1
  <2>3. Pick(new, J) # <<>>
    BY <2>2, <1>1, PickEmpty
  <2> QED
    BY <2>3, <1>2, <1>3, <1>4, ConcatEqualIffEmpty
<1> QED
  BY <1>5, <1>6, <1>7, <1>8

\* Receiving a message keeps the map well formed, adds no type but those the
\* message carries, and leaves no type without instances if there was none.
LEMMA DeserializeProperties ==
    ASSUME NEW reg, IsRegistry(reg), NEW msg, IsRegistry(msg)
    PROVE  LET new == deserializeAndSetServices(reg, msg)
           IN  /\ IsRegistry(new)
               /\ DOMAIN new = DOMAIN reg \cup Carried(msg)
               /\ NonEmptyKeys(reg) = DOMAIN reg => NonEmptyKeys(new) = DOMAIN new
<1> DEFINE new == deserializeAndSetServices(reg, msg)
<1> HIDE DEF new
<1>1. /\ DOMAIN new = DOMAIN reg \cup Carried(msg)
      /\ \A n \in DOMAIN new :
            new[n] = IF n \in Carried(msg) THEN Received(InstancesOf(reg, n), msg[n])
                                           ELSE reg[n]
      /\ new = [n \in DOMAIN new |-> new[n]]
  BY DEF new, deserializeAndSetServices
<1>2. \A n : InstancesOf(reg, n) \in Seq(Service)
  BY EmptySeq DEF InstancesOf, IsRegistry
<1>3. \A n \in Carried(msg) : n \in ServiceNames /\ msg[n] \in Seq(Service) /\ msg[n] # <<>>
  BY DEF Carried, IsRegistry
<1>4. \A n \in Carried(msg) : new[n] \in Seq(Service) /\ new[n] # <<>>
  BY <1>1, <1>2, <1>3, ReceivedProperties
<1>5. \A n \in DOMAIN reg : reg[n] \in Seq(Service) /\ n \in ServiceNames
  BY DEF IsRegistry
<1>6. \A n \in DOMAIN new : new[n] \in Seq(Service) /\ n \in ServiceNames
  BY <1>1, <1>3, <1>4, <1>5
<1>7. IsRegistry(new)
  BY <1>1, <1>6 DEF IsRegistry
<1>8. ASSUME NonEmptyKeys(reg) = DOMAIN reg PROVE NonEmptyKeys(new) = DOMAIN new
  BY <1>1, <1>4, <1>8 DEF NonEmptyKeys
<1> QED
  BY <1>1, <1>7, <1>8 DEF new

\* Receiving services of one node changes nothing listed for the other nodes.
LEMMA DeserializeKeepsOthers ==
    ASSUME NEW reg, IsRegistry(reg), NEW msg, IsRegistry(msg), NEW sender,
           \A n \in DOMAIN msg : \A s \in Contents(msg[n]) : s.nodeId = sender,
           NEW node, node # sender
    PROVE  ServicesOn(deserializeAndSetServices(reg, msg), node) = ServicesOn(reg, node)
<1> DEFINE new == deserializeAndSetServices(reg, msg)
           On(v) == {s \in Contents(v) : s.nodeId = node}
<1>1. /\ DOMAIN new = DOMAIN reg \cup Carried(msg)
      /\ \A n \in DOMAIN new :
            new[n] = IF n \in Carried(msg) THEN Received(InstancesOf(reg, n), msg[n])
                                           ELSE reg[n]
  BY DEF deserializeAndSetServices
<1> HIDE DEF new
<1>2. \A n \in Carried(msg) : On(new[n]) = On(InstancesOf(reg, n))
  <2> TAKE n \in Carried(msg)
  <2> DEFINE old == InstancesOf(reg, n)
  <2>1. old \in Seq(Service) /\ msg[n] \in Seq(Service) /\ n \in DOMAIN msg
    BY EmptySeq DEF InstancesOf, IsRegistry, Carried
  <2> DEFINE J == {k \in DOMAIN msg[n] :
                     \A j \in DOMAIN msg[n] : j > k => msg[n][j].nodeId # msg[n][k].nodeId}
  <2>2. Contents(new[n]) =
          {s \in Contents(old) : \A t \in Contents(msg[n]) : t.nodeId # s.nodeId}
          \cup {msg[n][i] : i \in J}
    BY <1>1, <2>1, ReceivedProperties
  <2>3. \A i \in J : msg[n][i].nodeId = sender
    BY <2>1 DEF Contents
  <2>4. \A t \in Contents(msg[n]) : t.nodeId = sender
    BY <2>1
  <2> HIDE DEF old, J
  <2>5. On(new[n]) = On(old)
    BY <2>2, <2>3, <2>4
  <2> QED
    BY <2>5 DEF old
<1>3. \A n \in DOMAIN new : On(new[n]) = On(InstancesOf(reg, n))
  BY <1>1, <1>2 DEF InstancesOf
<1>4. \A n : n \notin DOMAIN reg => On(InstancesOf(reg, n)) = {}
  BY DEF InstancesOf, Contents
<1>5. \A n \in DOMAIN reg : InstancesOf(reg, n) = reg[n]
  BY DEF InstancesOf
<1>6. \A s : s \in ServicesOn(new, node) <=> \E n \in DOMAIN new : s \in On(new[n])
  BY DEF ServicesOn
<1>7. \A s : s \in ServicesOn(reg, node) <=> \E n \in DOMAIN reg : s \in On(reg[n])
  BY DEF ServicesOn
<1> HIDE DEF On
<1>8. \A s : s \in ServicesOn(new, node) <=> s \in ServicesOn(reg, node)
  BY <1>1, <1>3, <1>4, <1>5, <1>6, <1>7
<1>9. ServicesOn(new, node) = ServicesOn(reg, node)
  BY <1>8 DEF ServicesOn
<1> QED
  BY <1>9 DEF new

-----------------------------------------------------------------------------
(* The tree.                                                               *)

\* The digests of a vector determine it.
LEMMA HashServicesInjective ==
    ASSUME NEW u \in Seq(Service), NEW v \in Seq(Service)
    PROVE  /\ hashServices(u) \in Seq(Digest)
           /\ hashServices(u) = hashServices(v) => u = v
<1>1. /\ Len(u) \in Nat /\ DOMAIN u = 1 .. Len(u) /\ \A i \in DOMAIN u : u[i] \in Service
      /\ Len(v) \in Nat /\ DOMAIN v = 1 .. Len(v) /\ \A i \in DOMAIN v : v[i] \in Service
  BY LenProperties, ElementOfSeq
<1>2. \A s \in Service : hashService(s) \in Digest
  BY DEF Service, hashService, Digest
<1>3. hashServices(u) = [i \in 1 .. Len(u) |-> hashService(u[i])]
  BY <1>1 DEF hashServices
<1>4. \A i \in 1 .. Len(u) : hashService(u[i]) \in Digest
  BY <1>1, <1>2
<1>5. hashServices(u) \in Seq(Digest)
  BY <1>1, <1>3, <1>4, IsASeq
<1>6. ASSUME hashServices(u) = hashServices(v) PROVE u = v
  <2>1. DOMAIN u = DOMAIN v
    BY <1>6 DEF hashServices
  <2>2. Len(u) = Len(v)
    BY <2>1, DomainCardinality
  <2>3. \A s, t \in Service : hashService(s) = hashService(t) => s = t
    BY DEF Service, hashService
  <2>4. \A i \in DOMAIN u : hashService(u[i]) = hashService(v[i])
    BY <1>6, <2>1 DEF hashServices
  <2>5. \A i \in 1 .. Len(u) : u[i] = v[i]
    BY <1>1, <2>1, <2>3, <2>4
  <2> QED
    BY <2>2, <2>5, SeqEqual
<1> QED
  BY <1>5, <1>6

\* The tree has one leaf per type with instances, and the leaf of a type is at
\* the position of its key among the keys with instances.
LEMMA TreeProperties ==
    ASSUME NEW reg, IsRegistry(reg)
    PROVE  /\ IsFiniteSet(NonEmptyKeys(reg)) /\ NonEmptyKeys(reg) \in SUBSET Nat
           /\ buildMerkleTree(reg) \in Seq(Seq(Digest))
           /\ Len(buildMerkleTree(reg)) = Cardinality(NonEmptyKeys(reg))
           /\ \A k \in 1 .. Cardinality(NonEmptyKeys(reg)) :
                 buildMerkleTree(reg)[k] = hashServices(reg[Nth(NonEmptyKeys(reg), k - 1)])
<1> DEFINE K == NonEmptyKeys(reg)
           N == Cardinality(K)
<1>1. K \in SUBSET ServiceNames
  BY DEF IsRegistry, NonEmptyKeys
<1>2. IsFiniteSet(K) /\ K \in SUBSET Nat
  <2>1. IsFiniteSet(K)
    BY <1>1, FS_Subset, ServiceNamesAssumption
  <2>2. K \in SUBSET Nat
    BY <1>1, ServiceNamesAssumption
  <2> QED
    BY <2>1, <2>2
<1>3. N \in Nat
  BY <1>2, FS_CardinalityType
<1>4. \A k \in 1 .. N : Nth(K, k - 1) \in K
  BY <1>2, <1>3, NthProperties
<1>5. \A n \in K : reg[n] \in Seq(Service)
  BY DEF IsRegistry, NonEmptyKeys
<1>6. \A k \in 1 .. N : hashServices(reg[Nth(K, k - 1)]) \in Seq(Digest)
  BY <1>4, <1>5, HashServicesInjective
<1>7. buildMerkleTree(reg) = [k \in 1 .. N |-> hashServices(reg[Nth(K, k - 1)])]
  BY DEF buildMerkleTree
<1>8. buildMerkleTree(reg) \in Seq(Seq(Digest))
  BY <1>3, <1>6, <1>7, IsASeq
<1>9. Len(buildMerkleTree(reg)) = N
  BY <1>3, <1>7, <1>8, LenProperties
<1> QED
  BY <1>2, <1>7, <1>8, <1>9

\* If two registries have the same types, each with instances, comparing their
\* trees does not throw and reports exactly the types that differ.
LEMMA CompareProperties ==
    ASSUME NEW l, IsRegistry(l), NEW r, IsRegistry(r),
           NonEmptyKeys(l) = DOMAIN l, NonEmptyKeys(r) = DOMAIN r,
           DOMAIN l = DOMAIN r, DOMAIN l # {}
    PROVE  /\ ~ComparisonThrows(buildMerkleTree(l), buildMerkleTree(r))
           /\ compareAndSyncTree(l, buildMerkleTree(l), buildMerkleTree(r)) =
                {n \in DOMAIN l : l[n] # r[n]}
<1> DEFINE K == DOMAIN l
           N == Cardinality(K)
           L == buildMerkleTree(l)
           R == buildMerkleTree(r)
<1>1. /\ IsFiniteSet(K) /\ K \in SUBSET Nat
      /\ L \in Seq(Seq(Digest)) /\ Len(L) = N
      /\ \A k \in 1 .. N : L[k] = hashServices(l[Nth(K, k - 1)])
  BY TreeProperties
<1>2. /\ R \in Seq(Seq(Digest)) /\ Len(R) = N
      /\ \A k \in 1 .. N : R[k] = hashServices(r[Nth(K, k - 1)])
  BY TreeProperties
<1> HIDE DEF L, R
<1>3. N \in Nat /\ N # 0
  BY <1>1, FS_CardinalityType, FS_EmptySet
<1>4. ~ComparisonThrows(L, R)
  BY <1>1, <1>2, <1>3, EmptySeq DEF ComparisonThrows
<1>5. \A n \in K : l[n] \in Seq(Service) /\ r[n] \in Seq(Service)
  BY DEF IsRegistry
<1>6. \A i \in 0 .. N - 1 :
        /\ Nth(K, i) \in K
        /\ L[i + 1] = hashServices(l[Nth(K, i)])
        /\ R[i + 1] = hashServices(r[Nth(K, i)])
  <2> TAKE i \in 0 .. N - 1
  <2>1. i + 1 \in 1 .. N /\ (i + 1) - 1 = i
    BY <1>3
  <2>2. Nth(K, i) \in K
    BY <1>1, NthProperties
  <2> QED
    BY <2>1, <2>2, <1>1, <1>2
<1>7. \A i \in 0 .. N - 1 : L[i + 1] # R[i + 1] <=> l[Nth(K, i)] # r[Nth(K, i)]
  BY <1>5, <1>6, HashServicesInjective
<1>8. \A n \in K : \E i \in 0 .. N - 1 : Nth(K, i) = n
  BY <1>1, RankType, NthOfRank
<1>9. compareAndSyncTree(l, L, R) = {Nth(K, i) : i \in {j \in 0 .. N - 1 : L[j + 1] # R[j + 1]}}
  BY <1>1 DEF compareAndSyncTree, findInconsistentLeaves
<1>10. compareAndSyncTree(l, L, R) = {n \in K : l[n] # r[n]}
  BY <1>6, <1>7, <1>8, <1>9
<1> QED
  BY <1>4, <1>10 DEF L, R

-----------------------------------------------------------------------------
(* Requests.                                                               *)

\* The first element of a set of positions is in it.
LEMMA FirstProperties ==
    ASSUME NEW S \in SUBSET Nat, IsFiniteSet(S), S # {}
    PROVE  Nth(S, 0) \in S
<1>1. Cardinality(S) \in Nat /\ Cardinality(S) # 0
  BY FS_CardinalityType, FS_EmptySet
<1>2. 0 \in 0 .. Cardinality(S) - 1
  BY <1>1
<1> QED
  BY <1>2, NthProperties

\* The same for a set of indexes of a vector, and for a set of types.
LEMMA FirstIndex ==
    ASSUME NEW S, NEW v \in Seq(S), NEW I \in SUBSET DOMAIN v, I # {}
    PROVE  Nth(I, 0) \in I
<1>1. Len(v) \in Nat /\ DOMAIN v = 1 .. Len(v)
  BY LenProperties
<1>2. IsFiniteSet(I)
  BY PickProperties
<1>3. I \in SUBSET Nat
  BY <1>1
<1> QED
  BY <1>2, <1>3, FirstProperties

LEMMA FirstType ==
    ASSUME NEW reg, IsRegistry(reg), NEW K \in SUBSET DOMAIN reg, K # {}
    PROVE  Nth(K, 0) \in K
<1>1. K \in SUBSET ServiceNames
  BY DEF IsRegistry
<1>2. IsFiniteSet(K) /\ K \in SUBSET Nat
  BY <1>1, ServiceNamesAssumption, FS_Subset
<1> QED
  BY <1>2, FirstProperties

\* What a map lists for a type is a vector of services.
LEMMA InstancesProperties ==
    ASSUME NEW reg, IsRegistry(reg), NEW n
    PROVE  InstancesOf(reg, n) \in Seq(Service)
BY EmptySeq DEF InstancesOf, IsRegistry

\* Pushing services onto a map keeps it well formed, adds their types and
\* nothing but them.
LEMMA PushProperties ==
    ASSUME NEW reg, IsRegistry(reg), NEW services \in Seq(Service)
    PROVE  LET new == PushAll(reg, services)
           IN  /\ IsRegistry(new)
               /\ DOMAIN new = DOMAIN reg \cup NamesIn(services)
               /\ \A n \in DOMAIN new :
                     Contents(new[n]) = Contents(InstancesOf(reg, n)) \cup
                        {s \in Contents(services) : s.service_name = n}
<1> DEFINE I(n) == {i \in DOMAIN services : services[i].service_name = n}
           new == PushAll(reg, services)
<1>1. /\ DOMAIN new = DOMAIN reg \cup NamesIn(services)
      /\ \A n \in DOMAIN new : new[n] = InstancesOf(reg, n) \o Pick(services, I(n))
      /\ new = [n \in DOMAIN new |-> new[n]]
  BY DEF PushAll
<1> HIDE DEF new
<1>2. \A n \in DOMAIN new :
         /\ new[n] \in Seq(Service)
         /\ Contents(new[n]) = Contents(InstancesOf(reg, n)) \cup {services[i] : i \in I(n)}
  <2> TAKE n \in DOMAIN new
  <2>1. I(n) \in SUBSET DOMAIN services
    OBVIOUS
  <2>2. InstancesOf(reg, n) \in Seq(Service)
    BY InstancesProperties
  <2>3. /\ Pick(services, I(n)) \in Seq(Service)
        /\ Contents(Pick(services, I(n))) = {services[i] : i \in I(n)}
    BY <2>1, PickProperties
  <2> HIDE DEF I
  <2>4. Contents(InstancesOf(reg, n) \o Pick(services, I(n)))
           = Contents(InstancesOf(reg, n)) \cup Contents(Pick(services, I(n)))
    BY <2>2, <2>3, ConcatContents
  <2>5. InstancesOf(reg, n) \o Pick(services, I(n)) \in Seq(Service)
    BY <2>2, <2>3, ConcatProperties
  <2> QED
    BY <1>1, <2>3, <2>4, <2>5
<1>3. \A n : {services[i] : i \in I(n)} = {s \in Contents(services) : s.service_name = n}
  BY DEF Contents
<1>4. NamesIn(services) \subseteq ServiceNames
  <2>1. \A i \in DOMAIN services : services[i] \in Service
    BY ElementOfSeq, LenProperties
  <2> QED
    BY <2>1 DEF NamesIn, Service
<1>5. DOMAIN new \subseteq ServiceNames
  BY <1>1, <1>4 DEF IsRegistry
<1>6. IsRegistry(new)
  BY <1>1, <1>2, <1>5 DEF IsRegistry
<1>7. \A n \in DOMAIN new :
         Contents(new[n]) = Contents(InstancesOf(reg, n)) \cup
            {s \in Contents(services) : s.service_name = n}
  BY <1>2, <1>3
<1> QED
  BY <1>1, <1>6, <1>7 DEF new

\* Removing an instance of a type keeps the map well formed, keeps its types
\* and makes the type named a key, and removes nothing else.
LEMMA WithoutProperties ==
    ASSUME NEW reg, IsRegistry(reg), NEW n \in ServiceNames, NEW id
    PROVE  /\ IsRegistry(WithoutInstance(reg, n, id))
           /\ DOMAIN WithoutInstance(reg, n, id) = DOMAIN reg \cup {n}
           /\ \A m \in DOMAIN reg : m # n => WithoutInstance(reg, n, id)[m] = reg[m]
           /\ \A s : s \in Contents(WithoutInstance(reg, n, id)[n])
                       <=> s \in Contents(InstancesOf(reg, n)) /\ s.instance_id # id
<1> DEFINE v == InstancesOf(reg, n)
           I == {i \in DOMAIN v : reg[n][i].instance_id # id}
           new == WithoutInstance(reg, n, id)
<1>1. new = [m \in DOMAIN reg \cup {n} |-> IF m = n THEN Pick(v, I) ELSE reg[m]]
  BY DEF WithoutInstance
<1>2. v \in Seq(Service) /\ I \in SUBSET DOMAIN v
  BY InstancesProperties
<1>3. Pick(v, I) \in Seq(Service) /\ Contents(Pick(v, I)) = {v[i] : i \in I}
  BY <1>2, PickProperties
<1>4. {v[i] : i \in I} = {s \in Contents(v) : s.instance_id # id}
  <2>1. CASE n \in DOMAIN reg
    BY <2>1 DEF InstancesOf, Contents
  <2>2. CASE n \notin DOMAIN reg
    <3>1. v = <<>> /\ DOMAIN v = {}
      BY <2>2 DEF InstancesOf
    <3> QED
      BY <3>1 DEF Contents
  <2> QED
    BY <2>1, <2>2
<1> HIDE DEF v, I, new
<1>5. DOMAIN new = DOMAIN reg \cup {n}
  BY <1>1
<1>6. IsRegistry(new)
  BY <1>1, <1>3 DEF IsRegistry
<1>7. /\ \A m \in DOMAIN reg : m # n => new[m] = reg[m]
      /\ \A s : s \in Contents(new[n]) <=> s \in Contents(v) /\ s.instance_id # id
  BY <1>1, <1>3, <1>4
<1> QED
  BY <1>5, <1>6, <1>7 DEF new, v

\* A heartbeat keeps the map well formed and its types, and every service in
\* its place; it only sets the state of services with the instance id, of one
\* at least in every type that lists the instance.
LEMMA RevivedProperties ==
    ASSUME NEW reg, IsRegistry(reg), NEW id
    PROVE  LET new == Revived(reg, id)
           IN  /\ IsRegistry(new)
               /\ DOMAIN new = DOMAIN reg
               /\ \A n \in DOMAIN reg :
                     /\ DOMAIN new[n] = DOMAIN reg[n]
                     /\ \A i \in DOMAIN reg[n] :
                           \/ new[n][i] = reg[n][i]
                           \/ /\ reg[n][i].instance_id = id
                              /\ new[n][i] = [reg[n][i] EXCEPT !.is_alive = TRUE]
                     /\ IndexesOf(reg, n, id) # {} =>
                           \E s \in Contents(new[n]) : s.instance_id = id /\ s.is_alive
<1> DEFINE first(n) == Nth(IndexesOf(reg, n, id), 0)
           new == Revived(reg, id)
<1>1. /\ DOMAIN new = DOMAIN reg
      /\ new = [n \in DOMAIN new |-> new[n]]
      /\ \A n \in DOMAIN reg :
            new[n] = IF IndexesOf(reg, n, id) = {} THEN reg[n]
                     ELSE [reg[n] EXCEPT ![first(n)].is_alive = TRUE]
  BY DEF Revived
<1> HIDE DEF new
<1>2. ASSUME NEW n \in DOMAIN reg, IndexesOf(reg, n, id) # {}
      PROVE  /\ new[n] \in Seq(Service)
             /\ DOMAIN new[n] = DOMAIN reg[n]
             /\ first(n) \in DOMAIN reg[n] /\ reg[n][first(n)].instance_id = id
             /\ new[n][first(n)] = [reg[n][first(n)] EXCEPT !.is_alive = TRUE]
             /\ reg[n][first(n)] \in Service
             /\ \A i \in DOMAIN reg[n] : i # first(n) => new[n][i] = reg[n][i]
  <2> DEFINE i0 == first(n)
             s == [reg[n][i0] EXCEPT !.is_alive = TRUE]
  <2>1. reg[n] \in Seq(Service)
    BY DEF IsRegistry
  <2>2. IndexesOf(reg, n, id) \in SUBSET DOMAIN reg[n]
    BY DEF IndexesOf
  <2>3. i0 \in IndexesOf(reg, n, id)
    BY <1>2, <2>1, <2>2, FirstIndex
  <2>4. i0 \in DOMAIN reg[n] /\ reg[n][i0].instance_id = id
    BY <2>3 DEF IndexesOf
  <2>5. new[n] = [reg[n] EXCEPT ![i0].is_alive = TRUE]
    BY <1>1, <1>2
  <2> HIDE DEF i0
  <2>6. new[n] = [reg[n] EXCEPT ![i0] = s]
    BY <2>5
  <2>7. Len(reg[n]) \in Nat /\ DOMAIN reg[n] = 1 .. Len(reg[n]) /\ reg[n][i0] \in Service
    BY <2>1, <2>4, LenProperties, ElementOfSeq
  <2>8. s \in Service
    BY <2>7 DEF Service
  <2> HIDE DEF s
  <2>9. [reg[n] EXCEPT ![i0] = s] \in Seq(Service)
    BY <2>1, <2>4, <2>7, <2>8, ExceptSeq
  <2>10. /\ DOMAIN new[n] = DOMAIN reg[n] /\ new[n][i0] = s
         /\ \A i \in DOMAIN reg[n] : i # i0 => new[n][i] = reg[n][i]
    BY <2>4, <2>6
  <2> QED
    BY <2>4, <2>6, <2>7, <2>9, <2>10 DEF i0, s
<1>3. \A n \in DOMAIN reg : n \in ServiceNames /\ reg[n] \in Seq(Service)
  BY DEF IsRegistry
<1> HIDE DEF first
<1>4. \A n \in DOMAIN reg : new[n] \in Seq(Service)
  BY <1>1, <1>2, <1>3
<1>5. IsRegistry(new)
  BY <1>1, <1>3, <1>4 DEF IsRegistry
<1>6. ASSUME NEW n \in DOMAIN reg
      PROVE  /\ DOMAIN new[n] = DOMAIN reg[n]
             /\ \A i \in DOMAIN reg[n] :
                   \/ new[n][i] = reg[n][i]
                   \/ /\ reg[n][i].instance_id = id
                      /\ new[n][i] = [reg[n][i] EXCEPT !.is_alive = TRUE]
  BY <1>1, <1>2
<1>7. ASSUME NEW n \in DOMAIN reg, IndexesOf(reg, n, id) # {}
      PROVE  \E s \in Contents(new[n]) : s.instance_id = id /\ s.is_alive
  <2> DEFINE s == new[n][first(n)]
  <2>1. s \in Contents(new[n])
    BY <1>2, <1>7 DEF Contents
  <2>2. s.instance_id = id /\ s.is_alive
    BY <1>2, <1>7 DEF Service
  <2> QED
    BY <2>1, <2>2
<1> QED
  BY <1>1, <1>5, <1>6, <1>7 DEF new

\* A tree just built has no more leaves than the map has types.
LEMMA LeavesBounded ==
    ASSUME NEW reg, IsRegistry(reg)
    PROVE  /\ IsFiniteSet(DOMAIN reg)
           /\ Len(buildMerkleTree(reg)) <= Cardinality(DOMAIN reg)
<1>1. IsFiniteSet(DOMAIN reg)
  BY ServiceNamesAssumption, FS_Subset DEF IsRegistry
<1>2. NonEmptyKeys(reg) \in SUBSET DOMAIN reg
  BY DEF NonEmptyKeys
<1> QED
  BY <1>1, <1>2, FS_Subset, TreeProperties

\* A map that keeps its types keeps as many.
LEMMA KeysGrow ==
    ASSUME NEW reg, IsRegistry(reg), NEW new, IsRegistry(new),
           DOMAIN reg \subseteq DOMAIN new
    PROVE  /\ Cardinality(DOMAIN reg) \in Nat
           /\ Cardinality(DOMAIN new) \in Nat
           /\ Cardinality(DOMAIN reg) <= Cardinality(DOMAIN new)
<1>1. IsFiniteSet(DOMAIN reg) /\ IsFiniteSet(DOMAIN new)
  BY LeavesBounded
<1> QED
  BY <1>1, FS_Subset, FS_CardinalityType

\* Of a local tree with no more leaves than the map has types, a comparison
\* reports types of the map.
LEMMA CompareWithinKeys ==
    ASSUME NEW reg, IsRegistry(reg), NEW local \in Seq(Seq(Digest)), NEW remote,
           Len(local) <= Cardinality(DOMAIN reg)
    PROVE  compareAndSyncTree(reg, local, remote) \subseteq DOMAIN reg
<1>1. IsFiniteSet(DOMAIN reg) /\ DOMAIN reg \in SUBSET Nat
  BY LeavesBounded, ServiceNamesAssumption DEF IsRegistry
<1>2. Len(local) \in Nat /\ Cardinality(DOMAIN reg) \in Nat
  BY <1>1, FS_CardinalityType, LenProperties
<1>3. \A i \in findInconsistentLeaves(local, remote) : i \in 0 .. Cardinality(DOMAIN reg) - 1
  BY <1>2 DEF findInconsistentLeaves
<1> QED
  BY <1>1, <1>3, NthProperties DEF compareAndSyncTree

-----------------------------------------------------------------------------
(* Lists.                                                                  *)

\* Shifting a set of positions keeps how many there are.
LEMMA ShiftCardinality ==
    ASSUME NEW X \in SUBSET Nat, IsFiniteSet(X), NEW c \in Nat
    PROVE  /\ IsFiniteSet({c + x : x \in X})
           /\ Cardinality({c + x : x \in X}) = Cardinality(X)
<1> DEFINE Y == {c + x : x \in X}
           f == [x \in X |-> c + x]
<1>1. f \in Surjection(X, Y)
  BY DEF Surjection
<1>2. f \in Injection(X, Y)
  <2>1. f \in [X -> Y]
    OBVIOUS
  <2>2. \A a, b \in X : f[a] = f[b] => a = b
    <3> TAKE a, b \in X
    <3>1. a \in Nat /\ b \in Nat /\ f[a] = c + a /\ f[b] = c + b
      OBVIOUS
    <3> HIDE DEF f
    <3> QED
      BY <3>1
  <2> HIDE DEF f, Y
  <2> QED
    BY <2>1, <2>2 DEF Injection, IsInjective
<1> QED
  BY <1>1, <1>2, FS_Surjection

\* Selecting all of a vector gives the vector.
LEMMA PickAll ==
    ASSUME NEW S, NEW v \in Seq(S)
    PROVE  Pick(v, DOMAIN v) = v
<1> DEFINE D == DOMAIN v
<1>1. Len(v) \in Nat /\ D = 1 .. Len(v) /\ IsFiniteSet(D) /\ D \in SUBSET Nat
  <2>1. Len(v) \in Nat /\ D = 1 .. Len(v)
    BY LenProperties
  <2>2. D \in SUBSET Nat
    BY <2>1
  <2> QED
    BY <2>1, <2>2, FS_Interval
<1>2. Pick(v, D) \in Seq(S) /\ Len(Pick(v, D)) = Len(v)
  BY PickProperties, DomainCardinality
<1>3. ASSUME NEW k \in 1 .. Len(v) PROVE Nth(D, k - 1) = k
  <2>1. {y \in D : y < k} = 1 .. k - 1
    BY <1>1
  <2>2. Rank(D, k) = k - 1
    <3>1. k - 1 \in Int /\ k \in Nat /\ k >= 1
      BY <1>1
    <3>2. Cardinality(1 .. k - 1) = IF 1 > k - 1 THEN 0 ELSE (k - 1) - 1 + 1
      BY <3>1, FS_Interval
    <3>3. Cardinality(1 .. k - 1) = k - 1
      BY <3>1, <3>2
    <3> QED
      BY <2>1, <3>3 DEF Rank
  <2> QED
    BY <1>1, <2>2, NthOfRank
<1>4. \A k \in 1 .. Len(v) : Pick(v, D)[k] = v[k]
  BY <1>1, <1>2, <1>3, DomainCardinality DEF Pick
<1> QED
  BY <1>2, <1>4, SeqEqual

\* The indexes I of a vector of length n, and J of the vector after it.
Joined(I, n, J) == I \cup {n + j : j \in J}

\* Selecting from two vectors one after the other is selecting from each.
LEMMA PickConcat ==
    ASSUME NEW S, NEW u \in Seq(S), NEW v \in Seq(S),
           NEW I \in SUBSET DOMAIN u, NEW J \in SUBSET DOMAIN v
    PROVE  Pick(u \o v, Joined(I, Len(u), J)) = Pick(u, I) \o Pick(v, J)
<1> DEFINE c == Len(u)
           sh(X) == {c + j : j \in X}
           K == Joined(I, c, J)
           M == Cardinality(I)
           N == Cardinality(J)
<1>1. K = I \cup sh(J)
  BY DEF Joined
<1> HIDE DEF K
<1>2. /\ c \in Nat /\ DOMAIN u = 1 .. c
      /\ Len(v) \in Nat /\ DOMAIN v = 1 .. Len(v)
  BY LenProperties
<1>3. /\ u \o v \in Seq(S) /\ Len(u \o v) = c + Len(v)
      /\ DOMAIN (u \o v) = 1 .. c + Len(v)
      /\ \A i \in 1 .. c + Len(v) : (u \o v)[i] = IF i <= c THEN u[i] ELSE v[i - c]
  BY <1>2, ConcatProperties, LenProperties
<1>4. /\ IsFiniteSet(I) /\ I \in SUBSET Nat /\ M \in Nat
      /\ IsFiniteSet(J) /\ J \in SUBSET Nat /\ N \in Nat
  BY <1>2, PickProperties, FS_CardinalityType
<1>5. \A X \in SUBSET J : IsFiniteSet(X) /\ IsFiniteSet(sh(X)) /\ Cardinality(sh(X)) = Cardinality(X)
  <2> TAKE X \in SUBSET J
  <2>1. IsFiniteSet(X) /\ X \in SUBSET Nat
    BY <1>4, FS_Subset
  <2> QED
    BY <2>1, <1>2, ShiftCardinality
<1>6. \A X \in SUBSET J : /\ IsFiniteSet(I \cup sh(X))
                          /\ Cardinality(I \cup sh(X)) = M + Cardinality(X)
  <2> TAKE X \in SUBSET J
  <2>1. I \cap sh(X) = {}
    <3> SUFFICES ASSUME NEW i \in I, NEW j \in X, i = c + j PROVE FALSE
      OBVIOUS
    <3> QED
      BY <1>2
  <2>2. /\ IsFiniteSet(I \cup sh(X))
        /\ Cardinality(I \cup sh(X)) = Cardinality(I) + Cardinality(sh(X)) - Cardinality(I \cap sh(X))
    BY <1>4, <1>5, FS_Union
  <2>3. Cardinality(X) \in Nat /\ Cardinality(sh(X)) = Cardinality(X)
    BY <1>5, FS_CardinalityType
  <2>4. Cardinality(I \cap sh(X)) = 0
    BY <2>1, FS_EmptySet
  <2> HIDE DEF sh
  <2> QED
    BY <1>4, <2>2, <2>3, <2>4
<1>7. IsFiniteSet(K) /\ Cardinality(K) = M + N
  BY <1>1, <1>6
<1>8. K \in SUBSET Nat /\ K \in SUBSET DOMAIN (u \o v)
  <2>1. \A i \in I : i \in 1 .. c
    BY <1>2
  <2>2. \A j \in J : c + j \in 1 .. c + Len(v)
    BY <1>2
  <2> QED
    BY <1>1, <1>2, <1>3, <2>1, <2>2
<1>9. ASSUME NEW i \in I PROVE Rank(K, i) = Rank(I, i)
  <2>1. \A y \in sh(J) : ~ (y < i)
    BY <1>2
  <2>2. {y \in K : y < i} = {y \in I : y < i}
    BY <1>1, <2>1
  <2> QED
    BY <2>2 DEF Rank
<1>10. ASSUME NEW j \in J PROVE Rank(K, c + j) = M + Rank(J, j)
  <2> DEFINE X == {y \in J : y < j}
  <2>1. \A y \in I : y < c + j
    BY <1>2
  <2>2. \A y \in J : c + y < c + j <=> y < j
    BY <1>2
  <2>3. {y \in K : y < c + j} = I \cup sh(X)
    <3>1. {y \in sh(J) : y < c + j} = sh(X)
      BY <2>2
    <3> HIDE DEF sh, X
    <3> QED
      BY <1>1, <2>1, <3>1
  <2>4. X \in SUBSET J
    OBVIOUS
  <2> HIDE DEF X
  <2>5. Cardinality(I \cup sh(X)) = M + Cardinality(X)
    BY <1>6, <2>4
  <2> QED
    BY <2>3, <2>5 DEF Rank, X
<1>11. /\ Pick(u, I) \in Seq(S) /\ Len(Pick(u, I)) = M
       /\ Pick(v, J) \in Seq(S) /\ Len(Pick(v, J)) = N
       /\ Pick(u \o v, K) \in Seq(S) /\ Len(Pick(u \o v, K)) = M + N
  BY <1>3, <1>7, <1>8, PickProperties
<1> HIDE DEF M, N, c
<1>12. ASSUME NEW k \in 1 .. M PROVE Pick(u \o v, K)[k] = Pick(u, I)[k]
  <2> DEFINE i == Nth(I, k - 1)
  <2>1. k - 1 \in 0 .. M - 1 /\ k \in 1 .. M + N
    BY <1>4
  <2>2. i \in I /\ Rank(I, i) = k - 1
    BY <1>4, <2>1, NthProperties DEF M
  <2> HIDE DEF i
  <2>3. Rank(K, i) = k - 1 /\ i \in K
    BY <1>1, <1>9, <2>2
  <2>4. Nth(K, k - 1) = i
    BY <1>7, <1>8, <2>3, NthOfRank
  <2>5. Pick(u \o v, K)[k] = (u \o v)[i]
    BY <1>7, <2>1, <2>4 DEF Pick
  <2>6. Pick(u, I)[k] = u[i]
    BY DEF Pick, M, i
  <2>7. i \in 1 .. c
    BY <1>2, <2>2
  <2> QED
    BY <1>2, <1>3, <2>5, <2>6, <2>7
<1>13. ASSUME NEW l \in 1 .. N PROVE Pick(u \o v, K)[M + l] = Pick(v, J)[l]
  <2> DEFINE j == Nth(J, l - 1)
  <2>1. l - 1 \in 0 .. N - 1 /\ M + l \in 1 .. M + N /\ (M + l) - 1 = M + (l - 1)
    BY <1>4
  <2>2. j \in J /\ Rank(J, j) = l - 1
    BY <1>4, <2>1, NthProperties DEF N
  <2> HIDE DEF j
  <2>3. Rank(K, c + j) = (M + l) - 1 /\ c + j \in K
    BY <1>1, <1>10, <2>1, <2>2
  <2>4. Nth(K, (M + l) - 1) = c + j
    BY <1>7, <1>8, <2>3, NthOfRank
  <2>5. Pick(u \o v, K)[M + l] = (u \o v)[c + j]
    BY <1>7, <2>1, <2>4 DEF Pick
  <2>6. Pick(v, J)[l] = v[j]
    BY DEF Pick, N, j
  <2>7. j \in 1 .. Len(v) /\ j \in Nat
    BY <1>2, <2>2
  <2>8. c + j \in 1 .. c + Len(v) /\ ~ (c + j <= c) /\ (c + j) - c = j
    BY <1>2, <2>7
  <2> QED
    BY <1>3, <2>5, <2>6, <2>8
<1>14. \A k \in 1 .. M + N : Pick(u \o v, K)[k] = (Pick(u, I) \o Pick(v, J))[k]
  <2> TAKE k \in 1 .. M + N
  <2>1. (Pick(u, I) \o Pick(v, J))[k] =
           IF k <= M THEN Pick(u, I)[k] ELSE Pick(v, J)[k - M]
    BY <1>11, ConcatProperties
  <2>2. CASE k <= M
    BY <1>4, <1>12, <2>1, <2>2
  <2>3. CASE ~ (k <= M)
    <3>1. k - M \in 1 .. N /\ M + (k - M) = k
      BY <1>4, <2>3
    <3> QED
      BY <1>13, <2>1, <2>3, <3>1
  <2> QED
    BY <2>2, <2>3
<1>15. Pick(u, I) \o Pick(v, J) \in Seq(S) /\ Len(Pick(u, I) \o Pick(v, J)) = M + N
  BY <1>11, ConcatProperties
<1>16. Pick(u \o v, K) = Pick(u, I) \o Pick(v, J)
  BY <1>11, <1>14, <1>15, SeqEqual
<1> QED
  BY <1>16 DEF K, c
=============================================================================
