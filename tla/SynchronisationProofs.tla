------------------------ MODULE SynchronisationProofs ------------------------
(***************************************************************************)
(* Theorems about FormationSync and Membership, for every set of types,    *)
(* instances and nodes, and every set of initial lists; in the second      *)
(* part, for lists in which no node offers a type twice, and in the third, *)
(* where requests come between the statements of the loop, for every set   *)
(* of services that may join.                                              *)
(*                                                                         *)
(* None of the invariants is inductive by itself.  A comparison reports    *)
(* the types that differ, and does not throw, because both registries have *)
(* the same types at all times (SameTypes) and because the snapshots       *)
(* compared are the trees of the moment (SnapshotsCurrent); the types stay *)
(* the same because a message carries types of its sender only, and        *)
(* services of its sender's node only (MessagesFromOwner).                 *)
(*                                                                         *)
(* With requests between the statements little of that is left: trees are  *)
(* stale, the types of the two registries differ, a report names the wrong *)
(* types and a list is stored that requests have overtaken.  What stays is *)
(* where a service comes from.  A service listed for the other's node was  *)
(* in a message, which held services of its sender's node only             *)
(* (MessagesAnnounced), or a request put it there; and a list to be stored *)
(* is the map as it was, but for the requests since (ListsFaithful).       *)
(***************************************************************************)
EXTENDS Membership, RegistryDataProofs

\* Every type of either registry has instances there, and both have the same
\* types, at least one.
SameTypes ==
    /\ \A r \in Peers : NonEmptyKeys(registry[r]) = DOMAIN registry[r]
    /\ \A r \in Peers : DOMAIN registry[r] = DOMAIN registry[Node1]
    /\ DOMAIN registry[Node1] # {}

\* A tree does not change between its serialisation and the last comparison.
SnapshotsCurrent ==
    /\ phase = "serialise" /\ turn = Node2 => serializedTree[Node1] = tree[Node1]
    /\ phase = "compare" => \A r \in Peers : serializedTree[r] = tree[r]

\* What a comparison reported stays true until the services are sent.
ReportsCurrent ==
    /\ phase = "compare" /\ turn = Node2 => changedServiceTypes[Node1] = DifferingTypes
    /\ phase = "send" => \A r \in Peers : changedServiceTypes[r] = DifferingTypes

MessagesFromOwner ==
    \A r \in Peers :
        /\ DOMAIN message[r] \subseteq DOMAIN registry[r]
        /\ \A n \in DOMAIN message[r] : \A s \in Contents(message[r][n]) : s.nodeId = r

\* In these runs no request changes a map, so every change rebuilds the tree.
TreeMatchesRegistry == \A r \in Peers : tree[r] = buildMerkleTree(registry[r])

SyncInvariant ==
    /\ TypeOK
    /\ TreeMatchesRegistry
    /\ SameTypes
    /\ SnapshotsCurrent
    /\ ReportsCurrent
    /\ MessagesFromOwner

-----------------------------------------------------------------------------
(* What the operators of the steps keep.                                   *)

LEMMA PeerProperties ==
    /\ Node1 \in Peers /\ Node2 \in Peers /\ Node1 # Node2
    /\ Peer(Node1) = Node2 /\ Peer(Node2) = Node1
    /\ \A r \in Peers : Peer(r) \in Peers /\ Peer(r) # r
    /\ \A r \in Peers : r = Node1 \/ r = Node2
BY NodesAssumption DEF Peers, Peer

\* A map filled from a list has the types of the list, each with instances.
LEMMA PushAllProperties ==
    ASSUME NEW offers \in Seq(Service), offers # <<>>
    PROVE  LET reg == PushAll(EmptyRegistry, offers)
           IN  /\ IsRegistry(reg)
               /\ NonEmptyKeys(reg) = DOMAIN reg
               /\ DOMAIN reg # {}
<1> DEFINE I(n) == {i \in DOMAIN offers : offers[i].service_name = n}
           reg == PushAll(EmptyRegistry, offers)
<1>1. /\ Len(offers) \in Nat /\ Len(offers) # 0
      /\ DOMAIN offers = 1 .. Len(offers)
      /\ \A i \in DOMAIN offers : offers[i] \in Service
  BY EmptySeq, LenProperties, ElementOfSeq
<1>2. DOMAIN reg = NamesIn(offers)
  BY DEF PushAll, EmptyRegistry
<1>3. \A n \in NamesIn(offers) : reg[n] = <<>> \o Pick(offers, I(n))
  BY DEF PushAll, EmptyRegistry, InstancesOf
<1>4. \A n \in NamesIn(offers) :
         /\ Pick(offers, I(n)) \in Seq(Service)
         /\ Pick(offers, I(n)) # <<>>
         /\ reg[n] = Pick(offers, I(n))
  <2> TAKE n \in NamesIn(offers)
  <2>1. I(n) \in SUBSET DOMAIN offers /\ I(n) # {}
    BY DEF NamesIn
  <2>2. Pick(offers, I(n)) \in Seq(Service) /\ Pick(offers, I(n)) # <<>>
    BY <2>1, PickProperties, PickEmpty
  <2> QED
    BY <2>2, <1>3, ConcatEmptySeq
<1>5. NamesIn(offers) \subseteq ServiceNames /\ NamesIn(offers) # {}
  <2>1. 1 \in DOMAIN offers
    BY <1>1
  <2> QED
    BY <2>1, <1>1 DEF NamesIn, Service
<1>6. reg = [n \in DOMAIN reg |-> reg[n]]
  BY DEF PushAll
<1> HIDE DEF reg
<1>7. IsRegistry(reg)
  BY <1>2, <1>4, <1>5, <1>6 DEF IsRegistry
<1>8. NonEmptyKeys(reg) = DOMAIN reg
  BY <1>2, <1>4 DEF NonEmptyKeys
<1> QED
  BY <1>2, <1>5, <1>7, <1>8 DEF reg

\* new is reg with some of the entries for service s changed in their state.
FlipsOnly(reg, new, s) ==
    \A m \in NonEmptyKeys(reg) : \A k \in DOMAIN reg[m] :
        \/ new[m][k] = reg[m][k]
        \/ reg[m][k] = s /\ new[m][k] = [s EXCEPT !.is_alive = ~@]

\* Flipping the first service of a node leaves every type that has instances,
\* and changes nothing but the state of one service on that node.
LEMMA FlipFirstEntries ==
    ASSUME NEW reg, IsRegistry(reg), NEW r, OwnTypes(reg, r) # {}
    PROVE  /\ IsRegistry(FlipFirst(reg, r))
           /\ DOMAIN FlipFirst(reg, r) = NonEmptyKeys(reg)
           /\ NonEmptyKeys(FlipFirst(reg, r)) = NonEmptyKeys(reg)
           /\ \A m \in NonEmptyKeys(reg) :
                 /\ DOMAIN FlipFirst(reg, r)[m] = DOMAIN reg[m]
                 /\ \A k \in DOMAIN reg[m] :
                       \/ FlipFirst(reg, r)[m][k] = reg[m][k]
                       \/ /\ reg[m][k].nodeId = r
                          /\ FlipFirst(reg, r)[m][k] = [reg[m][k] EXCEPT !.is_alive = ~@]
           /\ \E s \in Service : s.nodeId = r /\ FlipsOnly(reg, FlipFirst(reg, r), s)
<1> DEFINE n == Nth(OwnTypes(reg, r), 0)
           I == OwnIndexes(reg, r, n)
           i == Nth(I, 0)
           new == FlipFirst(reg, r)
<1>1. n \in DOMAIN reg /\ I # {}
  <2>1. OwnTypes(reg, r) \in SUBSET DOMAIN reg
    BY DEF OwnTypes
  <2>2. n \in OwnTypes(reg, r)
    BY <2>1, FirstType
  <2> QED
    BY <2>2 DEF OwnTypes
<1>2. reg[n] \in Seq(Service)
  BY <1>1 DEF IsRegistry
<1>3. i \in DOMAIN reg[n] /\ reg[n][i].nodeId = r
  <2>1. I \in SUBSET DOMAIN reg[n]
    BY DEF OwnIndexes
  <2>2. i \in I
    BY <1>1, <1>2, <2>1, FirstIndex
  <2> QED
    BY <2>2 DEF OwnIndexes
<1>4. new = [m \in NonEmptyKeys(reg) |->
               IF m = n THEN [reg[n] EXCEPT ![i].is_alive = ~@] ELSE reg[m]]
  BY DEF FlipFirst
<1> HIDE DEF n, i, I
<1> DEFINE s == [reg[n][i] EXCEPT !.is_alive = ~@]
           flipped == [reg[n] EXCEPT ![i] = s]
<1>5. DOMAIN reg[n] = 1 .. Len(reg[n]) /\ Len(reg[n]) \in Nat
  BY <1>2, LenProperties
<1>6. [reg[n] EXCEPT ![i].is_alive = ~@] = flipped
  OBVIOUS
<1>7. s \in Service
  <2>1. reg[n][i] \in Service
    BY <1>2, <1>3, <1>5, ElementOfSeq
  <2> QED
    BY <2>1 DEF Service
<1>8. /\ DOMAIN flipped = DOMAIN reg[n]
      /\ flipped[i] = s
      /\ \A k \in DOMAIN reg[n] : k # i => flipped[k] = reg[n][k]
  BY <1>3
<1>9. s = [reg[n][i] EXCEPT !.is_alive = ~@]
  OBVIOUS
<1> HIDE DEF s
<1>10. flipped \in Seq(Service) /\ flipped # <<>>
  <2>1. flipped \in Seq(Service) /\ Len(flipped) = Len(reg[n])
    BY <1>2, <1>3, <1>5, <1>7, ExceptSeq
  <2> QED
    BY <2>1, <1>3, <1>5, EmptySeq
<1>11. new = [m \in NonEmptyKeys(reg) |-> IF m = n THEN flipped ELSE reg[m]]
  BY <1>4, <1>6
<1> HIDE DEF flipped, new
<1>12. DOMAIN new = NonEmptyKeys(reg)
  BY <1>11
<1>13. \A m \in NonEmptyKeys(reg) :
          m \in ServiceNames /\ new[m] \in Seq(Service) /\ new[m] # <<>>
  BY <1>10, <1>11 DEF NonEmptyKeys, IsRegistry
<1>14. IsRegistry(new)
  BY <1>11, <1>12, <1>13 DEF IsRegistry
<1>15. NonEmptyKeys(new) = NonEmptyKeys(reg)
  BY <1>12, <1>13 DEF NonEmptyKeys
<1>16. \A m \in NonEmptyKeys(reg) :
          /\ DOMAIN new[m] = DOMAIN reg[m]
          /\ \A k \in DOMAIN reg[m] :
                \/ new[m][k] = reg[m][k]
                \/ reg[m][k].nodeId = r /\ new[m][k] = [reg[m][k] EXCEPT !.is_alive = ~@]
  <2> TAKE m \in NonEmptyKeys(reg)
  <2>1. CASE m = n
    BY <2>1, <1>3, <1>8, <1>9, <1>11
  <2>2. CASE m # n
    BY <2>2, <1>11
  <2> QED
    BY <2>1, <2>2
<1>17. reg[n][i] \in Service
  BY <1>2, <1>3, <1>5, ElementOfSeq
<1>18. FlipsOnly(reg, new, reg[n][i])
  <2> SUFFICES ASSUME NEW m \in NonEmptyKeys(reg), NEW k \in DOMAIN reg[m]
               PROVE  \/ new[m][k] = reg[m][k]
                      \/ /\ reg[m][k] = reg[n][i]
                         /\ new[m][k] = [reg[n][i] EXCEPT !.is_alive = ~@]
    BY DEF FlipsOnly
  <2>1. CASE m = n
    BY <2>1, <1>3, <1>8, <1>9, <1>11
  <2>2. CASE m # n
    BY <2>2, <1>11
  <2> QED
    BY <2>1, <2>2
<1> QED
  BY <1>3, <1>12, <1>14, <1>15, <1>16, <1>17, <1>18 DEF new

\* What is sent for a set of types is well formed, names types the sender has
\* and holds services of the sender's node only.
LEMMA SerializeProperties ==
    ASSUME NEW reg, IsRegistry(reg), NEW r, NEW names
    PROVE  LET msg == serializeServicesForNames(reg, r, names)
           IN  /\ IsRegistry(msg)
               /\ DOMAIN msg \subseteq DOMAIN reg
               /\ \A n \in DOMAIN msg : \A s \in Contents(msg[n]) : s.nodeId = r
<1> DEFINE msg == serializeServicesForNames(reg, r, names)
           I(n) == {i \in DOMAIN reg[n] : reg[n][i].nodeId = r}
<1>1. msg = [n \in names \cap DOMAIN reg |-> Pick(reg[n], I(n))]
  BY DEF serializeServicesForNames
<1>2. \A n \in names \cap DOMAIN reg :
         /\ n \in ServiceNames
         /\ Pick(reg[n], I(n)) \in Seq(Service)
         /\ Contents(Pick(reg[n], I(n))) = {reg[n][i] : i \in I(n)}
  <2> TAKE n \in names \cap DOMAIN reg
  <2>1. n \in ServiceNames /\ reg[n] \in Seq(Service)
    BY DEF IsRegistry
  <2> QED
    BY <2>1, PickProperties, I(n) \in SUBSET DOMAIN reg[n]
<1> HIDE DEF msg
<1>3. IsRegistry(msg)
  BY <1>1, <1>2 DEF IsRegistry
<1>4. \A n \in DOMAIN msg : \A s \in Contents(msg[n]) : s.nodeId = r
  BY <1>1, <1>2
<1> QED
  BY <1>1, <1>3, <1>4 DEF msg

-----------------------------------------------------------------------------
(* The inductive invariant.                                                *)

\* Rebuilding the tree of one registry from a well formed map with the same
\* types keeps what the invariant says of the maps and the trees.
LEMMA SetAndBuildKeeps ==
    ASSUME TypeOK, TreeMatchesRegistry, SameTypes,
           NEW r \in Peers, NEW reg, IsRegistry(reg),
           NonEmptyKeys(reg) = DOMAIN reg, DOMAIN reg = DOMAIN registry[r],
           SetAndBuild(r, reg)
    PROVE  /\ DOMAIN registry' = Peers /\ \A p \in Peers : IsRegistry(registry'[p])
           /\ tree' \in [Peers -> Seq(Seq(Digest))]
           /\ TreeMatchesRegistry'
           /\ SameTypes'
           /\ \A p \in Peers : DOMAIN registry'[p] = DOMAIN registry[p]
<1>1. \A p \in Peers : registry'[p] = IF p = r THEN reg ELSE registry[p]
  BY DEF SetAndBuild, TypeOK
<1>2. \A p \in Peers : tree'[p] = IF p = r THEN buildMerkleTree(reg) ELSE tree[p]
  BY DEF SetAndBuild, TypeOK
<1>3. buildMerkleTree(reg) \in Seq(Seq(Digest))
  BY TreeProperties
<1>4. DOMAIN registry' = Peers /\ tree' \in [Peers -> Seq(Seq(Digest))]
  BY <1>3 DEF SetAndBuild, TypeOK
<1>5. \A p \in Peers : IsRegistry(registry'[p]) /\ DOMAIN registry'[p] = DOMAIN registry[p]
  BY <1>1 DEF TypeOK
<1>6. TreeMatchesRegistry'
  BY <1>1, <1>2 DEF TreeMatchesRegistry
<1>7. SameTypes'
  BY <1>1, <1>5, PeerProperties DEF SameTypes
<1> QED
  BY <1>4, <1>5, <1>6, <1>7

LEMMA InitInvariant == Init => SyncInvariant
<1> SUFFICES ASSUME Init PROVE SyncInvariant
  OBVIOUS
<1>1. PICK offers \in InitialLists :
        registry = [r \in Peers |-> PushAll(EmptyRegistry, offers)]
  BY DEF Init
<1> DEFINE reg == PushAll(EmptyRegistry, offers)
<1>2. offers \in Seq(Service) /\ offers # <<>>
  BY InitialListsAssumption
<1>3. IsRegistry(reg) /\ NonEmptyKeys(reg) = DOMAIN reg /\ DOMAIN reg # {}
  BY <1>2, PushAllProperties
<1> HIDE DEF reg
<1>4. DOMAIN registry = Peers /\ \A r \in Peers : registry[r] = reg
  BY <1>1 DEF reg
<1>5. buildMerkleTree(reg) \in Seq(Seq(Digest))
  BY <1>3, TreeProperties
<1>6. TypeOK
  <2>1. IsRegistry(NoMessage)
    BY DEF IsRegistry, NoMessage
  <2>2. tree \in [Peers -> Seq(Seq(Digest))]
    BY <1>4, <1>5 DEF Init
  <2>3. serializedTree \in [Peers -> Seq(Seq(Digest))]
    BY EmptySeq DEF Init
  <2>4. changedServiceTypes \in [Peers -> SUBSET ServiceNames]
    BY DEF Init
  <2>5. phase \in Phases /\ turn \in Peers /\ loopCounter \in {0, 1}
    BY PeerProperties DEF Init, Phases
  <2> QED
    BY <1>3, <1>4, <2>1, <2>2, <2>3, <2>4, <2>5 DEF TypeOK, Init
<1>7. TreeMatchesRegistry
  BY DEF Init, TreeMatchesRegistry
<1>8. SameTypes
  BY <1>3, <1>4, PeerProperties DEF SameTypes
<1>9. SnapshotsCurrent /\ ReportsCurrent
  BY PeerProperties DEF Init, SnapshotsCurrent, ReportsCurrent
<1>10. MessagesFromOwner
  BY DEF Init, MessagesFromOwner, NoMessage
<1> QED
  BY <1>6, <1>7, <1>8, <1>9, <1>10 DEF SyncInvariant

\* The control flow stays within the phases.
LEMMA AdvanceProperties ==
    ASSUME phase \in Phases, turn \in Peers, Advance
    PROVE  /\ phase' \in Phases /\ turn' = Peer(turn) /\ turn' \in Peers
           /\ turn = Node1 => phase' = phase
           /\ turn = Node2 => phase' = NextPhase[phase]
<1>1. NextPhase[phase] \in Phases
  BY DEF Phases, NextPhase
<1> QED
  BY <1>1, PeerProperties DEF Advance

\* What is known of a registry pair between two changes of it.
LEMMA SameRegistries ==
    ASSUME UNCHANGED <<registry, tree>>, TreeMatchesRegistry, SameTypes
    PROVE  TreeMatchesRegistry' /\ SameTypes' /\ DifferingTypes' = DifferingTypes
BY DEF TreeMatchesRegistry, SameTypes, DifferingTypes

\* A comparison made from current snapshots reports the types that differ, and
\* does not throw.
LEMMA CompareReports ==
    ASSUME SyncInvariant, phase = "compare", NEW r \in Peers
    PROVE  /\ ~ComparisonThrows(tree[r], serializedTree[Peer(r)])
           /\ compareAndSyncTree(registry[r], tree[r], serializedTree[Peer(r)])
                 = DifferingTypes
<1> DEFINE l == registry[r]
           o == registry[Peer(r)]
<1>1. /\ IsRegistry(l) /\ IsRegistry(o)
      /\ NonEmptyKeys(l) = DOMAIN l /\ NonEmptyKeys(o) = DOMAIN o
      /\ DOMAIN l = DOMAIN o /\ DOMAIN l # {}
  BY PeerProperties DEF SyncInvariant, TypeOK, SameTypes
<1>2. tree[r] = buildMerkleTree(l) /\ serializedTree[Peer(r)] = buildMerkleTree(o)
  BY PeerProperties DEF SyncInvariant, TreeMatchesRegistry, SnapshotsCurrent
<1>3. /\ ~ComparisonThrows(tree[r], serializedTree[Peer(r)])
      /\ compareAndSyncTree(l, tree[r], serializedTree[Peer(r)])
            = {n \in DOMAIN l : l[n] # o[n]}
  BY <1>1, <1>2, CompareProperties
<1>4. {n \in DOMAIN l : l[n] # o[n]} = {n \in DOMAIN l : o[n] # l[n]}
  OBVIOUS
<1>5. DifferingTypes = {n \in DOMAIN l : l[n] # o[n]}
  <2>1. \A n : n \notin DOMAIN l =>
           InstancesOf(registry[Node1], n) = <<>> /\ InstancesOf(registry[Node2], n) = <<>>
    BY <1>1, PeerProperties DEF InstancesOf, Peer
  <2>2. \A n \in DOMAIN l :
           /\ n \in ServiceNames
           /\ InstancesOf(registry[Node1], n) # InstancesOf(registry[Node2], n)
                <=> l[n] # o[n]
    BY <1>1, PeerProperties DEF InstancesOf, Peer, IsRegistry
  <2> QED
    BY <2>1, <2>2 DEF DifferingTypes
<1> QED
  BY <1>3, <1>5

LEMMA SerialiseKeeps ==
    ASSUME SyncInvariant, NEW r \in Peers, Serialise(r)
    PROVE  SyncInvariant'
<1> USE DEF SyncInvariant
<1>1. /\ phase = "serialise" /\ turn = r
      /\ UNCHANGED <<registry, tree, changedServiceTypes, message, loopCounter>>
      /\ Advance
  BY DEF Serialise, At
<1>2. /\ phase' \in Phases /\ turn' \in Peers /\ turn' = Peer(r)
      /\ r = Node1 => phase' = "serialise"
      /\ r = Node2 => phase' = "compare"
  BY <1>1, AdvanceProperties DEF TypeOK, NextPhase
<1>3. serializedTree' = [serializedTree EXCEPT ![r] = tree[r]]
  BY DEF Serialise
<1>4. TypeOK'
  BY <1>1, <1>2, <1>3 DEF TypeOK
<1>5. TreeMatchesRegistry' /\ SameTypes'
  BY <1>1, SameRegistries
<1>6. SnapshotsCurrent'
  <2>1. \A p \in Peers : serializedTree'[p] = IF p = r THEN tree[r] ELSE serializedTree[p]
    BY <1>3 DEF TypeOK
  <2> QED
    BY <1>1, <1>2, <2>1, PeerProperties DEF SnapshotsCurrent
<1>7. ReportsCurrent'
  BY <1>2, PeerProperties DEF ReportsCurrent
<1>8. MessagesFromOwner'
  BY <1>1 DEF MessagesFromOwner
<1> QED
  BY <1>4, <1>5, <1>6, <1>7, <1>8

LEMMA CompareKeeps ==
    ASSUME SyncInvariant, NEW r \in Peers, Compare(r)
    PROVE  SyncInvariant'
<1> USE DEF SyncInvariant
<1>1. /\ phase = "compare" /\ turn = r
      /\ UNCHANGED <<registry, tree, serializedTree, message, loopCounter>>
      /\ Advance
  BY DEF Compare, At
<1>2. /\ phase' \in Phases /\ turn' \in Peers /\ turn' = Peer(r)
      /\ r = Node1 => phase' = "compare"
      /\ r = Node2 => phase' = "send"
  BY <1>1, AdvanceProperties DEF TypeOK, NextPhase
<1>3. changedServiceTypes' = [changedServiceTypes EXCEPT ![r] = DifferingTypes]
  BY <1>1, CompareReports DEF Compare
<1>4. TypeOK'
  BY <1>1, <1>2, <1>3 DEF TypeOK, DifferingTypes
<1>5. TreeMatchesRegistry' /\ SameTypes' /\ DifferingTypes' = DifferingTypes
  BY <1>1, SameRegistries
<1>6. SnapshotsCurrent'
  BY <1>1, <1>2, PeerProperties DEF SnapshotsCurrent
<1>7. ReportsCurrent'
  <2>1. \A p \in Peers :
          changedServiceTypes'[p] = IF p = r THEN DifferingTypes ELSE changedServiceTypes[p]
    BY <1>3 DEF TypeOK
  <2> QED
    BY <1>1, <1>2, <1>5, <2>1, PeerProperties DEF ReportsCurrent
<1>8. MessagesFromOwner'
  BY <1>1 DEF MessagesFromOwner
<1> QED
  BY <1>4, <1>5, <1>6, <1>7, <1>8

LEMMA SendKeeps ==
    ASSUME SyncInvariant, NEW r \in Peers, Send(r)
    PROVE  SyncInvariant'
<1> USE DEF SyncInvariant
<1> DEFINE msg == serializeServicesForNames(registry[r], r, changedServiceTypes[r])
<1>1. /\ phase = "send" /\ turn = r
      /\ UNCHANGED <<registry, tree, serializedTree, changedServiceTypes, loopCounter>>
      /\ Advance
  BY DEF Send, At
<1>2. /\ phase' \in Phases /\ turn' \in Peers /\ turn' = Peer(r)
      /\ r = Node1 => phase' = "send"
      /\ r = Node2 => phase' = "receive"
  BY <1>1, AdvanceProperties DEF TypeOK, NextPhase
<1>3. /\ IsRegistry(msg)
      /\ DOMAIN msg \subseteq DOMAIN registry[r]
      /\ \A n \in DOMAIN msg : \A s \in Contents(msg[n]) : s.nodeId = r
  BY SerializeProperties DEF TypeOK
<1>4. message' = [message EXCEPT ![r] = msg]
  BY DEF Send
<1> HIDE DEF msg
<1>5. DOMAIN message' = Peers /\ \A p \in Peers : message'[p] = IF p = r THEN msg ELSE message[p]
  BY <1>4 DEF TypeOK
<1>6. TypeOK'
  BY <1>1, <1>2, <1>3, <1>5 DEF TypeOK
<1>7. TreeMatchesRegistry' /\ SameTypes' /\ DifferingTypes' = DifferingTypes
  BY <1>1, SameRegistries
<1>8. SnapshotsCurrent'
  BY <1>2, PeerProperties DEF SnapshotsCurrent
<1>9. ReportsCurrent'
  BY <1>1, <1>2, <1>7, PeerProperties DEF ReportsCurrent
<1>10. MessagesFromOwner'
  BY <1>1, <1>3, <1>5 DEF MessagesFromOwner
<1> QED
  BY <1>6, <1>7, <1>8, <1>9, <1>10

LEMMA ReceiveKeeps ==
    ASSUME SyncInvariant, NEW r \in Peers, Receive(r)
    PROVE  SyncInvariant'
<1> USE DEF SyncInvariant
<1> DEFINE msg == message[Peer(r)]
           new == deserializeAndSetServices(registry[r], msg)
<1>1. /\ phase = "receive" /\ turn = r
      /\ UNCHANGED <<serializedTree, changedServiceTypes, message, loopCounter>>
      /\ Advance
  BY DEF Receive, At
<1>2. /\ phase' \in Phases /\ turn' \in Peers
      /\ r = Node1 => phase' = "receive"
      /\ r = Node2 => phase' = "change"
  BY <1>1, AdvanceProperties DEF TypeOK, NextPhase
<1>3. phase' # "serialise" /\ phase' # "compare" /\ phase' # "send"
  BY <1>2, PeerProperties
<1>4. IsRegistry(registry[r]) /\ IsRegistry(msg) /\ Carried(msg) \subseteq DOMAIN registry[r]
  <2>1. DOMAIN msg \subseteq DOMAIN registry[Peer(r)]
    BY PeerProperties DEF MessagesFromOwner
  <2>2. DOMAIN registry[Peer(r)] = DOMAIN registry[r]
    BY PeerProperties DEF SameTypes
  <2> QED
    BY <2>1, <2>2, PeerProperties DEF TypeOK, Carried
<1>5. IsRegistry(new) /\ DOMAIN new = DOMAIN registry[r] /\ NonEmptyKeys(new) = DOMAIN new
  BY <1>4, DeserializeProperties DEF SameTypes
<1>6. SetAndBuild(r, new) \/ UNCHANGED <<registry, tree>>
  BY DEF Receive
<1> HIDE DEF msg, new
<1>7. /\ DOMAIN registry' = Peers /\ \A p \in Peers : IsRegistry(registry'[p])
      /\ tree' \in [Peers -> Seq(Seq(Digest))]
      /\ TreeMatchesRegistry' /\ SameTypes'
      /\ \A p \in Peers : DOMAIN registry'[p] = DOMAIN registry[p]
  <2>1. CASE SetAndBuild(r, new)
    BY <2>1, <1>5, SetAndBuildKeeps
  <2>2. CASE UNCHANGED <<registry, tree>>
    BY <2>2, SameRegistries DEF TypeOK
  <2> QED
    BY <1>6, <2>1, <2>2
<1>8. TypeOK'
  BY <1>1, <1>2, <1>7 DEF TypeOK
<1>9. SnapshotsCurrent' /\ ReportsCurrent'
  BY <1>3 DEF SnapshotsCurrent, ReportsCurrent
<1>10. MessagesFromOwner'
  BY <1>1, <1>7 DEF MessagesFromOwner
<1> QED
  BY <1>7, <1>8, <1>9, <1>10

LEMMA ChangeKeeps ==
    ASSUME SyncInvariant, NEW r \in Peers, Change(r)
    PROVE  SyncInvariant'
<1> USE DEF SyncInvariant
<1> DEFINE new == FlipFirst(registry[r], r)
<1>1. phase = "change" /\ turn = r /\ Advance
  BY DEF Change, Flip, KeepAll, EndChange, At
<1>2. /\ phase' \in Phases /\ turn' \in Peers /\ turn' = Peer(r)
      /\ r = Node1 => phase' = "change"
      /\ r = Node2 => phase' = "serialise"
  BY <1>1, AdvanceProperties DEF TypeOK, NextPhase
<1>3. /\ DOMAIN registry' = Peers /\ \A p \in Peers : IsRegistry(registry'[p])
      /\ tree' \in [Peers -> Seq(Seq(Digest))]
      /\ TreeMatchesRegistry' /\ SameTypes'
      /\ \A p \in Peers : DOMAIN registry'[p] = DOMAIN registry[p]
  <2>1. CASE Flip(r)
    <3>1. OwnTypes(registry[r], r) # {} /\ SetAndBuild(r, new)
      BY <2>1 DEF Flip
    <3>2. IsRegistry(new) /\ DOMAIN new = DOMAIN registry[r] /\ NonEmptyKeys(new) = DOMAIN new
      BY <3>1, FlipFirstEntries DEF TypeOK, SameTypes
    <3> HIDE DEF new
    <3> QED
      BY <3>1, <3>2, SetAndBuildKeeps
  <2>2. CASE KeepAll(r)
    BY <2>2, SameRegistries DEF KeepAll, TypeOK
  <2> QED
    BY <2>1, <2>2 DEF Change
<1>4. /\ serializedTree' \in [Peers -> Seq(Seq(Digest))]
      /\ changedServiceTypes' \in [Peers -> SUBSET ServiceNames]
      /\ DOMAIN message' = Peers /\ \A p \in Peers : IsRegistry(message'[p])
      /\ loopCounter' \in {0, 1}
  <2>1. CASE r = Node2
    <3>1. /\ loopCounter' = 1 - loopCounter
          /\ serializedTree' = [p \in Peers |-> <<>>]
          /\ changedServiceTypes' = [p \in Peers |-> {}]
          /\ message' = [p \in Peers |-> NoMessage]
      BY <2>1 DEF Change, EndChange
    <3>2. <<>> \in Seq(Seq(Digest)) /\ IsRegistry(NoMessage)
      BY EmptySeq DEF IsRegistry, NoMessage
    <3>3. loopCounter' \in {0, 1}
      BY <3>1 DEF TypeOK
    <3>4. changedServiceTypes' \in [Peers -> SUBSET ServiceNames]
      BY <3>1
    <3> QED
      BY <3>1, <3>2, <3>3, <3>4
  <2>2. CASE r # Node2
    BY <2>2 DEF Change, EndChange, TypeOK
  <2> QED
    BY <2>1, <2>2
<1>5. TypeOK'
  BY <1>2, <1>3, <1>4 DEF TypeOK
<1>6. SnapshotsCurrent' /\ ReportsCurrent'
  BY <1>2, PeerProperties DEF SnapshotsCurrent, ReportsCurrent
<1>7. MessagesFromOwner'
  <2>1. CASE r = Node2
    BY <2>1 DEF Change, EndChange, MessagesFromOwner, NoMessage
  <2>2. CASE r # Node2
    BY <2>2, <1>3 DEF Change, EndChange, MessagesFromOwner
  <2> QED
    BY <2>1, <2>2
<1> QED
  BY <1>3, <1>5, <1>6, <1>7

LEMMA NextInvariant == SyncInvariant /\ [Next]_vars => SyncInvariant'
<1> SUFFICES ASSUME SyncInvariant, [Next]_vars PROVE SyncInvariant'
  OBVIOUS
<1>1. ASSUME NEW r \in Peers, Serialise(r) PROVE SyncInvariant'
  BY <1>1, SerialiseKeeps
<1>2. ASSUME NEW r \in Peers, Compare(r) PROVE SyncInvariant'
  BY <1>2, CompareKeeps
<1>3. ASSUME NEW r \in Peers, Send(r) PROVE SyncInvariant'
  BY <1>3, SendKeeps
<1>4. ASSUME NEW r \in Peers, Receive(r) PROVE SyncInvariant'
  BY <1>4, ReceiveKeeps
<1>5. ASSUME NEW r \in Peers, Change(r) PROVE SyncInvariant'
  BY <1>5, ChangeKeeps
<1>6. CASE UNCHANGED vars
  BY <1>6 DEF vars, SyncInvariant, TypeOK, TreeMatchesRegistry, SameTypes,
     SnapshotsCurrent, ReportsCurrent, MessagesFromOwner, DifferingTypes
<1> QED
  BY <1>1, <1>2, <1>3, <1>4, <1>5, <1>6 DEF Next, Exchange

-----------------------------------------------------------------------------
(* The theorems.                                                           *)

\* The invariant holds in every reachable state.
THEOREM Invariance == Spec => []SyncInvariant
<1>1. Init => SyncInvariant
  BY InitInvariant
<1>2. SyncInvariant /\ [Next]_vars => SyncInvariant'
  BY NextInvariant
<1> QED
  BY <1>1, <1>2, PTL DEF Spec

\* The state of the loop is always well formed.
THEOREM TypeCorrect == Spec => []TypeOK
<1>1. SyncInvariant => TypeOK
  BY DEF SyncInvariant
<1> QED
  BY <1>1, Invariance, PTL

\* No comparison of the loop throws.
THEOREM ComparisonsNeverThrow == Spec => []NoException
<1>1. SyncInvariant => NoException
  BY CompareReports DEF SyncInvariant, TypeOK, NoException
<1> QED
  BY <1>1, Invariance, PTL

\* When services are about to be sent, the reported types are those that differ.
THEOREM ReportsExact == Spec => []ReportedTypesDiffer
<1>1. SyncInvariant => ReportedTypesDiffer
  BY DEF SyncInvariant, ReportsCurrent, ReportedTypesDiffer
<1> QED
  BY <1>1, Invariance, PTL

\* The exchange leaves alone what the receiver lists for itself and for third
\* nodes.
THEOREM OnlySendersReplaced == Spec => OnlySendersServicesReplaced
<1> DEFINE Kept == phase # "change" =>
               \A r \in Peers : \A node \in NodeIds \ {Peer(r)} :
                  ServicesOn(registry'[r], node) = ServicesOn(registry[r], node)
<1>1. ASSUME SyncInvariant, [Next]_vars PROVE [Kept]_vars
  <2>1. ASSUME UNCHANGED registry PROVE Kept
    BY <2>1
  <2>2. ASSUME NEW p \in Peers, Receive(p) PROVE Kept
    <3>1. CASE UNCHANGED registry
      BY <3>1, <2>1
    <3>2. CASE SetAndBuild(p, deserializeAndSetServices(registry[p], message[Peer(p)]))
      <4>1. \A q \in Peers : registry'[q] =
               IF q = p THEN deserializeAndSetServices(registry[p], message[Peer(p)])
                        ELSE registry[q]
        BY <1>1, <3>2 DEF SetAndBuild, SyncInvariant, TypeOK
      <4>2. IsRegistry(registry[p]) /\ IsRegistry(message[Peer(p)])
        BY <1>1, PeerProperties DEF SyncInvariant, TypeOK
      <4>3. \A n \in DOMAIN message[Peer(p)] :
               \A s \in Contents(message[Peer(p)][n]) : s.nodeId = Peer(p)
        BY <1>1, PeerProperties DEF SyncInvariant, MessagesFromOwner
      <4>4. \A node \in NodeIds \ {Peer(p)} :
               ServicesOn(deserializeAndSetServices(registry[p], message[Peer(p)]), node)
                 = ServicesOn(registry[p], node)
        BY <4>2, <4>3, DeserializeKeepsOthers
      <4> QED
        BY <4>1, <4>4
    <3> QED
      BY <2>2, <3>1, <3>2 DEF Receive
  <2>3. ASSUME NEW p \in Peers, Change(p) PROVE Kept
    BY <2>3 DEF Change, Flip, KeepAll, At
  <2>4. ASSUME NEW p \in Peers, Serialise(p) \/ Compare(p) \/ Send(p) PROVE Kept
    BY <2>1, <2>4 DEF Serialise, Compare, Send
  <2> QED
    BY <1>1, <2>2, <2>3, <2>4 DEF Next, Exchange
<1>2. Spec => [][Kept]_vars
  BY <1>1, Invariance, PTL DEF Spec
<1> QED
  BY <1>2 DEF OnlySendersServicesReplaced

-----------------------------------------------------------------------------
(***************************************************************************)
(* When no node offers a type twice, the two registries list the same      *)
(* services after an exchange, and the loop implements the promise of      *)
(* ServiceView.                                                            *)
(*                                                                         *)
(* The argument: the formations always list the same nodes for a type      *)
(* (SameNodes) and at most one service for each (Unrepeated), so a change  *)
(* of a service makes its type differ, hence its sender's whole part of    *)
(* the type is sent, and one service per node is all that a receiver keeps *)
(* of a message (MessagesComplete).  What is not sent did not differ.      *)
(***************************************************************************)

\* The services of a type that a registry lists for a node.
OnNode(reg, n, node) == {s \in Contents(InstancesOf(reg, n)) : s.nodeId = node}

\* A vector has at most one service of each node.
OnePerNode(v) == \A i, j \in DOMAIN v : v[i].nodeId = v[j].nodeId => i = j

Unrepeated ==
    \A r \in Peers : \A n \in DOMAIN registry[r] : OnePerNode(registry[r][n])

\* Both registries list the same types for the same nodes.
SameNodes ==
    \A n : \A node :
        OnNode(registry[Node1], n, node) = {} <=> OnNode(registry[Node2], n, node) = {}

\* What they list for a node that takes no part is the same.
ThirdsAgree ==
    \A n : \A node : node \notin Peers =>
        OnNode(registry[Node1], n, node) = OnNode(registry[Node2], n, node)

\* What r lists for its own node is what the other lists for it.
Current(r) == \A n : OnNode(registry[Peer(r)], n, r) = OnNode(registry[r], n, r)

\* Receiving the message of r would make that so.
Delivers(r) ==
    \A n : IF n \in Carried(message[r])
           THEN Contents(message[r][n]) = OnNode(registry[r], n, r)
           ELSE OnNode(registry[Peer(r)], n, r) = OnNode(registry[r], n, r)

ViewsCurrent ==
    /\ At(Node2, "receive") => Current(Node2)
    /\ At(Node1, "change") => Current(Node1) /\ Current(Node2)
    /\ At(Node2, "change") => Current(Node2)

MessagesComplete ==
    /\ At(Node2, "send") => Delivers(Node1)
    /\ phase = "receive" \/ At(Node1, "change") => Delivers(Node1) /\ Delivers(Node2)

AgreementInvariant ==
    /\ SyncInvariant
    /\ Unrepeated
    /\ SameNodes
    /\ ThirdsAgree
    /\ ViewsCurrent
    /\ MessagesComplete

-----------------------------------------------------------------------------
(* Vectors with at most one service of a node.                             *)

\* Indexes whose services are on different nodes select at most one of each.
LEMMA PickOnePerNode ==
    ASSUME NEW v \in Seq(Service), NEW I \in SUBSET DOMAIN v,
           \A i, j \in I : v[i].nodeId = v[j].nodeId => i = j
    PROVE  OnePerNode(Pick(v, I))
<1>1. /\ Len(v) \in Nat /\ DOMAIN v = 1 .. Len(v)
  BY LenProperties
<1>2. I \in SUBSET Nat /\ IsFiniteSet(I)
  BY <1>1, PickProperties
<1>3. Cardinality(I) \in Nat
  BY <1>2, FS_CardinalityType
<1>4. DOMAIN Pick(v, I) = 1 .. Cardinality(I)
  BY DEF Pick
<1>5. \A k \in DOMAIN Pick(v, I) : k - 1 \in 0 .. Cardinality(I) - 1
  BY <1>3, <1>4
<1>6. \A k \in DOMAIN Pick(v, I) : Nth(I, k - 1) \in I /\ Rank(I, Nth(I, k - 1)) = k - 1
  BY <1>2, <1>5, NthProperties
<1>7. \A k \in DOMAIN Pick(v, I) : Pick(v, I)[k] = v[Nth(I, k - 1)]
  BY DEF Pick
<1> SUFFICES ASSUME NEW i \in DOMAIN Pick(v, I), NEW j \in DOMAIN Pick(v, I),
                    Pick(v, I)[i].nodeId = Pick(v, I)[j].nodeId
             PROVE  i = j
  BY DEF OnePerNode
<1>8. Nth(I, i - 1) = Nth(I, j - 1)
  BY <1>6, <1>7
<1>9. i - 1 = j - 1
  BY <1>6, <1>8
<1> QED
  BY <1>3, <1>4, <1>9

LEMMA ConcatOnePerNode ==
    ASSUME NEW u \in Seq(Service), NEW v \in Seq(Service),
           OnePerNode(u), OnePerNode(v),
           \A s \in Contents(u) : \A t \in Contents(v) : s.nodeId # t.nodeId
    PROVE  OnePerNode(u \o v)
<1>1. /\ Len(u) \in Nat /\ DOMAIN u = 1 .. Len(u)
      /\ Len(v) \in Nat /\ DOMAIN v = 1 .. Len(v)
  BY LenProperties
<1> DEFINE w == u \o v
<1>2. DOMAIN w = 1 .. Len(u) + Len(v)
  BY <1>1, ConcatProperties, LenProperties
<1>3. \A k \in DOMAIN w : w[k] = IF k <= Len(u) THEN u[k] ELSE v[k - Len(u)]
  BY <1>1, <1>2, ConcatProperties
<1> HIDE DEF w
<1>4. \A i \in 1 .. Len(u) : \A j \in 1 .. Len(v) : u[i].nodeId # v[j].nodeId
  BY <1>1 DEF Contents
<1>5. \A k \in DOMAIN w : k > Len(u) => k - Len(u) \in 1 .. Len(v)
  BY <1>1, <1>2
<1>6. \A k \in DOMAIN w : k <= Len(u) => k \in 1 .. Len(u)
  BY <1>1, <1>2
<1> SUFFICES ASSUME NEW i \in DOMAIN w, NEW j \in DOMAIN w, w[i].nodeId = w[j].nodeId
             PROVE  i = j
  BY DEF OnePerNode, w
<1>7. CASE i <= Len(u) /\ j <= Len(u)
  BY <1>1, <1>3, <1>6, <1>7 DEF OnePerNode
<1>8. CASE i > Len(u) /\ j > Len(u)
  <2>1. i - Len(u) \in DOMAIN v /\ j - Len(u) \in DOMAIN v
    BY <1>1, <1>5, <1>8
  <2>2. w[i] = v[i - Len(u)] /\ w[j] = v[j - Len(u)]
    BY <1>1, <1>2, <1>3, <1>8
  <2>3. i - Len(u) = j - Len(u)
    BY <2>1, <2>2 DEF OnePerNode
  <2> QED
    BY <1>1, <1>2, <2>3
<1>9. CASE i <= Len(u) /\ j > Len(u)
  BY <1>1, <1>2, <1>3, <1>4, <1>5, <1>6, <1>9
<1>10. CASE i > Len(u) /\ j <= Len(u)
  BY <1>1, <1>2, <1>3, <1>4, <1>5, <1>6, <1>10
<1> QED
  BY <1>1, <1>2, <1>7, <1>8, <1>9, <1>10

\* Receiving services keeps at most one of each node: the old ones on a received
\* service's node go, and of the received ones the last of each node stays.
LEMMA ReceivedOnePerNode ==
    ASSUME NEW old \in Seq(Service), NEW new \in Seq(Service), OnePerNode(old)
    PROVE  OnePerNode(Received(old, new))
<1> DEFINE I == {i \in DOMAIN old :
                   \A j \in DOMAIN new : new[j].nodeId # old[i].nodeId}
           J == {i \in DOMAIN new :
                   \A j \in DOMAIN new : j > i => new[j].nodeId # new[i].nodeId}
<1>1. Received(old, new) = Pick(old, I) \o Pick(new, J)
  BY DEF Received
<1>2. I \in SUBSET DOMAIN old /\ J \in SUBSET DOMAIN new
  OBVIOUS
<1>3. /\ Pick(old, I) \in Seq(Service) /\ Contents(Pick(old, I)) = {old[i] : i \in I}
      /\ Pick(new, J) \in Seq(Service) /\ Contents(Pick(new, J)) = {new[i] : i \in J}
  <2> HIDE DEF I, J
  <2> QED
    BY <1>2, PickProperties
<1>4. OnePerNode(Pick(old, I))
  <2>1. \A i, j \in I : old[i].nodeId = old[j].nodeId => i = j
    BY DEF OnePerNode
  <2> HIDE DEF I
  <2> QED
    BY <1>2, <2>1, PickOnePerNode
<1>5. OnePerNode(Pick(new, J))
  <2>1. \A i, j \in J : new[i].nodeId = new[j].nodeId => i = j
    <3>1. DOMAIN new = 1 .. Len(new) /\ Len(new) \in Nat
      BY LenProperties
    <3> QED
      BY <3>1
  <2> HIDE DEF J
  <2> QED
    BY <1>2, <2>1, PickOnePerNode
<1>6. \A s \in Contents(Pick(old, I)) : \A t \in Contents(Pick(new, J)) : s.nodeId # t.nodeId
  BY <1>3
<1> HIDE DEF I, J
<1> QED
  BY <1>1, <1>3, <1>4, <1>5, <1>6, ConcatOnePerNode

\* The services of one node are replaced by those received, as long as there is
\* only one; the others stay.
LEMMA ReceivedOnNode ==
    ASSUME NEW old \in Seq(Service), NEW new \in Seq(Service), new # <<>>, NEW sender,
           \A s \in Contents(new) : s.nodeId = sender,
           \A s, t \in Contents(new) : s = t
    PROVE  \A s : s \in Contents(Received(old, new)) <=>
              \/ s \in Contents(old) /\ s.nodeId # sender
              \/ s \in Contents(new)
<1> DEFINE J == {k \in DOMAIN new :
                   \A j \in DOMAIN new : j > k => new[j].nodeId # new[k].nodeId}
<1>1. Contents(Received(old, new)) =
         {s \in Contents(old) : \A t \in Contents(new) : t.nodeId # s.nodeId}
         \cup {new[i] : i \in J}
  BY ReceivedProperties
<1>2. DOMAIN new = 1 .. Len(new) /\ Len(new) \in Nat /\ Len(new) # 0
  BY LenProperties, EmptySeq
<1>3. Len(new) \in J
  BY <1>2
<1>4. new[Len(new)] \in Contents(new)
  BY <1>2 DEF Contents
<1>5. \A i \in J : new[i] \in Contents(new)
  BY DEF Contents
<1> HIDE DEF J
<1> QED
  BY <1>1, <1>3, <1>4, <1>5

-----------------------------------------------------------------------------
(* What the steps do to the services a registry lists for a node.          *)

LEMMA NodeInstances ==
    ASSUME NEW reg, NEW n, NEW node
    PROVE  /\ n \in DOMAIN reg =>
                 OnNode(reg, n, node) = {s \in Contents(reg[n]) : s.nodeId = node}
           /\ n \notin DOMAIN reg => OnNode(reg, n, node) = {}
BY DEF OnNode, InstancesOf, Contents

\* A list in which no node offers a type twice fills a map in which none does.
LEMMA PushAllOnePerNode ==
    ASSUME NEW offers \in Seq(Service), OneInstancePerTypeAndNode(offers)
    PROVE  \A n \in DOMAIN PushAll(EmptyRegistry, offers) :
              OnePerNode(PushAll(EmptyRegistry, offers)[n])
<1> DEFINE I(n) == {i \in DOMAIN offers : offers[i].service_name = n}
<1> TAKE n \in DOMAIN PushAll(EmptyRegistry, offers)
<1>1. PushAll(EmptyRegistry, offers)[n] = <<>> \o Pick(offers, I(n))
  BY DEF PushAll, EmptyRegistry, InstancesOf
<1>2. I(n) \in SUBSET DOMAIN offers
  OBVIOUS
<1>3. \A i, j \in I(n) : offers[i].nodeId = offers[j].nodeId => i = j
  BY DEF OneInstancePerTypeAndNode
<1>4. Pick(offers, I(n)) \in Seq(Service)
  BY <1>2, PickProperties
<1>5. OnePerNode(Pick(offers, I(n)))
  BY <1>2, <1>3, PickOnePerNode
<1> QED
  BY <1>1, <1>4, <1>5, ConcatEmptySeq

\* A change of state of a node's service leaves the other nodes' services and
\* which types the node offers.
LEMMA FlipOnNode ==
    ASSUME NEW reg, IsRegistry(reg), NEW r, OwnTypes(reg, r) # {}
    PROVE  /\ \A n, node : node # r =>
                 OnNode(FlipFirst(reg, r), n, node) = OnNode(reg, n, node)
           /\ \A n : OnNode(FlipFirst(reg, r), n, r) = {} <=> OnNode(reg, n, r) = {}
           /\ (\A n \in DOMAIN reg : OnePerNode(reg[n])) =>
                 \A n \in DOMAIN FlipFirst(reg, r) : OnePerNode(FlipFirst(reg, r)[n])
<1> DEFINE new == FlipFirst(reg, r)
<1>1. /\ DOMAIN new = NonEmptyKeys(reg)
      /\ \A m \in NonEmptyKeys(reg) :
            /\ DOMAIN new[m] = DOMAIN reg[m]
            /\ \A k \in DOMAIN reg[m] :
                  \/ new[m][k] = reg[m][k]
                  \/ /\ reg[m][k].nodeId = r
                     /\ new[m][k] = [reg[m][k] EXCEPT !.is_alive = ~@]
  BY FlipFirstEntries
<1>2. \A m \in NonEmptyKeys(reg) : \A k \in DOMAIN reg[m] :
         /\ new[m][k].nodeId = reg[m][k].nodeId
         /\ reg[m][k].nodeId # r => new[m][k] = reg[m][k]
  <2> TAKE m \in NonEmptyKeys(reg)
  <2> TAKE k \in DOMAIN reg[m]
  <2>1. m \in DOMAIN reg /\ reg[m] \in Seq(Service)
    BY DEF NonEmptyKeys, IsRegistry
  <2>2. reg[m][k] \in Service
    BY <2>1, LenProperties, ElementOfSeq
  <2>3. [reg[m][k] EXCEPT !.is_alive = ~@].nodeId = reg[m][k].nodeId
    BY <2>2 DEF Service
  <2> QED
    BY <1>1, <2>3
<1> HIDE DEF new
<1>3. \A n : n \notin NonEmptyKeys(reg) =>
         \A node : OnNode(new, n, node) = {} /\ OnNode(reg, n, node) = {}
  <2> SUFFICES ASSUME NEW n, n \notin NonEmptyKeys(reg), NEW node
               PROVE  OnNode(new, n, node) = {} /\ OnNode(reg, n, node) = {}
    OBVIOUS
  <2>1. InstancesOf(new, n) = <<>> /\ InstancesOf(reg, n) = <<>>
    BY <1>1 DEF InstancesOf, NonEmptyKeys
  <2> QED
    BY <2>1 DEF OnNode, Contents
<1>4. \A n \in NonEmptyKeys(reg) : \A node :
         /\ OnNode(new, n, node) = {s \in Contents(new[n]) : s.nodeId = node}
         /\ OnNode(reg, n, node) = {s \in Contents(reg[n]) : s.nodeId = node}
  BY <1>1, NodeInstances DEF NonEmptyKeys
<1>5. ASSUME NEW n, NEW node, node # r
      PROVE  OnNode(new, n, node) = OnNode(reg, n, node)
  <2>1. CASE n \in NonEmptyKeys(reg)
    <3>1. \A s : s \in OnNode(new, n, node) <=> s \in OnNode(reg, n, node)
      BY <1>1, <1>2, <1>4, <1>5, <2>1 DEF Contents
    <3> QED
      BY <3>1 DEF OnNode
  <2> QED
    BY <1>3, <2>1
<1>6. ASSUME NEW n
      PROVE  OnNode(new, n, r) = {} <=> OnNode(reg, n, r) = {}
  <2>1. CASE n \in NonEmptyKeys(reg)
    <3>1. OnNode(new, n, r) = {} <=> \A k \in DOMAIN new[n] : new[n][k].nodeId # r
      BY <1>4, <2>1 DEF Contents
    <3>2. OnNode(reg, n, r) = {} <=> \A k \in DOMAIN reg[n] : reg[n][k].nodeId # r
      BY <1>4, <2>1 DEF Contents
    <3> QED
      BY <1>1, <1>2, <2>1, <3>1, <3>2
  <2> QED
    BY <1>3, <2>1
<1>7. ASSUME \A n \in DOMAIN reg : OnePerNode(reg[n])
      PROVE  \A n \in DOMAIN new : OnePerNode(new[n])
  BY <1>1, <1>2, <1>7 DEF OnePerNode, NonEmptyKeys
<1> QED
  BY <1>5, <1>6, <1>7 DEF new

\* Of a type named, all services of the node are sent, or the node has none.
LEMMA SerializeOnNode ==
    ASSUME NEW reg, IsRegistry(reg), NEW r, NEW names
    PROVE  /\ \A n \in Carried(serializeServicesForNames(reg, r, names)) :
                 Contents(serializeServicesForNames(reg, r, names)[n]) = OnNode(reg, n, r)
           /\ \A n \in names : n \notin Carried(serializeServicesForNames(reg, r, names)) =>
                 OnNode(reg, n, r) = {}
<1> DEFINE I(n) == {i \in DOMAIN reg[n] : reg[n][i].nodeId = r}
           msg == serializeServicesForNames(reg, r, names)
<1>1. msg = [n \in names \cap DOMAIN reg |-> Pick(reg[n], I(n))]
  BY DEF serializeServicesForNames
<1> HIDE DEF msg
<1>2. \A n \in names \cap DOMAIN reg :
         /\ Contents(msg[n]) = {reg[n][i] : i \in I(n)}
         /\ msg[n] = <<>> <=> I(n) = {}
  <2> TAKE n \in names \cap DOMAIN reg
  <2>1. reg[n] \in Seq(Service)
    BY DEF IsRegistry
  <2>2. I(n) \in SUBSET DOMAIN reg[n]
    OBVIOUS
  <2>3. msg[n] = Pick(reg[n], I(n))
    BY <1>1
  <2> DEFINE In == I(n)
  <2>4. In \in SUBSET DOMAIN reg[n]
    BY <2>2
  <2> HIDE DEF In
  <2>5. Contents(Pick(reg[n], In)) = {reg[n][i] : i \in In}
    BY <2>1, <2>4, PickProperties
  <2>6. Pick(reg[n], In) = <<>> <=> In = {}
    BY <2>1, <2>4, PickEmpty
  <2> QED
    BY <2>3, <2>5, <2>6 DEF In
<1>3. \A n \in names \cap DOMAIN reg : OnNode(reg, n, r) = {reg[n][i] : i \in I(n)}
  BY NodeInstances DEF Contents
<1>4. \A n \in Carried(msg) : n \in names \cap DOMAIN reg
  BY <1>1 DEF Carried
<1>5. \A n \in names : n \notin Carried(msg) => OnNode(reg, n, r) = {}
  <2> SUFFICES ASSUME NEW n \in names, n \notin Carried(msg) PROVE OnNode(reg, n, r) = {}
    OBVIOUS
  <2>1. CASE n \in DOMAIN reg
    <3>1. msg[n] = <<>>
      BY <1>1, <2>1 DEF Carried
    <3> QED
      BY <1>2, <1>3, <2>1, <3>1
  <2> QED
    BY <2>1, NodeInstances
<1> QED
  BY <1>2, <1>3, <1>4, <1>5 DEF msg

\* A message with one service per type replaces exactly the sender's services of
\* the types it carries.
LEMMA DeserializeOnNode ==
    ASSUME NEW reg, IsRegistry(reg), NEW msg, IsRegistry(msg), NEW sender,
           \A n \in DOMAIN msg : \A s \in Contents(msg[n]) : s.nodeId = sender,
           \A n \in Carried(msg) : \A s, t \in Contents(msg[n]) : s = t
    PROVE  /\ \A n \in Carried(msg) :
                 OnNode(deserializeAndSetServices(reg, msg), n, sender) = Contents(msg[n])
           /\ \A n : n \notin Carried(msg) =>
                 OnNode(deserializeAndSetServices(reg, msg), n, sender) = OnNode(reg, n, sender)
           /\ \A n, node : node # sender =>
                 OnNode(deserializeAndSetServices(reg, msg), n, node) = OnNode(reg, n, node)
           /\ (\A n \in DOMAIN reg : OnePerNode(reg[n])) =>
                 \A n \in DOMAIN deserializeAndSetServices(reg, msg) :
                    OnePerNode(deserializeAndSetServices(reg, msg)[n])
<1> DEFINE new == deserializeAndSetServices(reg, msg)
<1>1. /\ DOMAIN new = DOMAIN reg \cup Carried(msg)
      /\ \A n \in DOMAIN new :
            new[n] = IF n \in Carried(msg) THEN Received(InstancesOf(reg, n), msg[n])
                                           ELSE reg[n]
  BY DEF deserializeAndSetServices
<1> HIDE DEF new
<1>2. \A n : n \notin Carried(msg) => InstancesOf(new, n) = InstancesOf(reg, n)
  BY <1>1 DEF InstancesOf
<1>3. \A n, node : n \notin Carried(msg) => OnNode(new, n, node) = OnNode(reg, n, node)
  BY <1>2 DEF OnNode
<1>4. \A n \in Carried(msg) :
         /\ InstancesOf(reg, n) \in Seq(Service)
         /\ n \in DOMAIN msg /\ msg[n] \in Seq(Service) /\ msg[n] # <<>>
         /\ InstancesOf(new, n) = Received(InstancesOf(reg, n), msg[n])
  BY <1>1, InstancesProperties DEF Carried, IsRegistry, InstancesOf
<1>5. \A n \in Carried(msg) : \A s :
         s \in Contents(InstancesOf(new, n)) <=>
            \/ s \in Contents(InstancesOf(reg, n)) /\ s.nodeId # sender
            \/ s \in Contents(msg[n])
  BY <1>4, ReceivedOnNode
<1>6. \A n \in Carried(msg) : OnNode(new, n, sender) = Contents(msg[n])
  BY <1>4, <1>5 DEF OnNode
<1>7. \A n \in Carried(msg) : \A node :
         node # sender => OnNode(new, n, node) = OnNode(reg, n, node)
  BY <1>4, <1>5 DEF OnNode
<1>8. ASSUME \A n \in DOMAIN reg : OnePerNode(reg[n])
      PROVE  \A n \in DOMAIN new : OnePerNode(new[n])
  <2>1. \A n : OnePerNode(InstancesOf(reg, n))
    BY <1>8 DEF InstancesOf, OnePerNode
  <2>2. \A n \in Carried(msg) : OnePerNode(Received(InstancesOf(reg, n), msg[n]))
    BY <1>4, <2>1, ReceivedOnePerNode
  <2> QED
    BY <1>1, <1>8, <2>2
<1> QED
  BY <1>3, <1>6, <1>7, <1>8 DEF new

-----------------------------------------------------------------------------
(* The inductive invariant.                                                *)

\* A registry lists at most one service of a type for a node.
LEMMA AtMostOne ==
    ASSUME Unrepeated, NEW r \in Peers, NEW n, NEW node
    PROVE  \A s, t \in OnNode(registry[r], n, node) : s = t
<1>1. CASE n \in DOMAIN registry[r]
  <2>1. OnePerNode(registry[r][n])
    BY <1>1 DEF Unrepeated
  <2> QED
    BY <1>1, <2>1, NodeInstances DEF OnePerNode, Contents
<1>2. CASE n \notin DOMAIN registry[r]
  BY <1>2, NodeInstances
<1> QED
  BY <1>1, <1>2

\* At its turn to receive a registry holds a message that brings it up to date.
LEMMA ReceiveEffect ==
    ASSUME AgreementInvariant, NEW r \in Peers, Receive(r)
    PROVE  /\ Delivers(Peer(r))
           /\ registry'[Peer(r)] = registry[Peer(r)]
           /\ \A n : OnNode(registry'[r], n, Peer(r)) = OnNode(registry[Peer(r)], n, Peer(r))
           /\ \A n, node : node # Peer(r) =>
                 OnNode(registry'[r], n, node) = OnNode(registry[r], n, node)
           /\ \A n \in DOMAIN registry'[r] : OnePerNode(registry'[r][n])
<1> DEFINE p == Peer(r)
           msg == message[p]
<1>1. p \in Peers /\ p # r /\ Peer(p) = r
  BY PeerProperties
<1>2. Delivers(p)
  <2>1. phase = "receive" /\ turn = r
    BY DEF Receive, At
  <2> QED
    BY <2>1, PeerProperties DEF AgreementInvariant, MessagesComplete, At
<1>3. /\ IsRegistry(registry[r]) /\ IsRegistry(msg)
      /\ \A n \in DOMAIN msg : \A s \in Contents(msg[n]) : s.nodeId = p
  BY <1>1 DEF AgreementInvariant, SyncInvariant, TypeOK, MessagesFromOwner
<1>4. \A n \in Carried(msg) : Contents(msg[n]) = OnNode(registry[p], n, p)
  BY <1>2 DEF Delivers
<1>5. \A n : n \notin Carried(msg) => OnNode(registry[r], n, p) = OnNode(registry[p], n, p)
  BY <1>1, <1>2 DEF Delivers
<1>6. \A n \in Carried(msg) : \A s, t \in Contents(msg[n]) : s = t
  <2> HIDE DEF p, msg
  <2>1. \A n : \A s, t \in OnNode(registry[p], n, p) : s = t
    BY <1>1, AtMostOne DEF AgreementInvariant
  <2> QED
    BY <1>4, <2>1
<1>7. \A n \in DOMAIN registry[r] : OnePerNode(registry[r][n])
  BY DEF AgreementInvariant, Unrepeated
<1> HIDE DEF p, msg
<1>8. CASE Carried(msg) = {}
  <2>1. UNCHANGED registry
    BY <1>8 DEF Receive, p, msg
  <2> QED
    BY <1>2, <1>5, <1>7, <1>8, <2>1 DEF p
<1>9. CASE Carried(msg) # {}
  <2> DEFINE new == deserializeAndSetServices(registry[r], msg)
  <2>1. registry' = [registry EXCEPT ![r] = new]
    BY <1>9 DEF Receive, SetAndBuild, p, msg
  <2>2. registry'[r] = new /\ registry'[p] = registry[p]
    BY <1>1, <2>1 DEF AgreementInvariant, SyncInvariant, TypeOK
  <2>3. /\ \A n \in Carried(msg) : OnNode(new, n, p) = Contents(msg[n])
        /\ \A n : n \notin Carried(msg) => OnNode(new, n, p) = OnNode(registry[r], n, p)
        /\ \A n, node : node # p => OnNode(new, n, node) = OnNode(registry[r], n, node)
        /\ \A n \in DOMAIN new : OnePerNode(new[n])
    BY <1>3, <1>6, <1>7, DeserializeOnNode
  <2> HIDE DEF new
  <2>4. \A n : OnNode(new, n, p) = OnNode(registry[p], n, p)
    BY <1>4, <1>5, <2>3
  <2> QED
    BY <1>2, <2>2, <2>3, <2>4 DEF p
<1> QED
  BY <1>8, <1>9

\* A change touches the services of the registry's own node only, and not which
\* types the node offers.
LEMMA ChangeEffect ==
    ASSUME AgreementInvariant, NEW r \in Peers, Change(r)
    PROVE  /\ registry'[Peer(r)] = registry[Peer(r)]
           /\ \A n, node : node # r =>
                 OnNode(registry'[r], n, node) = OnNode(registry[r], n, node)
           /\ \A n : OnNode(registry'[r], n, r) = {} <=> OnNode(registry[r], n, r) = {}
           /\ \A n \in DOMAIN registry'[r] : OnePerNode(registry'[r][n])
<1>1. IsRegistry(registry[r]) /\ \A n \in DOMAIN registry[r] : OnePerNode(registry[r][n])
  BY DEF AgreementInvariant, SyncInvariant, TypeOK, Unrepeated
<1>2. CASE Flip(r)
  <2> DEFINE new == FlipFirst(registry[r], r)
  <2>1. OwnTypes(registry[r], r) # {} /\ registry' = [registry EXCEPT ![r] = new]
    BY <1>2 DEF Flip, SetAndBuild
  <2>2. /\ \A n, node : node # r => OnNode(new, n, node) = OnNode(registry[r], n, node)
        /\ \A n : OnNode(new, n, r) = {} <=> OnNode(registry[r], n, r) = {}
        /\ \A n \in DOMAIN new : OnePerNode(new[n])
    BY <1>1, <2>1, FlipOnNode
  <2> HIDE DEF new
  <2>3. registry'[r] = new /\ registry'[Peer(r)] = registry[Peer(r)]
    BY <2>1, PeerProperties DEF AgreementInvariant, SyncInvariant, TypeOK
  <2> QED
    BY <2>2, <2>3
<1>3. CASE KeepAll(r)
  BY <1>1, <1>3 DEF KeepAll
<1> QED
  BY <1>2, <1>3 DEF Change

LEMMA InitAgrees ==
    ASSUME \A offers \in InitialLists : OneInstancePerTypeAndNode(offers), Init
    PROVE  AgreementInvariant
<1>1. PICK offers \in InitialLists :
        registry = [r \in Peers |-> PushAll(EmptyRegistry, offers)]
  BY DEF Init
<1>2. offers \in Seq(Service) /\ OneInstancePerTypeAndNode(offers)
  BY InitialListsAssumption
<1>3. \A r \in Peers : registry[r] = registry[Node1]
  BY <1>1, PeerProperties
<1>4. Unrepeated
  BY <1>1, <1>2, PushAllOnePerNode DEF Unrepeated
<1>5. SameNodes /\ ThirdsAgree
  BY <1>3, PeerProperties DEF SameNodes, ThirdsAgree
<1>6. ViewsCurrent /\ MessagesComplete
  BY DEF Init, ViewsCurrent, MessagesComplete, At
<1> QED
  BY <1>4, <1>5, <1>6, InitInvariant DEF AgreementInvariant

\* Which statement follows.
LEMMA Successor ==
    ASSUME SyncInvariant, NEW r \in Peers, turn = r, Advance
    PROVE  /\ r = Node1 => phase' = phase /\ turn' = Node2
           /\ r = Node2 => phase' = NextPhase[phase] /\ turn' = Node1
BY PeerProperties DEF Advance, SyncInvariant, TypeOK

LEMMA SendAgrees ==
    ASSUME AgreementInvariant, NEW r \in Peers, Send(r)
    PROVE  ViewsCurrent' /\ MessagesComplete'
<1> USE DEF AgreementInvariant
<1>1. /\ phase = "send" /\ turn = r /\ Advance /\ UNCHANGED registry
      /\ r = Node1 => phase' = "send" /\ turn' = Node2
      /\ r = Node2 => phase' = "receive" /\ turn' = Node1
  BY Successor DEF Send, At, NextPhase
<1>2. ViewsCurrent'
  BY <1>1, PeerProperties DEF ViewsCurrent, At
<1> DEFINE msg == serializeServicesForNames(registry[r], r, DifferingTypes)
<1>3. message'[r] = msg /\ message'[Peer(r)] = message[Peer(r)]
  BY <1>1, PeerProperties DEF Send, SyncInvariant, ReportsCurrent, TypeOK
<1>4. Delivers(r)'
  <2>1. IsRegistry(registry[r])
    BY DEF SyncInvariant, TypeOK
  <2>2. /\ \A n \in Carried(msg) : Contents(msg[n]) = OnNode(registry[r], n, r)
        /\ \A n \in DifferingTypes : n \notin Carried(msg) => OnNode(registry[r], n, r) = {}
    BY <2>1, SerializeOnNode
  <2>3. \A n : n \notin DifferingTypes =>
           InstancesOf(registry[Node1], n) = InstancesOf(registry[Node2], n)
    <3>1. \A n : n \notin ServiceNames =>
             InstancesOf(registry[Node1], n) = <<>> /\ InstancesOf(registry[Node2], n) = <<>>
      BY PeerProperties DEF SyncInvariant, TypeOK, IsRegistry, InstancesOf
    <3> QED
      BY <3>1 DEF DifferingTypes
  <2>4. \A n : n \notin DifferingTypes =>
           OnNode(registry[Peer(r)], n, r) = OnNode(registry[r], n, r)
    BY <2>3, PeerProperties DEF OnNode
  <2>5. \A n : OnNode(registry[r], n, r) = {} => OnNode(registry[Peer(r)], n, r) = {}
    BY PeerProperties DEF SameNodes
  <2>6. \A n : IF n \in Carried(msg)
               THEN Contents(msg[n]) = OnNode(registry[r], n, r)
               ELSE OnNode(registry[Peer(r)], n, r) = OnNode(registry[r], n, r)
    BY <2>2, <2>4, <2>5
  <2> HIDE DEF msg
  <2> QED
    BY <1>1, <1>3, <2>6 DEF Delivers
<1>5. r = Node2 => Delivers(Node1)'
  BY <1>1, <1>3, PeerProperties DEF MessagesComplete, Delivers, At
<1>6. MessagesComplete'
  BY <1>1, <1>4, <1>5, PeerProperties DEF MessagesComplete, At
<1> QED
  BY <1>2, <1>6

LEMMA ReceiveAgrees ==
    ASSUME AgreementInvariant, NEW r \in Peers, Receive(r)
    PROVE  Unrepeated' /\ SameNodes' /\ ThirdsAgree' /\ ViewsCurrent' /\ MessagesComplete'
<1> USE DEF AgreementInvariant
<1>1. /\ phase = "receive" /\ turn = r /\ Advance /\ UNCHANGED message
      /\ r = Node1 => phase' = "receive" /\ turn' = Node2
      /\ r = Node2 => phase' = "change" /\ turn' = Node1
  BY Successor DEF Receive, At, NextPhase
<1>2. /\ registry'[Peer(r)] = registry[Peer(r)]
      /\ \A n : OnNode(registry'[r], n, Peer(r)) = OnNode(registry[Peer(r)], n, Peer(r))
      /\ \A n, node : node # Peer(r) =>
            OnNode(registry'[r], n, node) = OnNode(registry[r], n, node)
      /\ \A n \in DOMAIN registry'[r] : OnePerNode(registry'[r][n])
  BY ReceiveEffect
<1>3. Unrepeated'
  BY <1>2, PeerProperties DEF Unrepeated
<1>4. SameNodes' /\ ThirdsAgree'
  <2>1. \A n, node : OnNode(registry'[r], n, node) = {} <=> OnNode(registry'[Peer(r)], n, node) = {}
    BY <1>2, PeerProperties DEF SameNodes
  <2>2. \A n, node : node \notin Peers =>
           OnNode(registry'[r], n, node) = OnNode(registry'[Peer(r)], n, node)
    BY <1>2, PeerProperties DEF ThirdsAgree
  <2> QED
    BY <2>1, <2>2, PeerProperties DEF SameNodes, ThirdsAgree
<1>5. Current(Peer(r))'
  BY <1>2, PeerProperties DEF Current
<1>6. r = Node2 => Current(Node2)'
  BY <1>1, <1>2, PeerProperties DEF ViewsCurrent, Current, At
<1>7. Delivers(Node1)' /\ Delivers(Node2)'
  <2>1. Delivers(r) /\ Delivers(Peer(r))
    BY <1>1, PeerProperties DEF MessagesComplete
  <2>2. Delivers(r)'
    BY <1>1, <1>2, <2>1, PeerProperties DEF Delivers
  <2>3. Delivers(Peer(r))'
    BY <1>1, <1>2, <2>1, PeerProperties DEF Delivers
  <2> QED
    BY <2>2, <2>3, PeerProperties
<1>8. ViewsCurrent' /\ MessagesComplete'
  BY <1>1, <1>5, <1>6, <1>7, PeerProperties DEF ViewsCurrent, MessagesComplete, At
<1> QED
  BY <1>3, <1>4, <1>8

LEMMA ChangeAgrees ==
    ASSUME AgreementInvariant, NEW r \in Peers, Change(r)
    PROVE  Unrepeated' /\ SameNodes' /\ ThirdsAgree' /\ ViewsCurrent' /\ MessagesComplete'
<1> USE DEF AgreementInvariant
<1>1. /\ phase = "change" /\ turn = r /\ Advance
      /\ r = Node1 => phase' = "change" /\ turn' = Node2
      /\ r = Node2 => phase' = "serialise" /\ turn' = Node1
  BY Successor DEF Change, Flip, KeepAll, EndChange, At, NextPhase
<1>2. /\ registry'[Peer(r)] = registry[Peer(r)]
      /\ \A n, node : node # r =>
            OnNode(registry'[r], n, node) = OnNode(registry[r], n, node)
      /\ \A n : OnNode(registry'[r], n, r) = {} <=> OnNode(registry[r], n, r) = {}
      /\ \A n \in DOMAIN registry'[r] : OnePerNode(registry'[r][n])
  BY ChangeEffect
<1>3. Unrepeated'
  BY <1>2, PeerProperties DEF Unrepeated
<1>4. SameNodes' /\ ThirdsAgree'
  <2>1. \A n, node : OnNode(registry'[r], n, node) = {} <=> OnNode(registry'[Peer(r)], n, node) = {}
    BY <1>2, PeerProperties DEF SameNodes
  <2>2. \A n, node : node \notin Peers =>
           OnNode(registry'[r], n, node) = OnNode(registry'[Peer(r)], n, node)
    BY <1>2, PeerProperties DEF ThirdsAgree
  <2> QED
    BY <2>1, <2>2, PeerProperties DEF SameNodes, ThirdsAgree
<1>5. r = Node1 => Current(Node2)'
  BY <1>1, <1>2, PeerProperties DEF ViewsCurrent, Current, At
<1>6. ViewsCurrent' /\ MessagesComplete'
  BY <1>1, <1>5, PeerProperties DEF ViewsCurrent, MessagesComplete, At
<1> QED
  BY <1>3, <1>4, <1>6

LEMMA NextAgrees == AgreementInvariant /\ [Next]_vars => AgreementInvariant'
<1> SUFFICES ASSUME AgreementInvariant, [Next]_vars PROVE AgreementInvariant'
  OBVIOUS
<1> DEFINE Rest == Unrepeated /\ SameNodes /\ ThirdsAgree /\ ViewsCurrent /\ MessagesComplete
<1>1. SyncInvariant'
  BY NextInvariant DEF AgreementInvariant
<1>2. ASSUME UNCHANGED registry PROVE Unrepeated' /\ SameNodes' /\ ThirdsAgree'
  BY <1>2 DEF AgreementInvariant, Unrepeated, SameNodes, ThirdsAgree
<1>3. ASSUME NEW r \in Peers, Serialise(r) PROVE Rest'
  <2>1. UNCHANGED registry /\ (phase' = "serialise" \/ phase' = "compare")
    BY <1>3, Successor DEF Serialise, At, NextPhase, AgreementInvariant, Peers
  <2> QED
    BY <1>2, <2>1 DEF ViewsCurrent, MessagesComplete, At
<1>4. ASSUME NEW r \in Peers, Compare(r) PROVE Rest'
  <2>1. UNCHANGED registry /\ (phase' = "compare" \/ (phase' = "send" /\ turn' = Node1))
    BY <1>4, Successor DEF Compare, At, NextPhase, AgreementInvariant, Peers
  <2> QED
    BY <1>2, <2>1, PeerProperties DEF ViewsCurrent, MessagesComplete, At
<1>5. ASSUME NEW r \in Peers, Send(r) PROVE Rest'
  BY <1>2, <1>5, SendAgrees DEF Send
<1>6. ASSUME NEW r \in Peers, Receive(r) PROVE Rest'
  BY <1>6, ReceiveAgrees
<1>7. ASSUME NEW r \in Peers, Change(r) PROVE Rest'
  BY <1>7, ChangeAgrees
<1>8. ASSUME UNCHANGED vars PROVE Rest'
  <2>1. UNCHANGED <<registry, message, phase, turn>>
    BY <1>8 DEF vars
  <2>2. UNCHANGED <<Current(Node1), Current(Node2), Delivers(Node1), Delivers(Node2)>>
    BY <2>1 DEF Current, Delivers
  <2> QED
    BY <1>2, <2>1, <2>2 DEF AgreementInvariant, ViewsCurrent, MessagesComplete, At
<1> QED
  BY <1>1, <1>3, <1>4, <1>5, <1>6, <1>7, <1>8 DEF Next, Exchange, AgreementInvariant

-----------------------------------------------------------------------------
(* The theorems.  Their hypothesis is about the initial lists only: no node *)
(* offers a type twice.                                                    *)

NoTypeOfferedTwice == \A offers \in InitialLists : OneInstancePerTypeAndNode(offers)

\* The invariant holds in every reachable state.
THEOREM AgreementInvariance == NoTypeOfferedTwice /\ Spec => []AgreementInvariant
<1>1. NoTypeOfferedTwice /\ Init => AgreementInvariant
  BY InitAgrees DEF NoTypeOfferedTwice
<1>2. AgreementInvariant /\ [Next]_vars => AgreementInvariant'
  BY NextAgrees
<1> QED
  BY <1>1, <1>2, PTL DEF Spec

\* What a registry lists for a node is what it lists for it under its types.
LEMMA ServicesByType ==
    ASSUME NEW reg, NEW node
    PROVE  \A s : s \in ServicesOn(reg, node) <=> \E n : s \in OnNode(reg, n, node)
<1>1. \A s : s \in ServicesOn(reg, node) <=>
               \E n \in DOMAIN reg : s \in Contents(reg[n]) /\ s.nodeId = node
  BY DEF ServicesOn
<1>2. \A s, n : s \in OnNode(reg, n, node) <=>
               n \in DOMAIN reg /\ s \in Contents(reg[n]) /\ s.nodeId = node
  BY NodeInstances
<1> QED
  BY <1>1, <1>2

LEMMA EqualOnNode ==
    ASSUME NEW reg1, NEW reg2, NEW node,
           \A n : OnNode(reg1, n, node) = OnNode(reg2, n, node)
    PROVE  ServicesOn(reg1, node) = ServicesOn(reg2, node)
<1>1. \A s : s \in ServicesOn(reg1, node) <=> s \in ServicesOn(reg2, node)
  BY ServicesByType
<1> QED
  BY <1>1 DEF ServicesOn

\* After an exchange the registries list the same services.
THEOREM RegistriesAgree == NoTypeOfferedTwice /\ Spec => []ContentsAgree
<1>1. ASSUME AgreementInvariant PROVE ContentsAgree
  <2> SUFFICES ASSUME Exchanged, NEW node \in NodeIds
               PROVE  ServicesOn(registry[Node1], node) = ServicesOn(registry[Node2], node)
    BY DEF ContentsAgree
  <2>1. Current(Node1) /\ Current(Node2)
    BY <1>1 DEF AgreementInvariant, ViewsCurrent, Exchanged, At
  <2>2. \A n : OnNode(registry[Node1], n, node) = OnNode(registry[Node2], n, node)
    BY <1>1, <2>1, PeerProperties DEF Current, AgreementInvariant, ThirdsAgree
  <2> QED
    BY <2>2, EqualOnNode
<1> QED
  BY <1>1, AgreementInvariance, PTL

\* Every service sent is in the receiver's registry after the exchange.
THEOREM NothingLost == NoTypeOfferedTwice /\ Spec => []EveryServiceReceived
<1>1. ASSUME AgreementInvariant PROVE EveryServiceReceived
  <2> SUFFICES ASSUME Exchanged, NEW r \in Peers, NEW n \in DOMAIN message[r],
                      NEW s \in Contents(message[r][n])
               PROVE  s \in Contents(registry[Peer(r)][n])
    BY DEF EveryServiceReceived
  <2>1. Delivers(r) /\ Current(r)
    BY <1>1, PeerProperties DEF AgreementInvariant, ViewsCurrent, MessagesComplete,
       Exchanged, At
  <2>2. n \in Carried(message[r])
    BY DEF Carried, Contents
  <2>3. s \in OnNode(registry[r], n, r)
    BY <2>1, <2>2 DEF Delivers
  <2>4. s \in OnNode(registry[Peer(r)], n, r)
    BY <2>1, <2>3 DEF Current
  <2> QED
    BY <2>4, NodeInstances
<1> QED
  BY <1>1, AgreementInvariance, PTL

-----------------------------------------------------------------------------
(* The refinement of ServiceView: a change of state is its Change, a       *)
(* message received with services is its Deliver, and every other step     *)
(* leaves what the registries list for the nodes.                          *)

LEMMA ListedAreServices ==
    ASSUME NEW reg, IsRegistry(reg), NEW node
    PROVE  ServicesOn(reg, node) \in SUBSET Service
<1>1. \A n \in DOMAIN reg : Contents(reg[n]) \subseteq Service
  BY LenProperties, ElementOfSeq DEF IsRegistry, Contents
<1> QED
  BY <1>1 DEF ServicesOn

OwnPart == [r \in Peers |-> ServicesOn(registry[r], r)]

PeerPart == [r \in Peers |-> ServicesOn(registry[r], Peer(r))]

LEMMA InitRefines == AgreementInvariant /\ Init => View!Init
<1> SUFFICES ASSUME AgreementInvariant, Init PROVE View!Init
  OBVIOUS
<1>1. OwnPart \in [Peers -> SUBSET Service]
  BY ListedAreServices DEF OwnPart, AgreementInvariant, SyncInvariant, TypeOK
<1>2. \A r \in Peers : registry[r] = registry[Peer(r)]
  BY PeerProperties DEF Init
<1>3. PeerPart = [r \in Peers |-> OwnPart[Peer(r)]]
  BY <1>2, PeerProperties DEF PeerPart, OwnPart
<1> QED
  BY <1>1, <1>3 DEF View!Init, View!Peers, View!Peer, OwnPart, PeerPart, Peers, Peer

LEMMA NextRefines == AgreementInvariant /\ AgreementInvariant' /\ [Next]_vars => [View!Next]_(View!vars)
<1> SUFFICES ASSUME AgreementInvariant, AgreementInvariant', [Next]_vars
             PROVE  [View!Next]_(View!vars)
  OBVIOUS
<1> USE DEF AgreementInvariant
<1>1. ASSUME UNCHANGED registry PROVE [View!Next]_(View!vars)
  BY <1>1 DEF View!vars
<1>2. ASSUME NEW r \in Peers, Receive(r) PROVE View!Deliver(r)
  <2>1. /\ registry'[Peer(r)] = registry[Peer(r)]
        /\ ServicesOn(registry'[r], Peer(r)) = ServicesOn(registry[Peer(r)], Peer(r))
        /\ ServicesOn(registry'[r], r) = ServicesOn(registry[r], r)
    BY <1>2, ReceiveEffect, EqualOnNode, PeerProperties
  <2>2. OwnPart' = OwnPart
    BY <2>1, PeerProperties DEF OwnPart
  <2>3. PeerPart' = [PeerPart EXCEPT ![r] = OwnPart[Peer(r)]]
    BY <2>1, PeerProperties DEF OwnPart, PeerPart
  <2> QED
    BY <2>2, <2>3 DEF View!Deliver, View!Peer, OwnPart, PeerPart, Peer
<1>3. ASSUME NEW r \in Peers, Flip(r), Change(r) PROVE View!Change(r)
  <2>1. /\ registry'[Peer(r)] = registry[Peer(r)]
        /\ ServicesOn(registry'[r], Peer(r)) = ServicesOn(registry[r], Peer(r))
    BY <1>3, ChangeEffect, EqualOnNode, PeerProperties
  <2>2. Current(r)
    BY <1>3, PeerProperties DEF Flip, ViewsCurrent, At
  <2>3. PeerPart[Peer(r)] = OwnPart[r]
    BY <2>2, EqualOnNode, PeerProperties DEF PeerPart, OwnPart, Current
  <2>4. OwnPart' \in [Peers -> SUBSET Service] /\ OwnPart'[Peer(r)] = OwnPart[Peer(r)]
    <3>1. \A p \in Peers : IsRegistry(registry'[p])
      BY DEF SyncInvariant, TypeOK
    <3>2. \A p \in Peers : ServicesOn(registry'[p], p) \in SUBSET Service
      BY <3>1, ListedAreServices
    <3> QED
      BY <2>1, <3>2, PeerProperties DEF OwnPart
  <2>5. PeerPart' = PeerPart
    BY <2>1, PeerProperties DEF PeerPart
  <2> QED
    BY <2>3, <2>4, <2>5 DEF View!Change, View!Peer, View!Peers, OwnPart, PeerPart, Peer, Peers
<1>4. ASSUME NEW r \in Peers, Serialise(r) \/ Compare(r) \/ Send(r) PROVE UNCHANGED registry
  BY <1>4 DEF Serialise, Compare, Send
<1>5. ASSUME NEW r \in Peers, Change(r) PROVE [View!Next]_(View!vars)
  <2>1. CASE Flip(r)
    BY <1>3, <1>5, <2>1 DEF View!Next, View!Peers, Peers
  <2>2. CASE KeepAll(r)
    BY <1>1, <2>2 DEF KeepAll
  <2> QED
    BY <1>5, <2>1, <2>2 DEF Change
<1>6. ASSUME NEW r \in Peers, Receive(r) PROVE [View!Next]_(View!vars)
  BY <1>2, <1>6 DEF View!Next, View!Peers, Peers
<1>7. CASE UNCHANGED vars
  BY <1>1, <1>7 DEF vars
<1> QED
  BY <1>1, <1>4, <1>5, <1>6, <1>7 DEF Next, Exchange

\* The loop implements the promise: what a formation is seen to offer is what
\* it said of itself, one change behind at most.
THEOREM RefinesServiceView == NoTypeOfferedTwice /\ Spec => View!Spec
<1>1. AgreementInvariant /\ Init => View!Init
  BY InitRefines
<1>2. AgreementInvariant /\ AgreementInvariant' /\ [Next]_vars => [View!Next]_(View!vars)
  BY NextRefines
<1> QED
  BY <1>1, <1>2, AgreementInvariance, PTL DEF Spec, View!Spec

-----------------------------------------------------------------------------
(***************************************************************************)
(* Members that join and leave between the statements of the loop.         *)
(***************************************************************************)

MemberTypeOK ==
    /\ TypeOK
    /\ \A list \in services : IsRegistry(list)
    /\ handled \in 0 .. MaxRequests
    /\ ended \in BOOLEAN
    /\ announced \in [Peers -> SUBSET Service]
    /\ requested \in [Peers -> SUBSET Service]

OwnAnnounced == \A r \in Peers : OwnServices(r) \subseteq announced[r]

\* A message holds what its sender once listed for its own node.
MessagesAnnounced ==
    \A r \in Peers : \A s \in Listed(message[r]) : s.nodeId = r /\ s \in announced[r]

\* Where a service of the other's node that r lists, or is to list, may be from.
Explained(r) == announced[Peer(r)] \cup requested[r]

\* The list to be stored differs from the map by requests since it was made.
ListsFaithful ==
    \A list \in services :
        /\ phase = "change"
        /\ ServicesOn(list, Peer(turn)) \subseteq Explained(turn)
        /\ Differing(registry[turn], list) \subseteq meanwhile

MemberInvariant ==
    /\ MemberTypeOK
    /\ OwnAnnounced
    /\ MessagesAnnounced
    /\ ListsFaithful
    /\ ViewsExplained
    /\ LeavesWithinKeys

\* What every step does to the map of r: a service of the other's node in it
\* was announced there, or requested here.
MapStep(r, new) ==
    /\ IsRegistry(new)
    /\ ServicesOn(new, Peer(r)) \subseteq announced[Peer(r)] \cup requested'[r]

\* What every step does to the messages: a service in one was there or is the
\* sender's.
MessageStep ==
    /\ DOMAIN message' = Peers /\ \A p \in Peers : IsRegistry(message'[p])
    /\ \A p \in Peers : \A s \in Listed(message'[p]) :
          s \in Listed(message[p]) \/ (s \in Listed(registry[p]) /\ s.nodeId = p)

\* What every step does to the histories of requests, and to the list.
HistoryStep ==
    /\ requested' \in [Peers -> SUBSET Service]
    /\ \A p \in Peers : requested[p] \subseteq requested'[p]
    /\ handled' \in 0 .. MaxRequests
    /\ \A list \in services' : IsRegistry(list)
    /\ ListsFaithful'

-----------------------------------------------------------------------------
(* The services of a map.                                                  *)

LEMMA ListedProperties ==
    ASSUME NEW reg
    PROVE  /\ \A s : s \in Listed(reg) <=> \E n \in DOMAIN reg : s \in Contents(reg[n])
           /\ \A s, node : s \in ServicesOn(reg, node) <=> s \in Listed(reg) /\ s.nodeId = node
           /\ IsRegistry(reg) => Listed(reg) \subseteq Service
<1>1. \A s : s \in Listed(reg) <=> \E n \in DOMAIN reg : s \in Contents(reg[n])
  BY DEF Listed
<1>2. \A s, node : s \in ServicesOn(reg, node) <=> s \in Listed(reg) /\ s.nodeId = node
  BY DEF Listed, ServicesOn
<1>3. ASSUME IsRegistry(reg) PROVE Listed(reg) \subseteq Service
  <2>1. \A n \in DOMAIN reg : Contents(reg[n]) \subseteq Service
    BY <1>3, LenProperties, ElementOfSeq DEF IsRegistry, Contents
  <2> QED
    BY <1>1, <2>1
<1> QED
  BY <1>1, <1>2, <1>3

LEMMA NoMessageListed == IsRegistry(NoMessage) /\ Listed(NoMessage) = {}
BY DEF NoMessage, IsRegistry, Listed

LEMMA InstancesListed ==
    ASSUME NEW reg, NEW n
    PROVE  Contents(InstancesOf(reg, n)) \subseteq Listed(reg)
<1>1. CASE n \in DOMAIN reg
  BY <1>1, ListedProperties DEF InstancesOf
<1>2. CASE n \notin DOMAIN reg
  BY <1>2 DEF InstancesOf, Contents
<1> QED
  BY <1>1, <1>2

\* What differs between the first and the last of three maps differs between
\* neighbours.
LEMMA DifferingStepwise ==
    ASSUME NEW a, NEW b, NEW c
    PROVE  /\ Differing(a, c) \subseteq Differing(a, b) \cup Differing(b, c)
           /\ Differing(a, b) = Differing(b, a)
           /\ Listed(a) = Listed(b) => Differing(a, b) = {}
BY DEF Differing

\* The list of a map has the services of the map.
LEMMA ListOfProperties ==
    ASSUME NEW reg, IsRegistry(reg)
    PROVE  IsRegistry(ListOf(reg)) /\ Listed(ListOf(reg)) = Listed(reg)
<1> DEFINE list == ListOf(reg)
<1>1. /\ DOMAIN list = NonEmptyKeys(reg)
      /\ \A n \in NonEmptyKeys(reg) : list[n] = reg[n]
      /\ list = [n \in DOMAIN list |-> list[n]]
  BY DEF ListOf
<1> HIDE DEF list
<1>2. \A n \in DOMAIN reg : Contents(reg[n]) # {} => n \in NonEmptyKeys(reg)
  BY EmptySeq DEF NonEmptyKeys, Contents
<1>3. IsRegistry(list)
  BY <1>1 DEF IsRegistry, NonEmptyKeys
<1>4. \A s : s \in Listed(list) <=> s \in Listed(reg)
  BY <1>1, <1>2, ListedProperties DEF NonEmptyKeys
<1> QED
  BY <1>3, <1>4 DEF list

\* Flipping changes one service of the node, and so no service elsewhere.
LEMMA FlipListed ==
    ASSUME NEW list, IsRegistry(list), NEW r, OwnTypes(list, r) # {}
    PROVE  /\ \A node : node # r => ServicesOn(FlipFirst(list, r), node) \subseteq ServicesOn(list, node)
           /\ \E s \in Service :
                 /\ s.nodeId = r
                 /\ Differing(list, FlipFirst(list, r)) \subseteq {s, [s EXCEPT !.is_alive = ~@]}
<1> DEFINE new == FlipFirst(list, r)
           K == NonEmptyKeys(list)
<1>1. /\ DOMAIN new = K
      /\ \A m \in K : DOMAIN new[m] = DOMAIN list[m]
  BY FlipFirstEntries
<1>2. PICK s \in Service : s.nodeId = r /\ FlipsOnly(list, new, s)
  BY FlipFirstEntries
<1> DEFINE flipped == [s EXCEPT !.is_alive = ~@]
<1>3. flipped.nodeId = r
  BY <1>2 DEF Service
<1> HIDE DEF new, flipped, K
<1>4. \A m \in DOMAIN list : Contents(list[m]) # {} => m \in K
  BY EmptySeq DEF NonEmptyKeys, Contents, K
<1>5. \A m \in K : /\ \A t \in Contents(new[m]) : t \in Contents(list[m]) \/ t = flipped
                   /\ \A t \in Contents(list[m]) : t \in Contents(new[m]) \/ t = s
  BY <1>1, <1>2 DEF Contents, flipped, FlipsOnly, K
<1>6. \A t : t \in Listed(new) => t \in Listed(list) \/ t = flipped
  BY <1>1, <1>5, ListedProperties DEF K, NonEmptyKeys
<1>7. \A t : t \in Listed(list) => t \in Listed(new) \/ t = s
  BY <1>1, <1>4, <1>5, ListedProperties
<1>8. Differing(list, new) \subseteq {s, flipped}
  BY <1>6, <1>7 DEF Differing
<1>9. \A node : node # r => ServicesOn(new, node) \subseteq ServicesOn(list, node)
  BY <1>3, <1>6, ListedProperties
<1> QED
  BY <1>2, <1>8, <1>9 DEF new, flipped

\* Every service after a message was received was there or in the message.
LEMMA ReceivedListed ==
    ASSUME NEW reg, IsRegistry(reg), NEW msg, IsRegistry(msg)
    PROVE  Listed(deserializeAndSetServices(reg, msg)) \subseteq Listed(reg) \cup Listed(msg)
<1> DEFINE new == deserializeAndSetServices(reg, msg)
<1>1. /\ DOMAIN new = DOMAIN reg \cup Carried(msg)
      /\ \A n \in DOMAIN new :
            new[n] = IF n \in Carried(msg) THEN Received(InstancesOf(reg, n), msg[n])
                                           ELSE reg[n]
  BY DEF deserializeAndSetServices
<1> HIDE DEF new
<1>2. \A n \in Carried(msg) : \A s \in Contents(new[n]) :
         s \in Contents(InstancesOf(reg, n)) \/ s \in Contents(msg[n])
  <2> TAKE n \in Carried(msg)
  <2>1. InstancesOf(reg, n) \in Seq(Service) /\ msg[n] \in Seq(Service)
    BY InstancesProperties DEF Carried, IsRegistry
  <2>2. new[n] = Received(InstancesOf(reg, n), msg[n])
    BY <1>1
  <2> DEFINE old == InstancesOf(reg, n)
             J == {k \in DOMAIN msg[n] :
                     \A j \in DOMAIN msg[n] : j > k => msg[n][j].nodeId # msg[n][k].nodeId}
  <2>3. Contents(new[n]) =
          {s \in Contents(old) : \A t \in Contents(msg[n]) : t.nodeId # s.nodeId}
          \cup {msg[n][i] : i \in J}
    BY <2>1, <2>2, ReceivedProperties
  <2>4. \A i \in J : msg[n][i] \in Contents(msg[n])
    BY DEF Contents
  <2> HIDE DEF old, J
  <2> QED
    BY <2>3, <2>4 DEF old
<1>3. \A s \in Listed(new) : s \in Listed(reg) \cup Listed(msg)
  <2> TAKE s \in Listed(new)
  <2>1. PICK n \in DOMAIN new : s \in Contents(new[n])
    BY ListedProperties
  <2>2. CASE n \in Carried(msg)
    BY <1>2, <2>1, <2>2, InstancesListed, ListedProperties DEF Carried
  <2>3. CASE n \notin Carried(msg)
    BY <1>1, <2>1, <2>3, ListedProperties
  <2> QED
    BY <2>2, <2>3
<1> QED
  BY <1>3 DEF new

-----------------------------------------------------------------------------
(* The inductive invariant.                                                *)

LEMMA MemberInitInvariant == MemberInit => MemberInvariant
<1> SUFFICES ASSUME MemberInit PROVE MemberInvariant
  OBVIOUS
<1>1. /\ Init /\ services = {} /\ handled = 0 /\ ended = FALSE
      /\ announced = [r \in Peers |-> OwnServices(r)]
      /\ requested = [r \in Peers |-> {}]
  BY DEF MemberInit
<1>2. TypeOK /\ TreeMatchesRegistry
  BY <1>1, InitInvariant DEF SyncInvariant
<1>3. \A r \in Peers : IsRegistry(registry[r]) /\ message[r] = NoMessage
  BY <1>1, <1>2 DEF Init, TypeOK
<1>4. \A r \in Peers : \A node : ServicesOn(registry[r], node) \in SUBSET Service
  BY <1>3, ListedProperties
<1>5. MemberTypeOK
  <2>1. announced \in [Peers -> SUBSET Service] /\ requested \in [Peers -> SUBSET Service]
    BY <1>1, <1>4 DEF OwnServices
  <2>2. handled \in 0 .. MaxRequests
    BY <1>1, JoiningAssumption
  <2> QED
    BY <1>1, <1>2, <2>1, <2>2 DEF MemberTypeOK
<1>6. OwnAnnounced /\ MessagesAnnounced /\ ListsFaithful
  BY <1>1, <1>3, NoMessageListed DEF OwnAnnounced, MessagesAnnounced, ListsFaithful
<1>7. \A r \in Peers : registry[r] = registry[Peer(r)]
  BY <1>1, PeerProperties DEF Init
<1>8. ViewsExplained
  BY <1>1, <1>7, PeerProperties DEF ViewsExplained, OwnServices
<1>9. LeavesWithinKeys
  BY <1>2, <1>3, LeavesBounded DEF TreeMatchesRegistry, LeavesWithinKeys
<1> QED
  BY <1>5, <1>6, <1>8, <1>9 DEF MemberInvariant

\* A step that does to the map, the messages and the histories what every step
\* does keeps the invariant.
LEMMA StepKeeps ==
    ASSUME MemberInvariant, NEW r \in Peers, NEW new, MapStep(r, new),
           \A p \in Peers : registry'[p] = IF p = r THEN new ELSE registry[p],
           MessageStep, HistoryStep, Running, TypeOK', LeavesWithinKeys'
    PROVE  MemberInvariant'
<1> USE DEF MemberInvariant, MemberTypeOK
<1>1. \A p \in Peers : registry'[p] = IF p = r THEN new ELSE registry[p]
  OBVIOUS
<1>2. \A p \in Peers : announced'[p] = announced[p] \cup ServicesOn(registry'[p], p)
  BY DEF Running, OwnServices
<1>3. \A p \in Peers : \A s, node :
         /\ s \in ServicesOn(registry[p], node) <=> s \in Listed(registry[p]) /\ s.nodeId = node
         /\ s \in ServicesOn(registry'[p], node) <=> s \in Listed(registry'[p]) /\ s.nodeId = node
  BY ListedProperties
<1>4. MemberTypeOK'
  <2>1. \A p \in Peers : ServicesOn(registry'[p], p) \in SUBSET Service
    <3>1. \A p \in Peers : IsRegistry(registry'[p])
      BY DEF TypeOK
    <3>2. \A p \in Peers : Listed(registry'[p]) \subseteq Service
      BY <3>1, ListedProperties
    <3> QED
      BY <1>3, <3>2
  <2>2. announced' \in [Peers -> SUBSET Service]
    BY <1>2, <2>1 DEF Running
  <2> QED
    BY <2>2 DEF Running, HistoryStep
<1>5. OwnAnnounced'
  BY <1>2 DEF OwnAnnounced, OwnServices
<1>6. \A p \in Peers : \A s \in Listed(registry[p]) : s.nodeId = p => s \in announced[p]
  BY <1>3 DEF OwnAnnounced, OwnServices
<1>7. MessagesAnnounced'
  BY <1>2, <1>6 DEF MessagesAnnounced, MessageStep
<1>8. ViewsExplained'
  <2> SUFFICES ASSUME NEW p \in Peers
               PROVE  ServicesOn(registry'[p], Peer(p)) \subseteq announced[Peer(p)] \cup requested'[p]
    BY <1>2, PeerProperties DEF ViewsExplained
  <2>1. CASE p = r
    BY <1>1, <2>1 DEF MapStep
  <2>2. CASE p # r
    BY <1>1, <2>2 DEF ViewsExplained, HistoryStep
  <2> QED
    BY <2>1, <2>2
<1> QED
  BY <1>4, <1>5, <1>7, <1>8 DEF HistoryStep

LEMMA SameMessages ==
    ASSUME TypeOK, UNCHANGED message
    PROVE  MessageStep
BY DEF TypeOK, MessageStep

\* A statement of the loop requests nothing; after it there is no list, unless
\* it has made one.
LEMMA NoListHistory ==
    ASSUME MemberInvariant, services' = {}, UNCHANGED <<handled, requested>>
    PROVE  HistoryStep
BY DEF MemberInvariant, MemberTypeOK, HistoryStep, ListsFaithful

LEMMA SameMapStep ==
    ASSUME MemberInvariant, HistoryStep, NEW r \in Peers
    PROVE  MapStep(r, registry[r])
BY DEF MapStep, MemberInvariant, MemberTypeOK, TypeOK, ViewsExplained, HistoryStep

\* A request keeps the invariant: the tree is not rebuilt, and no type leaves
\* the map.
LEMMA RequestKeeps ==
    ASSUME MemberInvariant, NEW r \in Peers, handleRequest(r)
    PROVE  MemberInvariant'
<1> USE DEF MemberInvariant, MemberTypeOK
<1>1. /\ UNCHANGED <<loopVars, services>> /\ Running
      /\ handled < MaxRequests /\ handled' = handled + 1
      /\ requested' = [requested EXCEPT ![r] = @ \cup (Listed(registry'[r]) \ Listed(registry[r]))]
      /\ meanwhile' = IF services # {} /\ turn = r
                      THEN meanwhile \cup Differing(registry[r], registry'[r])
                      ELSE meanwhile
  BY DEF handleRequest, Listed
<1>2. ASSUME NEW new, IsRegistry(new), DOMAIN registry[r] \subseteq DOMAIN new,
             registry' = [registry EXCEPT ![r] = new]
      PROVE  MemberInvariant'
  <2>1. \A p \in Peers : registry'[p] = IF p = r THEN new ELSE registry[p]
    BY <1>2 DEF TypeOK
  <2>2. TypeOK'
    BY <1>1, <1>2, <2>1 DEF TypeOK, loopVars
  <2>3. LeavesWithinKeys'
    <3>1. /\ Cardinality(DOMAIN registry[r]) \in Nat /\ Cardinality(DOMAIN new) \in Nat
          /\ Cardinality(DOMAIN registry[r]) <= Cardinality(DOMAIN new)
      BY <1>2, KeysGrow DEF TypeOK
    <3>2. tree' = tree /\ Len(tree[r]) \in Nat
      BY <1>1, LenProperties DEF TypeOK, loopVars
    <3>3. Len(tree[r]) <= Cardinality(DOMAIN new)
      BY <3>1, <3>2 DEF LeavesWithinKeys
    <3> QED
      BY <2>1, <3>2, <3>3 DEF LeavesWithinKeys
  <2>4. MessageStep
    BY <1>1, SameMessages DEF loopVars
  <2>5. requested' = [requested EXCEPT ![r] = @ \cup (Listed(new) \ Listed(registry[r]))]
    BY <1>1, <2>1
  <2>6. Listed(new) \subseteq Service
    BY <1>2, ListedProperties
  <2>7. /\ requested' \in [Peers -> SUBSET Service]
        /\ \A p \in Peers : requested[p] \subseteq requested'[p]
        /\ requested'[r] = requested[r] \cup (Listed(new) \ Listed(registry[r]))
    BY <2>5, <2>6
  <2>8. ListsFaithful'
    <3> SUFFICES ASSUME NEW list \in services
                 PROVE  /\ phase = "change"
                        /\ ServicesOn(list, Peer(turn)) \subseteq announced'[Peer(turn)] \cup requested'[turn]
                        /\ Differing(registry'[turn], list) \subseteq meanwhile'
      BY <1>1 DEF ListsFaithful, Explained, Peer, loopVars
    <3>1. /\ phase = "change" /\ turn \in Peers
          /\ ServicesOn(list, Peer(turn)) \subseteq announced[Peer(turn)] \cup requested[turn]
          /\ Differing(registry[turn], list) \subseteq meanwhile
      BY DEF ListsFaithful, Explained, TypeOK
    <3>2. announced[Peer(turn)] \subseteq announced'[Peer(turn)]
      BY <1>1, <3>1, PeerProperties DEF Running
    <3>3. Differing(registry'[turn], list) \subseteq meanwhile'
      <4>1. CASE turn = r
        <5>1. /\ Differing(registry'[r], list) \subseteq
                    Differing(registry'[r], registry[r]) \cup Differing(registry[r], list)
              /\ Differing(registry'[r], registry[r]) = Differing(registry[r], registry'[r])
          BY DifferingStepwise
        <5>2. meanwhile' = meanwhile \cup Differing(registry[r], registry'[r])
          BY <1>1, <4>1
        <5> QED
          BY <3>1, <4>1, <5>1, <5>2
      <4>2. CASE turn # r
        BY <1>1, <2>1, <3>1, <4>2
      <4> QED
        BY <4>1, <4>2
    <3> QED
      BY <2>7, <3>1, <3>2, <3>3
  <2>9. HistoryStep
    <3>1. handled' \in 0 .. MaxRequests
      BY <1>1, JoiningAssumption
    <3> QED
      BY <1>1, <2>7, <2>8, <3>1 DEF HistoryStep
  <2>10. MapStep(r, new)
    <3>1. \A s \in ServicesOn(new, Peer(r)) : s \in Listed(new) /\ s.nodeId = Peer(r)
      BY ListedProperties
    <3>2. \A s \in Listed(registry[r]) : s.nodeId = Peer(r) => s \in Explained(r)
      BY ListedProperties DEF ViewsExplained, Explained
    <3> QED
      BY <1>2, <2>7, <3>1, <3>2 DEF MapStep, Explained
  <2> QED
    BY <1>1, <2>1, <2>2, <2>3, <2>4, <2>9, <2>10, StepKeeps
<1>3. IsRegistry(registry[r])
  BY DEF TypeOK
<1>4. CASE Register(r)
  <2>1. PICK s \in Joining : registry' = [registry EXCEPT ![r] = PushAll(@, <<s>>)]
    BY <1>4 DEF Register
  <2> DEFINE one == <<s>>
             new == PushAll(registry[r], one)
  <2>2. one \in Seq(Service)
    BY JoiningAssumption
  <2>3. registry' = [registry EXCEPT ![r] = new]
    BY <2>1
  <2> HIDE DEF one
  <2>4. IsRegistry(new) /\ DOMAIN registry[r] \subseteq DOMAIN new
    BY <1>3, <2>2, PushProperties
  <2> HIDE DEF new
  <2> QED
    BY <1>2, <2>3, <2>4
<1>5. CASE Deregister(r)
  <2>1. PICK n \in ServiceNames, id \in InstanceIds :
          registry' = [registry EXCEPT ![r] = WithoutInstance(@, n, id)]
    BY <1>5 DEF Deregister
  <2> DEFINE reg == registry[r]
             new == WithoutInstance(reg, n, id)
  <2>2. IsRegistry(new) /\ DOMAIN reg \subseteq DOMAIN new
    <3> HIDE DEF reg
    <3>1. IsRegistry(reg)
      BY <1>3 DEF reg
    <3>2. IsRegistry(new) /\ DOMAIN new = DOMAIN reg \cup {n}
      BY <2>1, <3>1, WithoutProperties, Zenon
    <3> QED
      BY <3>2
  <2>3. registry' = [registry EXCEPT ![r] = new]
    BY <2>1
  <2> HIDE DEF new
  <2> QED
    BY <1>2, <2>2, <2>3
<1>6. CASE HeartBeat(r)
  <2>1. PICK id \in InstanceIds : registry' = [registry EXCEPT ![r] = Revived(@, id)]
    BY <1>6 DEF HeartBeat
  <2> DEFINE new == Revived(registry[r], id)
  <2>2. IsRegistry(new) /\ DOMAIN registry[r] \subseteq DOMAIN new
    BY <1>3, RevivedProperties
  <2>3. registry' = [registry EXCEPT ![r] = new]
    BY <2>1
  <2> HIDE DEF new
  <2> QED
    BY <1>2, <2>2, <2>3
<1> QED
  BY <1>4, <1>5, <1>6 DEF handleRequest

\* A statement of the loop that rebuilds the tree, or leaves map and tree.
LEMMA LoopKeeps ==
    ASSUME MemberInvariant, NEW r \in Peers, NEW new, MapStep(r, new),
           SetAndBuild(r, new) \/ UNCHANGED <<registry, tree>>,
           MessageStep, HistoryStep, Running, Advance,
           serializedTree' \in [Peers -> Seq(Seq(Digest))],
           changedServiceTypes' \in [Peers -> SUBSET ServiceNames],
           loopCounter' \in {0, 1}
    PROVE  MemberInvariant'
<1> USE DEF MemberInvariant, MemberTypeOK
<1>1. phase' \in Phases /\ turn' \in Peers
  BY AdvanceProperties DEF TypeOK
<1>2. DOMAIN message' = Peers /\ \A p \in Peers : IsRegistry(message'[p])
  BY DEF MessageStep
<1>3. CASE SetAndBuild(r, new)
  <2>1. /\ registry' = [registry EXCEPT ![r] = new]
        /\ tree' = [tree EXCEPT ![r] = buildMerkleTree(new)]
    BY <1>3 DEF SetAndBuild
  <2>2. IsRegistry(new)
    BY DEF MapStep
  <2>3. \A p \in Peers :
          /\ registry'[p] = IF p = r THEN new ELSE registry[p]
          /\ tree'[p] = IF p = r THEN buildMerkleTree(new) ELSE tree[p]
    BY <2>1 DEF TypeOK
  <2>4. /\ buildMerkleTree(new) \in Seq(Seq(Digest))
        /\ Len(buildMerkleTree(new)) <= Cardinality(DOMAIN new)
    BY <2>2, TreeProperties, LeavesBounded
  <2>5. tree' \in [Peers -> Seq(Seq(Digest))] /\ DOMAIN registry' = Peers
    BY <2>1, <2>4 DEF TypeOK
  <2>6. TypeOK'
    BY <1>1, <1>2, <2>2, <2>3, <2>5 DEF TypeOK
  <2>7. LeavesWithinKeys'
    BY <2>3, <2>4 DEF LeavesWithinKeys
  <2> QED
    BY <2>3, <2>6, <2>7, StepKeeps
<1>4. CASE UNCHANGED <<registry, tree>>
  <2>1. \A p \in Peers : registry'[p] = IF p = r THEN registry[r] ELSE registry[p]
    BY <1>4
  <2>2. MapStep(r, registry[r])
    BY SameMapStep
  <2>3. TypeOK'
    BY <1>1, <1>2, <1>4 DEF TypeOK
  <2>4. LeavesWithinKeys'
    BY <1>4 DEF LeavesWithinKeys
  <2> QED
    BY <2>1, <2>2, <2>3, <2>4, StepKeeps
<1> QED
  BY <1>3, <1>4

\* While two iterations of the loop exchange services there is no list.
LEMMA ExchangingKeeps ==
    ASSUME MemberInvariant, Exchanging
    PROVE  MemberInvariant'
<1> USE DEF MemberInvariant, MemberTypeOK
<1>1. UNCHANGED <<services, handled, requested, meanwhile>> /\ Running
  BY DEF Exchanging
<1>2. phase # "change"
  BY DEF Exchanging, Exchange, Serialise, Compare, Send, Receive, At
<1>3. HistoryStep
  <2>1. services = {}
    BY <1>2 DEF ListsFaithful
  <2> QED
    BY <1>1, <2>1, NoListHistory
<1>4. ASSUME NEW r \in Peers, Serialise(r) PROVE MemberInvariant'
  <2>1. /\ UNCHANGED <<registry, tree, changedServiceTypes, message, loopCounter>>
        /\ Advance
        /\ serializedTree' \in [Peers -> Seq(Seq(Digest))]
    BY <1>4 DEF Serialise, TypeOK
  <2>2. changedServiceTypes' \in [Peers -> SUBSET ServiceNames] /\ loopCounter' \in {0, 1}
    BY <2>1 DEF TypeOK
  <2> QED
    BY <1>1, <1>3, <2>1, <2>2, SameMapStep, SameMessages, LoopKeeps
<1>5. ASSUME NEW r \in Peers, Compare(r) PROVE MemberInvariant'
  <2>1. /\ UNCHANGED <<registry, tree, serializedTree, message, loopCounter>>
        /\ Advance
    BY <1>5 DEF Compare
  <2>2. serializedTree' \in [Peers -> Seq(Seq(Digest))] /\ loopCounter' \in {0, 1}
    BY <2>1 DEF TypeOK
  <2> DEFINE reported == compareAndSyncTree(registry[r], tree[r], serializedTree[Peer(r)])
  <2>3. reported \subseteq ServiceNames
    <3>1. IsRegistry(registry[r]) /\ tree[r] \in Seq(Seq(Digest))
      BY DEF TypeOK
    <3>2. Len(tree[r]) <= Cardinality(DOMAIN registry[r])
      BY DEF LeavesWithinKeys
    <3>3. reported \subseteq DOMAIN registry[r]
      BY <3>1, <3>2, CompareWithinKeys
    <3> QED
      BY <3>1, <3>3 DEF IsRegistry
  <2>4. changedServiceTypes' = [changedServiceTypes EXCEPT ![r] = reported]
    BY <1>5 DEF Compare
  <2> HIDE DEF reported
  <2>5. changedServiceTypes' \in [Peers -> SUBSET ServiceNames]
    BY <2>3, <2>4 DEF TypeOK
  <2> QED
    BY <1>1, <1>3, <2>1, <2>2, <2>5, SameMapStep, SameMessages, LoopKeeps
<1>6. ASSUME NEW r \in Peers, Send(r) PROVE MemberInvariant'
  <2>1. /\ UNCHANGED <<registry, tree, serializedTree, changedServiceTypes, loopCounter>>
        /\ Advance
    BY <1>6 DEF Send
  <2>2. /\ serializedTree' \in [Peers -> Seq(Seq(Digest))] /\ loopCounter' \in {0, 1}
        /\ changedServiceTypes' \in [Peers -> SUBSET ServiceNames]
    BY <2>1 DEF TypeOK
  <2> DEFINE reg == registry[r]
             msg == serializeServicesForNames(reg, r, changedServiceTypes[r])
  <2>3. MessageStep
    <3>1. IsRegistry(reg)
      BY DEF TypeOK
    <3> HIDE DEF reg
    <3>2. /\ IsRegistry(msg)
          /\ DOMAIN msg \subseteq DOMAIN reg
          /\ \A n \in DOMAIN msg : \A s \in Contents(msg[n]) : s.nodeId = r
      BY <3>1, SerializeProperties
    <3>3. \A n \in DOMAIN msg : Contents(msg[n]) \subseteq Contents(reg[n])
      <4> TAKE n \in DOMAIN msg
      <4> DEFINE I == {i \in DOMAIN reg[n] : reg[n][i].nodeId = r}
      <4>1. n \in DOMAIN reg /\ reg[n] \in Seq(Service) /\ I \in SUBSET DOMAIN reg[n]
        BY <3>1, <3>2 DEF IsRegistry
      <4>2. msg[n] = Pick(reg[n], I)
        BY DEF serializeServicesForNames
      <4> HIDE DEF I, msg
      <4>3. Contents(msg[n]) = {reg[n][i] : i \in I}
        BY <4>1, <4>2, PickProperties
      <4> QED
        BY <4>1, <4>3 DEF Contents
    <3>4. message' = [message EXCEPT ![r] = msg]
      BY <1>6 DEF Send, reg
    <3> HIDE DEF msg
    <3>5. DOMAIN message' = Peers /\ \A p \in Peers : message'[p] = IF p = r THEN msg ELSE message[p]
      BY <3>4 DEF TypeOK
    <3>6. \A s \in Listed(msg) : s \in Listed(reg) /\ s.nodeId = r
      BY <3>2, <3>3, ListedProperties
    <3> QED
      BY <3>2, <3>5, <3>6 DEF MessageStep, TypeOK, reg
  <2> QED
    BY <1>1, <1>3, <2>1, <2>2, <2>3, SameMapStep, LoopKeeps
<1>7. ASSUME NEW r \in Peers, Receive(r) PROVE MemberInvariant'
  <2> DEFINE reg == registry[r]
             msg == message[Peer(r)]
             new == deserializeAndSetServices(reg, msg)
  <2>1. /\ UNCHANGED <<serializedTree, changedServiceTypes, message, loopCounter>>
        /\ Advance
        /\ SetAndBuild(r, new) \/ UNCHANGED <<registry, tree>>
    BY <1>7 DEF Receive
  <2>2. /\ serializedTree' \in [Peers -> Seq(Seq(Digest))] /\ loopCounter' \in {0, 1}
        /\ changedServiceTypes' \in [Peers -> SUBSET ServiceNames]
    BY <2>1 DEF TypeOK
  <2>3. MapStep(r, new)
    <3>1. IsRegistry(reg) /\ IsRegistry(msg)
      BY PeerProperties DEF TypeOK
    <3>2. \A s \in Listed(reg) : s.nodeId = Peer(r) => s \in Explained(r)
      BY ListedProperties DEF ViewsExplained, Explained
    <3>3. \A s \in Listed(msg) : s \in announced[Peer(r)]
      BY PeerProperties DEF MessagesAnnounced
    <3> HIDE DEF reg, msg
    <3>4. IsRegistry(new) /\ Listed(new) \subseteq Listed(reg) \cup Listed(msg)
      BY <3>1, DeserializeProperties, ReceivedListed
    <3> HIDE DEF new
    <3> QED
      BY <1>3, <3>2, <3>3, <3>4, ListedProperties DEF MapStep, Explained, HistoryStep
  <2>4. MessageStep
    BY <2>1, SameMessages
  <2> HIDE DEF new
  <2> QED
    BY <1>1, <1>3, <2>1, <2>2, <2>3, <2>4, LoopKeeps
<1> QED
  BY <1>4, <1>5, <1>6, <1>7 DEF Exchanging, Exchange

LEMMA GetKeeps ==
    ASSUME MemberInvariant, NEW r \in Peers, GetServiceList(r)
    PROVE  MemberInvariant'
<1> USE DEF MemberInvariant, MemberTypeOK
<1> DEFINE list == ListOf(registry[r])
<1>1. /\ phase = "change" /\ turn = r /\ services' = {list} /\ meanwhile' = {}
      /\ UNCHANGED <<vars, handled, requested>> /\ Running
  BY DEF GetServiceList, At
<1>2. IsRegistry(registry[r])
  BY DEF TypeOK
<1>3. IsRegistry(list) /\ Listed(list) = Listed(registry[r])
  BY <1>2, ListOfProperties
<1> HIDE DEF list
<1>4. Differing(registry[r], list) = {}
  BY <1>3, DifferingStepwise
<1>5. ServicesOn(list, Peer(r)) \subseteq Explained(r)
  BY <1>3, ListedProperties DEF ViewsExplained, Explained
<1>6. announced[Peer(r)] \subseteq announced'[Peer(r)]
  BY <1>1, PeerProperties DEF Running
<1>7. registry' = registry /\ phase' = "change" /\ turn' = r /\ message' = message
  BY <1>1 DEF vars
<1>8. ListsFaithful'
  BY <1>1, <1>4, <1>5, <1>6, <1>7 DEF ListsFaithful, Explained, Peer
<1>9. HistoryStep
  BY <1>1, <1>3, <1>8 DEF HistoryStep
<1>10. TypeOK' /\ LeavesWithinKeys'
  BY <1>1 DEF vars, TypeOK, LeavesWithinKeys
<1>11. \A p \in Peers : registry'[p] = IF p = r THEN registry[r] ELSE registry[p]
  BY <1>7
<1> QED
  BY <1>1, <1>7, <1>9, <1>10, <1>11, SameMapStep, SameMessages, StepKeeps

\* The locals of an iteration after its change.
LEMMA EndOfChange ==
    ASSUME MemberInvariant, NEW r \in Peers, EndChange(r)
    PROVE  /\ Advance
           /\ serializedTree' \in [Peers -> Seq(Seq(Digest))]
           /\ changedServiceTypes' \in [Peers -> SUBSET ServiceNames]
           /\ loopCounter' \in {0, 1}
           /\ MessageStep
<1> USE DEF MemberInvariant, MemberTypeOK
<1>1. CASE r = Node2
  <2>1. /\ loopCounter' = 1 - loopCounter
        /\ serializedTree' = [p \in Peers |-> <<>>]
        /\ changedServiceTypes' = [p \in Peers |-> {}]
        /\ message' = [p \in Peers |-> NoMessage]
    BY <1>1 DEF EndChange
  <2>2. <<>> \in Seq(Seq(Digest)) /\ loopCounter' \in {0, 1}
    BY <2>1, EmptySeq DEF TypeOK
  <2>3. serializedTree' \in [Peers -> Seq(Seq(Digest))]
    BY <2>1, <2>2
  <2>4. changedServiceTypes' \in [Peers -> SUBSET ServiceNames]
    BY <2>1
  <2>5. MessageStep
    BY <2>1, NoMessageListed DEF MessageStep
  <2> QED
    BY <2>2, <2>3, <2>4, <2>5 DEF EndChange
<1>2. CASE r # Node2
  <2>1. UNCHANGED <<loopCounter, serializedTree, changedServiceTypes, message>>
    BY <1>2 DEF EndChange
  <2> QED
    BY <2>1, SameMessages DEF TypeOK, EndChange
<1> QED
  BY <1>1, <1>2

LEMMA SetKeeps ==
    ASSUME MemberInvariant, NEW r \in Peers, SetServiceList(r)
    PROVE  MemberInvariant'
<1> USE DEF MemberInvariant, MemberTypeOK
<1>1. PICK list \in services : OwnTypes(list, r) # {} /\ SetAndBuild(r, FlipFirst(list, r))
  BY DEF SetServiceList
<1>2. turn = r /\ services' = {} /\ UNCHANGED <<handled, requested>> /\ EndChange(r) /\ Running
  BY DEF SetServiceList, At
<1>3. HistoryStep
  BY <1>2, NoListHistory
<1> DEFINE new == FlipFirst(list, r)
<1>4. MapStep(r, new)
  <2>1. IsRegistry(list) /\ ServicesOn(list, Peer(r)) \subseteq Explained(r)
    BY <1>1, <1>2 DEF ListsFaithful
  <2>2. IsRegistry(new) /\ ServicesOn(new, Peer(r)) \subseteq ServicesOn(list, Peer(r))
    BY <1>1, <2>1, FlipFirstEntries, FlipListed, PeerProperties
  <2> HIDE DEF new
  <2> QED
    BY <1>3, <2>1, <2>2 DEF MapStep, Explained, HistoryStep
<1> HIDE DEF new
<1>5. SetAndBuild(r, new)
  BY <1>1 DEF new
<1> QED
  BY <1>2, <1>3, <1>4, <1>5, EndOfChange, LoopKeeps

LEMMA KeepKeeps ==
    ASSUME MemberInvariant, NEW r \in Peers, KeepServiceList(r)
    PROVE  MemberInvariant'
<1>1. /\ UNCHANGED <<registry, tree>> /\ services' = {}
      /\ UNCHANGED <<handled, requested>> /\ EndChange(r) /\ Running
  BY DEF KeepServiceList, KeepAll
<1>2. HistoryStep
  BY <1>1, NoListHistory
<1> QED
  BY <1>1, <1>2, SameMapStep, EndOfChange, LoopKeeps

LEMMA MemberNextInvariant == MemberInvariant /\ [MemberNext]_memberVars => MemberInvariant'
<1> SUFFICES ASSUME MemberInvariant, [MemberNext]_memberVars PROVE MemberInvariant'
  OBVIOUS
<1>1. ASSUME UNCHANGED <<vars, services, handled, historyVars>>, ended' \in BOOLEAN
      PROVE  MemberInvariant'
  <2>1. /\ UNCHANGED <<registry, tree, message, phase, turn>> /\ (TypeOK => TypeOK')
        /\ UNCHANGED <<services, handled, announced, requested, meanwhile>>
    BY <1>1 DEF vars, historyVars, TypeOK
  <2>2. UNCHANGED <<OwnAnnounced, MessagesAnnounced, ViewsExplained, LeavesWithinKeys>>
    BY <2>1 DEF OwnAnnounced, MessagesAnnounced, ViewsExplained, LeavesWithinKeys, OwnServices
  <2>3. UNCHANGED ListsFaithful
    BY <2>1 DEF ListsFaithful, Explained, Peer
  <2> QED
    BY <1>1, <2>1, <2>2, <2>3 DEF MemberInvariant, MemberTypeOK
<1>2. CASE Exchanging
  BY <1>2, ExchangingKeeps
<1>3. CASE Throw
  BY <1>1, <1>3 DEF Throw
<1>4. ASSUME NEW r \in Peers,
             handleRequest(r) \/ GetServiceList(r) \/ SetServiceList(r) \/ KeepServiceList(r)
      PROVE  MemberInvariant'
  BY <1>4, RequestKeeps, GetKeeps, SetKeeps, KeepKeeps
<1>5. CASE UNCHANGED memberVars
  BY <1>1, <1>5 DEF memberVars, MemberInvariant, MemberTypeOK
<1> QED
  BY <1>2, <1>3, <1>4, <1>5 DEF MemberNext

-----------------------------------------------------------------------------
(* The theorems.                                                           *)

\* The invariant holds in every reachable state.
THEOREM MemberInvariance == MemberSpec => []MemberInvariant
<1>1. MemberInit => MemberInvariant
  BY MemberInitInvariant
<1>2. MemberInvariant /\ [MemberNext]_memberVars => MemberInvariant'
  BY MemberNextInvariant
<1> QED
  BY <1>1, <1>2, PTL DEF MemberSpec

\* The state stays well formed, whatever is requested between the statements.
THEOREM MemberTypeCorrect == MemberSpec => []MemberTypeOK
<1>1. MemberInvariant => MemberTypeOK
  BY DEF MemberInvariant
<1> QED
  BY <1>1, MemberInvariance, PTL

\* Whatever a formation lists for the other's node, the other once listed itself
\* or a request put there.
THEOREM ViewsHonest == MemberSpec => []ViewsExplained
<1>1. MemberInvariant => ViewsExplained
  BY DEF MemberInvariant
<1> QED
  BY <1>1, MemberInvariance, PTL

\* A stale tree never has more leaves than its map has types.
THEOREM StaleTreesFit == MemberSpec => []LeavesWithinKeys
<1>1. MemberInvariant => LeavesWithinKeys
  BY DEF MemberInvariant
<1> QED
  BY <1>1, MemberInvariance, PTL

\* Storing a list made some statements ago undoes what was requested since, and
\* nothing that was there before or was received.
THEOREM StoringUndoesMeanwhile == MemberSpec => OnlyMeanwhileUndone
<1> DEFINE Kept == \A r \in Peers : SetServiceList(r) =>
               \E s \in Service :
                  s.nodeId = r /\ Differing(registry[r], registry'[r])
                                    \subseteq meanwhile \cup {s, [s EXCEPT !.is_alive = ~@]}
<1>1. ASSUME MemberInvariant PROVE Kept
  <2> SUFFICES ASSUME NEW r \in Peers, SetServiceList(r)
               PROVE  \E s \in Service :
                         s.nodeId = r /\ Differing(registry[r], registry'[r])
                                    \subseteq meanwhile \cup {s, [s EXCEPT !.is_alive = ~@]}
    OBVIOUS
  <2> USE <1>1 DEF MemberInvariant, MemberTypeOK
  <2>1. PICK list \in services : OwnTypes(list, r) # {} /\ SetAndBuild(r, FlipFirst(list, r))
    BY DEF SetServiceList
  <2> DEFINE new == FlipFirst(list, r)
  <2>2. IsRegistry(list) /\ Differing(registry[r], list) \subseteq meanwhile
    BY <2>1 DEF ListsFaithful, SetServiceList, At
  <2>3. PICK s \in Service :
          s.nodeId = r /\ Differing(list, new) \subseteq {s, [s EXCEPT !.is_alive = ~@]}
    BY <2>1, <2>2, FlipListed
  <2> HIDE DEF new
  <2>4. registry'[r] = new
    BY <2>1 DEF SetAndBuild, TypeOK, new
  <2>5. Differing(registry[r], new) \subseteq Differing(registry[r], list) \cup Differing(list, new)
    BY DifferingStepwise
  <2>6. Differing(registry[r], registry'[r])
           \subseteq meanwhile \cup {s, [s EXCEPT !.is_alive = ~@]}
    BY <2>2, <2>3, <2>4, <2>5
  <2> QED
    BY <2>3, <2>6
<1>2. MemberSpec => [][Kept]_memberVars
  BY <1>1, MemberInvariance, PTL DEF MemberSpec
<1> QED
  BY <1>2 DEF OnlyMeanwhileUndone

\* What a formation lists for its own node is changed by requests to it and by
\* the list it stores only; receiving services leaves it.
THEOREM OwnPartIsOwn == MemberSpec => OnlySelfChangesOwn
<1> DEFINE Kept == \A r \in Peers :
               OwnServices(r)' # OwnServices(r) => handleRequest(r) \/ SetServiceList(r)
<1>1. ASSUME MemberInvariant, [MemberNext]_memberVars PROVE [Kept]_memberVars
  <2> SUFFICES ASSUME NEW r \in Peers, OwnServices(r)' # OwnServices(r)
               PROVE  handleRequest(r) \/ SetServiceList(r)
    OBVIOUS
  <2> USE DEF MemberInvariant, MemberTypeOK
  <2>1. ASSUME registry'[r] = registry[r] PROVE FALSE
    BY <2>1 DEF OwnServices
  <2>2. ASSUME NEW p \in Peers, handleRequest(p) PROVE p = r
    <3>1. p # r => registry'[r] = registry[r]
      BY <1>1, <2>2 DEF handleRequest, Register, Deregister, HeartBeat, TypeOK
    <3> QED
      BY <2>1, <3>1
  <2>3. ASSUME NEW p \in Peers, SetServiceList(p) PROVE p = r
    <3>1. p # r => registry'[r] = registry[r]
      BY <1>1, <2>3 DEF SetServiceList, SetAndBuild, TypeOK
    <3> QED
      BY <2>1, <3>1
  <2>4. ASSUME NEW p \in Peers, GetServiceList(p) \/ KeepServiceList(p) PROVE FALSE
    BY <2>1, <2>4 DEF GetServiceList, KeepServiceList, KeepAll, vars
  <2>5. ASSUME NEW p \in Peers, Receive(p) PROVE FALSE
    <3> DEFINE reg == registry[p]
               msg == message[Peer(p)]
    <3>1. CASE registry' = registry
      BY <2>1, <3>1
    <3>2. CASE registry' = [registry EXCEPT ![p] = deserializeAndSetServices(reg, msg)]
      <4>1. CASE p # r
        BY <1>1, <2>1, <3>2, <4>1 DEF TypeOK
      <4>2. CASE p = r
        <5>1. /\ IsRegistry(reg) /\ IsRegistry(msg) /\ r # Peer(p)
              /\ registry'[r] = deserializeAndSetServices(reg, msg)
              /\ registry[r] = reg
          BY <1>1, <3>2, <4>2, PeerProperties DEF TypeOK
        <5>2. \A n \in DOMAIN msg : \A s \in Contents(msg[n]) : s.nodeId = Peer(p)
          BY <1>1, PeerProperties, ListedProperties DEF MessagesAnnounced
        <5> HIDE DEF reg, msg
        <5>3. ServicesOn(deserializeAndSetServices(reg, msg), r) = ServicesOn(reg, r)
          BY <5>1, <5>2, DeserializeKeepsOthers
        <5> QED
          BY <5>1, <5>3 DEF OwnServices
      <4> QED
        BY <4>1, <4>2
    <3> QED
      BY <2>5, <3>1, <3>2 DEF Receive, SetAndBuild
  <2>6. ASSUME NEW p \in Peers, Serialise(p) \/ Compare(p) \/ Send(p) PROVE FALSE
    BY <2>1, <2>6 DEF Serialise, Compare, Send
  <2>7. ~(Throw \/ UNCHANGED memberVars)
    BY <2>1 DEF Throw, memberVars, vars
  <2> QED
    BY <1>1, <2>2, <2>3, <2>4, <2>5, <2>6, <2>7 DEF MemberNext, Exchanging, Exchange
<1>2. MemberSpec => [][Kept]_memberVars
  BY <1>1, MemberInvariance, PTL DEF MemberSpec
<1> QED
  BY <1>2 DEF OnlySelfChangesOwn
=============================================================================
