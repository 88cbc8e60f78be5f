---------------------------- MODULE RegistryData ----------------------------
(***************************************************************************)
(* The values a ServiceRegistry works on, and what its methods compute     *)
(* from them: the map from service types to vectors of instances, the      *)
(* leaves of the Merkle tree built from it, the comparison with a remote   *)
(* tree and the exchange of changed services.  There are no variables      *)
(* here; ServiceRegistry and FormationSync apply these operators in their  *)
(* actions.                                                                *)
(*                                                                         *)
(* A service type is represented by its rank in the key order of the       *)
(* std::map, because that order decides which leaf stands for which type.  *)
(* A std::vector is a sequence.  The Merkle tree is represented by the     *)
(* sequence of its leaf digests: comparing two roots is comparing those    *)
(* sequences as long as SHA-256 does not collide.                          *)
(***************************************************************************)
EXTENDS Integers, FiniteSets, Sequences

CONSTANTS
    ServiceNames,   \* service types, as ranks in the order of the map keys
    InstanceIds,
    NodeIds

ASSUME ServiceNamesAssumption ==
    ServiceNames \subseteq Nat /\ IsFiniteSet(ServiceNames)

Service == [service_name : ServiceNames,
            instance_id  : InstanceIds,
            nodeId       : NodeIds,
            is_alive     : BOOLEAN]

\* A std::map<std::string, std::vector<Service>>.  A key whose vector is empty
\* is a key of the map all the same.
IsRegistry(reg) ==
    /\ DOMAIN reg \subseteq ServiceNames
    /\ reg \in [DOMAIN reg -> Seq(Service)]

EmptyRegistry == [n \in {} |-> <<>>]

-----------------------------------------------------------------------------
(* Positions in an ordered container, counted from 0 as the code does.     *)

Rank(S, x) == Cardinality({y \in S : y < x})

\* std::advance(begin, i) on an ordered container with the elements S.
Nth(S, i) == CHOOSE x \in S : Rank(S, x) = i

\* The elements of vector v at the indexes I, in their order in v: what
\* erase(remove_if(...)) leaves when I are the indexes not removed.
Pick(v, I) == [k \in 1 .. Cardinality(I) |-> v[Nth(I, k - 1)]]

Contents(v) == {v[i] : i \in DOMAIN v}

\* Every service is in the vector of its own type: the map is only ever indexed
\* with the type of the service put there.
KeyedByType(reg) == \A n \in DOMAIN reg : \A s \in Contents(reg[n]) : s.service_name = n

-----------------------------------------------------------------------------
(* The map.                                                                *)

\* registry[n]: operator[] yields an empty vector for a key not there yet.
InstancesOf(reg, n) == IF n \in DOMAIN reg THEN reg[n] ELSE <<>>

\* The services a registry lists for a node, whatever their order.
ServicesOn(reg, node) ==
    {s \in UNION {Contents(reg[n]) : n \in DOMAIN reg} : s.nodeId = node}

NamesIn(services) == {services[i].service_name : i \in DOMAIN services}

\* for (service : services) registry[service.service_name].push_back(service)
PushAll(reg, services) ==
    [n \in DOMAIN reg \cup NamesIn(services) |->
        InstancesOf(reg, n)
        \o Pick(services, {i \in DOMAIN services : services[i].service_name = n})]

IndexesOf(reg, n, id) == {i \in DOMAIN reg[n] : reg[n][i].instance_id = id}

\* Mutant of WithoutInstance: a type without instances is erased.
WithoutInstance_Erase(reg, n, id) ==
    LET rest == {i \in DOMAIN InstancesOf(reg, n) : reg[n][i].instance_id # id}
    IN  [m \in IF rest = {} THEN DOMAIN reg \ {n} ELSE DOMAIN reg |->
            IF m = n THEN Pick(reg[n], rest) ELSE reg[m]]

\* Mutant of WithoutInstance: every instance of the type goes.
WithoutInstance_Clear(reg, n, id) ==
    [m \in DOMAIN reg \cup {n} |-> IF m = n THEN <<>> ELSE reg[m]]

\* registry[n] without the instance: an unknown type becomes a key.
WithoutInstance(reg, n, id) ==
    [m \in DOMAIN reg \cup {n} |->
        IF m = n
        THEN Pick(InstancesOf(reg, n),
                  {i \in DOMAIN InstancesOf(reg, n) : reg[n][i].instance_id # id})
        ELSE reg[m]]

\* Mutant of Revived: only the first type with the instance is updated.
Revived_FirstType(reg, id) ==
    [n \in DOMAIN reg |->
        IF IndexesOf(reg, n, id) = {} \/ \E m \in DOMAIN reg : m < n /\ IndexesOf(reg, m, id) # {}
        THEN reg[n]
        ELSE [reg[n] EXCEPT ![Nth(IndexesOf(reg, n, id), 0)].is_alive = TRUE]]

\* In each type the first service with the instance id is alive.
Revived(reg, id) ==
    [n \in DOMAIN reg |->
        IF IndexesOf(reg, n, id) = {} THEN reg[n]
        ELSE [reg[n] EXCEPT ![Nth(IndexesOf(reg, n, id), 0)].is_alive = TRUE]]

-----------------------------------------------------------------------------
(* Digests and the tree.                                                   *)

Digest == ServiceNames \X InstanceIds \X NodeIds \X BOOLEAN

\* Mutant of hashService: the state is left out of the digest.
hashService_NoState(s) == <<s.service_name, s.instance_id, s.nodeId>>

\* The digest of the fields written to the stream one after the other.
hashService(s) == <<s.service_name, s.instance_id, s.nodeId, s.is_alive>>

hashServices(services) == [i \in DOMAIN services |-> hashService(services[i])]

NonEmptyKeys(reg) == {n \in DOMAIN reg : reg[n] # <<>>}

\* One leaf per type that has instances, in key order.
buildMerkleTree(reg) ==
    LET K == NonEmptyKeys(reg)
    IN  [k \in 1 .. Cardinality(K) |-> hashServices(reg[Nth(K, k - 1)])]

\* The exceptions of a comparison: root() of an empty tree, and leaf(i) of a
\* remote tree that has fewer leaves than the local one.
ComparisonThrows(local, remote) ==
    \/ local = <<>>
    \/ remote = <<>>
    \/ local # remote /\ Len(remote) < Len(local)

\* Mutants of findInconsistentLeaves: the loop starts at 1; it stops at the
\* first difference.
findInconsistentLeaves_FromOne(local, remote) ==
    {i \in 1 .. Len(local) - 1 : local[i + 1] # remote[i + 1]}

findInconsistentLeaves_First(local, remote) ==
    {i \in 0 .. Len(local) - 1 :
        /\ local[i + 1] # remote[i + 1]
        /\ \A j \in 0 .. i - 1 : local[j + 1] = remote[j + 1]}

\* The leaf indexes, from 0, at which the trees disagree.
findInconsistentLeaves(local, remote) ==
    {i \in 0 .. Len(local) - 1 : local[i + 1] # remote[i + 1]}

\* Mutant of compareAndSyncTree: the indexes are reported.
compareAndSyncTree_Indexes(reg, local, remote) == findInconsistentLeaves(local, remote)

\* The types reported as changed: leaf i is taken to stand for the i-th key
\* of the map.  Equal roots report nothing, and have equal leaves
\* (RootsDetermineLeaves, in GrowingTreeProofs).
compareAndSyncTree(reg, local, remote) ==
    {Nth(DOMAIN reg, i) : i \in findInconsistentLeaves(local, remote)}

-----------------------------------------------------------------------------
(* The exchange of changed services.  A message is grouped by type: the    *)
(* receiver handles each type on its own, so how the types interleave in   *)
(* the byte stream does not matter.                                        *)

\* Mutants of serializeServicesForNames: the nodeId filter is inverted; it is
\* missing.
serializeServicesForNames_Inverted(reg, self, names) ==
    [n \in names \cap DOMAIN reg |->
        Pick(reg[n], {i \in DOMAIN reg[n] : reg[n][i].nodeId # self})]

serializeServicesForNames_All(reg, self, names) ==
    [n \in names \cap DOMAIN reg |-> reg[n]]

\* Only the services that live on the registry's own node are sent.
serializeServicesForNames(reg, self, names) ==
    [n \in names \cap DOMAIN reg |->
        Pick(reg[n], {i \in DOMAIN reg[n] : reg[n][i].nodeId = self})]

\* The types for which a message carries at least one service.
Carried(msg) == {n \in DOMAIN msg : msg[n] # <<>>}

\* Mutant of Received: nothing is appended.
Received_NoAppend(old, new) ==
    Pick(old, {i \in DOMAIN old :
                 \A j \in DOMAIN new : new[j].nodeId # old[i].nodeId})

\* One type's vector after the loop over the received services.  Every
\* iteration erases all services on the received service's node and then
\* appends the received one: of the old vector, the services on other nodes
\* stay; of the received ones, the last of each node stays.
Received(old, new) ==
    Pick(old, {i \in DOMAIN old :
                 \A j \in DOMAIN new : new[j].nodeId # old[i].nodeId})
    \o
    Pick(new, {i \in DOMAIN new :
                 \A j \in DOMAIN new : j > i => new[j].nodeId # new[i].nodeId})

deserializeAndSetServices(reg, msg) ==
    [n \in DOMAIN reg \cup Carried(msg) |->
        IF n \in Carried(msg) THEN Received(InstancesOf(reg, n), msg[n])
                              ELSE reg[n]]

=============================================================================
