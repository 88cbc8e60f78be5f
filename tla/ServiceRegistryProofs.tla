------------------------- MODULE ServiceRegistryProofs -------------------------
(***************************************************************************)
(* Theorems about ServiceRegistry, for every set of types, instances and   *)
(* nodes, every set of requests, lists, trees and messages, and any bound  *)
(* on the instances of a type.                                             *)
(*                                                                         *)
(* The invariant is type correctness together with the bound on the        *)
(* leaves: a call that changes the tree rebuilds it from the map, with at  *)
(* most one leaf per type, and a call that does not rebuild it removes no  *)
(* type from the map.                                                      *)
(***************************************************************************)
EXTENDS ServiceRegistry, RegistryDataProofs

RegistryInvariant == TypeOK /\ LeavesWithinKeys

\* The responses of the type invariant, as a set.
Responses ==
    {NoResponse, Exception}
    \cup {Status(s) : s \in {STATUS_SUCCESS, STATUS_NOT_FOUND, STATUS_ERROR}}
    \cup {Found(s) : s \in Service}
    \cup {Changed(names) : names \in SUBSET ServiceNames}

-----------------------------------------------------------------------------
(* Calls by what they do to the map and the tree.                          *)

\* A call that leaves the tree, and removes no type from the map, keeps the
\* invariant if what it leaves is well formed.
LEMMA MapGrows ==
    ASSUME RegistryInvariant, IsRegistry(registry'),
           DOMAIN registry \subseteq DOMAIN registry', UNCHANGED tree
    PROVE  tree' \in Seq(Seq(Digest)) /\ LeavesWithinKeys'
<1>1. IsRegistry(registry) /\ tree \in Seq(Seq(Digest))
  BY DEF RegistryInvariant, TypeOK
<1>2. /\ Cardinality(DOMAIN registry) \in Nat /\ Cardinality(DOMAIN registry') \in Nat
      /\ Cardinality(DOMAIN registry) <= Cardinality(DOMAIN registry')
  BY <1>1, KeysGrow
<1>3. Len(tree) \in Nat /\ Len(tree) <= Cardinality(DOMAIN registry)
  BY <1>1, LenProperties DEF RegistryInvariant, LeavesWithinKeys
<1> QED
  BY <1>1, <1>2, <1>3 DEF LeavesWithinKeys

\* A call that rebuilds the tree keeps it if what it leaves is well formed.
LEMMA RebuildKeeps ==
    ASSUME IsRegistry(registry'), Rebuild
    PROVE  /\ tree' \in Seq(Seq(Digest))
           /\ LeavesWithinKeys'
           /\ response' \in Responses
<1>1. tree' = buildMerkleTree(registry')
  BY DEF Rebuild
<1>2. response' \in Responses
  BY DEF Rebuild, Responses
<1>3. tree' \in Seq(Seq(Digest))
  BY <1>1, TreeProperties
<1>4. Len(tree') <= Cardinality(DOMAIN registry')
  BY <1>1, LeavesBounded
<1> QED
  BY <1>2, <1>3, <1>4 DEF LeavesWithinKeys

\* A map filled from a list is well formed.
LEMMA ListProperties ==
    ASSUME NEW services \in Seq(Service)
    PROVE  IsRegistry(RegistryOfList(services))
<1>1. IsRegistry(EmptyRegistry)
  BY DEF IsRegistry, EmptyRegistry
<1> QED
  BY <1>1, PushProperties DEF RegistryOfList

\* The vector of one request is a vector of services, of the request's type.
LEMMA SingleProperties ==
    ASSUME NEW s \in Service
    PROVE  <<s>> \in Seq(Service) /\ Contents(<<s>>) = {s}
BY DEF Contents

\* The node taken for an instance's is the node of some service with its id.
LEMMA InstanceNodeProperties ==
    ASSUME NEW reg, IsRegistry(reg), NEW n \in DOMAIN reg, NEW i \in DOMAIN reg[n]
    PROVE  \E m \in DOMAIN reg : \E s \in Contents(reg[m]) :
              /\ s \in Service
              /\ s.instance_id = reg[n][i].instance_id
              /\ InstanceNode(reg, reg[n][i].instance_id) = s.nodeId
<1> DEFINE id == reg[n][i].instance_id
           K == {m \in DOMAIN reg : IndexesOf(reg, m, id) # {}}
           m0 == Nth(K, 0)
           I == IndexesOf(reg, m0, id)
           i0 == Nth(I, 0)
<1>1. i \in IndexesOf(reg, n, id)
  BY DEF IndexesOf
<1>2. K \in SUBSET DOMAIN reg /\ K # {}
  BY <1>1
<1>3. m0 \in K
  BY <1>2, FirstType
<1>4. reg[m0] \in Seq(Service)
  BY <1>3 DEF IsRegistry
<1>5. I \in SUBSET DOMAIN reg[m0] /\ I # {}
  BY <1>3 DEF IndexesOf
<1>6. i0 \in I
  BY <1>4, <1>5, FirstIndex
<1>7. i0 \in DOMAIN reg[m0] /\ reg[m0][i0].instance_id = id
  BY <1>6 DEF IndexesOf
<1>8. reg[m0][i0] \in Service
  BY <1>4, <1>7, LenProperties, ElementOfSeq
<1>9. InstanceNode(reg, id) = reg[m0][i0].nodeId
  BY DEF InstanceNode
<1> HIDE DEF m0, I, i0
<1>10. reg[m0][i0] \in Contents(reg[m0]) /\ m0 \in DOMAIN reg
  BY <1>3, <1>7 DEF Contents
<1> QED
  BY <1>7, <1>8, <1>9, <1>10

-----------------------------------------------------------------------------
(* Each call keeps the invariant.                                          *)

LEMMA InitInvariant == Init => RegistryInvariant
<1> SUFFICES ASSUME Init PROVE RegistryInvariant
  OBVIOUS
<1>1. IsRegistry(registry)
  BY DEF Init, IsRegistry, EmptyRegistry
<1>2. tree = <<>> /\ Len(tree) = 0 /\ tree \in Seq(Seq(Digest))
  BY EmptySeq DEF Init
<1>3. IsFiniteSet(DOMAIN registry) /\ Cardinality(DOMAIN registry) \in Nat
  BY <1>1, LeavesBounded, FS_CardinalityType
<1>4. TypeOK
  BY <1>1, <1>2 DEF Init, TypeOK
<1> QED
  BY <1>2, <1>3, <1>4 DEF RegistryInvariant, LeavesWithinKeys

LEMMA RegisterKeeps ==
    ASSUME RegistryInvariant, NEW request \in RegisterRequests, RegisterService(request)
    PROVE  RegistryInvariant'
<1>1. request \in Service
  BY InputsAssumption
<1>2. IsRegistry(registry)
  BY DEF RegistryInvariant, TypeOK
<1>3. IsRegistry(registry') /\ DOMAIN registry \subseteq DOMAIN registry'
  <2>1. CASE RegisterRejected(request)
    BY <2>1, <1>2 DEF RegisterRejected
  <2>2. CASE RegisterAccepted(request)
    <3>1. registry' = PushAll(registry, <<request>>)
      BY <2>2 DEF RegisterAccepted
    <3> QED
      BY <3>1, <1>1, <1>2, SingleProperties, PushProperties
  <2> QED
    BY <2>1, <2>2 DEF RegisterService
<1>4. UNCHANGED <<tree, nodeList>> /\ response' \in Responses
  BY DEF RegisterService, RegisterRejected, RegisterAccepted, Responses
<1>5. tree' \in Seq(Seq(Digest)) /\ LeavesWithinKeys'
  BY <1>3, <1>4, MapGrows
<1>6. TypeOK'
  BY <1>3, <1>4, <1>5 DEF RegistryInvariant, TypeOK, Responses
<1> QED
  BY <1>5, <1>6 DEF RegistryInvariant

LEMMA DeregisterKeeps ==
    ASSUME RegistryInvariant, NEW request \in DeregisterRequests, DeregisterService(request)
    PROVE  RegistryInvariant'
<1>1. request.service_name \in ServiceNames /\ IsRegistry(registry)
  BY InputsAssumption DEF RegistryInvariant, TypeOK
<1>2. registry' = WithoutInstance(registry, request.service_name, request.instance_id)
  BY DEF DeregisterService
<1> DEFINE n == request.service_name
           id == request.instance_id
           new == WithoutInstance(registry, n, id)
<1> HIDE DEF n, id
<1>3. IsRegistry(new) /\ DOMAIN new = DOMAIN registry \cup {n}
  BY <1>1, WithoutProperties DEF n
<1> HIDE DEF new
<1>4. IsRegistry(registry') /\ DOMAIN registry \subseteq DOMAIN registry'
  BY <1>2, <1>3 DEF new, n, id
<1>5. UNCHANGED <<tree, nodeList>> /\ response' \in Responses
  BY DEF DeregisterService, Responses
<1>6. tree' \in Seq(Seq(Digest)) /\ LeavesWithinKeys'
  BY <1>4, <1>5, MapGrows
<1>7. TypeOK'
  BY <1>4, <1>5, <1>6 DEF RegistryInvariant, TypeOK, Responses
<1> QED
  BY <1>6, <1>7 DEF RegistryInvariant

\* A find returns a service of the map, and what it leaves in nodeList are
\* nodes of services of the map.
LEMMA FindProperties ==
    ASSUME IsRegistry(registry), NEW request \in FindRequests, FindAmong(request)
    PROVE  /\ \/ response' = Status(STATUS_NOT_FOUND)
              \/ \E i \in Candidates(registry, nodeList, request.method, request.mode,
                                     request.location) :
                    /\ request.method \in DOMAIN registry
                    /\ i \in AliveIndexes(registry, request.method)
                    /\ i \in DOMAIN registry[request.method]
                    /\ registry[request.method][i] \in Service
                    /\ registry[request.method][i].is_alive
                    /\ response' = Found(registry[request.method][i])
           /\ NodesLookedUp(registry, request.method, request.mode) \subseteq NodeIds
<1> DEFINE n == request.method
           chosen == Candidates(registry, nodeList, n, request.mode, request.location)
<1>1. chosen \subseteq AliveIndexes(registry, n)
  BY DEF Candidates
<1>2. ASSUME NEW i \in AliveIndexes(registry, n)
      PROVE  /\ n \in DOMAIN registry /\ i \in DOMAIN registry[n]
             /\ registry[n][i] \in Service /\ registry[n][i].is_alive
  <2>1. i \in DOMAIN InstancesOf(registry, n) /\ InstancesOf(registry, n)[i].is_alive
    BY DEF AliveIndexes
  <2>2. n \in DOMAIN registry
    BY <2>1 DEF InstancesOf
  <2>3. registry[n] \in Seq(Service) /\ i \in DOMAIN registry[n]
    BY <2>1, <2>2 DEF InstancesOf, IsRegistry
  <2>4. registry[n][i] \in Service
    BY <2>3, LenProperties, ElementOfSeq
  <2> QED
    BY <2>1, <2>2, <2>3, <2>4 DEF InstancesOf
<1>3. \/ response' = Status(STATUS_NOT_FOUND)
      \/ \E i \in chosen : response' = Found(registry[n][i])
  BY DEF FindAmong
<1>4. ASSUME NEW i \in AliveIndexes(registry, n)
      PROVE  InstanceNode(registry, registry[n][i].instance_id) \in NodeIds
  BY <1>2, <1>4, InstanceNodeProperties DEF Service
<1>5. NodesLookedUp(registry, n, request.mode) \subseteq NodeIds
  BY <1>4 DEF NodesLookedUp
<1> HIDE DEF n, chosen
<1>6. \/ response' = Status(STATUS_NOT_FOUND)
      \/ \E i \in chosen :
            /\ n \in DOMAIN registry
            /\ i \in AliveIndexes(registry, n)
            /\ i \in DOMAIN registry[n]
            /\ registry[n][i] \in Service
            /\ registry[n][i].is_alive
            /\ response' = Found(registry[n][i])
  BY <1>1, <1>2, <1>3
<1> QED
  BY <1>5, <1>6 DEF n, chosen

LEMMA FindKeeps ==
    ASSUME RegistryInvariant, NEW request \in FindRequests, FindService(request)
    PROVE  RegistryInvariant'
<1>1. IsRegistry(registry) /\ UNCHANGED <<registry, tree>>
  BY DEF RegistryInvariant, TypeOK, FindService
<1>2. tree' \in Seq(Seq(Digest)) /\ LeavesWithinKeys'
  BY <1>1, MapGrows
<1>3. /\ response' \in Responses
      /\ DOMAIN nodeList' \subseteq NodeIds
      /\ \A node \in DOMAIN nodeList' : nodeList'[node] \in Nat
  <2>1. CASE FindMalformed(request)
    BY <2>1 DEF FindMalformed, Responses, RegistryInvariant, TypeOK
  <2>2. CASE FindAmong(request)
    <3>1. response' \in Responses
      BY <1>1, <2>2, FindProperties DEF Responses
    <3>2. nodeList' = LookedUp(nodeList, NodesLookedUp(registry, request.method, request.mode))
      BY <2>2 DEF FindAmong
    <3>3. NodesLookedUp(registry, request.method, request.mode) \subseteq NodeIds
      BY <1>1, <2>2, FindProperties
    <3> QED
      BY <3>1, <3>2, <3>3 DEF LookedUp, PositionOf, DefaultPosition, RegistryInvariant, TypeOK
  <2> QED
    BY <2>1, <2>2 DEF FindService
<1>4. TypeOK'
  BY <1>1, <1>2, <1>3 DEF TypeOK, Responses
<1> QED
  BY <1>2, <1>4 DEF RegistryInvariant

LEMMA HeartBeatKeeps ==
    ASSUME RegistryInvariant, NEW id \in InstanceIds, HeartBeat(id)
    PROVE  RegistryInvariant'
<1>1. IsRegistry(registry) /\ registry' = Revived(registry, id)
  BY DEF RegistryInvariant, TypeOK, HeartBeat
<1>2. IsRegistry(registry') /\ DOMAIN registry' = DOMAIN registry
  BY <1>1, RevivedProperties
<1>3. UNCHANGED <<tree, nodeList>> /\ response' \in Responses
  BY DEF HeartBeat, Responses
<1>4. tree' \in Seq(Seq(Digest)) /\ LeavesWithinKeys'
  BY <1>2, <1>3, MapGrows
<1>5. TypeOK'
  BY <1>2, <1>3, <1>4 DEF RegistryInvariant, TypeOK, Responses
<1> QED
  BY <1>4, <1>5 DEF RegistryInvariant

LEMMA RegisterNodeKeeps ==
    ASSUME RegistryInvariant, NEW node \in Nodes, RegisterNode(node)
    PROVE  RegistryInvariant'
<1>1. node.nodeId \in NodeIds /\ node.position \in Nat
  BY InputsAssumption
<1>2. UNCHANGED <<registry, tree>> /\ response' \in Responses
  BY DEF RegisterNode, Responses
<1>3. /\ DOMAIN nodeList' \subseteq NodeIds
      /\ \A id \in DOMAIN nodeList' : nodeList'[id] \in Nat
  BY <1>1 DEF RegisterNode, RegistryInvariant, TypeOK
<1>4. TypeOK' /\ LeavesWithinKeys'
  BY <1>2, <1>3 DEF RegistryInvariant, TypeOK, LeavesWithinKeys, Responses
<1> QED
  BY <1>4 DEF RegistryInvariant

LEMMA InitializeKeeps ==
    ASSUME RegistryInvariant, NEW services \in InitialLists, Initialize(services)
    PROVE  RegistryInvariant'
<1>1. IsRegistry(registry) /\ services \in Seq(Service)
  BY InputsAssumption DEF RegistryInvariant, TypeOK
<1>2. IsRegistry(registry')
  BY <1>1, PushProperties DEF Initialize
<1>3. tree' \in Seq(Seq(Digest)) /\ LeavesWithinKeys' /\ response' \in Responses
  BY <1>2, RebuildKeeps DEF Initialize
<1>4. /\ DOMAIN nodeList' \subseteq NodeIds
      /\ \A id \in DOMAIN nodeList' : nodeList'[id] \in Nat
  BY InputsAssumption DEF Initialize, RegistryInvariant, TypeOK
<1>5. TypeOK'
  BY <1>2, <1>3, <1>4 DEF TypeOK, Responses
<1> QED
  BY <1>3, <1>5 DEF RegistryInvariant

LEMMA SetServiceListKeeps ==
    ASSUME RegistryInvariant, NEW services \in ServiceLists, SetServiceList(services)
    PROVE  RegistryInvariant'
<1>1. services \in Seq(Service)
  BY InputsAssumption
<1>2. IsRegistry(registry')
  BY <1>1, ListProperties DEF SetServiceList
<1>3. tree' \in Seq(Seq(Digest)) /\ LeavesWithinKeys' /\ response' \in Responses
  BY <1>2, RebuildKeeps DEF SetServiceList
<1>4. TypeOK'
  BY <1>2, <1>3 DEF SetServiceList, RegistryInvariant, TypeOK, Responses
<1> QED
  BY <1>3, <1>4 DEF RegistryInvariant

LEMMA CompareKeeps ==
    ASSUME RegistryInvariant, NEW remote \in RemoteTrees, CompareAndSyncTree(remote)
    PROVE  RegistryInvariant'
<1>1. UNCHANGED <<registry, tree, nodeList>>
  BY DEF CompareAndSyncTree
<1>2. response' \in Responses
  <2>1. CASE CompareReturns(remote)
    <3>1. compareAndSyncTree(registry, tree, remote) \subseteq DOMAIN registry
      BY CompareWithinKeys DEF RegistryInvariant, TypeOK, LeavesWithinKeys
    <3>2. compareAndSyncTree(registry, tree, remote) \in SUBSET ServiceNames
      BY <3>1 DEF RegistryInvariant, TypeOK, IsRegistry
    <3> QED
      BY <2>1, <3>2 DEF CompareReturns, Responses
  <2>2. CASE CompareThrows(remote)
    BY <2>2 DEF CompareThrows, Responses
  <2> QED
    BY <2>1, <2>2 DEF CompareAndSyncTree
<1>3. TypeOK' /\ LeavesWithinKeys'
  BY <1>1, <1>2 DEF RegistryInvariant, TypeOK, LeavesWithinKeys, Responses
<1> QED
  BY <1>3 DEF RegistryInvariant

LEMMA DeserializeKeeps ==
    ASSUME RegistryInvariant, NEW msg \in RemoteMessages, DeserializeAndSetServices(msg)
    PROVE  RegistryInvariant'
<1>1. IsRegistry(registry) /\ IsRegistry(msg)
  BY InputsAssumption DEF RegistryInvariant, TypeOK
<1>2. IsRegistry(registry')
  BY <1>1, DeserializeProperties DEF DeserializeAndSetServices
<1>3. tree' \in Seq(Seq(Digest)) /\ LeavesWithinKeys' /\ response' \in Responses
  BY <1>2, RebuildKeeps DEF DeserializeAndSetServices
<1>4. TypeOK'
  BY <1>2, <1>3 DEF DeserializeAndSetServices, RegistryInvariant, TypeOK, Responses
<1> QED
  BY <1>3, <1>4 DEF RegistryInvariant

LEMMA NextInvariant == RegistryInvariant /\ [Next]_vars => RegistryInvariant'
<1> SUFFICES ASSUME RegistryInvariant, [Next]_vars PROVE RegistryInvariant'
  OBVIOUS
<1>1. CASE handleRequest
  BY <1>1, RegisterKeeps, DeregisterKeeps, FindKeeps, HeartBeatKeeps DEF handleRequest
<1>2. CASE \E node \in Nodes : RegisterNode(node)
  BY <1>2, RegisterNodeKeeps
<1>3. CASE \E services \in InitialLists : Initialize(services)
  BY <1>3, InitializeKeeps
<1>4. CASE \E services \in ServiceLists : SetServiceList(services)
  BY <1>4, SetServiceListKeeps
<1>5. CASE \E remote \in RemoteTrees : CompareAndSyncTree(remote)
  BY <1>5, CompareKeeps
<1>6. CASE \E msg \in RemoteMessages : DeserializeAndSetServices(msg)
  BY <1>6, DeserializeKeeps
<1>7. CASE UNCHANGED vars
  BY <1>7 DEF vars, RegistryInvariant, TypeOK, LeavesWithinKeys
<1> QED
  BY <1>1, <1>2, <1>3, <1>4, <1>5, <1>6, <1>7 DEF Next

-----------------------------------------------------------------------------
(* The theorems.                                                           *)

\* The invariant holds in every reachable state.
THEOREM RegistryInvariance == Spec => []RegistryInvariant
<1>1. Init => RegistryInvariant
  BY InitInvariant
<1>2. RegistryInvariant /\ [Next]_vars => RegistryInvariant'
  BY NextInvariant
<1> QED
  BY <1>1, <1>2, PTL DEF Spec

\* The registry and the response of every call are well formed: a find returns
\* a service, a comparison returns types that exist.
THEOREM RegistryTypeCorrect == Spec => []TypeOK
<1>1. RegistryInvariant => TypeOK
  BY DEF RegistryInvariant
<1> QED
  BY <1>1, RegistryInvariance, PTL

\* No leaf index is past the end of the map.
THEOREM LeafIndexesAreKeys == Spec => []LeavesWithinKeys
<1>1. RegistryInvariant => LeavesWithinKeys
  BY DEF RegistryInvariant
<1> QED
  BY <1>1, RegistryInvariance, PTL

\* While no instance id is used on two nodes, the node looked up for an
\* instance is its own.
LEMMA OwnNodeLookedUp ==
    ASSUME IsRegistry(registry), OneNodePerInstance,
           NEW n \in DOMAIN registry, NEW i \in DOMAIN registry[n]
    PROVE  InstanceNode(registry, registry[n][i].instance_id) = registry[n][i].nodeId
<1>1. PICK m \in DOMAIN registry : \E s \in Contents(registry[m]) :
         /\ s.instance_id = registry[n][i].instance_id
         /\ InstanceNode(registry, registry[n][i].instance_id) = s.nodeId
  BY InstanceNodeProperties
<1>2. registry[n][i] \in Contents(registry[n])
  BY DEF Contents
<1> QED
  BY <1>1, <1>2 DEF OneNodePerInstance

\* A find in mode 0 returns an alive instance of the type at the smallest
\* distance, whatever other types list.
THEOREM NearestFound == Spec => NearestIsFound
<1> DEFINE Nearest ==
      \A request \in FindRequests :
          /\ FindService(request)
          /\ OneNodePerInstance
          /\ request.mode = 0
          /\ response'.returned = "service"
          =>  LET n == request.method
                  DistanceTo(s) == Distance(request.location, PositionOf(nodeList, s.nodeId))
                  candidates == {s \in Contents(registry[n]) : s.is_alive}
              IN  /\ response'.service \in candidates
                  /\ \A s \in candidates : DistanceTo(response'.service) <= DistanceTo(s)
<1>1. ASSUME RegistryInvariant PROVE Nearest
  <2> SUFFICES ASSUME NEW request \in FindRequests, FindService(request), OneNodePerInstance,
                      request.mode = 0, response'.returned = "service"
               PROVE  LET n == request.method
                          DistanceTo(s) ==
                             Distance(request.location, PositionOf(nodeList, s.nodeId))
                          candidates == {s \in Contents(registry[n]) : s.is_alive}
                      IN  /\ response'.service \in candidates
                          /\ \A s \in candidates :
                                DistanceTo(response'.service) <= DistanceTo(s)
    OBVIOUS
  <2> DEFINE n == request.method
             DistanceTo(s) == Distance(request.location, PositionOf(nodeList, s.nodeId))
             candidates == {s \in Contents(registry[n]) : s.is_alive}
             chosen == Candidates(registry, nodeList, n, request.mode, request.location)
             Score(i) == Distance(request.location, PositionOf(nodeList,
                            InstanceNode(registry, registry[n][i].instance_id)))
             Alive == AliveIndexes(registry, n)
  <2>1. IsRegistry(registry)
    BY <1>1 DEF RegistryInvariant, TypeOK
  <2>2. FindAmong(request)
    BY DEF FindService, FindMalformed, Status
  <2>3. response' # Status(STATUS_NOT_FOUND)
    BY DEF Status
  <2>4. PICK i \in chosen :
           /\ n \in DOMAIN registry /\ i \in Alive /\ i \in DOMAIN registry[n]
           /\ registry[n][i].is_alive
           /\ response' = Found(registry[n][i])
    BY <2>1, <2>2, <2>3, FindProperties
  <2>5. response'.service = registry[n][i]
    BY <2>4 DEF Found
  <2>6. registry[n][i] \in candidates
    BY <2>4 DEF Contents
  <2>7. \A j \in DOMAIN registry[n] : Score(j) = DistanceTo(registry[n][j])
    BY <2>1, <2>4, OwnNodeLookedUp
  <2>8. \A j \in Alive : Score(i) < Score(j) \/ (Score(i) = Score(j) /\ i <= j)
    BY DEF Candidates
  <2>9. \A s : DistanceTo(s) \in Nat
    <3>1. \A node : PositionOf(nodeList, node) \in Nat
      BY <1>1 DEF PositionOf, DefaultPosition, RegistryInvariant, TypeOK
    <3>2. request.location \in Nat
      BY InputsAssumption
    <3> QED
      BY <3>1, <3>2 DEF Distance
  <2>10. ASSUME NEW s \in candidates PROVE DistanceTo(registry[n][i]) <= DistanceTo(s)
    <3>1. PICK j \in DOMAIN registry[n] : s = registry[n][j]
      BY DEF Contents
    <3>2. j \in Alive
      BY <2>4, <3>1 DEF AliveIndexes, InstancesOf
    <3> HIDE DEF DistanceTo, Score, Alive, chosen
    <3>3. Score(i) = DistanceTo(registry[n][i]) /\ Score(j) = DistanceTo(s)
      BY <2>4, <2>7, <3>1
    <3>4. DistanceTo(registry[n][i]) \in Nat /\ DistanceTo(s) \in Nat
      BY <2>9
    <3>5. Score(i) < Score(j) \/ Score(i) = Score(j)
      BY <2>8, <3>2
    <3> QED
      BY <3>3, <3>4, <3>5
  <2> QED
    BY <2>5, <2>6, <2>10
<1>2. Spec => [][Nearest]_vars
  BY <1>1, RegistryInvariance, PTL DEF Spec
<1> QED
  BY <1>2 DEF NearestIsFound

\* A heartbeat leaves its instance alive in every type that lists it, and every
\* type, every other instance and every place in a type as they were.
THEOREM HeartbeatsRevive == Spec => HeartbeatRevives
<1> DEFINE Revives == \A id \in InstanceIds : HeartBeat(id) =>
              /\ DOMAIN registry' = DOMAIN registry
              /\ \A n \in DOMAIN registry :
                    /\ IndexesOf(registry, n, id) # {} =>
                          \E s \in Contents(registry'[n]) : s.instance_id = id /\ s.is_alive
                    /\ DOMAIN registry'[n] = DOMAIN registry[n]
                    /\ \A i \in DOMAIN registry[n] :
                          \/ registry'[n][i] = registry[n][i]
                          \/ /\ registry[n][i].instance_id = id
                             /\ registry'[n][i] = [registry[n][i] EXCEPT !.is_alive = TRUE]
<1>1. ASSUME RegistryInvariant PROVE Revives
  BY <1>1, RevivedProperties DEF HeartBeat, RegistryInvariant, TypeOK
<1>2. Spec => [][Revives]_vars
  BY <1>1, RegistryInvariance, PTL DEF Spec
<1> QED
  BY <1>2 DEF HeartbeatRevives

-----------------------------------------------------------------------------
(* Removal.                                                                *)

\* Deregistering keeps every other instance in its place among the others: the
\* others selected after the removal are the others selected before it.
THEOREM OthersStay == Spec => DeregisterKeepsOthers
<1> DEFINE OthersKept ==
        \A request \in DeregisterRequests : DeregisterService(request) =>
          \A n \in DOMAIN registry :
              Others(registry'[n], n, request) = Others(registry[n], n, request)
<1>1. ASSUME RegistryInvariant PROVE OthersKept
  <2> SUFFICES ASSUME NEW request \in DeregisterRequests, DeregisterService(request),
                      NEW n \in DOMAIN registry
               PROVE  Others(registry'[n], n, request) = Others(registry[n], n, request)
    OBVIOUS
  <2> DEFINE id == request.instance_id
             v == registry[n]
             I == {i \in DOMAIN v : v[i].instance_id # id}
  <2>1. v \in Seq(Service)
    BY <1>1 DEF RegistryInvariant, TypeOK, IsRegistry
  <2>2. registry'[n] = IF n = request.service_name THEN Pick(v, I) ELSE v
    BY DEF DeregisterService, WithoutInstance, InstancesOf
  <2>3. CASE n # request.service_name
    BY <2>2, <2>3
  <2>4. CASE n = request.service_name
    <3>1. registry'[n] = Pick(v, I)
      BY <2>2, <2>4
    <3>2. I \in SUBSET DOMAIN v
      OBVIOUS
    <3>3. Pick(v, I) \in Seq(Service) /\ Contents(Pick(v, I)) = {v[i] : i \in I}
      BY <2>1, <3>2, PickProperties
    <3>4. \A k \in DOMAIN Pick(v, I) : Pick(v, I)[k].instance_id # id
      BY <3>3 DEF Contents
    <3> HIDE DEF v
    <3> DEFINE w == Pick(v, I)
    <3>5. {i \in DOMAIN w : n # request.service_name \/ w[i].instance_id # request.instance_id}
             = DOMAIN w
      BY <3>4
    <3>6. {i \in DOMAIN v : n # request.service_name \/ v[i].instance_id # request.instance_id}
             = I
      BY <2>4
    <3>7. Pick(w, DOMAIN w) = w
      BY <3>3, PickAll
    <3> HIDE DEF I, w
    <3>8. Others(w, n, request) = w
      BY <3>5, <3>7 DEF Others
    <3>9. Others(v, n, request) = w
      BY <3>6 DEF Others, w
    <3> QED
      BY <3>1, <3>8, <3>9 DEF v, w
  <2> QED
    BY <2>3, <2>4
<1>2. Spec => [][OthersKept]_vars
  BY <1>1, RegistryInvariance, PTL DEF Spec
<1> QED
  BY <1>2 DEF DeregisterKeepsOthers

-----------------------------------------------------------------------------
(* Lists.                                                                  *)

\* The services of a type in a list.
OfType(services, n) ==
    Pick(services, {i \in DOMAIN services : services[i].service_name = n})

\* Of two lists one after the other, the services of a type in each.
LEMMA OfTypeConcat ==
    ASSUME NEW u \in Seq(Service), NEW v \in Seq(Service), NEW n
    PROVE  OfType(u \o v, n) = OfType(u, n) \o OfType(v, n)
<1> DEFINE I == {i \in DOMAIN u : u[i].service_name = n}
           J == {j \in DOMAIN v : v[j].service_name = n}
           K == {k \in DOMAIN (u \o v) : (u \o v)[k].service_name = n}
<1>1. /\ Len(u) \in Nat /\ DOMAIN u = 1 .. Len(u)
      /\ Len(v) \in Nat /\ DOMAIN v = 1 .. Len(v)
      /\ DOMAIN (u \o v) = 1 .. Len(u) + Len(v)
      /\ \A k \in 1 .. Len(u) + Len(v) :
            (u \o v)[k] = IF k <= Len(u) THEN u[k] ELSE v[k - Len(u)]
  BY ConcatProperties, LenProperties
<1>2. \A i \in I : i \in K
  BY <1>1
<1>3. \A j \in J : Len(u) + j \in K
  <2> TAKE j \in J
  <2>1. Len(u) + j \in 1 .. Len(u) + Len(v) /\ ~ (Len(u) + j <= Len(u)) /\ (Len(u) + j) - Len(u) = j
    BY <1>1
  <2> QED
    BY <1>1, <2>1
<1>4. \A k \in K : k \in I \/ \E j \in J : k = Len(u) + j
  <2> TAKE k \in K
  <2>1. CASE k <= Len(u)
    BY <1>1, <2>1
  <2>2. CASE ~ (k <= Len(u))
    <3>1. k - Len(u) \in J /\ k = Len(u) + (k - Len(u))
      BY <1>1, <2>2
    <3> QED
      BY <3>1
  <2> QED
    BY <2>1, <2>2
<1>5. I \in SUBSET DOMAIN u /\ J \in SUBSET DOMAIN v
  OBVIOUS
<1> HIDE DEF I, J, K
<1>6. K = Joined(I, Len(u), J)
  BY <1>2, <1>3, <1>4 DEF Joined
<1>7. Pick(u \o v, K) = Pick(u, I) \o Pick(v, J)
  <2>1. \A uu, vv \in Seq(Service) : \A II \in SUBSET DOMAIN uu, JJ \in SUBSET DOMAIN vv :
           Pick(uu \o vv, Joined(II, Len(uu), JJ)) = Pick(uu, II) \o Pick(vv, JJ)
    BY PickConcat
  <2>2. Pick(u \o v, Joined(I, Len(u), J)) = Pick(u, I) \o Pick(v, J)
    BY <1>5, <2>1
  <2> QED
    BY <1>6, <2>2
<1> QED
  BY <1>7 DEF OfType, I, J, K

\* Of a vector of services of one type: all of them, or none.
LEMMA OfTypeKeyed ==
    ASSUME NEW v \in Seq(Service), NEW m, \A s \in Contents(v) : s.service_name = m, NEW n
    PROVE  OfType(v, n) = IF n = m THEN v ELSE <<>>
<1> DEFINE I == {i \in DOMAIN v : v[i].service_name = n}
<1>1. \A i \in DOMAIN v : v[i].service_name = m
  BY DEF Contents
<1>2. CASE n = m
  <2>1. I = DOMAIN v
    BY <1>1, <1>2
  <2> QED
    BY <1>2, <2>1, PickAll DEF OfType
<1>3. CASE n # m
  <2>1. I = {}
    BY <1>1, <1>3
  <2>2. I \in SUBSET DOMAIN v
    OBVIOUS
  <2>3. Pick(v, I) = <<>>
    BY <2>1, <2>2, PickEmpty
  <2> QED
    BY <1>3, <2>3 DEF OfType
<1> QED
  BY <1>2, <1>3

\* The list of a map holds, of every type, the type's vector, and nothing else.
LEMMA ListContents ==
    ASSUME NEW reg, IsRegistry(reg), KeyedByType(reg)
    PROVE  /\ getServiceList(reg) \in Seq(Service)
           /\ NamesIn(getServiceList(reg)) \subseteq DOMAIN reg
           /\ \A n \in DOMAIN reg : OfType(getServiceList(reg), n) = reg[n]
<1> DEFINE D == DOMAIN reg
           N == Cardinality(D)
           seqs == [k \in 1 .. N |-> reg[Nth(D, k - 1)]]
           L == getServiceList(reg)
<1>1. L = FlattenSeq(seqs)
  BY DEF getServiceList
<1>2. IsFiniteSet(D) /\ D \in SUBSET Nat /\ N \in Nat
  BY LeavesBounded, ServiceNamesAssumption, FS_CardinalityType DEF IsRegistry
<1>3. \A k \in 1 .. N : Nth(D, k - 1) \in D /\ Rank(D, Nth(D, k - 1)) = k - 1
  BY <1>2, NthProperties
<1>4. \A n \in D : reg[n] \in Seq(Service)
  BY DEF IsRegistry
<1>5. \A k \in 1 .. N : seqs[k] \in Seq(Service)
  BY <1>3, <1>4
<1>6. seqs \in Seq(Seq(Service)) /\ Len(seqs) = N
  <2>1. seqs \in Seq(Seq(Service))
    BY <1>2, <1>3, <1>4, IsASeq
  <2> QED
    BY <1>2, <2>1, LenProperties
<1>7. CASE D = {}
  <2>1. N = 0
    BY <1>7, FS_EmptySet
  <2>2. seqs = <<>>
    BY <1>6, <2>1, EmptySeq
  <2>3. L = <<>>
    BY <1>1, <1>6, <2>1, <2>2 DEF FlattenSeq
  <2> QED
    BY <1>7, <2>3, EmptySeq DEF NamesIn
<1>8. CASE D # {}
  <2>1. N \in Nat \ {0}
    BY <1>2, <1>8, FS_EmptySet
  <2> HIDE DEF seqs, D, N, L
  <2>2. PICK f : /\ f[1] = seqs[1]
                 /\ \A i \in 1 .. N - 1 : f[i + 1] = f[i] \o seqs[i + 1]
                 /\ FlattenSeq(seqs) = f[N]
    BY <1>6, <2>1, FlattenUnfolds
  <2> DEFINE Prefix(k) ==
        /\ f[k] \in Seq(Service)
        /\ \A s \in Contents(f[k]) : s.service_name \in D
        /\ \A n \in D : OfType(f[k], n) = IF Rank(D, n) < k THEN reg[n] ELSE <<>>
  <2>3. ASSUME NEW k \in 1 .. N
        PROVE  /\ \A s \in Contents(seqs[k]) : s.service_name \in D
               /\ \A n \in D : OfType(seqs[k], n) = IF Rank(D, n) = k - 1 THEN reg[n] ELSE <<>>
    <3> DEFINE m == Nth(D, k - 1)
    <3>1. m \in D /\ Rank(D, m) = k - 1 /\ seqs[k] = reg[m]
      BY <1>3 DEF seqs
    <3> HIDE DEF m
    <3>2. \A s \in Contents(reg[m]) : s.service_name = m
      BY <3>1 DEF KeyedByType, D
    <3>3. \A n \in D : n = m <=> Rank(D, n) = k - 1
      BY <1>2, <3>1, RankInjective
    <3>4. \A n \in D : OfType(reg[m], n) = IF n = m THEN reg[m] ELSE <<>>
      BY <1>4, <3>1, <3>2, OfTypeKeyed
    <3> QED
      BY <3>1, <3>2, <3>3, <3>4
  <2>4. \A n \in D : Rank(D, n) \in 0 .. N - 1
    BY <1>2, RankType DEF N
  <2>5. Prefix(1)
    <3>1. 1 \in 1 .. N
      BY <2>1
    <3>2. \A n \in D : Rank(D, n) < 1 <=> Rank(D, n) = 1 - 1
      BY <2>4
    <3> QED
      BY <1>5, <2>2, <2>3, <3>1, <3>2
  <2>6. ASSUME NEW k \in 1 .. N - 1, Prefix(k) PROVE Prefix(k + 1)
    <3>1. k + 1 \in 1 .. N /\ (k + 1) - 1 = k
      BY <2>1
    <3>2. f[k + 1] = f[k] \o seqs[k + 1]
      BY <2>2
    <3>3. f[k] \in Seq(Service) /\ seqs[k + 1] \in Seq(Service)
      BY <1>5, <2>6, <3>1
    <3>4. f[k + 1] \in Seq(Service)
      BY <3>2, <3>3, ConcatProperties
    <3>5. Contents(f[k + 1]) = Contents(f[k]) \cup Contents(seqs[k + 1])
      BY <3>2, <3>3, ConcatContents
    <3>6. \A s \in Contents(f[k + 1]) : s.service_name \in D
      BY <2>3, <2>6, <3>1, <3>5
    <3>7. ASSUME NEW n \in D
          PROVE  OfType(f[k + 1], n) = IF Rank(D, n) < k + 1 THEN reg[n] ELSE <<>>
      <4>1. OfType(f[k + 1], n) = OfType(f[k], n) \o OfType(seqs[k + 1], n)
        BY <3>2, <3>3, OfTypeConcat
      <4>2. OfType(f[k], n) = IF Rank(D, n) < k THEN reg[n] ELSE <<>>
        BY <2>6
      <4>3. OfType(seqs[k + 1], n) = IF Rank(D, n) = k THEN reg[n] ELSE <<>>
        BY <2>3, <3>1
      <4>4. reg[n] \o <<>> = reg[n] /\ <<>> \o reg[n] = reg[n] /\ <<>> \o <<>> = <<>>
        BY <1>4, ConcatEmptySeq, EmptySeq
      <4>5. Rank(D, n) \in Nat
        BY <2>4
      <4>6. CASE Rank(D, n) < k
        <5>1. Rank(D, n) # k /\ Rank(D, n) < k + 1
          BY <4>5, <4>6
        <5> QED
          BY <4>1, <4>2, <4>3, <4>4, <4>6, <5>1
      <4>7. CASE Rank(D, n) = k
        <5>1. ~ (Rank(D, n) < k) /\ Rank(D, n) < k + 1
          BY <4>5, <4>7
        <5> QED
          BY <4>1, <4>2, <4>3, <4>4, <4>7, <5>1
      <4>8. CASE ~ (Rank(D, n) < k + 1)
        <5>1. ~ (Rank(D, n) < k) /\ Rank(D, n) # k
          BY <4>5, <4>8
        <5> QED
          BY <4>1, <4>2, <4>3, <4>4, <4>8, <5>1
      <4> QED
        BY <4>5, <4>6, <4>7, <4>8
    <3> QED
      BY <3>4, <3>6, <3>7
  <2> DEFINE T == {k \in Nat : k + 1 \in 1 .. N => Prefix(k + 1)}
  <2> HIDE DEF Prefix
  <2>7. 0 \in T
    BY <2>5
  <2>8. ASSUME NEW k \in Nat, k \in T PROVE k + 1 \in T
    <3>1. CASE (k + 1) + 1 \in 1 .. N
      <4>1. k + 1 \in 1 .. N - 1 /\ k + 1 \in 1 .. N
        BY <3>1, <2>1
      <4>2. Prefix((k + 1) + 1)
        BY <2>6, <2>8, <4>1
      <4> QED
        BY <4>2
    <3>2. CASE ~ ((k + 1) + 1 \in 1 .. N)
      BY <3>2
    <3> QED
      BY <3>1, <3>2
  <2>9. N - 1 \in T
    <3>1. N - 1 \in Nat
      BY <2>1
    <3> HIDE DEF T
    <3> QED
      BY <2>7, <2>8, <3>1, SetInduction
  <2>10. Prefix(N)
    <3>1. N - 1 \in Nat /\ (N - 1) + 1 = N /\ N \in 1 .. N
      BY <2>1
    <3> QED
      BY <2>9, <3>1
  <2>11. f[N] = L
    BY <1>1, <2>2
  <2>12. L \in Seq(Service) /\ \A s \in Contents(L) : s.service_name \in D
    BY <2>10, <2>11 DEF Prefix
  <2>13. ASSUME NEW n \in D PROVE OfType(L, n) = reg[n]
    <3>1. Rank(D, n) < N
      BY <2>1, <2>4
    <3> QED
      BY <2>10, <2>11, <3>1 DEF Prefix
  <2>14. NamesIn(L) \subseteq D
    BY <2>12 DEF NamesIn, Contents
  <2> QED
    BY <2>12, <2>13, <2>14 DEF D, L
<1> QED
  BY <1>7, <1>8

\* Setting the list of a map gives the map back, without the types that have
\* no instances.
LEMMA ListGivesMapBack ==
    ASSUME NEW reg, IsRegistry(reg), KeyedByType(reg)
    PROVE  RegistryOfList(getServiceList(reg)) = [n \in NonEmptyKeys(reg) |-> reg[n]]
<1> DEFINE L == getServiceList(reg)
           new == RegistryOfList(L)
<1>1. /\ L \in Seq(Service) /\ NamesIn(L) \subseteq DOMAIN reg
      /\ \A n \in DOMAIN reg : OfType(L, n) = reg[n]
  BY ListContents
<1> HIDE DEF L
<1>2. /\ new = [n \in NamesIn(L) |-> new[n]]
      /\ \A n \in NamesIn(L) : new[n] = <<>> \o OfType(L, n)
  BY DEF RegistryOfList, PushAll, EmptyRegistry, InstancesOf, OfType
<1> HIDE DEF new
<1>3. \A n \in NamesIn(L) : new[n] = reg[n]
  <2> TAKE n \in NamesIn(L)
  <2>1. n \in DOMAIN reg /\ reg[n] \in Seq(Service)
    BY <1>1 DEF IsRegistry
  <2>2. <<>> \o reg[n] = reg[n]
    BY <2>1, ConcatEmptySeq
  <2> QED
    BY <1>1, <1>2, <2>1, <2>2
<1>4. ASSUME NEW n \in DOMAIN reg PROVE n \in NamesIn(L) <=> reg[n] # <<>>
  <2> DEFINE I == {i \in DOMAIN L : L[i].service_name = n}
  <2>1. I \in SUBSET DOMAIN L
    OBVIOUS
  <2>2. n \in NamesIn(L) <=> I # {}
    BY DEF NamesIn
  <2>3. OfType(L, n) = Pick(L, I)
    BY DEF OfType
  <2>4. Pick(L, I) = <<>> <=> I = {}
    BY <1>1, <2>1, PickEmpty
  <2> QED
    BY <1>1, <2>2, <2>3, <2>4
<1>5. NamesIn(L) = NonEmptyKeys(reg)
  BY <1>1, <1>4 DEF NonEmptyKeys
<1>6. new = [n \in NonEmptyKeys(reg) |-> reg[n]]
  BY <1>2, <1>3, <1>5
<1> QED
  BY <1>6 DEF new, L

\* Every call puts a service into the vector of its own type.
LEMMA KeyedKeeps ==
    ASSUME RegistryInvariant, KeyedByType(registry), [Next]_vars
    PROVE  KeyedByType(registry')
<1>1. IsRegistry(registry)
  BY DEF RegistryInvariant, TypeOK
<1>2. ASSUME NEW reg, IsRegistry(reg), KeyedByType(reg), NEW services \in Seq(Service)
      PROVE  KeyedByType(PushAll(reg, services))
  <2> DEFINE new == PushAll(reg, services)
  <2>1. \A n \in DOMAIN new : Contents(new[n]) =
           Contents(InstancesOf(reg, n)) \cup {s \in Contents(services) : s.service_name = n}
    BY <1>2, PushProperties
  <2>2. \A n : \A s \in Contents(InstancesOf(reg, n)) : s.service_name = n
    BY <1>2 DEF KeyedByType, InstancesOf, Contents
  <2> HIDE DEF new
  <2>3. KeyedByType(new)
    BY <2>1, <2>2 DEF KeyedByType
  <2> QED
    BY <2>3 DEF new
<1>3. ASSUME NEW request \in RegisterRequests, RegisterService(request)
      PROVE  KeyedByType(registry')
  <2>1. request \in Service /\ <<request>> \in Seq(Service)
    BY InputsAssumption, SingleProperties
  <2>2. registry' = registry \/ registry' = PushAll(registry, <<request>>)
    BY <1>3 DEF RegisterService, RegisterRejected, RegisterAccepted
  <2> QED
    BY <1>1, <1>2, <2>1, <2>2
<1>4. ASSUME NEW request \in DeregisterRequests, DeregisterService(request)
      PROVE  KeyedByType(registry')
  <2> DEFINE n == request.service_name
             id == request.instance_id
             new == WithoutInstance(registry, n, id)
  <2>1. n \in ServiceNames
    BY InputsAssumption
  <2> HIDE DEF n, id
  <2>2. /\ DOMAIN new = DOMAIN registry \cup {n}
        /\ \A m \in DOMAIN registry : m # n => new[m] = registry[m]
        /\ \A s \in Contents(new[n]) : s \in Contents(InstancesOf(registry, n))
    BY <1>1, <2>1, WithoutProperties
  <2>3. \A s \in Contents(InstancesOf(registry, n)) : s.service_name = n
    BY DEF KeyedByType, InstancesOf, Contents
  <2>4. registry' = new
    BY <1>4 DEF DeregisterService, n, id
  <2> HIDE DEF new
  <2>5. KeyedByType(new)
    BY <2>2, <2>3 DEF KeyedByType
  <2> QED
    BY <2>4, <2>5
<1>5. ASSUME NEW id \in InstanceIds, HeartBeat(id) PROVE KeyedByType(registry')
  <2> DEFINE new == Revived(registry, id)
  <2>1. /\ DOMAIN new = DOMAIN registry
        /\ \A n \in DOMAIN registry :
              /\ DOMAIN new[n] = DOMAIN registry[n]
              /\ \A i \in DOMAIN registry[n] :
                    \/ new[n][i] = registry[n][i]
                    \/ new[n][i] = [registry[n][i] EXCEPT !.is_alive = TRUE]
    BY <1>1, RevivedProperties
  <2>2. \A n \in DOMAIN registry : \A i \in DOMAIN registry[n] :
           registry[n][i] \in Service /\ registry[n][i].service_name = n
    <3> TAKE n \in DOMAIN registry
    <3> TAKE i \in DOMAIN registry[n]
    <3>1. registry[n] \in Seq(Service)
      BY <1>1 DEF IsRegistry
    <3>2. registry[n][i] \in Service
      BY <3>1, LenProperties, ElementOfSeq
    <3> QED
      BY <3>2 DEF KeyedByType, Contents
  <2>3. \A s \in Service : [s EXCEPT !.is_alive = TRUE].service_name = s.service_name
    BY DEF Service
  <2>4. registry' = new
    BY <1>5 DEF HeartBeat
  <2> HIDE DEF new
  <2>5. ASSUME NEW n \in DOMAIN registry, NEW i \in DOMAIN registry[n]
        PROVE  new[n][i].service_name = n
    <3>1. registry[n][i] \in Service /\ registry[n][i].service_name = n
      BY <2>2
    <3>2. CASE new[n][i] = registry[n][i]
      BY <3>1, <3>2
    <3>3. CASE new[n][i] = [registry[n][i] EXCEPT !.is_alive = TRUE]
      BY <2>3, <3>1, <3>3
    <3> QED
      BY <2>1, <3>2, <3>3
  <2> QED
    BY <2>1, <2>4, <2>5 DEF KeyedByType, Contents
<1>6. ASSUME NEW services \in InitialLists, Initialize(services) PROVE KeyedByType(registry')
  BY <1>1, <1>2, <1>6, InputsAssumption DEF Initialize
<1>7. ASSUME NEW services \in ServiceLists, SetServiceList(services) PROVE KeyedByType(registry')
  <2>1. IsRegistry(EmptyRegistry) /\ KeyedByType(EmptyRegistry)
    BY DEF IsRegistry, KeyedByType, EmptyRegistry
  <2> QED
    BY <1>2, <1>7, <2>1, InputsAssumption DEF SetServiceList, RegistryOfList
<1>8. ASSUME NEW msg \in RemoteMessages, DeserializeAndSetServices(msg)
      PROVE  KeyedByType(registry')
  <2> DEFINE new == deserializeAndSetServices(registry, msg)
  <2>1. IsRegistry(msg) /\ KeyedByType(msg)
    BY InputsAssumption
  <2>2. \A n \in DOMAIN new :
           new[n] = IF n \in Carried(msg) THEN Received(InstancesOf(registry, n), msg[n])
                                          ELSE registry[n]
    BY DEF deserializeAndSetServices
  <2>3. DOMAIN new = DOMAIN registry \cup Carried(msg)
    BY DEF deserializeAndSetServices
  <2>4. registry' = new
    BY <1>8 DEF DeserializeAndSetServices
  <2> HIDE DEF new
  <2>5. ASSUME NEW n \in Carried(msg) PROVE \A s \in Contents(new[n]) : s.service_name = n
    <3> DEFINE old == InstancesOf(registry, n)
               J == {k \in DOMAIN msg[n] :
                       \A j \in DOMAIN msg[n] : j > k => msg[n][j].nodeId # msg[n][k].nodeId}
    <3>1. old \in Seq(Service) /\ msg[n] \in Seq(Service) /\ n \in DOMAIN msg
      BY <1>1, <2>1, InstancesProperties DEF IsRegistry, Carried
    <3>2. Contents(new[n]) =
            {s \in Contents(old) : \A t \in Contents(msg[n]) : t.nodeId # s.nodeId}
            \cup {msg[n][i] : i \in J}
      BY <2>2, <2>3, <3>1, ReceivedProperties
    <3>3. \A s \in Contents(old) : s.service_name = n
      BY DEF KeyedByType, InstancesOf, Contents
    <3>4. \A i \in J : msg[n][i].service_name = n
      BY <2>1, <3>1 DEF KeyedByType, Contents
    <3> HIDE DEF old, J
    <3> QED
      BY <3>2, <3>3, <3>4
  <2>6. KeyedByType(new)
    BY <2>2, <2>3, <2>5 DEF KeyedByType
  <2> QED
    BY <2>4, <2>6
<1>9. CASE UNCHANGED registry
  BY <1>9
<1>10. ASSUME \/ \E request \in FindRequests : FindService(request)
              \/ \E node \in Nodes : RegisterNode(node)
              \/ \E remote \in RemoteTrees : CompareAndSyncTree(remote)
              \/ UNCHANGED vars
       PROVE  UNCHANGED registry
  BY <1>10 DEF FindService, RegisterNode, CompareAndSyncTree, vars
<1> QED
  BY <1>3, <1>4, <1>5, <1>6, <1>7, <1>8, <1>9, <1>10 DEF Next, handleRequest

\* Whatever was registered, deregistered or received: setting the list that the
\* registry returns gives the registry back, but for types without instances.
THEOREM ListsRoundTrip == Spec => []ListRoundTrip
<1> DEFINE Keyed == KeyedByType(registry)
<1>1. Init => Keyed
  BY DEF Init, KeyedByType, EmptyRegistry
<1>2. RegistryInvariant /\ Keyed /\ [Next]_vars => Keyed'
  BY KeyedKeeps
<1>3. RegistryInvariant /\ Keyed => ListRoundTrip
  BY ListGivesMapBack DEF RegistryInvariant, TypeOK, ListRoundTrip
<1> QED
  BY <1>1, <1>2, <1>3, RegistryInvariance, PTL DEF Spec
=============================================================================
