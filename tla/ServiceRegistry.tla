--------------------------- MODULE ServiceRegistry ---------------------------
(***************************************************************************)
(* One ServiceRegistry and everything its owner can call on it: the        *)
(* requests that handleRequest passes on (register, deregister, find,      *)
(* heartbeat), registerNode, setServiceList, the comparison with another   *)
(* registry's tree, and the services received from another registry.       *)
(*                                                                         *)
(* handleRequest is meant to be called from the DDS callback, so calls come *)
(* in any order; each runs to completion.  An exception leaves a call      *)
(* through the response "exception".  A position on the map is a number,   *)
(* a distance the difference of two; that is all findService uses of the   *)
(* coordinates.                                                            *)
(***************************************************************************)
EXTENDS RegistryData, SequencesExt

CONSTANTS
    ValidUUIDs,         \* the instance ids isValidUUID accepts
    Nodes,              \* [nodeId, position]: arguments of registerNode
    RegisterRequests,   \* services as ServiceRegisterRequest describes them
    DeregisterRequests, \* [service_name, instance_id]
    FindRequests,       \* [segments, method, mode, location]
    InitialLists,       \* arguments of initialize
    ServiceLists,       \* arguments of setServiceList
    RemoteTrees,        \* trees of other registries
    RemoteMessages,     \* what other registries serialise for this one
    InitialNodes,       \* the positions of the nodes initialize adds
    MaxInstances        \* bound: instances of a type

ASSUME InputsAssumption ==
    /\ ValidUUIDs \subseteq InstanceIds
    /\ RegisterRequests \subseteq Service
    /\ \A request \in DeregisterRequests : request.service_name \in ServiceNames
    /\ \A request \in FindRequests : request.location \in Nat
    /\ DOMAIN InitialNodes \subseteq NodeIds
    /\ \A id \in DOMAIN InitialNodes : InitialNodes[id] \in Nat
    /\ \A node \in Nodes : node.nodeId \in NodeIds /\ node.position \in Nat
    /\ \A l \in InitialLists \cup ServiceLists : l \in Seq(Service)
    /\ \A t \in RemoteTrees : t \in Seq(Seq(Digest))
    /\ \A msg \in RemoteMessages : IsRegistry(msg) /\ KeyedByType(msg)

VARIABLES registry, tree, nodeList, response

vars == <<registry, tree, nodeList, response>>

STATUS_SUCCESS == 200
STATUS_NOT_FOUND == 404
STATUS_ERROR == 500

\* What a call returns: nothing, the status of a Response, the service in a
\* FindServiceResponse, the types of compareAndSyncTree, or an exception.
NoResponse == [returned |-> "nothing"]
Status(s) == [returned |-> "status", status |-> s]
Found(s) == [returned |-> "service", status |-> STATUS_SUCCESS, service |-> s]
Changed(names) == [returned |-> "types", types |-> names]
Exception == [returned |-> "exception"]

TypeOK ==
    /\ IsRegistry(registry)
    /\ tree \in Seq(Seq(Digest))
    /\ DOMAIN nodeList \subseteq NodeIds
    /\ \A node \in DOMAIN nodeList : nodeList[node] \in Nat
    /\ \/ response \in {NoResponse, Exception}
       \/ response \in {Status(s) : s \in {STATUS_SUCCESS, STATUS_NOT_FOUND, STATUS_ERROR}}
       \/ response \in {Found(s) : s \in Service}
       \/ response \in {Changed(names) : names \in SUBSET ServiceNames}

-----------------------------------------------------------------------------
(* Lists.                                                                  *)

\* Mutant of getServiceList: the loop ends one key early.
getServiceList_NoLast(reg) ==
    FlattenSeq([k \in 1 .. Cardinality(DOMAIN reg) - 1 |-> reg[Nth(DOMAIN reg, k - 1)]])

\* All services, type by type in key order.
getServiceList(reg) ==
    FlattenSeq([k \in 1 .. Cardinality(DOMAIN reg) |-> reg[Nth(DOMAIN reg, k - 1)]])

\* registry.clear() and one push_back for each service.
RegistryOfList(services) == PushAll(EmptyRegistry, services)

-----------------------------------------------------------------------------
(* Where the instances are.                                                *)

\* A default Node is at 0; nodeList[id] creates one for an unknown id.
DefaultPosition == 0

PositionOf(nodes, node) ==
    IF node \in DOMAIN nodes THEN nodes[node] ELSE DefaultPosition

\* Looking a position up leaves the node in nodeList.
LookedUp(nodes, looked) ==
    [node \in DOMAIN nodes \cup looked |-> PositionOf(nodes, node)]

Distance(a, b) == IF a < b THEN b - a ELSE a - b

\* The node of the first service with this instance id, in key order: the one
\* whose position findServiceLocation takes for the instance's.
InstanceNode(reg, id) ==
    LET n == Nth({m \in DOMAIN reg : IndexesOf(reg, m, id) # {}}, 0)
    IN  reg[n][Nth(IndexesOf(reg, n, id), 0)].nodeId

AliveIndexes(reg, n) ==
    {i \in DOMAIN InstancesOf(reg, n) : InstancesOf(reg, n)[i].is_alive}

\* Mutant of Candidates: the nearest of all instances, alive or not.
Candidates_Dead(reg, nodes, n, mode, location) ==
    LET Score(i) == Distance(location, PositionOf(nodes, InstanceNode(reg, reg[n][i].instance_id)))
    IN  {i \in DOMAIN InstancesOf(reg, n) :
            \A j \in DOMAIN InstancesOf(reg, n) : Score(i) <= Score(j)}

\* The indexes of the instances findService may choose: in mode 0 the first of
\* the alive ones at the smallest distance; in mode 1, where the response time
\* is a random number, any alive one; in another mode none.
Candidates(reg, nodes, n, mode, location) ==
    LET Alive == AliveIndexes(reg, n)
        Score(i) == Distance(location, PositionOf(nodes, InstanceNode(reg, reg[n][i].instance_id)))
    IN  CASE mode = 0 -> {i \in Alive : \A j \in Alive :
                             Score(i) < Score(j) \/ (Score(i) = Score(j) /\ i <= j)}
          [] mode = 1 -> Alive
          [] OTHER -> {}

\* The nodes whose position a find in this mode looks up.
NodesLookedUp(reg, n, mode) ==
    IF mode = 0
    THEN {InstanceNode(reg, reg[n][i].instance_id) : i \in AliveIndexes(reg, n)}
    ELSE {}

-----------------------------------------------------------------------------
(* The calls.                                                              *)

RegisterNode(node) ==
    /\ nodeList' = [id \in DOMAIN nodeList \cup {node.nodeId} |->
                       IF id = node.nodeId THEN node.position ELSE nodeList[id]]
    /\ response' = NoResponse
    /\ UNCHANGED <<registry, tree>>

RegisterRejected(request) ==
    /\ request.instance_id \notin ValidUUIDs
    /\ response' = Status(STATUS_ERROR)
    /\ UNCHANGED registry

\* MaxInstances bounds the vector; the code has no bound.
RegisterAccepted(request) ==
    /\ request.instance_id \in ValidUUIDs
    /\ Len(InstancesOf(registry, request.service_name)) < MaxInstances
    /\ registry' = PushAll(registry, <<request>>)
    /\ response' = Status(STATUS_SUCCESS)

RegisterService(request) ==
    /\ RegisterRejected(request) \/ RegisterAccepted(request)
    /\ UNCHANGED <<tree, nodeList>>

DeregisterService(request) ==
    LET n == request.service_name
    IN  /\ registry' = WithoutInstance(registry, n, request.instance_id)
        /\ response' = IF Len(InstancesOf(registry', n)) = Len(InstancesOf(registry, n))
                       THEN Status(STATUS_NOT_FOUND)
                       ELSE Status(STATUS_SUCCESS)
        /\ UNCHANGED <<tree, nodeList>>

FindMalformed(request) ==
    /\ request.segments < 3
    /\ response' = Status(STATUS_ERROR)
    /\ UNCHANGED nodeList

FindAmong(request) ==
    LET chosen == Candidates(registry, nodeList, request.method, request.mode, request.location)
        looked == NodesLookedUp(registry, request.method, request.mode)
    IN  /\ request.segments >= 3
        /\ \/ \E i \in chosen : response' = Found(registry[request.method][i])
           \/ chosen = {} /\ response' = Status(STATUS_NOT_FOUND)
        /\ nodeList' = LookedUp(nodeList, looked)

FindService(request) ==
    /\ FindMalformed(request) \/ FindAmong(request)
    /\ UNCHANGED <<registry, tree>>

\* An unknown instance gets the same answer.
HeartBeat(id) ==
    /\ registry' = Revived(registry, id)
    /\ response' = Status(STATUS_SUCCESS)
    /\ UNCHANGED <<tree, nodeList>>

\* tree = merkle::Tree(), and a leaf for each type that has instances.  The last
\* thing a rebuild does is to ask for the root: of a tree without leaves there is
\* none, and the call throws with all its changes made.
Rebuild ==
    /\ tree' = buildMerkleTree(registry')
    /\ response' = IF tree' = <<>> THEN Exception ELSE NoResponse

SetServiceList(services) ==
    /\ registry' = RegistryOfList(services)
    /\ Rebuild
    /\ UNCHANGED nodeList

\* initialize adds the nodes it knows itself, and the services to those there.
\* MaxInstances bounds the vectors.
Initialize(services) ==
    /\ registry' = PushAll(registry, services)
    /\ \A n \in NamesIn(services) : Len(registry'[n]) <= MaxInstances
    /\ nodeList' = [id \in DOMAIN nodeList \cup DOMAIN InitialNodes |->
                       IF id \in DOMAIN InitialNodes THEN InitialNodes[id] ELSE nodeList[id]]
    /\ Rebuild

CompareReturns(remote) ==
    /\ ~ComparisonThrows(tree, remote)
    /\ response' = Changed(compareAndSyncTree(registry, tree, remote))

CompareThrows(remote) ==
    /\ ComparisonThrows(tree, remote)
    /\ response' = Exception

CompareAndSyncTree(remote) ==
    /\ CompareReturns(remote) \/ CompareThrows(remote)
    /\ UNCHANGED <<registry, tree, nodeList>>

\* A message without services changes nothing.
DeserializeAndSetServices(msg) ==
    /\ Carried(msg) # {}
    /\ registry' = deserializeAndSetServices(registry, msg)
    /\ Rebuild
    /\ UNCHANGED nodeList

-----------------------------------------------------------------------------

\* The constructor.
Init ==
    /\ registry = EmptyRegistry
    /\ tree = <<>>
    /\ nodeList = [node \in {} |-> DefaultPosition]
    /\ response = NoResponse

handleRequest ==
    \/ \E request \in RegisterRequests : RegisterService(request)
    \/ \E request \in DeregisterRequests : DeregisterService(request)
    \/ \E request \in FindRequests : FindService(request)
    \/ \E id \in InstanceIds : HeartBeat(id)

Next ==
    \/ handleRequest
    \/ \E node \in Nodes : RegisterNode(node)
    \/ \E services \in InitialLists : Initialize(services)
    \/ \E services \in ServiceLists : SetServiceList(services)
    \/ \E remote \in RemoteTrees : CompareAndSyncTree(remote)
    \/ \E msg \in RemoteMessages : DeserializeAndSetServices(msg)

Spec == Init /\ [][Next]_vars

-----------------------------------------------------------------------------
(***************************************************************************)
(* Properties that hold.                                                   *)
(***************************************************************************)

\* Every leaf index is a valid position in the map, although requests change
\* the map and not the tree: advancing to the key of an inconsistent leaf
\* never passes the end (compareAndSyncTree).
LeavesWithinKeys == Len(tree) <= Cardinality(DOMAIN registry)

\* Setting the list a registry returns gives the registry back, but for the
\* types without instances (getServiceList, setServiceList).
ListRoundTrip ==
    RegistryOfList(getServiceList(registry)) = [n \in NonEmptyKeys(registry) |-> registry[n]]

\* Services with the same instance id run on the same node.
OneNodePerInstance ==
    \A m, n \in DOMAIN registry : \A s \in Contents(registry[m]), t \in Contents(registry[n]) :
        s.instance_id = t.instance_id => s.nodeId = t.nodeId

\* In mode 0 a find returns an instance of the type that is alive and as near
\* as any alive one, by the positions of the nodes they run on, although
\* findServiceLocation looks the position up by the instance id alone.
NearestIsFound ==
    [][\A request \in FindRequests :
          /\ FindService(request)
          /\ OneNodePerInstance
          /\ request.mode = 0
          /\ response'.returned = "service"
          =>  LET n == request.method
                  DistanceTo(s) == Distance(request.location, PositionOf(nodeList, s.nodeId))
                  candidates == {s \in Contents(registry[n]) : s.is_alive}
              IN  /\ response'.service \in candidates
                  /\ \A s \in candidates : DistanceTo(response'.service) <= DistanceTo(s)]_vars

\* A heartbeat revives the instance in every type that lists it, and changes
\* nothing else: no type, no other instance, and nobody dies.
HeartbeatRevives ==
    [][\A id \in InstanceIds : HeartBeat(id) =>
          /\ DOMAIN registry' = DOMAIN registry
          /\ \A n \in DOMAIN registry :
                /\ IndexesOf(registry, n, id) # {} =>
                      \E s \in Contents(registry'[n]) : s.instance_id = id /\ s.is_alive
                /\ DOMAIN registry'[n] = DOMAIN registry[n]
                /\ \A i \in DOMAIN registry[n] :
                      \/ registry'[n][i] = registry[n][i]
                      \/ /\ registry[n][i].instance_id = id
                         /\ registry'[n][i] = [registry[n][i] EXCEPT !.is_alive = TRUE]]_vars

\* What a type's vector lists besides the instance of a request.
Others(v, n, request) ==
    Pick(v, {i \in DOMAIN v : n # request.service_name \/ v[i].instance_id # request.instance_id})

\* Deregistering an instance keeps every other instance, in its order.
DeregisterKeepsOthers ==
    [][\A request \in DeregisterRequests : DeregisterService(request) =>
          \A n \in DOMAIN registry :
              Others(registry'[n], n, request) = Others(registry[n], n, request)]_vars

(***************************************************************************)
(* A property the code's comments state, which does not hold.              *)
(***************************************************************************)

\* The types a comparison reports are those whose leaves differ.  The digest of
\* a leaf starts with the type it was built from.
ReportedTypesOwnLeaves ==
    [][\A remote \in RemoteTrees : CompareReturns(remote) /\ UNCHANGED registry =>
          response'.types =
              {tree[i + 1][1][1] : i \in findInconsistentLeaves(tree, remote)}]_vars
=============================================================================
