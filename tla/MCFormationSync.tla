--------------------------- MODULE MCFormationSync ---------------------------
(* Instances of FormationSync for TLC.                                     *)
EXTENDS FormationSync

CONSTANTS node3, service1, service2, service3

\* The types of main.cpp in the order of the map keys.
AuthenticationService == 1
DataService == 2
LoggingService == 3

MCServiceNames == 1 .. 3
MCNodeIds == {Node1, Node2, node3}
MCInstanceIds == {service1, service2, service3}

Entry(n, id, node) ==
    [service_name |-> n, instance_id |-> id, nodeId |-> node, is_alive |-> TRUE]

\* The list of main.cpp, with every choice of the nodes the services run on.
ExclusiveLists ==
    {<<Entry(DataService, service1, a),
       Entry(AuthenticationService, service2, b),
       Entry(LoggingService, service3, c)>> : a, b, c \in MCNodeIds}

\* A type offered by both nodes next to one offered by one of them.
SharedLists ==
    {<<Entry(DataService, service1, a),
       Entry(LoggingService, service2, b),
       Entry(DataService, service3, c)>> :
          a \in MCNodeIds, b \in MCNodeIds, c \in MCNodeIds}

SpreadLists == {l \in SharedLists : OneInstancePerTypeAndNode(l)} \cup
    {<<Entry(DataService, service1, a), Entry(DataService, service2, b),
       Entry(DataService, service3, c)>> :
          <<a, b, c>> \in {<<Node1, Node2, node3>>, <<node3, Node2, Node1>>,
                           <<Node2, node3, Node1>>}}

\* No node offers a type twice.
SyncLists == ExclusiveLists \cup SpreadLists

\* A node may offer a type twice.
RepeatedLists == SharedLists \ SpreadLists

=============================================================================
