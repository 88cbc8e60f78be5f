-------------------------- MODULE MCServiceRegistry --------------------------
(* Instances of ServiceRegistry for TLC.                                   *)
EXTENDS ServiceRegistry

CONSTANTS node1, node2, service1, service2, service3, illegal

AuthenticationService == 1
DataService == 2

MCServiceNames == {AuthenticationService, DataService}
MCNodeIds == {node1, node2}
MCInstanceIds == {service1, service2, service3, illegal}
MCValidUUIDs == {service1, service2, service3}

Entry(n, id, node, alive) ==
    [service_name |-> n, instance_id |-> id, nodeId |-> node, is_alive |-> alive]

\* service1 runs on node1, service2 and service3 on node2; a second service may
\* register as service1 from node2.
MCNodes == {[nodeId |-> node2, position |-> 1]}
MCInitialNodes == (node1 :> 2) @@ (node2 :> 4)

MCRegisterRequests ==
    {Entry(DataService, service1, node1, FALSE),
     Entry(AuthenticationService, service1, node2, FALSE),
     Entry(AuthenticationService, illegal, node2, TRUE)}

MCDeregisterRequests ==
    {[service_name |-> n, instance_id |-> service1] : n \in MCServiceNames}

FindRequest(segments, n, mode, location) ==
    [segments |-> segments, method |-> n, mode |-> mode, location |-> location]

\* Modes 0 and 1 exist; another mode finds nothing.
MCFindRequests ==
    {FindRequest(1, DataService, 1, 0), FindRequest(3, DataService, 2, 0),
     FindRequest(3, DataService, 1, 0), FindRequest(3, DataService, 0, 0),
     FindRequest(3, DataService, 0, 3)}

\* The lists may be empty, and so may the tree of the other formation.
MCInitialLists == {<<>>,
                   <<Entry(DataService, service1, node1, TRUE),
                     Entry(AuthenticationService, service3, node2, TRUE)>>}

MCServiceLists == {<<>>, <<Entry(DataService, service1, node1, TRUE)>>}

MCRemoteTrees == {buildMerkleTree(RegistryOfList(l)) : l \in MCInitialLists}

MCRemoteMessages ==
    {[n \in {DataService} |-> <<Entry(DataService, service2, node2, TRUE)>>]}
=============================================================================
