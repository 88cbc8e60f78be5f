---------------------------- MODULE MCMembership ----------------------------
(* Instances of Membership for TLC. *)
EXTENDS Membership

CONSTANTS service1, service2, service3

AuthenticationService == 1
DataService == 2

MCServiceNames == {AuthenticationService, DataService}
MCNodeIds == {Node1, Node2}
MCInstanceIds == {service1, service2, service3}

Entry(n, id, node) ==
    [service_name |-> n, instance_id |-> id, nodeId |-> node, is_alive |-> TRUE]

\* A formation may lose its only service, and register another: of the same
\* type, or of one the other formation has, or of one that nobody has.
MCInitialLists ==
    {<<Entry(DataService, service1, Node1), Entry(DataService, service2, Node2)>>}

MCJoining ==
    {Entry(AuthenticationService, service3, Node1), Entry(DataService, service2, Node2)}
=============================================================================
