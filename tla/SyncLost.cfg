SPECIFICATION FairSpec
CONSTANTS
  Node1 = node1
  Node2 = node2
  node3 = node3
  service1 = service1
  service2 = service2
  service3 = service3
  ServiceNames <- MCServiceNames
  NodeIds <- MCNodeIds
  InstanceIds <- MCInstanceIds
  InitialLists <- RepeatedLists
INVARIANTS
  EveryServiceReceived
