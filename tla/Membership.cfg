SPECIFICATION MemberSpec
CONSTANTS
  Node1 = node1
  Node2 = node2
  service1 = service1
  service2 = service2
  service3 = service3
  ServiceNames <- MCServiceNames
  NodeIds <- MCNodeIds
  InstanceIds <- MCInstanceIds
  InitialLists <- MCInitialLists
  Joining <- MCJoining
  MaxRequests = 3
INVARIANTS
  ViewsExplained
  LeavesWithinKeys
PROPERTIES
  OnlySelfChangesOwn
  OnlyMeanwhileUndone
CHECK_DEADLOCK FALSE
