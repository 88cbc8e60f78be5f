SPECIFICATION Spec
CONSTANTS
  node1 = node1
  node2 = node2
  service1 = service1
  service2 = service2
  service3 = service3
  illegal = illegal
  MaxInstances = 2
  ServiceNames <- MCServiceNames
  NodeIds <- MCNodeIds
  InstanceIds <- MCInstanceIds
  ValidUUIDs <- MCValidUUIDs
  Nodes <- MCNodes
  InitialNodes <- MCInitialNodes
  RegisterRequests <- MCRegisterRequests
  DeregisterRequests <- MCDeregisterRequests
  FindRequests <- MCFindRequests
  InitialLists <- MCInitialLists
  ServiceLists <- MCServiceLists
  RemoteTrees <- MCRemoteTrees
  RemoteMessages <- MCRemoteMessages
PROPERTIES
  ReportedTypesOwnLeaves
