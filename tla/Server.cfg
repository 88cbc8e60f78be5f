SPECIFICATION FairSpec
CONSTANTS
  Batches <- MCBatches
INVARIANTS
  TypeOK
  ReferencesLive
PROPERTIES
  ImplementsRequestReply
