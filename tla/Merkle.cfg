SPECIFICATION Spec
CONSTANTS
  Hashes <- MCHashes
  MaxLeaves = 6
VIEW UpToAddresses
INVARIANTS
  TypeOK
  NodeInvariant
  MemoryExact
  CleanIsCurrent
  PathsVerify
  PastIsRetracted
  CopiesAgree
PROPERTIES
  ImplementsLeafSequence
