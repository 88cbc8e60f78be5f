SPECIFICATION Spec
CONSTANTS
  TypeNames <- MCTypeNames
  Catalog <- MCCatalog
  MaxServices = 3
  BitXor <- MCBitXor
INVARIANTS
  MessageRoundTrip
  TreeRoundTrip
  DigestsMakeLeaves
  DigestsAsNoted
PROPERTIES
  ChangeChangesLeaf
