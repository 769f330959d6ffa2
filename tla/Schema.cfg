\* Schemas and documents that combine the keywords, read from a file or given.
SPECIFICATION Spec
CONSTANTS
  Home = home
  SchemaDir = spec
  Null = none
  IllTyped = ill
  Files <- SpecFiles
  Calls <- AllCalls
  Modulus = 1024
  IntMax = 4
  Schemas <- AllSchemas
  Documents <- AllDocuments
  SchemaDepth <- Depth
  DocumentDepth <- DepthOf
  Validation <- ValidateField
INVARIANTS
  TypeOK
  CwdRestored
  AgreesWithoutRefs
  RejectionsSound
