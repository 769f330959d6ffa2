\* The schema of the specification, whose parts are all reached by "$ref".
SPECIFICATION Spec
CONSTANTS
  Home = home
  SchemaDir = spec
  Null = none
  IllTyped = ill
  Files <- SpecFiles
  Calls <- ConvertCalls
  Modulus = 1024
  IntMax = 4
  Schemas <- AllSchemas
  Documents <- AllDocuments
  SchemaDepth <- Depth
  DocumentDepth <- DepthOf
  Validation <- ValidateField
INVARIANT
  AcceptedIsValid
