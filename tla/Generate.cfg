CONSTANTS
  HeaderSize = 5
  DescriptorSize = 2
  Fixed = Fixed
  Variable = Variable
  Unknown = Unknown
  Undefined = Undefined
  FixedGuid = FixedGuid
  VariableGuid = VariableGuid
  Types <- MCTypes
  Names <- MCNames
  Lengths <- MCLengths
  Guids <- MCGuids
  Requests <- AllRequests
SPECIFICATION Spec
INVARIANTS
  TypeOK
  SectionsWhereDescribed
  DescriptorsInSlots
  RecordLengthExact
  WrittenRecordsContiguous
