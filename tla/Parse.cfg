CONSTANTS
  HeaderSize = 2
  DescriptorSize = 2
  MaxStream = 9
  Arm = Arm
  Ipf = Ipf
  Types <- MCTypes
  Table <- MCTable
  Inputs <- ReadInputs
SPECIFICATION Spec
INVARIANTS
  TypeOK
  ArraysInStep
  DescriptorsFromTableUntilFailure
  SectionsAsDescribed
PROPERTY
  ImplementsReader
