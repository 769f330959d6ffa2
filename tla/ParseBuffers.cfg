CONSTANTS
  HeaderSize = 2
  DescriptorSize = 2
  MaxStream = 9
  Arm = Arm
  Ipf = Ipf
  Types <- MCTypes
  Table <- MCTable
  Inputs <- MemoryInputs
SPECIFICATION Spec
INVARIANT
  SectionsAsDescribed
