CONSTANTS
  HeaderSize = 3
  DescriptorSize = 2
  MaxStream = 14
  Pcie = Pcie
  PciBus = PciBus
  Other = Other
  Types <- MCTypes
  Table <- MCTable
  CodecSize <- MCCodecSize
  NullUnsafe = {PciBus}
  Residue <- MCResidue
  Inputs <- ContiguousInputs
  IRs <- MCIRs
SPECIFICATION ConvertSpec
INVARIANTS
  TypeOK
  DescriptorsInSlots
  SectionsWhereDescribed
  WholeRecordWritten
  RefusedFileKept
  RoundTripPreserves
PROPERTY
  TripEnds
