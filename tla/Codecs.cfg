CONSTANTS
  ArmHeaderSize = 5
  ArmInfoSize = 3
  ArmContextSize = 2
  ArmRegisterTypes = {0, 8}
  ArmRegisterSize <- MCArmRegisterSize
  ArmContextResidue <- MCArmResidue
  ArmRandomHeaders <- MCArmRandomHeaders
  X64HeaderSize = 5
  X64InfoSize = 3
  X64ContextSize = 2
  X64RegisterSize <- MCX64RegisterSize
  X64ContextResidue <- MCX64Residue
  X64RandomHeaders <- MCX64RandomHeaders
  RecordHeaderSize = 4
  SlotSize = 2
  FruTextSize = 3
  BrandStringSize = 2
  SignatureSize = 2
  IntBits = 4
  CcixHeaderSize = 2
  CxlHeaderSize = 3
  Starts <- AllStarts
SPECIFICATION Spec
INVARIANTS
  ArmStructuresFound
  ArmLayoutKept
  ArmOpaqueSectionsKept
  X64BinaryEqual
  X64EndReached
  X64GeneratedWellFormed
  RecordFieldsKept
  RecordFieldsSettled
  TimestampFits
  SectionsKept
  SectionsSettled
  FailuresContained
  GeneratedSectionsKept
