--------------------------- MODULE SectionProofs ---------------------------
(***************************************************************************)
(* What the converters and generators of SectionCodec do, section type by  *)
(* section type: the lemmas that CodecsProofs turns into theorems about    *)
(* every structure that is converted.                                      *)
(*                                                                         *)
(* For each type with structure d there are up to three lemmas: ...Inverse *)
(* (the IR of a plain d is written as d), ...Settles (what is written from *)
(* an IR is read as that IR) and ...Drawn (a generator's d is of its type, *)
(* and plain).                                                             *)
(***************************************************************************)
EXTENDS SectionCodec, TLAPS
----------------------------------------------------------------------------
(* Where Structure() and Tailed() put the structure and its data.          *)
LEMMA StructureLayout ==
  ASSUME NEW d
  PROVE  /\ Structure(d)[1].body = d
         /\ DataOf(Structure(d)) = <<>>
BY DEF Structure, Put, DataOf, End

LEMMA TailedLayout ==
  ASSUME NEW d, NEW data
  PROVE  /\ Tailed(d, data)[1].body = d
         /\ DataOf(Tailed(d, data)) = data
BY DEF Tailed, Structure, Put, DataOf, End

(* A byte of two decimal digits is the same after a trip through a number, *)
(* a number of two digits after one through BCD, and what int_to_bcd()     *)
(* makes of any byte has decimal digits.                                   *)
LEMMA BcdKept ==
  ASSUME NEW byte, byte \in 0..255, DecimalByte(byte)
  PROVE  int_to_bcd(bcd_to_int(byte)) = byte
BY DEF DecimalByte, int_to_bcd, bcd_to_int

LEMMA NumberKept ==
  ASSUME NEW number, number \in 0..99
  PROVE  bcd_to_int(int_to_bcd(number)) = number
BY DEF int_to_bcd, bcd_to_int

LEMMA NumberInBcd ==
  ASSUME NEW number, number \in 0..255
  PROVE  int_to_bcd(number) \in 0..255 /\ DecimalByte(int_to_bcd(number))
BY DEF int_to_bcd, DecimalByte

(* The error status that five section types have in common.                *)
LEMMA StatusInverse ==
  ASSUME NEW s, EFI_GENERIC_ERROR_STATUS(s), PlainStatus(s)
  PROVE  ir_generic_error_status_to_cper(cper_generic_error_status_to_ir(s)) = s
BY DEF EFI_GENERIC_ERROR_STATUS, HasMembers, PlainStatus,
       ir_generic_error_status_to_cper, cper_generic_error_status_to_ir

LEMMA StatusSettles ==
  ASSUME NEW s
  PROVE  LET r == cper_generic_error_status_to_ir(s)
         IN  cper_generic_error_status_to_ir(ir_generic_error_status_to_cper(r)) = r
BY DEF ir_generic_error_status_to_cper, cper_generic_error_status_to_ir

LEMMA StatusDrawn ==
  ASSUME NEW s, EFI_GENERIC_ERROR_STATUS(s)
  PROVE  /\ EFI_GENERIC_ERROR_STATUS(create_valid_error_section(s))
         /\ PlainStatus(create_valid_error_section(s))
BY DEF EFI_GENERIC_ERROR_STATUS, HasMembers, create_valid_error_section, PlainStatus
----------------------------------------------------------------------------
(* The generic processor section.                                          *)
LEMMA GenericInverse ==
  ASSUME NEW d, EFI_PROCESSOR_GENERIC_ERROR_DATA(d), PlainGeneric(d)
  PROVE  ir_section_generic_to_cper(cper_section_generic_to_ir(d, d.BrandString)) = d
BY DEF EFI_PROCESSOR_GENERIC_ERROR_DATA, HasMembers, PlainGeneric, Named, TextWritten,
       ir_section_generic_to_cper, cper_section_generic_to_ir

LEMMA GenericSettles ==
  ASSUME NEW d, NEW text, text < BrandStringSize
  PROVE  LET r == cper_section_generic_to_ir(d, text)
             o == ir_section_generic_to_cper(r)
         IN  o.BrandString = text /\ cper_section_generic_to_ir(o, text) = r
BY DEF Named, TextWritten, ir_section_generic_to_cper, cper_section_generic_to_ir

LEMMA GenericDrawn ==
  ASSUME NEW d, EFI_PROCESSOR_GENERIC_ERROR_DATA(d)
  PROVE  /\ EFI_PROCESSOR_GENERIC_ERROR_DATA(generate_section_generic(d))
         /\ PlainGeneric(generate_section_generic(d))
<1> DEFINE g == generate_section_generic(d)
<1>1. HasMembers(g, DOMAIN d)
  BY DEF EFI_PROCESSOR_GENERIC_ERROR_DATA, HasMembers, generate_section_generic
<1>2. /\ g.ValidFields = d.ValidFields \intersect 0..11
      /\ g.Flags = d.Flags \intersect 0..2
      /\ g.Resv1 = Zero /\ g.BrandString = BrandStringSize - 1
  BY DEF EFI_PROCESSOR_GENERIC_ERROR_DATA, HasMembers, generate_section_generic
<1>3. EFI_PROCESSOR_GENERIC_ERROR_DATA(g)
  BY <1>1, <1>2, SectionAssumption DEF EFI_PROCESSOR_GENERIC_ERROR_DATA, HasMembers
<1>4. PlainGeneric(g)
  BY <1>2, SectionAssumption DEF PlainGeneric
<1> QED
  BY <1>3, <1>4

(* The two memory sections.                                                *)
LEMMA BankInverse ==
  ASSUME NEW valid, NEW bank, Pair(bank)
  PROVE  BankOf(valid, BankIR(valid, bank)) = bank
BY DEF Pair, BankOf, BankIR

LEMMA BankSettles ==
  ASSUME NEW valid, NEW bank, NEW others, 5 \in valid <=> 5 \in others
  PROVE  LET r == BankIR(valid, bank)
         IN  BankIR(others, BankOf(others, r)) = r
BY DEF BankOf, BankIR

LEMMA ExtendedInverse ==
  ASSUME NEW extended \in SUBSET (0..7), extended \intersect 2..4 = {}
  PROVE  ExtendedOf(ExtendedIR(extended)) = extended
<1> DEFINE chip == {b - 5 : b \in extended \intersect 5..7}
<1>1. ASSUME NEW b
      PROVE  b \in {c + 5 : c \in chip} <=> b \in extended /\ b \in 5..7
  <2>1. ASSUME NEW c \in chip PROVE c + 5 \in extended /\ c + 5 \in 5..7
    OBVIOUS
  <2>2. ASSUME b \in {c + 5 : c \in chip} PROVE b \in extended /\ b \in 5..7
    BY <2>1, <2>2
  <2>3. ASSUME b \in extended, b \in 5..7 PROVE b \in {c + 5 : c \in chip}
    <3>1. b - 5 \in chip /\ b = (b - 5) + 5
      BY <2>3
    <3> QED
      BY <3>1
  <2> QED
    BY <2>2, <2>3
<1>2. ASSUME NEW b \in extended PROVE b = 0 \/ b = 1 \/ b \in 5..7
  OBVIOUS
<1>3. ExtendedOf(ExtendedIR(extended))
        = (IF 0 \in extended THEN {0} ELSE {}) \union (IF 1 \in extended THEN {1} ELSE {})
            \union {c + 5 : c \in chip}
  BY DEF ExtendedOf, ExtendedIR
<1> HIDE DEF chip
<1> QED
  BY <1>1, <1>2, <1>3

LEMMA ExtendedSettles ==
  ASSUME NEW extended
  PROVE  ExtendedIR(ExtendedOf(ExtendedIR(extended))) = ExtendedIR(extended)
<1> DEFINE chip == {b - 5 : b \in extended \intersect 5..7}
           again == ExtendedOf(ExtendedIR(extended))
<1>1. chip \subseteq 0..2
  OBVIOUS
<1>2. again
        = (IF 0 \in extended THEN {0} ELSE {}) \union (IF 1 \in extended THEN {1} ELSE {})
            \union {c + 5 : c \in chip}
  BY DEF ExtendedOf, ExtendedIR
<1>3. (0 \in again <=> 0 \in extended) /\ (1 \in again <=> 1 \in extended)
  BY <1>1, <1>2
<1>4. again \intersect 5..7 = {c + 5 : c \in chip}
  BY <1>1, <1>2
<1>5. {b - 5 : b \in {c + 5 : c \in chip}} = chip
  <2>1. ASSUME NEW c \in chip PROVE (c + 5) - 5 = c
    BY <1>1
  <2> HIDE DEF chip
  <2> QED
    BY <2>1
<1> HIDE DEF chip, again
<1>6. ExtendedIR(again) = [rowBit16 |-> 0 \in extended, rowBit17 |-> 1 \in extended,
                           chipIdentification |-> chip]
  <2>1. {b - 5 : b \in again \intersect 5..7} = chip
    BY <1>4, <1>5
  <2>2. (0 \in again) = (0 \in extended) /\ (1 \in again) = (1 \in extended)
    BY <1>3
  <2>3. ExtendedIR(again) = [rowBit16 |-> 0 \in again, rowBit17 |-> 1 \in again,
                             chipIdentification |-> {b - 5 : b \in again \intersect 5..7}]
    BY Zenon DEF ExtendedIR
  <2> QED
    BY <2>1, <2>2, <2>3, Zenon
<1> QED
  BY <1>6 DEF ExtendedIR, chip, again

LEMMA MemoryInverse ==
  ASSUME NEW d, EFI_PLATFORM_MEMORY_ERROR_DATA(d), PlainMemory(d)
  PROVE  ir_section_memory_to_cper(cper_section_platform_memory_to_ir(d)) = d
BY StatusInverse, BankInverse, ExtendedInverse, SMTT(40)
DEF EFI_PLATFORM_MEMORY_ERROR_DATA, HasMembers, PlainMemory, Named,
    ir_section_memory_to_cper, cper_section_platform_memory_to_ir

LEMMA MemorySettles ==
  ASSUME NEW d
  PROVE  LET r == cper_section_platform_memory_to_ir(d)
         IN  cper_section_platform_memory_to_ir(ir_section_memory_to_cper(r)) = r
<1> DEFINE r == cper_section_platform_memory_to_ir(d)
           o == ir_section_memory_to_cper(r)
<1>1. /\ o.ValidFields = Named(d.ValidFields, 22)
      /\ o.ErrorStatus = ir_generic_error_status_to_cper(
                           cper_generic_error_status_to_ir(d.ErrorStatus))
      /\ o.Bank = BankOf(o.ValidFields, BankIR(d.ValidFields, d.Bank))
      /\ o.Extended = ExtendedOf(ExtendedIR(d.Extended))
  BY DEF ir_section_memory_to_cper, cper_section_platform_memory_to_ir
<1>2. /\ Named(o.ValidFields, 22) = Named(d.ValidFields, 22)
      /\ 5 \in d.ValidFields <=> 5 \in o.ValidFields
  BY <1>1 DEF Named
<1>3. cper_generic_error_status_to_ir(o.ErrorStatus)
        = cper_generic_error_status_to_ir(d.ErrorStatus)
  BY <1>1, StatusSettles
<1>4. BankIR(o.ValidFields, o.Bank) = BankIR(d.ValidFields, d.Bank)
  BY <1>1, <1>2, BankSettles
<1>5. ExtendedIR(o.Extended) = ExtendedIR(d.Extended)
  BY <1>1, ExtendedSettles
<1> QED
  BY <1>2, <1>3, <1>4, <1>5, ZenonT(60)
  DEF ir_section_memory_to_cper, cper_section_platform_memory_to_ir

LEMMA MemoryDrawn ==
  ASSUME NEW d, EFI_PLATFORM_MEMORY_ERROR_DATA(d)
  PROVE  /\ EFI_PLATFORM_MEMORY_ERROR_DATA(generate_section_memory(d))
         /\ PlainMemory(generate_section_memory(d))
<1> DEFINE g == generate_section_memory(d)
<1>1. HasMembers(g, DOMAIN d)
  BY DEF EFI_PLATFORM_MEMORY_ERROR_DATA, HasMembers, generate_section_memory
<1>2. /\ g.ValidFields = d.ValidFields \intersect (0..19 \union {21})
      /\ g.Extended = d.Extended \ 2..4
      /\ g.ErrorStatus = create_valid_error_section(d.ErrorStatus)
      /\ g.Bank = d.Bank
  BY DEF EFI_PLATFORM_MEMORY_ERROR_DATA, HasMembers, generate_section_memory
<1>3. EFI_PLATFORM_MEMORY_ERROR_DATA(g)
  BY <1>1, <1>2, StatusDrawn DEF EFI_PLATFORM_MEMORY_ERROR_DATA, HasMembers
<1>4. PlainMemory(g)
  BY <1>2, StatusDrawn DEF PlainMemory, EFI_PLATFORM_MEMORY_ERROR_DATA
<1> QED
  BY <1>3, <1>4

LEMMA Memory2Inverse ==
  ASSUME NEW d, EFI_PLATFORM_MEMORY2_ERROR_DATA(d), PlainMemory2(d)
  PROVE  ir_section_memory2_to_cper(cper_section_platform_memory2_to_ir(d)) = d
BY StatusInverse, BankInverse, SMTT(40)
DEF EFI_PLATFORM_MEMORY2_ERROR_DATA, HasMembers, PlainMemory2, Named,
    ir_section_memory2_to_cper, cper_section_platform_memory2_to_ir

LEMMA Memory2Settles ==
  ASSUME NEW d
  PROVE  LET r == cper_section_platform_memory2_to_ir(d)
         IN  cper_section_platform_memory2_to_ir(ir_section_memory2_to_cper(r)) = r
<1> DEFINE r == cper_section_platform_memory2_to_ir(d)
           o == ir_section_memory2_to_cper(r)
<1>1. /\ o.ValidFields = Named(d.ValidFields, 22)
      /\ o.ErrorStatus = ir_generic_error_status_to_cper(
                           cper_generic_error_status_to_ir(d.ErrorStatus))
      /\ o.Bank = BankOf(o.ValidFields, BankIR(d.ValidFields, d.Bank))
  BY DEF ir_section_memory2_to_cper, cper_section_platform_memory2_to_ir
<1>2. /\ Named(o.ValidFields, 22) = Named(d.ValidFields, 22)
      /\ 5 \in d.ValidFields <=> 5 \in o.ValidFields
  BY <1>1 DEF Named
<1>3. cper_generic_error_status_to_ir(o.ErrorStatus)
        = cper_generic_error_status_to_ir(d.ErrorStatus)
  BY <1>1, StatusSettles
<1>4. BankIR(o.ValidFields, o.Bank) = BankIR(d.ValidFields, d.Bank)
  BY <1>1, <1>2, BankSettles
<1> QED
  BY <1>2, <1>3, <1>4
  DEF ir_section_memory2_to_cper, cper_section_platform_memory2_to_ir

LEMMA Memory2Drawn ==
  ASSUME NEW d, EFI_PLATFORM_MEMORY2_ERROR_DATA(d)
  PROVE  /\ EFI_PLATFORM_MEMORY2_ERROR_DATA(generate_section_memory2(d))
         /\ PlainMemory2(generate_section_memory2(d))
<1> DEFINE g == generate_section_memory2(d)
<1>1. HasMembers(g, DOMAIN d)
  BY DEF EFI_PLATFORM_MEMORY2_ERROR_DATA, HasMembers, generate_section_memory2
<1>2. /\ g.ValidFields = d.ValidFields \intersect (0..19 \union {21})
      /\ g.Reserved = Zero
      /\ g.ErrorStatus = create_valid_error_section(d.ErrorStatus)
      /\ g.Bank = d.Bank
  BY DEF EFI_PLATFORM_MEMORY2_ERROR_DATA, HasMembers, generate_section_memory2
<1>3. EFI_PLATFORM_MEMORY2_ERROR_DATA(g)
  BY <1>1, <1>2, StatusDrawn DEF EFI_PLATFORM_MEMORY2_ERROR_DATA, HasMembers
<1>4. PlainMemory2(g)
  BY <1>2, StatusDrawn DEF PlainMemory2, EFI_PLATFORM_MEMORY2_ERROR_DATA
<1> QED
  BY <1>3, <1>4

(* The firmware section.                                                    *)
LEMMA FirmwareInverse ==
  ASSUME NEW d, EFI_FIRMWARE_ERROR_DATA(d), PlainFirmware(d)
  PROVE  ir_section_firmware_to_cper(cper_section_firmware_to_ir(d)) = d
BY DEF EFI_FIRMWARE_ERROR_DATA, HasMembers, PlainFirmware,
   ir_section_firmware_to_cper, cper_section_firmware_to_ir

LEMMA FirmwareSettles ==
  ASSUME NEW d
  PROVE  LET r == cper_section_firmware_to_ir(d)
         IN  cper_section_firmware_to_ir(ir_section_firmware_to_cper(r)) = r
BY DEF ir_section_firmware_to_cper, cper_section_firmware_to_ir

LEMMA FirmwareDrawn ==
  ASSUME NEW d, EFI_FIRMWARE_ERROR_DATA(d)
  PROVE  /\ EFI_FIRMWARE_ERROR_DATA(generate_section_firmware(d))
         /\ PlainFirmware(generate_section_firmware(d))
<1> DEFINE g == generate_section_firmware(d)
<1>1. HasMembers(g, DOMAIN d)
  BY DEF EFI_FIRMWARE_ERROR_DATA, HasMembers, generate_section_firmware
<1>2. /\ g.Resv1 = Zero
  BY DEF EFI_FIRMWARE_ERROR_DATA, HasMembers, generate_section_firmware
<1>3. EFI_FIRMWARE_ERROR_DATA(g)
  BY <1>1, <1>2 DEF EFI_FIRMWARE_ERROR_DATA, HasMembers
<1>4. PlainFirmware(g)
  BY <1>2 DEF PlainFirmware
<1> QED
  BY <1>3, <1>4

(* The PCI sections.                                                        *)
LEMMA PciBusInverse ==
  ASSUME NEW d, EFI_PCI_PCIX_BUS_ERROR_DATA(d), PlainPciBus(d)
  PROVE  ir_section_pci_bus_to_cper(cper_section_pci_bus_to_ir(d)) = d
BY StatusInverse, SMTT(40) DEF EFI_PCI_PCIX_BUS_ERROR_DATA, HasMembers, PlainPciBus, Named,
   ir_section_pci_bus_to_cper, cper_section_pci_bus_to_ir, Pair

LEMMA PciBusSettles ==
  ASSUME NEW d
  PROVE  LET r == cper_section_pci_bus_to_ir(d)
         IN  cper_section_pci_bus_to_ir(ir_section_pci_bus_to_cper(r)) = r
BY StatusSettles DEF Named, ir_section_pci_bus_to_cper, cper_section_pci_bus_to_ir

LEMMA PciBusDrawn ==
  ASSUME NEW d, EFI_PCI_PCIX_BUS_ERROR_DATA(d)
  PROVE  /\ EFI_PCI_PCIX_BUS_ERROR_DATA(generate_section_pci_bus(d))
         /\ PlainPciBus(generate_section_pci_bus(d))
<1> DEFINE g == generate_section_pci_bus(d)
<1>1. HasMembers(g, DOMAIN d)
  BY DEF EFI_PCI_PCIX_BUS_ERROR_DATA, HasMembers, generate_section_pci_bus
<1>2. /\ g.ValidFields = d.ValidFields \intersect 0..8
      /\ g.Resv2 = Zero /\ g.BusCommand = d.BusCommand \intersect {56}
      /\ g.ErrorStatus = create_valid_error_section(d.ErrorStatus)
      /\ g.BusId = d.BusId
  BY DEF EFI_PCI_PCIX_BUS_ERROR_DATA, HasMembers, generate_section_pci_bus
<1>3. EFI_PCI_PCIX_BUS_ERROR_DATA(g)
  BY <1>1, <1>2, StatusDrawn DEF EFI_PCI_PCIX_BUS_ERROR_DATA, HasMembers
<1>4. PlainPciBus(g)
  BY <1>2, StatusDrawn DEF PlainPciBus, EFI_PCI_PCIX_BUS_ERROR_DATA
<1> QED
  BY <1>3, <1>4

(* The DMAr sections.                                                       *)
LEMMA DmarGenericInverse ==
  ASSUME NEW d, EFI_DMAR_GENERIC_ERROR_DATA(d), PlainDmarGeneric(d)
  PROVE  ir_section_dmar_generic_to_cper(cper_section_dmar_generic_to_ir(d)) = d
BY DEF EFI_DMAR_GENERIC_ERROR_DATA, HasMembers, PlainDmarGeneric,
   ir_section_dmar_generic_to_cper, cper_section_dmar_generic_to_ir

LEMMA DmarGenericSettles ==
  ASSUME NEW d
  PROVE  LET r == cper_section_dmar_generic_to_ir(d)
         IN  cper_section_dmar_generic_to_ir(ir_section_dmar_generic_to_cper(r)) = r
BY DEF ir_section_dmar_generic_to_cper, cper_section_dmar_generic_to_ir

LEMMA DmarGenericDrawn ==
  ASSUME NEW d, EFI_DMAR_GENERIC_ERROR_DATA(d)
  PROVE  /\ EFI_DMAR_GENERIC_ERROR_DATA(generate_section_dmar_generic(d))
         /\ PlainDmarGeneric(generate_section_dmar_generic(d))
<1> DEFINE g == generate_section_dmar_generic(d)
<1>1. HasMembers(g, DOMAIN d)
  BY DEF EFI_DMAR_GENERIC_ERROR_DATA, HasMembers, generate_section_dmar_generic
<1>2. /\ g.Resv1 = Zero
  BY DEF EFI_DMAR_GENERIC_ERROR_DATA, HasMembers, generate_section_dmar_generic
<1>3. EFI_DMAR_GENERIC_ERROR_DATA(g)
  BY <1>1, <1>2 DEF EFI_DMAR_GENERIC_ERROR_DATA, HasMembers
<1>4. PlainDmarGeneric(g)
  BY <1>2 DEF PlainDmarGeneric
<1> QED
  BY <1>3, <1>4

(* The PCIe section, with either of its arrays lost for want of memory: a   *)
(* plain structure is written as it was, but for zeros in their place.     *)
LEMMA ClassCodeSettles ==
  ASSUME NEW a, NEW b, NEW c
  PROVE  Reverse(Reverse(<<a, b, c>>)) = <<a, b, c>>
<1>1. Reverse(<<a, b, c>>) = <<c, b, a>> /\ Reverse(<<c, b, a>>) = <<a, b, c>>
  BY DEF Reverse
<1> QED
  BY <1>1

LEMMA PcieWritten ==
  ASSUME NEW d, EFI_PCIE_ERROR_DATA(d), PlainPcie(d), NEW lost, NEW unread
  PROVE  ir_section_pcie_to_cper(cper_section_pcie_to_ir(d, lost), unread)
           = [d EXCEPT
                !.PcieCap = IF "capabilityStructure" \in lost \union unread THEN Zero ELSE @,
                !.PcieAer = IF "aerInfo" \in lost \union unread THEN Zero ELSE @]
<1> DEFINE r == cper_section_pcie_to_ir(d, lost)
           o == ir_section_pcie_to_cper(r, unread)
<1>1. /\ r.version.minor = bcd_to_int(d.Version[1])
      /\ r.version.major = bcd_to_int(d.Version[2])
      /\ r.deviceID.classCode = Reverse(d.ClassCode)
      /\ r.validationBits = Named(d.ValidFields, 8)
      /\ r.commandStatus.commandRegister = d.CommandStatus[1]
      /\ r.commandStatus.statusRegister = d.CommandStatus[2]
      /\ r.bridgeControlStatus.secondaryStatusRegister = d.BridgeControlStatus[1]
      /\ r.bridgeControlStatus.controlRegister = d.BridgeControlStatus[2]
      /\ r.portType = d.PortType /\ r.deviceSerialNumber = d.SerialNo
  BY ZenonT(60) DEF cper_section_pcie_to_ir, ++
<1>2. /\ r.deviceID.vendorID = d.VendorId
      /\ r.deviceID.deviceID = d.DeviceId
      /\ r.deviceID.functionNumber = d.Function
      /\ r.deviceID.deviceNumber = d.Device
      /\ r.deviceID.segmentNumber = d.Segment
      /\ r.deviceID.primaryOrDeviceBusNumber = d.PrimaryOrDeviceBus
      /\ r.deviceID.secondaryBusNumber = d.SecondaryBus
      /\ r.deviceID.slotNumber = d.SlotNumber
  BY DEF cper_section_pcie_to_ir, ++
<1>3. /\ Get(Get(r, "capabilityStructure", <<>>), "data", Zero)
           = IF "capabilityStructure" \in lost THEN Zero ELSE d.PcieCap
      /\ Get(r.aerInfo, "data", Zero) = IF "aerInfo" \in lost THEN Zero ELSE d.PcieAer
  <2>1. /\ "capabilityStructure" \in DOMAIN r <=> "capabilityStructure" \notin lost
        /\ "capabilityStructure" \notin lost => r.capabilityStructure = [data |-> d.PcieCap]
        /\ r.aerInfo = IF "aerInfo" \in lost THEN <<>> ELSE [data |-> d.PcieAer]
    BY DEF cper_section_pcie_to_ir, ++, Encode
  <2> HIDE DEF r
  <2> QED
    BY <2>1 DEF Get
<1>4. <<int_to_bcd(bcd_to_int(d.Version[1])), int_to_bcd(bcd_to_int(d.Version[2])), Zero>>
           = d.Version
  <2>1. /\ int_to_bcd(bcd_to_int(d.Version[1])) = d.Version[1]
        /\ int_to_bcd(bcd_to_int(d.Version[2])) = d.Version[2]
        /\ d.Version[3] = Zero
    <3>1. /\ d.Version[1] \in 0..255 /\ d.Version[2] \in 0..255
          /\ DecimalByte(d.Version[1]) /\ DecimalByte(d.Version[2])
          /\ d.Version[3] = Zero
      BY DEF EFI_PCIE_ERROR_DATA, PlainPcie
    <3> QED
      BY <3>1, BcdKept
  <2> QED
    BY <2>1 DEF EFI_PCIE_ERROR_DATA
<1>5. /\ <<d.CommandStatus[1], d.CommandStatus[2]>> = d.CommandStatus
      /\ <<d.BridgeControlStatus[1], d.BridgeControlStatus[2]>> = d.BridgeControlStatus
      /\ Named(d.ValidFields, 8) = d.ValidFields
  BY DEF EFI_PCIE_ERROR_DATA, PlainPcie, Pair, Named
<1>6. Reverse(Reverse(d.ClassCode)) = d.ClassCode
  BY ClassCodeSettles DEF EFI_PCIE_ERROR_DATA
<1> HIDE DEF r
<1>7. /\ DOMAIN o = DOMAIN d /\ o = [f \in DOMAIN o |-> o[f]]
  BY DEF ir_section_pcie_to_cper, EFI_PCIE_ERROR_DATA, HasMembers
<1>8. /\ o.ValidFields = d.ValidFields /\ o.PortType = d.PortType
      /\ o.Version = d.Version /\ o.CommandStatus = d.CommandStatus
      /\ o.Resv2 = d.Resv2 /\ o.VendorId = d.VendorId /\ o.DeviceId = d.DeviceId
      /\ o.ClassCode = d.ClassCode /\ o.Function = d.Function /\ o.Device = d.Device
  BY <1>1, <1>2, <1>5, <1>6, <1>4 DEF ir_section_pcie_to_cper, PlainPcie
<1>9. /\ o.Segment = d.Segment /\ o.PrimaryOrDeviceBus = d.PrimaryOrDeviceBus
      /\ o.SecondaryBus = d.SecondaryBus /\ o.SlotResv1 = d.SlotResv1
      /\ o.SlotNumber = d.SlotNumber /\ o.DevBridgeResv1 = d.DevBridgeResv1
      /\ o.SerialNo = d.SerialNo /\ o.BridgeControlStatus = d.BridgeControlStatus
  BY <1>1, <1>2, <1>5 DEF ir_section_pcie_to_cper, PlainPcie
<1>10. /\ o.PcieCap = IF "capabilityStructure" \in lost \union unread THEN Zero ELSE d.PcieCap
      /\ o.PcieAer = IF "aerInfo" \in lost \union unread THEN Zero ELSE d.PcieAer
  BY <1>3 DEF ir_section_pcie_to_cper, Decode
<1> HIDE DEF o
<1>11. \A f \in DOMAIN d \ {"PcieCap", "PcieAer"} : o[f] = d[f]
  BY <1>8, <1>9 DEF EFI_PCIE_ERROR_DATA, HasMembers
<1>12. o = [d EXCEPT
                !.PcieCap = IF "capabilityStructure" \in lost \union unread THEN Zero ELSE @,
                !.PcieAer = IF "aerInfo" \in lost \union unread THEN Zero ELSE @]
  BY <1>7, <1>11, <1>10 DEF EFI_PCIE_ERROR_DATA, HasMembers
<1> QED
  BY <1>12, SMTT(40) DEF r, o

LEMMA PcieSettles ==
  ASSUME NEW d, EFI_PCIE_ERROR_DATA(d),
         bcd_to_int(d.Version[1]) <= 99, bcd_to_int(d.Version[2]) <= 99
  PROVE  LET r == cper_section_pcie_to_ir(d, {})
         IN  cper_section_pcie_to_ir(ir_section_pcie_to_cper(r, {}), {}) = r
<1> DEFINE r == cper_section_pcie_to_ir(d, {})
           o == ir_section_pcie_to_cper(r, {})
<1>1. /\ o.Version[1] = int_to_bcd(bcd_to_int(d.Version[1]))
      /\ o.Version[2] = int_to_bcd(bcd_to_int(d.Version[2]))
      /\ o.ClassCode = Reverse(Reverse(d.ClassCode))
      /\ o.ValidFields = Named(d.ValidFields, 8)
  BY ZenonT(60) DEF cper_section_pcie_to_ir, ir_section_pcie_to_cper, ++
<1>2. /\ o.CommandStatus[1] = d.CommandStatus[1] /\ o.CommandStatus[2] = d.CommandStatus[2]
      /\ o.BridgeControlStatus[1] = d.BridgeControlStatus[1]
      /\ o.BridgeControlStatus[2] = d.BridgeControlStatus[2]
      /\ o.PcieCap = d.PcieCap /\ o.PcieAer = d.PcieAer
  BY ZenonT(60) DEF cper_section_pcie_to_ir, ir_section_pcie_to_cper, ++, Encode, Decode, Get
<1>3. /\ o.VendorId = d.VendorId /\ o.DeviceId = d.DeviceId /\ o.Function = d.Function
      /\ o.Device = d.Device /\ o.Segment = d.Segment
      /\ o.PrimaryOrDeviceBus = d.PrimaryOrDeviceBus
      /\ o.SecondaryBus = d.SecondaryBus /\ o.SlotNumber = d.SlotNumber
      /\ o.PortType = d.PortType /\ o.SerialNo = d.SerialNo
  BY DEF cper_section_pcie_to_ir, ir_section_pcie_to_cper, ++
<1>4. Named(o.ValidFields, 8) = Named(d.ValidFields, 8)
  BY <1>1 DEF Named
<1>5. /\ bcd_to_int(o.Version[1]) = bcd_to_int(d.Version[1])
      /\ bcd_to_int(o.Version[2]) = bcd_to_int(d.Version[2])
  <2>1. bcd_to_int(d.Version[1]) \in 0..99 /\ bcd_to_int(d.Version[2]) \in 0..99
    BY DEF EFI_PCIE_ERROR_DATA, bcd_to_int
  <2> QED
    BY <1>1, <2>1, NumberKept
<1>6. Reverse(o.ClassCode) = Reverse(d.ClassCode)
  BY <1>1, ClassCodeSettles DEF EFI_PCIE_ERROR_DATA
<1> HIDE DEF o
<1>7. cper_section_pcie_to_ir(o, {}) = cper_section_pcie_to_ir(d, {})
  BY <1>2, <1>3, <1>4, <1>5, <1>6 DEF cper_section_pcie_to_ir
<1> QED
  BY <1>7 DEF o

LEMMA PcieDrawn ==
  ASSUME NEW d, EFI_PCIE_ERROR_DATA(d)
  PROVE  /\ EFI_PCIE_ERROR_DATA(generate_section_pcie(d))
         /\ PlainPcie(generate_section_pcie(d))
<1> DEFINE g == generate_section_pcie(d)
<1>1. HasMembers(g, DOMAIN d)
  <2>1. DOMAIN g = DOMAIN d
    BY DEF generate_section_pcie
  <2>2. g = [f \in DOMAIN g |-> g[f]]
    BY DEF generate_section_pcie
  <2> QED
    BY <2>1, <2>2 DEF HasMembers
<1>2. /\ g.ValidFields = d.ValidFields \intersect 0..7
      /\ g.Version = <<int_to_bcd(d.Version[1] % 128), int_to_bcd(d.Version[2] % 128), Zero>>
      /\ g.Resv2 = Zero /\ g.SlotResv1 = Zero /\ g.DevBridgeResv1 = Zero
      /\ g.CommandStatus = d.CommandStatus
      /\ g.BridgeControlStatus = d.BridgeControlStatus
      /\ g.ClassCode = d.ClassCode
  BY DEF EFI_PCIE_ERROR_DATA, HasMembers, generate_section_pcie
<1>3. /\ g.Version[1] \in 0..255 /\ DecimalByte(g.Version[1])
      /\ g.Version[2] \in 0..255 /\ DecimalByte(g.Version[2])
      /\ g.Version[3] = Zero
      /\ g.Version = <<g.Version[1], g.Version[2], g.Version[3]>>
  <2>1. d.Version[1] % 128 \in 0..255 /\ d.Version[2] % 128 \in 0..255
    BY SMTT(40) DEF EFI_PCIE_ERROR_DATA
  <2> QED
    BY <1>2, <2>1, NumberInBcd
<1> HIDE DEF g
<1>4. EFI_PCIE_ERROR_DATA(g)
  BY <1>1, <1>2, <1>3 DEF EFI_PCIE_ERROR_DATA, HasMembers
<1>5. PlainPcie(g)
  BY <1>2, <1>3 DEF PlainPcie
<1> QED
  BY <1>4, <1>5 DEF g

(* The same of the VT-d section and its two entries; there is no IR without *)
(* a text for the first.                                                   *)
LEMMA FaultRecordInverse ==
  ASSUME NEW f, EFI_VTD_FAULT_RECORD(f), {f.Resv1, f.Resv2, f.Resv3} = {Zero}
  PROVE  FaultRecordOf(FaultRecordIR(f)) = f
BY DEF EFI_VTD_FAULT_RECORD, HasMembers, FaultRecordIR, FaultRecordOf

LEMMA VtdWritten ==
  ASSUME NEW d, EFI_DIRECTED_IO_DMAR_ERROR_DATA(d), PlainVtd(d), NEW lost, NEW unread
  PROVE  ir_section_dmar_vtd_to_cper(cper_section_dmar_vtd_to_ir(d, lost), unread)
           = [d EXCEPT
                !.RootEntry = IF "rootEntry" \in unread THEN Zero ELSE @,
                !.ContextEntry = IF "contextEntry" \in lost \union unread THEN Zero ELSE @]
<1> DEFINE r == cper_section_dmar_vtd_to_ir(d, lost)
<1>1. FaultRecordOf(FaultRecordIR(d.FaultRecord)) = d.FaultRecord
  BY FaultRecordInverse DEF EFI_DIRECTED_IO_DMAR_ERROR_DATA, PlainVtd
<1>2. /\ r.version = d.Version /\ r.revision = d.Revision /\ r.oemID = d.OemId
      /\ r.capabilityRegister = d.Capability /\ r.extendedCapabilityRegister = d.CapabilityEx
      /\ r.globalCommandRegister = d.GlobalCommand
      /\ r.globalStatusRegister = d.GlobalStatus /\ r.faultStatusRegister = d.FaultStatus
      /\ r.faultRecord = FaultRecordIR(d.FaultRecord)
      /\ r.rootEntry = d.RootEntry
  BY DEF cper_section_dmar_vtd_to_ir, ++
<1>3. /\ Get(r, "contextEntry", Zero)
           = IF "contextEntry" \in lost THEN Zero ELSE d.ContextEntry
      /\ PageTableOf(r) = [p \in PageTable |-> d[p]]
  BY DEF cper_section_dmar_vtd_to_ir, ++, PageTable, PageTableIR, PageTableOf, Encode, Get
<1> HIDE DEF r
<1> DEFINE o == ir_section_dmar_vtd_to_cper(r, unread)
<1>4. DOMAIN o = DOMAIN d /\ o = [f \in DOMAIN o |-> o[f]]
  BY DEF EFI_DIRECTED_IO_DMAR_ERROR_DATA, HasMembers,
      ir_section_dmar_vtd_to_cper, ++, PageTable, PageTableOf
<1>5. /\ o.Version = d.Version /\ o.Revision = d.Revision /\ o.OemId = d.OemId
      /\ o.Capability = d.Capability /\ o.CapabilityEx = d.CapabilityEx
      /\ o.GlobalCommand = d.GlobalCommand /\ o.GlobalStatus = d.GlobalStatus
      /\ o.FaultStatus = d.FaultStatus /\ o.Resv1 = d.Resv1
      /\ o.FaultRecord = d.FaultRecord
  BY <1>1, <1>2 DEF ir_section_dmar_vtd_to_cper, ++, PlainVtd
<1>6. /\ o.RootEntry = IF "rootEntry" \in unread THEN Zero ELSE d.RootEntry
      /\ o.ContextEntry = IF "contextEntry" \in lost \union unread THEN Zero
                          ELSE d.ContextEntry
  BY <1>2, <1>3 DEF ir_section_dmar_vtd_to_cper, ++, Decode
<1>7. \A p \in PageTable : o[p] = d[p]
  BY <1>3 DEF ir_section_dmar_vtd_to_cper, ++, PageTable
<1> HIDE DEF o
<1>8. o = [d EXCEPT
                !.RootEntry = IF "rootEntry" \in unread THEN Zero ELSE @,
                !.ContextEntry = IF "contextEntry" \in lost \union unread THEN Zero ELSE @]
  BY <1>4, <1>5, <1>6, <1>7
  DEF EFI_DIRECTED_IO_DMAR_ERROR_DATA, HasMembers
<1> QED
  BY <1>8 DEF r, o

LEMMA VtdSettles ==
  ASSUME NEW d
  PROVE  LET r == cper_section_dmar_vtd_to_ir(d, {})
         IN  cper_section_dmar_vtd_to_ir(ir_section_dmar_vtd_to_cper(r, {}), {}) = r
<1> DEFINE r == cper_section_dmar_vtd_to_ir(d, {})
           o == ir_section_dmar_vtd_to_cper(r, {})
<1>1. /\ r.version = d.Version /\ r.revision = d.Revision /\ r.oemID = d.OemId
      /\ r.capabilityRegister = d.Capability /\ r.extendedCapabilityRegister = d.CapabilityEx
      /\ r.globalCommandRegister = d.GlobalCommand
      /\ r.globalStatusRegister = d.GlobalStatus /\ r.faultStatusRegister = d.FaultStatus
      /\ r.faultRecord = FaultRecordIR(d.FaultRecord) /\ r.rootEntry = d.RootEntry
      /\ Get(r, "contextEntry", Zero) = d.ContextEntry
  BY DEF cper_section_dmar_vtd_to_ir, ++, Encode, Get
<1>2. /\ r.pageTableEntry_Level1 = d.PteL1 /\ r.pageTableEntry_Level2 = d.PteL2
      /\ r.pageTableEntry_Level3 = d.PteL3 /\ r.pageTableEntry_Level4 = d.PteL4
      /\ r.pageTableEntry_Level5 = d.PteL5 /\ r.pageTableEntry_Level6 = d.PteL6
  BY DEF cper_section_dmar_vtd_to_ir, ++, PageTableIR, Encode
<1> HIDE DEF r
<1>3. /\ o.Version = d.Version /\ o.Revision = d.Revision /\ o.OemId = d.OemId
      /\ o.Capability = d.Capability /\ o.CapabilityEx = d.CapabilityEx
      /\ o.GlobalCommand = d.GlobalCommand /\ o.GlobalStatus = d.GlobalStatus
      /\ o.FaultStatus = d.FaultStatus
      /\ o.RootEntry = d.RootEntry /\ o.ContextEntry = d.ContextEntry
  BY <1>1 DEF ir_section_dmar_vtd_to_cper, ++, Decode
<1>4. FaultRecordIR(o.FaultRecord) = FaultRecordIR(d.FaultRecord)
  BY <1>1 DEF ir_section_dmar_vtd_to_cper, ++, FaultRecordIR, FaultRecordOf
<1>5. PageTableIR(o) = PageTableIR(d)
  BY <1>2 DEF ir_section_dmar_vtd_to_cper, ++, PageTableOf, PageTableIR
<1> HIDE DEF o
<1>6. cper_section_dmar_vtd_to_ir(o, {}) = cper_section_dmar_vtd_to_ir(d, {})
  BY <1>3, <1>4, <1>5 DEF cper_section_dmar_vtd_to_ir
<1> QED
  BY <1>6 DEF r, o

LEMMA VtdDrawn ==
  ASSUME NEW d, EFI_DIRECTED_IO_DMAR_ERROR_DATA(d)
  PROVE  /\ EFI_DIRECTED_IO_DMAR_ERROR_DATA(generate_section_dmar_vtd(d))
         /\ PlainVtd(generate_section_dmar_vtd(d))
<1> DEFINE g == generate_section_dmar_vtd(d)
<1>1. HasMembers(g, DOMAIN d)
  BY DEF EFI_DIRECTED_IO_DMAR_ERROR_DATA, HasMembers, generate_section_dmar_vtd
<1>2. /\ g.Resv1 = Zero
      /\ g.FaultRecord = [d.FaultRecord EXCEPT !.Resv1 = Zero, !.Resv2 = Zero,
                             !.AddressType = Zero, !.Type = Zero, !.Resv3 = Zero]
  BY DEF EFI_DIRECTED_IO_DMAR_ERROR_DATA, HasMembers, EFI_VTD_FAULT_RECORD,
         generate_section_dmar_vtd
<1> HIDE DEF g
<1>3. /\ HasMembers(g.FaultRecord, DOMAIN d.FaultRecord)
      /\ g.FaultRecord.Resv1 = Zero /\ g.FaultRecord.Resv2 = Zero
      /\ g.FaultRecord.Resv3 = Zero
  BY <1>2 DEF EFI_DIRECTED_IO_DMAR_ERROR_DATA, EFI_VTD_FAULT_RECORD, HasMembers
<1>4. EFI_DIRECTED_IO_DMAR_ERROR_DATA(g)
  BY <1>1, <1>3 DEF EFI_DIRECTED_IO_DMAR_ERROR_DATA, EFI_VTD_FAULT_RECORD, HasMembers
<1>5. PlainVtd(g)
  BY <1>2, <1>3 DEF PlainVtd
<1> QED
  BY <1>4, <1>5 DEF g

(* The IOMMU section has no IR if an entry of it cannot be encoded.        *)
LEMMA IommuWritten ==
  ASSUME NEW d, EFI_IOMMU_DMAR_ERROR_DATA(d), PlainIommu(d), NEW unread
  PROVE  ir_section_dmar_iommu_to_cper(cper_section_dmar_iommu_to_ir(d, {}), unread)
           = [d EXCEPT
                !.EventLogEntry = IF "eventLogEntry" \in unread THEN Zero ELSE @,
                !.DeviceTableEntry = IF "deviceTableEntry" \in unread THEN Zero ELSE @]
<1> DEFINE r == cper_section_dmar_iommu_to_ir(d, {})
<1>1. /\ r.revision = d.Revision /\ r.controlRegister = d.Control
      /\ r.statusRegister = d.Status
      /\ r.eventLogEntry = d.EventLogEntry /\ r.deviceTableEntry = d.DeviceTableEntry
      /\ PageTableOf(r) = [p \in PageTable |-> d[p]]
  BY DEF cper_section_dmar_iommu_to_ir, ++, PageTable, PageTableIR, PageTableOf
<1> HIDE DEF r
<1> DEFINE o == ir_section_dmar_iommu_to_cper(r, unread)
<1>2. DOMAIN o = DOMAIN d /\ o = [f \in DOMAIN o |-> o[f]]
  BY DEF EFI_IOMMU_DMAR_ERROR_DATA, HasMembers, ir_section_dmar_iommu_to_cper, ++,
         PageTable, PageTableOf
<1>3. /\ o.Revision = d.Revision /\ o.Resv1 = d.Resv1 /\ o.Control = d.Control
      /\ o.Status = d.Status /\ o.Resv2 = d.Resv2 /\ o.Resv3 = d.Resv3
      /\ o.EventLogEntry = IF "eventLogEntry" \in unread THEN Zero ELSE d.EventLogEntry
      /\ o.DeviceTableEntry = IF "deviceTableEntry" \in unread THEN Zero
                              ELSE d.DeviceTableEntry
  BY <1>1 DEF ir_section_dmar_iommu_to_cper, ++, PlainIommu, Decode
<1>4. \A p \in PageTable : o[p] = d[p]
  BY <1>1 DEF ir_section_dmar_iommu_to_cper, ++, PageTable
<1> HIDE DEF o
<1>5. o = [d EXCEPT
                !.EventLogEntry = IF "eventLogEntry" \in unread THEN Zero ELSE @,
                !.DeviceTableEntry = IF "deviceTableEntry" \in unread THEN Zero ELSE @]
  BY <1>2, <1>3, <1>4 DEF EFI_IOMMU_DMAR_ERROR_DATA, HasMembers
<1> QED
  BY <1>5 DEF r, o

LEMMA IommuSettles ==
  ASSUME NEW d
  PROVE  LET r == cper_section_dmar_iommu_to_ir(d, {})
         IN  cper_section_dmar_iommu_to_ir(ir_section_dmar_iommu_to_cper(r, {}), {}) = r
<1> DEFINE r == cper_section_dmar_iommu_to_ir(d, {})
           o == ir_section_dmar_iommu_to_cper(r, {})
<1>1. /\ r.revision = d.Revision /\ r.controlRegister = d.Control
      /\ r.statusRegister = d.Status
      /\ r.eventLogEntry = d.EventLogEntry /\ r.deviceTableEntry = d.DeviceTableEntry
      /\ PageTableOf(r) = [p \in PageTable |-> d[p]]
  BY DEF cper_section_dmar_iommu_to_ir, ++, PageTable, PageTableIR, PageTableOf
<1> HIDE DEF r
<1>2. /\ o.Revision = d.Revision /\ o.Control = d.Control /\ o.Status = d.Status
      /\ o.EventLogEntry = d.EventLogEntry /\ o.DeviceTableEntry = d.DeviceTableEntry
      /\ PageTableIR(o) = PageTableIR(d)
  BY <1>1 DEF ir_section_dmar_iommu_to_cper, ++, Decode, PageTable, PageTableIR
<1> HIDE DEF o
<1>3. cper_section_dmar_iommu_to_ir(o, {}) = cper_section_dmar_iommu_to_ir(d, {})
  BY <1>2 DEF cper_section_dmar_iommu_to_ir
<1> QED
  BY <1>3 DEF r, o

LEMMA IommuDrawn ==
  ASSUME NEW d, EFI_IOMMU_DMAR_ERROR_DATA(d)
  PROVE  /\ EFI_IOMMU_DMAR_ERROR_DATA(generate_section_dmar_iommu(d))
         /\ PlainIommu(generate_section_dmar_iommu(d))
BY DEF EFI_IOMMU_DMAR_ERROR_DATA, HasMembers, generate_section_dmar_iommu, PlainIommu
----------------------------------------------------------------------------
(* Bytes() reads as many as it is asked for, and all of them if that is    *)
(* their number.                                                           *)
LEMMA BytesLength ==
  ASSUME NEW tail, NEW offset, NEW number \in Nat
  PROVE  /\ Array(Bytes(tail, offset, number))
         /\ Len(Bytes(tail, offset, number)) = number
BY DEF Array, Bytes

LEMMA BytesWhole ==
  ASSUME NEW tail, Array(tail)
  PROVE  Bytes(tail, 0, Len(tail)) = tail
BY DEF Array, Bytes

(* A sum of an int is a count, and itself if it is small.                  *)
LEMMA CountInNat ==
  ASSUME NEW number \in Int
  PROVE  Count(number) \in Nat
<1>1. 2^IntBits \in Nat \ {0}
  BY PowersAssumption
<1>2. number % 2^IntBits \in Nat
  BY <1>1
<1> QED
  BY <1>2 DEF Count

LEMMA CountOfSmall ==
  ASSUME NEW number \in Nat, number < 2^(IntBits - 1)
  PROVE  Count(number) = number
<1>1. /\ 2^IntBits \in Nat \ {0} /\ number < 2^IntBits
  BY PowersAssumption
<1>2. number % 2^IntBits = number
  BY <1>1
<1> QED
  BY <1>2 DEF Count

(* The objects hold the words two by two.                                  *)
Paired(objects, first, second, words) ==
  /\ Len(objects) \in Nat /\ Len(words) = 2 * Len(objects)
  /\ \A k \in 1..Len(objects) :
       objects[k][first] = words[2*k - 1] /\ objects[k][second] = words[2*k]

(* Their halves, written one after the other, are those words.             *)
LEMMA HalvesOfPairs ==
  ASSUME NEW words, Array(words),
         NEW first, NEW second, NEW objects, Paired(objects, first, second, words)
  PROVE  Halves(objects, first, second) = words
<1> DEFINE pairs == Len(objects)
<1>1. /\ pairs \in Nat /\ Len(words) = 2 * pairs
      /\ \A k \in 1..pairs :
           objects[k][first] = words[2*k - 1] /\ objects[k][second] = words[2*k]
  BY DEF Paired
<1>2. ASSUME NEW i \in 1..2 * pairs
      PROVE  words[i] = IF i % 2 = 1 THEN objects[(i + 1) \div 2][first]
                        ELSE objects[i \div 2][second]
  <2>1. CASE i % 2 = 1
    <3>1. (i + 1) \div 2 \in 1..pairs /\ 2 * ((i + 1) \div 2) - 1 = i
      BY <2>1
    <3> QED
      BY <1>1, <3>1, <2>1
  <2>2. CASE i % 2 # 1
    <3>1. i \div 2 \in 1..pairs /\ 2 * (i \div 2) = i
      BY <2>2
    <3> QED
      BY <1>1, <3>1, <2>2
  <2> QED
    BY <2>1, <2>2
<1> QED
  BY <1>1, <1>2 DEF Halves, Array

(* The PCI device section: as many register pairs as its two counts say,   *)
(* which a generator keeps small enough to be counted.                     *)
LEMMA PciDevInverse ==
  ASSUME NEW d, EFI_PCI_PCIX_DEVICE_ERROR_DATA(d), NEW words, Array(words),
         PlainPciDev(d, words)
  PROVE  ir_section_pci_dev_to_cper(cper_section_pci_dev_to_ir(d, words)) = Tailed(d, words)
<1> DEFINE r == cper_section_pci_dev_to_ir(d, words)
           pairs == PairsAnnounced(d)
           read == Bytes(words, 0, 2 * pairs)
<1>1. pairs \in Nat
  BY CountInNat DEF PairsAnnounced, EFI_PCI_PCIX_DEVICE_ERROR_DATA
<1>2. read = words
  BY BytesWhole DEF PlainPciDev
<1>3. r.registerDataPairs
        = [k \in 1..pairs |-> [firstHalf |-> words[2*k - 1], secondHalf |-> words[2*k]]]
  BY <1>2 DEF cper_section_pci_dev_to_ir
<1>4. Halves(r.registerDataPairs, "firstHalf", "secondHalf") = words
  <2>1. Len(r.registerDataPairs) = pairs
    BY <1>1, <1>3
  <2>2. Paired(r.registerDataPairs, "firstHalf", "secondHalf", words)
    BY <1>1, <1>3, <2>1 DEF Paired, PlainPciDev
  <2> QED
    BY <2>2, HalvesOfPairs
<1>5. ir_generic_error_status_to_cper(r.errorStatus) = d.ErrorStatus
  BY StatusInverse
  DEF cper_section_pci_dev_to_ir, EFI_PCI_PCIX_DEVICE_ERROR_DATA, PlainPciDev
<1>6. /\ r.validationBits = d.ValidFields
      /\ r.idInfo.vendorID = d.VendorId /\ r.idInfo.deviceID = d.DeviceId
      /\ r.idInfo.classCode = d.ClassCode /\ r.idInfo.functionNumber = d.FunctionNumber
      /\ r.idInfo.deviceNumber = d.DeviceNumber /\ r.idInfo.busNumber = d.BusNumber
      /\ r.idInfo.segmentNumber = d.SegmentNumber
      /\ r.memoryNumber = d.MemoryNumber /\ r.ioNumber = d.IoNumber
  BY DEF cper_section_pci_dev_to_ir, PlainPciDev, Named
<1> HIDE DEF r
<1>7. d = [ValidFields    |-> r.validationBits,
          ErrorStatus    |-> ir_generic_error_status_to_cper(r.errorStatus),
          VendorId       |-> r.idInfo.vendorID,
          DeviceId       |-> r.idInfo.deviceID,
          ClassCode      |-> r.idInfo.classCode,
          FunctionNumber |-> r.idInfo.functionNumber,
          DeviceNumber   |-> r.idInfo.deviceNumber,
          BusNumber      |-> r.idInfo.busNumber,
          SegmentNumber  |-> r.idInfo.segmentNumber,
          Reserved       |-> Zero,
          MemoryNumber   |-> r.memoryNumber,
          IoNumber       |-> r.ioNumber]
  BY <1>5, <1>6 DEF EFI_PCI_PCIX_DEVICE_ERROR_DATA, HasMembers, PlainPciDev
<1>8. ir_section_pci_dev_to_cper(r) = Tailed(d, words)
  BY <1>4, <1>7 DEF ir_section_pci_dev_to_cper
<1> QED
  BY <1>8 DEF r

LEMMA PciDevSettles ==
  ASSUME NEW d, EFI_PCI_PCIX_DEVICE_ERROR_DATA(d), NEW words
  PROVE  LET r == cper_section_pci_dev_to_ir(d, words)
             o == ir_section_pci_dev_to_cper(r)
         IN  cper_section_pci_dev_to_ir(o[1].body, DataOf(o)) = r
<1> DEFINE r == cper_section_pci_dev_to_ir(d, words)
           o == ir_section_pci_dev_to_cper(r)
           b == o[1].body
           pairs == PairsAnnounced(d)
           read == Bytes(words, 0, 2 * pairs)
<1>1. pairs \in Nat
  BY CountInNat DEF PairsAnnounced, EFI_PCI_PCIX_DEVICE_ERROR_DATA
<1>2. Array(read) /\ Len(read) = 2 * pairs
  BY <1>1, BytesLength
<1>3. r.registerDataPairs
        = [k \in 1..pairs |-> [firstHalf |-> read[2*k - 1], secondHalf |-> read[2*k]]]
  BY DEF cper_section_pci_dev_to_ir
<1>4. Halves(r.registerDataPairs, "firstHalf", "secondHalf") = read
  <2>1. Len(r.registerDataPairs) = pairs
    BY <1>1, <1>3
  <2>2. Paired(r.registerDataPairs, "firstHalf", "secondHalf", read)
    BY <1>1, <1>2, <1>3, <2>1 DEF Paired
  <2> QED
    BY <1>2, <2>2, HalvesOfPairs
<1>5. /\ DataOf(o) = read
      /\ b.ValidFields = Named(d.ValidFields, 5)
      /\ b.ErrorStatus = ir_generic_error_status_to_cper(
                            cper_generic_error_status_to_ir(d.ErrorStatus))
      /\ b.VendorId = d.VendorId /\ b.DeviceId = d.DeviceId
      /\ b.ClassCode = d.ClassCode /\ b.FunctionNumber = d.FunctionNumber
      /\ b.DeviceNumber = d.DeviceNumber /\ b.BusNumber = d.BusNumber
      /\ b.SegmentNumber = d.SegmentNumber
      /\ b.MemoryNumber = d.MemoryNumber /\ b.IoNumber = d.IoNumber
  <2>1. DataOf(o) = read
    BY <1>4, TailedLayout DEF ir_section_pci_dev_to_cper
  <2>2. /\ b.ValidFields = r.validationBits
        /\ b.ErrorStatus = ir_generic_error_status_to_cper(r.errorStatus)
        /\ b.VendorId = r.idInfo.vendorID /\ b.DeviceId = r.idInfo.deviceID
        /\ b.ClassCode = r.idInfo.classCode
        /\ b.FunctionNumber = r.idInfo.functionNumber
        /\ b.DeviceNumber = r.idInfo.deviceNumber /\ b.BusNumber = r.idInfo.busNumber
        /\ b.SegmentNumber = r.idInfo.segmentNumber
        /\ b.MemoryNumber = r.memoryNumber /\ b.IoNumber = r.ioNumber
    <3> HIDE DEF r
    <3> QED
      BY TailedLayout DEF ir_section_pci_dev_to_cper
  <2> HIDE DEF b, o
  <2> QED
    BY <2>1, <2>2 DEF cper_section_pci_dev_to_ir
<1>6. PairsAnnounced(b) = pairs
  BY <1>5 DEF PairsAnnounced
<1>7. Bytes(read, 0, 2 * pairs) = read
  BY <1>2, BytesWhole
<1>8. Named(b.ValidFields, 5) = Named(d.ValidFields, 5)
  BY <1>5 DEF Named
<1>9. cper_generic_error_status_to_ir(b.ErrorStatus)
        = cper_generic_error_status_to_ir(d.ErrorStatus)
  BY <1>5, StatusSettles
<1> HIDE DEF b, pairs, read
<1>10. cper_section_pci_dev_to_ir(b, read) = cper_section_pci_dev_to_ir(d, words)
  BY <1>5, <1>6, <1>7, <1>8, <1>9 DEF cper_section_pci_dev_to_ir, pairs, read
<1> QED
  BY <1>5, <1>10 DEF b

LEMMA PciDevDrawn ==
  ASSUME NEW d, EFI_PCI_PCIX_DEVICE_ERROR_DATA(d), NEW words,
         d.MemoryNumber + d.IoNumber < 2^(IntBits - 1)
  PROVE  \E e, more : /\ generate_section_pci_dev(d, words) = Tailed(e, more)
                      /\ EFI_PCI_PCIX_DEVICE_ERROR_DATA(e) /\ Array(more)
                      /\ PlainPciDev(e, more)
<1> DEFINE e == [d EXCEPT !.ValidFields = @ \intersect 0..4,
                   !.Reserved = Zero,
                   !.ErrorStatus = create_valid_error_section(@)]
           number == d.MemoryNumber + d.IoNumber
           more == Bytes(words, 0, 2 * number)
<1>1. number \in Nat
  BY DEF EFI_PCI_PCIX_DEVICE_ERROR_DATA
<1>2. Array(more) /\ Len(more) = 2 * number
  BY <1>1, BytesLength
<1>3. HasMembers(e, DOMAIN d)
  BY DEF EFI_PCI_PCIX_DEVICE_ERROR_DATA, HasMembers
<1>4. /\ e.ValidFields = d.ValidFields \intersect 0..4
      /\ e.Reserved = Zero
      /\ e.ErrorStatus = create_valid_error_section(d.ErrorStatus)
      /\ e.MemoryNumber = d.MemoryNumber /\ e.IoNumber = d.IoNumber
  BY DEF EFI_PCI_PCIX_DEVICE_ERROR_DATA, HasMembers
<1>5. generate_section_pci_dev(d, words) = Tailed(e, more)
  BY DEF generate_section_pci_dev
<1> HIDE DEF e, more
<1>6. EFI_PCI_PCIX_DEVICE_ERROR_DATA(e)
  BY <1>3, <1>4, StatusDrawn DEF EFI_PCI_PCIX_DEVICE_ERROR_DATA, HasMembers
<1>7. PairsAnnounced(e) = number
  BY <1>1, <1>4, CountOfSmall DEF PairsAnnounced
<1>8. PlainPciDev(e, more)
  BY <1>2, <1>4, <1>7, StatusDrawn DEF PlainPciDev, EFI_PCI_PCIX_DEVICE_ERROR_DATA
<1> QED
  BY <1>2, <1>5, <1>6, <1>8

(* The NVIDIA section and its registers.  Nothing but its type is known of *)
(* a generated one, which announces registers that are not there.          *)
LEMMA NvidiaInverse ==
  ASSUME NEW d, EFI_NVIDIA_ERROR_DATA(d), NEW words, Array(words), PlainNvidia(d, words)
  PROVE  ir_section_nvidia_to_cper(cper_section_nvidia_to_ir(d, words, d.Signature))
           = Tailed(d, words)
<1> DEFINE r == cper_section_nvidia_to_ir(d, words, d.Signature)
           number == d.NumberRegs
<1>1. number \in Nat /\ Len(words) = 2 * number
  BY DEF EFI_NVIDIA_ERROR_DATA, PlainNvidia
<1>2. r.registers
        = [k \in 1..number |-> [address |-> words[2*k - 1], value |-> words[2*k]]]
  BY <1>1, BytesWhole DEF cper_section_nvidia_to_ir
<1>3. Halves(r.registers, "address", "value") = words
  <2>1. Len(r.registers) = number
    BY <1>1, <1>2
  <2>2. Paired(r.registers, "address", "value", words)
    BY <1>1, <1>2, <2>1 DEF Paired
  <2> QED
    BY <2>2, HalvesOfPairs
<1>4. d = [Signature     |-> TextWritten(r.signature, SignatureSize),
          ErrorType     |-> r.errorType,
          ErrorInstance |-> r.errorInstance,
          Severity      |-> r.severity,
          Socket        |-> r.socket,
          NumberRegs    |-> r.numberRegs,
          Reserved      |-> Zero,
          InstanceBase  |-> r.instanceBase]
  BY DEF cper_section_nvidia_to_ir, EFI_NVIDIA_ERROR_DATA, HasMembers, PlainNvidia,
         TextWritten
<1> HIDE DEF r
<1>5. ir_section_nvidia_to_cper(r) = Tailed(d, words)
  BY <1>3, <1>4 DEF ir_section_nvidia_to_cper
<1> QED
  BY <1>5 DEF r

LEMMA NvidiaSettles ==
  ASSUME NEW d, EFI_NVIDIA_ERROR_DATA(d), NEW words, NEW text, text < SignatureSize
  PROVE  LET r == cper_section_nvidia_to_ir(d, words, text)
             o == ir_section_nvidia_to_cper(r)
         IN  /\ o[1].body.Signature = text
             /\ cper_section_nvidia_to_ir(o[1].body, DataOf(o), text) = r
<1> DEFINE r == cper_section_nvidia_to_ir(d, words, text)
           o == ir_section_nvidia_to_cper(r)
           b == o[1].body
           number == d.NumberRegs
           read == Bytes(words, 0, 2 * number)
<1>1. number \in Nat
  BY DEF EFI_NVIDIA_ERROR_DATA
<1>2. Array(read) /\ Len(read) = 2 * number
  BY <1>1, BytesLength
<1>3. r.registers
        = [k \in 1..number |-> [address |-> read[2*k - 1], value |-> read[2*k]]]
  BY DEF cper_section_nvidia_to_ir
<1>4. Halves(r.registers, "address", "value") = read
  <2>1. Len(r.registers) = number
    BY <1>1, <1>3
  <2>2. Paired(r.registers, "address", "value", read)
    BY <1>1, <1>2, <1>3, <2>1 DEF Paired
  <2> QED
    BY <1>2, <2>2, HalvesOfPairs
<1>5. /\ DataOf(o) = read
      /\ b.Signature = text
      /\ b.ErrorType = d.ErrorType /\ b.ErrorInstance = d.ErrorInstance
      /\ b.Severity = d.Severity /\ b.Socket = d.Socket
      /\ b.NumberRegs = number /\ b.InstanceBase = d.InstanceBase
  BY <1>4, TailedLayout DEF ir_section_nvidia_to_cper, cper_section_nvidia_to_ir, TextWritten
<1>6. Bytes(read, 0, 2 * number) = read
  BY <1>2, BytesWhole
<1> HIDE DEF b, number, read
<1>7. cper_section_nvidia_to_ir(b, read, text) = cper_section_nvidia_to_ir(d, words, text)
  BY <1>5, <1>6 DEF cper_section_nvidia_to_ir, number, read
<1> QED
  BY <1>5, <1>7 DEF b

LEMMA NvidiaDrawn ==
  ASSUME NEW d, EFI_NVIDIA_ERROR_DATA(d)
  PROVE  EFI_NVIDIA_ERROR_DATA(generate_section_nvidia(d))
<1> DEFINE g == generate_section_nvidia(d)
<1>1. HasMembers(g, DOMAIN d)
  BY DEF EFI_NVIDIA_ERROR_DATA, HasMembers, generate_section_nvidia
<1>2. g.Signature = 1 /\ g.NumberRegs = d.NumberRegs
  BY DEF EFI_NVIDIA_ERROR_DATA, HasMembers, generate_section_nvidia
<1> QED
  BY <1>1, <1>2 DEF EFI_NVIDIA_ERROR_DATA, HasMembers

(* There is one empty array.                                               *)
LEMMA EmptyArray ==
  ASSUME NEW a, Array(a), Len(a) = 0
  PROVE  a = <<>>
BY DEF Array

(* The CCIX section: without its log only the structure is left, with the  *)
(* length of the whole.                                                    *)
LEMMA CcixWritten ==
  ASSUME NEW d, EFI_CCIX_PER_LOG_DATA(d), NEW log, Array(log), PlainCcix(d, log),
         NEW lost, NEW unread
  PROVE  ir_section_ccix_per_to_cper(cper_section_ccix_per_to_ir(d, log, lost), unread)
           = Tailed(d, IF "ccixPERLog" \in lost \union unread THEN <<>> ELSE log)
<1> DEFINE r == cper_section_ccix_per_to_ir(d, log, lost)
           remaining == RemainingLength(d.Length, CcixHeaderSize)
<1>1. remaining = Len(log) /\ Bytes(log, 0, remaining) = log
  BY BytesWhole DEF PlainCcix
<1>2. /\ r.length = d.Length /\ r.validationBits = Named(d.ValidBits, 3)
      /\ r.ccixSourceID = d.CcixSourceId /\ r.ccixPortID = d.CcixPortId
  BY DEF cper_section_ccix_per_to_ir, ++
<1>3. Get(r, "ccixPERLog", <<>>) = IF "ccixPERLog" \in lost THEN <<>> ELSE log
  <2>1. CASE Len(log) = 0
    <3>1. log = <<>> /\ "ccixPERLog" \notin DOMAIN r
      BY <1>1, <2>1, EmptyArray DEF cper_section_ccix_per_to_ir, ++
    <3> QED
      BY <3>1 DEF Get
  <2>2. CASE Len(log) # 0
    <3>1. /\ "ccixPERLog" \in DOMAIN r <=> "ccixPERLog" \notin lost
          /\ "ccixPERLog" \notin lost => r.ccixPERLog = log
      BY <1>1, <2>2 DEF cper_section_ccix_per_to_ir, ++, Encode
    <3> QED
      BY <3>1 DEF Get
  <2> QED
    BY <2>1, <2>2
<1> HIDE DEF r, remaining
<1>4. d = [Length       |-> r.length,
           ValidBits    |-> r.validationBits,
           CcixSourceId |-> r.ccixSourceID,
           CcixPortId   |-> r.ccixPortID,
           Reserved     |-> Zero]
  BY <1>2 DEF EFI_CCIX_PER_LOG_DATA, HasMembers, PlainCcix, Named
<1>5. ir_section_ccix_per_to_cper(r, unread)
        = Tailed(d, IF "ccixPERLog" \in lost \union unread THEN <<>> ELSE log)
  BY <1>3, <1>4 DEF ir_section_ccix_per_to_cper
<1> QED
  BY <1>5 DEF r

LEMMA CcixSettles ==
  ASSUME NEW d, EFI_CCIX_PER_LOG_DATA(d), NEW log
  PROVE  LET r == cper_section_ccix_per_to_ir(d, log, {})
             o == ir_section_ccix_per_to_cper(r, {})
         IN  cper_section_ccix_per_to_ir(o[1].body, DataOf(o), {}) = r
<1> DEFINE r == cper_section_ccix_per_to_ir(d, log, {})
           o == ir_section_ccix_per_to_cper(r, {})
           b == o[1].body
           remaining == RemainingLength(d.Length, CcixHeaderSize)
           read == Bytes(log, 0, remaining)
<1>1. remaining \in Nat
  BY CountInNat, SectionAssumption DEF RemainingLength, EFI_CCIX_PER_LOG_DATA
<1>2. Array(read) /\ Len(read) = remaining
  BY <1>1, BytesLength
<1>3. Get(r, "ccixPERLog", <<>>) = read
  <2>1. CASE remaining = 0
    <3>1. read = <<>> /\ "ccixPERLog" \notin DOMAIN r
      BY <1>2, <2>1, EmptyArray DEF cper_section_ccix_per_to_ir, ++
    <3> QED
      BY <3>1 DEF Get
  <2>2. CASE remaining # 0
    <3>1. "ccixPERLog" \in DOMAIN r /\ r.ccixPERLog = read
      BY <2>2 DEF cper_section_ccix_per_to_ir, ++, Encode
    <3> QED
      BY <3>1 DEF Get
  <2> QED
    BY <2>1, <2>2
<1>4. /\ b.Length = d.Length /\ b.ValidBits = Named(d.ValidBits, 3)
      /\ b.CcixSourceId = d.CcixSourceId /\ b.CcixPortId = d.CcixPortId
  BY TailedLayout DEF ir_section_ccix_per_to_cper, cper_section_ccix_per_to_ir, ++
<1>5. DataOf(o) = read
  BY <1>3, TailedLayout DEF ir_section_ccix_per_to_cper
<1>6. Named(b.ValidBits, 3) = Named(d.ValidBits, 3)
  BY <1>4 DEF Named
<1>7. Bytes(read, 0, remaining) = read
  BY <1>2, BytesWhole
<1> HIDE DEF b, o, read, remaining
<1>8. cper_section_ccix_per_to_ir(b, read, {}) = cper_section_ccix_per_to_ir(d, log, {})
  BY <1>4, <1>6, <1>7 DEF cper_section_ccix_per_to_ir, read, remaining
<1> QED
  BY <1>5, <1>8 DEF b, o

LEMMA CcixDrawn ==
  ASSUME NEW d, EFI_CCIX_PER_LOG_DATA(d), NEW log, Array(log), Len(log) < 2^(IntBits - 1)
  PROVE  \E e : /\ generate_section_ccix_per(d, log) = Tailed(e, log)
                /\ EFI_CCIX_PER_LOG_DATA(e) /\ PlainCcix(e, log)
<1> DEFINE e == [d EXCEPT !.Length = CcixHeaderSize + Len(log),
                   !.ValidBits = @ \intersect 0..2, !.Reserved = Zero]
<1>1. HasMembers(e, DOMAIN d)
  BY DEF EFI_CCIX_PER_LOG_DATA, HasMembers
<1>2. /\ e.Length = CcixHeaderSize + Len(log)
      /\ e.ValidBits = d.ValidBits \intersect 0..2 /\ e.Reserved = Zero
  BY DEF EFI_CCIX_PER_LOG_DATA, HasMembers
<1>3. generate_section_ccix_per(d, log) = Tailed(e, log)
  BY DEF generate_section_ccix_per
<1> HIDE DEF e
<1>4. EFI_CCIX_PER_LOG_DATA(e)
  BY <1>1, <1>2, SectionAssumption DEF EFI_CCIX_PER_LOG_DATA, HasMembers, Array
<1>5. RemainingLength(e.Length, CcixHeaderSize) = Len(log)
  <2>1. e.Length - CcixHeaderSize = Len(log) /\ Len(log) \in Nat
    BY <1>2, SectionAssumption DEF Array
  <2> QED
    BY <2>1, CountOfSmall DEF RemainingLength
<1>6. PlainCcix(e, log)
  BY <1>2, <1>5 DEF PlainCcix
<1> QED
  BY <1>3, <1>4, <1>6

(* The CXL component section, likewise.                                    *)
LEMMA CxlComponentWritten ==
  ASSUME NEW d, EFI_CXL_COMPONENT_EVENT_HEADER(d), NEW log, Array(log),
         PlainCxlComponent(d, log), NEW lost, NEW unread,
         lost = {} \/ RemainingLength(d.Length, CxlHeaderSize) = 0
  PROVE  ir_section_cxl_component_to_cper(
           cper_section_cxl_component_to_ir(d, log, lost), unread)
           = Tailed(d, IF "cxlComponentEventLog" \in unread THEN <<>> ELSE log)
<1> DEFINE r == cper_section_cxl_component_to_ir(d, log, lost)
           remaining == RemainingLength(d.Length, CxlHeaderSize)
<1>1. remaining = Len(log) /\ Bytes(log, 0, remaining) = log /\ remaining \in Nat
  BY BytesWhole DEF PlainCxlComponent, Array
<1>2. ~(remaining > 0 /\ lost # {})
  OBVIOUS
<1>3. /\ r.length = d.Length /\ r.validationBits = Named(d.ValidBits, 3)
      /\ r.deviceID.vendorID = d.VendorId /\ r.deviceID.deviceID = d.DeviceId
      /\ r.deviceID.functionNumber = d.FunctionNumber
      /\ r.deviceID.deviceNumber = d.DeviceNumber
      /\ r.deviceID.busNumber = d.BusNumber
      /\ r.deviceID.segmentNumber = d.SegmentNumber
      /\ r.deviceID.slotNumber = d.SlotNumber /\ r.deviceSerial = d.DeviceSerial
  BY <1>2 DEF cper_section_cxl_component_to_ir, ++
<1>4. Get(Get(r, "cxlComponentEventLog", <<>>), "data", <<>>) = log
  <2>1. CASE remaining = 0
    <3>1. log = <<>>
      BY <1>1, <2>1, EmptyArray
    <3>2. "cxlComponentEventLog" \notin DOMAIN r
      BY <1>2, <2>1 DEF cper_section_cxl_component_to_ir, ++
    <3> QED
      BY <3>1, <3>2 DEF Get
  <2>2. CASE remaining # 0
    <3>1. "cxlComponentEventLog" \in DOMAIN r /\ r.cxlComponentEventLog = [data |-> log]
      BY <1>1, <1>2, <2>2 DEF cper_section_cxl_component_to_ir, ++
    <3> QED
      BY <3>1 DEF Get
  <2> QED
    BY <2>1, <2>2
<1> HIDE DEF r, remaining
<1>5. d = [Length         |-> r.length,
          ValidBits      |-> r.validationBits,
          VendorId       |-> r.deviceID.vendorID,
          DeviceId       |-> r.deviceID.deviceID,
          FunctionNumber |-> r.deviceID.functionNumber,
          DeviceNumber   |-> r.deviceID.deviceNumber,
          BusNumber      |-> r.deviceID.busNumber,
          SegmentNumber  |-> r.deviceID.segmentNumber,
          Resv1          |-> Zero,
          SlotNumber     |-> r.deviceID.slotNumber,
          Resv2          |-> Zero,
          DeviceSerial   |-> r.deviceSerial]
  <2>1. d.Resv1 = Zero /\ d.Resv2 = Zero
    BY DEF PlainCxlComponent
  <2>2. r.validationBits = d.ValidBits
    <3>1. d.ValidBits \subseteq 0..2
      BY DEF PlainCxlComponent
    <3> QED
      BY <1>3, <3>1 DEF Named
  <2> QED
    BY <1>3, <2>1, <2>2 DEF EFI_CXL_COMPONENT_EVENT_HEADER, HasMembers
<1>6. ir_section_cxl_component_to_cper(r, unread)
        = Tailed(d, IF "cxlComponentEventLog" \in unread THEN <<>> ELSE log)
  BY <1>4, <1>5 DEF ir_section_cxl_component_to_cper
<1> QED
  BY <1>6 DEF r

LEMMA CxlComponentSettles ==
  ASSUME NEW d, EFI_CXL_COMPONENT_EVENT_HEADER(d), NEW log
  PROVE  LET r == cper_section_cxl_component_to_ir(d, log, {})
             o == ir_section_cxl_component_to_cper(r, {})
         IN  cper_section_cxl_component_to_ir(o[1].body, DataOf(o), {}) = r
<1> DEFINE r == cper_section_cxl_component_to_ir(d, log, {})
           o == ir_section_cxl_component_to_cper(r, {})
           b == o[1].body
           remaining == RemainingLength(d.Length, CxlHeaderSize)
           read == Bytes(log, 0, remaining)
<1>1. remaining \in Nat
  BY CountInNat, SectionAssumption DEF RemainingLength, EFI_CXL_COMPONENT_EVENT_HEADER
<1>2. Array(read) /\ Len(read) = remaining
  BY <1>1, BytesLength
<1>3. Get(Get(r, "cxlComponentEventLog", <<>>), "data", <<>>) = read
  <2>1. CASE remaining = 0
    <3>1. read = <<>> /\ "cxlComponentEventLog" \notin DOMAIN r
      BY <1>2, <2>1, EmptyArray DEF cper_section_cxl_component_to_ir, ++
    <3> QED
      BY <3>1 DEF Get
  <2>2. CASE remaining # 0
    <3>1. "cxlComponentEventLog" \in DOMAIN r /\ r.cxlComponentEventLog = [data |-> read]
      BY <2>2 DEF cper_section_cxl_component_to_ir, ++
    <3> QED
      BY <3>1 DEF Get
  <2> QED
    BY <2>1, <2>2
<1>4. /\ r.length = d.Length /\ r.validationBits = Named(d.ValidBits, 3)
      /\ r.deviceID = [vendorID       |-> d.VendorId,
                            deviceID       |-> d.DeviceId,
                            functionNumber |-> d.FunctionNumber,
                            deviceNumber   |-> d.DeviceNumber,
                            busNumber      |-> d.BusNumber,
                            segmentNumber  |-> d.SegmentNumber,
                            slotNumber     |-> d.SlotNumber]
      /\ r.deviceSerial = d.DeviceSerial
  BY DEF cper_section_cxl_component_to_ir, ++
<1> HIDE DEF r
<1>5. /\ b.Length = r.length /\ b.ValidBits = r.validationBits
      /\ b.VendorId = r.deviceID.vendorID /\ b.DeviceId = r.deviceID.deviceID
      /\ b.FunctionNumber = r.deviceID.functionNumber
      /\ b.DeviceNumber = r.deviceID.deviceNumber /\ b.BusNumber = r.deviceID.busNumber
      /\ b.SegmentNumber = r.deviceID.segmentNumber
      /\ b.SlotNumber = r.deviceID.slotNumber /\ b.DeviceSerial = r.deviceSerial
  BY TailedLayout DEF ir_section_cxl_component_to_cper
<1>6. DataOf(o) = read
  BY <1>3, TailedLayout DEF ir_section_cxl_component_to_cper
<1>7. Named(b.ValidBits, 3) = Named(d.ValidBits, 3)
  BY <1>4, <1>5 DEF Named
<1>8. Bytes(read, 0, remaining) = read
  BY <1>2, BytesWhole
<1> HIDE DEF b, o, read, remaining
<1>9. cper_section_cxl_component_to_ir(b, read, {})
        = cper_section_cxl_component_to_ir(d, log, {})
  BY <1>4, <1>5, <1>7, <1>8 DEF cper_section_cxl_component_to_ir, read, remaining
<1> QED
  BY <1>6, <1>9 DEF r, b, o

LEMMA CxlComponentDrawn ==
  ASSUME NEW d, EFI_CXL_COMPONENT_EVENT_HEADER(d), NEW log, Array(log),
         Len(log) < 2^(IntBits - 1)
  PROVE  \E e : /\ generate_section_cxl_component(d, log) = Tailed(e, log)
                /\ EFI_CXL_COMPONENT_EVENT_HEADER(e) /\ PlainCxlComponent(e, log)
<1> DEFINE e == [d EXCEPT !.Length = CxlHeaderSize + Len(log),
                   !.ValidBits = @ \intersect 0..2,
                   !.Resv1 = Zero, !.Resv2 = Zero]
<1>1. HasMembers(e, DOMAIN d)
  BY DEF EFI_CXL_COMPONENT_EVENT_HEADER, HasMembers
<1>2. /\ e.Length = CxlHeaderSize + Len(log)
      /\ e.ValidBits = d.ValidBits \intersect 0..2
      /\ e.Resv1 = Zero /\ e.Resv2 = Zero
  BY DEF EFI_CXL_COMPONENT_EVENT_HEADER, HasMembers
<1>3. generate_section_cxl_component(d, log) = Tailed(e, log)
  BY DEF generate_section_cxl_component
<1> HIDE DEF e
<1>4. EFI_CXL_COMPONENT_EVENT_HEADER(e)
  BY <1>1, <1>2, SectionAssumption DEF EFI_CXL_COMPONENT_EVENT_HEADER, HasMembers, Array
<1>5. RemainingLength(e.Length, CxlHeaderSize) = Len(log)
  <2>1. e.Length - CxlHeaderSize = Len(log) /\ Len(log) \in Nat
    BY <1>2, SectionAssumption DEF Array
  <2> QED
    BY <2>1, CountOfSmall DEF RemainingLength
<1>6. PlainCxlComponent(e, log)
  BY <1>2, <1>5 DEF PlainCxlComponent
<1> QED
  BY <1>3, <1>4, <1>6

(* The union of addresses that the agent type selects a member of.         *)
LEMMA AgentAddressInverse ==
  ASSUME NEW type, NEW address,
         address = <<address[1], address[2], address[3], address[4], address[5]>>,
         type = DEVICE_AGENT => address[5] = Zero,
         type \notin {DEVICE_AGENT, HOST_DOWNSTREAM_PORT_AGENT} => address = NoAddress
  PROVE  AgentAddressOf(type, AgentAddressIR(type, address)) = address
BY DEF AgentAddressOf, AgentAddressIR, DEVICE_AGENT, HOST_DOWNSTREAM_PORT_AGENT

LEMMA AgentAddressSettles ==
  ASSUME NEW type, NEW address
  PROVE  LET r == AgentAddressIR(type, address)
         IN  AgentAddressIR(type, AgentAddressOf(type, r)) = r
BY DEF AgentAddressOf, AgentAddressIR, DEVICE_AGENT, HOST_DOWNSTREAM_PORT_AGENT

(* Two arrays one behind the other are found again at their offsets.       *)
LEMMA LogsJoined ==
  ASSUME NEW logs, NEW dvsec \in Nat, NEW log \in Nat
  PROVE  LET joined == Bytes(logs, 0, dvsec) \o Bytes(logs, dvsec, log)
         IN  /\ Array(joined) /\ Len(joined) = dvsec + log
             /\ Bytes(joined, 0, dvsec) = Bytes(logs, 0, dvsec)
             /\ Bytes(joined, dvsec, log) = Bytes(logs, dvsec, log)
             /\ Array(logs) /\ Len(logs) = dvsec + log => joined = logs
<1> DEFINE a == Bytes(logs, 0, dvsec)
           b == Bytes(logs, dvsec, log)
           joined == a \o b
<1>1. /\ Len(a) = dvsec /\ a = [i \in 1..dvsec |-> a[i]]
      /\ Len(b) = log /\ b = [i \in 1..log |-> b[i]]
  BY BytesLength DEF Array
<1>2. /\ \A i \in 1..dvsec :
           a[i] = IF i <= Len(logs) THEN logs[i] ELSE Beyond
      /\ \A i \in 1..log :
           b[i] = IF dvsec + i <= Len(logs) THEN logs[dvsec + i] ELSE Beyond
  BY DEF Bytes
<1> HIDE DEF a, b
<1>3. joined = [i \in 1..(dvsec + log) |-> IF i <= dvsec THEN a[i] ELSE b[i - dvsec]]
  BY <1>1
<1>4. Array(joined) /\ Len(joined) = dvsec + log
  BY <1>3 DEF Array
<1>5. Bytes(joined, 0, dvsec) = a
  BY <1>1, <1>3, <1>4 DEF Bytes
<1>6. Bytes(joined, dvsec, log) = b
  BY <1>1, <1>3, <1>4 DEF Bytes
<1>7. ASSUME Array(logs), Len(logs) = dvsec + log PROVE joined = logs
  BY <1>2, <1>3, <1>7 DEF Array
<1> QED
  BY <1>4, <1>5, <1>6, <1>7 DEF a, b

(* The CXL protocol section and the DVSEC and error log behind it.         *)
LEMMA CxlProtocolWritten ==
  ASSUME NEW d, EFI_CXL_PROTOCOL_ERROR_DATA(d), NEW logs, Array(logs),
         PlainCxlProtocol(d, logs), NEW lost, NEW unread,
         lost = {} \/ (d.CxlAgentType # DEVICE_AGENT /\ lost \subseteq {"capabilityStructure"})
  PROVE  LET r == cper_section_cxl_protocol_to_ir(d, logs, lost)
             o == ir_section_cxl_protocol_to_cper(r, unread)
         IN  \E tail :
               /\ o = Tailed([d EXCEPT !.CapabilityStructure =
                                IF "capabilityStructure" \in unread THEN Zero ELSE @], tail)
               /\ unread = {} => tail = logs
<1> DEFINE r == cper_section_cxl_protocol_to_ir(d, logs, lost)
           fits == lost \ (IF d.CxlAgentType = DEVICE_AGENT THEN {}
                           ELSE {"capabilityStructure"}) = {}
           tail == LogsOf(r, unread)
           written == IF "capabilityStructure" \in unread THEN Zero ELSE d.CapabilityStructure
<1>1. fits
  OBVIOUS
<1>2. /\ r.validationBits = Named(d.ValidBits, 7) /\ r.agentType = d.CxlAgentType
      /\ r.cxlAgentAddress = AgentAddressIR(d.CxlAgentType, d.CxlAgentAddress)
      /\ r.deviceID.vendorID = d.VendorId /\ r.deviceID.deviceID = d.DeviceId
      /\ r.deviceID.subsystemVendorID = d.SubsystemVendorId
      /\ r.deviceID.subsystemDeviceID = d.SubsystemDeviceId
      /\ r.deviceID.classCode = d.ClassCode /\ r.deviceID.slotNumber = d.SlotNumber
      /\ r.dvsecLength = d.CxlDvsecLength /\ r.errorLogLength = d.CxlErrorLogLength
  BY <1>1 DEF cper_section_cxl_protocol_to_ir, ++
<1>3. /\ r.cxlDVSEC = Bytes(logs, 0, d.CxlDvsecLength)
      /\ r.cxlErrorLog = Bytes(logs, d.CxlDvsecLength, d.CxlErrorLogLength)
  BY <1>1 DEF cper_section_cxl_protocol_to_ir, ++
<1>4. /\ Get(r, "deviceSerial", Zero) = d.DeviceSerial
      /\ Get(r, "capabilityStructure", Zero) = d.CapabilityStructure
  <2>1. CASE d.CxlAgentType = DEVICE_AGENT
    BY <1>1, <2>1 DEF cper_section_cxl_protocol_to_ir, ++, Get
  <2>2. CASE d.CxlAgentType # DEVICE_AGENT
    <3>1. d.DeviceSerial = Zero /\ d.CapabilityStructure = Zero
      BY <2>2 DEF PlainCxlProtocol
    <3>2. "deviceSerial" \notin DOMAIN r /\ "capabilityStructure" \notin DOMAIN r
      BY <1>1, <2>2 DEF cper_section_cxl_protocol_to_ir, ++
    <3> QED
      BY <3>1, <3>2 DEF Get
  <2> QED
    BY <2>1, <2>2
<1> HIDE DEF r
<1>5. unread = {} => tail = logs
  <2>1. /\ d.CxlDvsecLength \in Nat /\ d.CxlErrorLogLength \in Nat
        /\ Len(logs) = d.CxlDvsecLength + d.CxlErrorLogLength
    BY DEF EFI_CXL_PROTOCOL_ERROR_DATA, PlainCxlProtocol
  <2>2. unread = {} => tail = r.cxlDVSEC \o r.cxlErrorLog
    BY DEF LogsOf, DecodedLog
  <2> DEFINE dvsec == d.CxlDvsecLength
             log == d.CxlErrorLogLength
  <2>3. Bytes(logs, 0, dvsec) \o Bytes(logs, dvsec, log) = logs
    <3>1. dvsec \in Nat /\ log \in Nat /\ Len(logs) = dvsec + log
      BY <2>1
    <3> HIDE DEF dvsec, log
    <3> QED
      BY <3>1, LogsJoined
  <2> HIDE DEF tail
  <2> QED
    BY <1>3, <2>2, <2>3
<1>6. AgentAddressOf(r.agentType, r.cxlAgentAddress) = d.CxlAgentAddress
  <2> DEFINE type == d.CxlAgentType
             address == d.CxlAgentAddress
  <2>1. /\ address = <<address[1], address[2], address[3], address[4], address[5]>>
        /\ type = DEVICE_AGENT => address[5] = Zero
        /\ type \notin {DEVICE_AGENT, HOST_DOWNSTREAM_PORT_AGENT} => address = NoAddress
    BY DEF PlainCxlProtocol, EFI_CXL_PROTOCOL_ERROR_DATA
  <2> HIDE DEF type, address
  <2>2. AgentAddressOf(type, AgentAddressIR(type, address)) = address
    BY <2>1, AgentAddressInverse
  <2> QED
    BY <1>2, <2>2 DEF type, address
<1>7. /\ d.Reserved1 = Zero /\ d.Reserved2 = Zero /\ d.Reserved = Zero
      /\ r.validationBits = d.ValidBits
  <2>1. d.Reserved1 = Zero /\ d.Reserved2 = Zero /\ d.Reserved = Zero
    BY DEF PlainCxlProtocol
  <2>2. d.ValidBits \subseteq 0..6
    BY DEF PlainCxlProtocol
  <2> QED
    BY <1>2, <2>1, <2>2 DEF Named
<1>8. [d EXCEPT !.CapabilityStructure = written]
        = [ValidBits           |-> r.validationBits,
          CxlAgentType        |-> r.agentType,
          CxlAgentAddress     |-> AgentAddressOf(r.agentType, r.cxlAgentAddress),
          VendorId            |-> r.deviceID.vendorID,
          DeviceId            |-> r.deviceID.deviceID,
          SubsystemVendorId   |-> r.deviceID.subsystemVendorID,
          SubsystemDeviceId   |-> r.deviceID.subsystemDeviceID,
          ClassCode           |-> r.deviceID.classCode,
          Reserved1           |-> Zero,
          SlotNumber          |-> r.deviceID.slotNumber,
          Reserved2           |-> Zero,
          DeviceSerial        |-> Get(r, "deviceSerial", Zero),
          CapabilityStructure |-> Decode(unread, "capabilityStructure",
                                         Get(r, "capabilityStructure", Zero)),
          CxlDvsecLength      |-> r.dvsecLength,
          CxlErrorLogLength   |-> r.errorLogLength,
          Reserved            |-> Zero]
  BY <1>2, <1>4, <1>6, <1>7 DEF Decode, EFI_CXL_PROTOCOL_ERROR_DATA, HasMembers
<1>9. ir_section_cxl_protocol_to_cper(r, unread)
        = Tailed([d EXCEPT !.CapabilityStructure = written], tail)
  BY <1>8 DEF ir_section_cxl_protocol_to_cper
<1> QED
  BY <1>5, <1>9 DEF r

LEMMA CxlProtocolSettles ==
  ASSUME NEW d, EFI_CXL_PROTOCOL_ERROR_DATA(d), NEW logs
  PROVE  LET r == cper_section_cxl_protocol_to_ir(d, logs, {})
             o == ir_section_cxl_protocol_to_cper(r, {})
         IN  cper_section_cxl_protocol_to_ir(o[1].body, DataOf(o), {}) = r
<1> DEFINE r == cper_section_cxl_protocol_to_ir(d, logs, {})
           o == ir_section_cxl_protocol_to_cper(r, {})
           b == o[1].body
           joined == DataOf(o)
<1>1. /\ r.validationBits = Named(d.ValidBits, 7) /\ r.agentType = d.CxlAgentType
      /\ r.cxlAgentAddress = AgentAddressIR(d.CxlAgentType, d.CxlAgentAddress)
      /\ r.deviceID = [vendorID          |-> d.VendorId,
                       deviceID          |-> d.DeviceId,
                       subsystemVendorID |-> d.SubsystemVendorId,
                       subsystemDeviceID |-> d.SubsystemDeviceId,
                       classCode         |-> d.ClassCode,
                       slotNumber        |-> d.SlotNumber]
      /\ r.dvsecLength = d.CxlDvsecLength /\ r.errorLogLength = d.CxlErrorLogLength
      /\ r.cxlDVSEC = Bytes(logs, 0, d.CxlDvsecLength)
      /\ r.cxlErrorLog = Bytes(logs, d.CxlDvsecLength, d.CxlErrorLogLength)
  BY DEF cper_section_cxl_protocol_to_ir, ++
<1>2. d.CxlAgentType = DEVICE_AGENT
        => /\ Get(r, "deviceSerial", Zero) = d.DeviceSerial
           /\ Get(r, "capabilityStructure", Zero) = d.CapabilityStructure
  BY DEF cper_section_cxl_protocol_to_ir, ++, Get
<1> HIDE DEF r
<1>3. /\ b.ValidBits = r.validationBits /\ b.CxlAgentType = r.agentType
      /\ b.CxlAgentAddress = AgentAddressOf(r.agentType, r.cxlAgentAddress)
      /\ b.VendorId = r.deviceID.vendorID /\ b.DeviceId = r.deviceID.deviceID
      /\ b.SubsystemVendorId = r.deviceID.subsystemVendorID
      /\ b.SubsystemDeviceId = r.deviceID.subsystemDeviceID
      /\ b.ClassCode = r.deviceID.classCode /\ b.SlotNumber = r.deviceID.slotNumber
      /\ b.DeviceSerial = Get(r, "deviceSerial", Zero)
      /\ b.CapabilityStructure = Get(r, "capabilityStructure", Zero)
      /\ b.CxlDvsecLength = r.dvsecLength /\ b.CxlErrorLogLength = r.errorLogLength
  BY TailedLayout DEF ir_section_cxl_protocol_to_cper, Decode
<1>4. joined = r.cxlDVSEC \o r.cxlErrorLog
  BY TailedLayout DEF ir_section_cxl_protocol_to_cper, LogsOf, DecodedLog
<1>5. /\ Bytes(joined, 0, d.CxlDvsecLength) = Bytes(logs, 0, d.CxlDvsecLength)
      /\ Bytes(joined, d.CxlDvsecLength, d.CxlErrorLogLength)
           = Bytes(logs, d.CxlDvsecLength, d.CxlErrorLogLength)
  <2>1. d.CxlDvsecLength \in Nat /\ d.CxlErrorLogLength \in Nat
    BY DEF EFI_CXL_PROTOCOL_ERROR_DATA
  <2> HIDE DEF joined
  <2> QED
    BY <1>1, <1>4, <2>1, LogsJoined
<1>6. Named(b.ValidBits, 7) = Named(d.ValidBits, 7)
  BY <1>1, <1>3 DEF Named
<1>7. AgentAddressIR(b.CxlAgentType, b.CxlAgentAddress)
        = AgentAddressIR(d.CxlAgentType, d.CxlAgentAddress)
  BY <1>1, <1>3, AgentAddressSettles
<1> HIDE DEF b, o, joined
<1>8. cper_section_cxl_protocol_to_ir(b, joined, {})
        = cper_section_cxl_protocol_to_ir(d, logs, {})
  <2>1. /\ b.CxlAgentType = d.CxlAgentType
        /\ b.VendorId = d.VendorId /\ b.DeviceId = d.DeviceId
        /\ b.SubsystemVendorId = d.SubsystemVendorId
        /\ b.SubsystemDeviceId = d.SubsystemDeviceId
        /\ b.ClassCode = d.ClassCode /\ b.SlotNumber = d.SlotNumber
        /\ b.CxlDvsecLength = d.CxlDvsecLength
        /\ b.CxlErrorLogLength = d.CxlErrorLogLength
    BY <1>1, <1>3
  <2>2. d.CxlAgentType = DEVICE_AGENT
          => b.DeviceSerial = d.DeviceSerial /\ b.CapabilityStructure = d.CapabilityStructure
    BY <1>2, <1>3
  <2> QED
    BY <1>5, <1>6, <1>7, <2>1, <2>2 DEF cper_section_cxl_protocol_to_ir
<1> QED
  BY <1>8 DEF r, b, o, joined

LEMMA CxlProtocolDrawn ==
  ASSUME NEW d, EFI_CXL_PROTOCOL_ERROR_DATA(d), NEW logs
  PROVE  \E e, more : /\ generate_section_cxl_protocol(d, logs) = Tailed(e, more)
                      /\ EFI_CXL_PROTOCOL_ERROR_DATA(e) /\ Array(more)
                      /\ PlainCxlProtocol(e, more)
<1> DEFINE agent == d.CxlAgentType % 2
           device == agent = DEVICE_AGENT
           e == [d EXCEPT !.ValidBits = @ \intersect 0..5,
                       !.CxlAgentType = agent,
                       !.CxlAgentAddress[5] = IF device THEN Zero ELSE @,
                       !.Reserved1 = Zero, !.Reserved2 = Zero,
                       !.DeviceSerial = IF device THEN @ ELSE Zero,
                       !.CapabilityStructure = IF device THEN @ ELSE Zero,
                       !.Reserved = Zero]
           number == d.CxlDvsecLength + d.CxlErrorLogLength
           more == Bytes(logs, 0, number)
<1>1. Array(more) /\ Len(more) = number
  BY BytesLength DEF EFI_CXL_PROTOCOL_ERROR_DATA
<1>2. HasMembers(e, DOMAIN d)
  <2>1. DOMAIN e = DOMAIN d
    OBVIOUS
  <2>2. e = [f \in DOMAIN e |-> e[f]]
    OBVIOUS
  <2> QED
    BY <2>1, <2>2 DEF HasMembers
<1>3. /\ e.ValidBits = d.ValidBits \intersect 0..5 /\ e.CxlAgentType = agent
      /\ e.CxlAgentAddress = [d.CxlAgentAddress EXCEPT ![5] = IF device THEN Zero ELSE @]
      /\ e.Reserved1 = Zero /\ e.Reserved2 = Zero /\ e.Reserved = Zero
      /\ ~device => e.DeviceSerial = Zero /\ e.CapabilityStructure = Zero
      /\ e.CxlDvsecLength = d.CxlDvsecLength
      /\ e.CxlErrorLogLength = d.CxlErrorLogLength
  BY DEF EFI_CXL_PROTOCOL_ERROR_DATA, HasMembers
<1>4. generate_section_cxl_protocol(d, logs) = Tailed(e, more)
  BY DEF generate_section_cxl_protocol
<1>5. agent \in {DEVICE_AGENT, HOST_DOWNSTREAM_PORT_AGENT}
  BY DEF DEVICE_AGENT, HOST_DOWNSTREAM_PORT_AGENT, EFI_CXL_PROTOCOL_ERROR_DATA
<1> HIDE DEF e, more
<1>6. LET a == e.CxlAgentAddress
      IN  a = <<a[1], a[2], a[3], a[4], a[5]>> /\ (device => a[5] = Zero)
  BY <1>3 DEF EFI_CXL_PROTOCOL_ERROR_DATA
<1>7. EFI_CXL_PROTOCOL_ERROR_DATA(e)
  BY <1>2, <1>3, <1>5, <1>6
  DEF EFI_CXL_PROTOCOL_ERROR_DATA, HasMembers, DEVICE_AGENT, HOST_DOWNSTREAM_PORT_AGENT
<1>8. PlainCxlProtocol(e, more)
  BY <1>1, <1>3, <1>5, <1>6 DEF PlainCxlProtocol
<1> QED
  BY <1>1, <1>4, <1>7, <1>8
----------------------------------------------------------------------------
(* What a section of any kind consists of, and what makes one.             *)
LEMMA SectionShape ==
  ASSUME NEW code \in SectionKinds, NEW parts, IsSection(code, parts)
  PROVE  LET d == parts[1].body
             data == DataOf(parts)
         IN  /\ OfItsType(code, d) /\ Array(data)
             /\ code \in TailedKinds => parts = Tailed(d, data)
             /\ code \notin TailedKinds => parts = Structure(d)
BY DEF IsSection

LEMMA StructureIsSection ==
  ASSUME NEW code \in SectionKinds \ TailedKinds, NEW d, OfItsType(code, d)
  PROVE  IsSection(code, Structure(d))
<1>1. Array(<<>>)
  BY DEF Array
<1> QED
  BY <1>1, StructureLayout DEF IsSection

LEMMA TailedIsSection ==
  ASSUME NEW code \in TailedKinds, NEW d, OfItsType(code, d), NEW data, Array(data)
  PROVE  IsSection(code, Tailed(d, data))
BY TailedLayout DEF IsSection

(* A plain section of any kind is written as it was read.                  *)
LEMMA SectionInverse ==
  ASSUME kind \in SectionKinds, NEW parts, IsSection(kind, parts), PlainSection(parts),
         NEW text \in SectionTexts(parts)
  PROVE  SectionOf(SectionIR(parts, text, {}), {}) = parts
<1> DEFINE d == parts[1].body
           data == DataOf(parts)
<1> USE DEF SectionIR, SectionOf, PlainSection, OfItsType, TailedKinds
<1>1. /\ OfItsType(kind, d) /\ Array(data)
      /\ kind \in TailedKinds => parts = Tailed(d, data)
      /\ kind \notin TailedKinds => parts = Structure(d)
  BY SectionShape
<1>2. CASE kind = "generic"
  <2>1. text = d.BrandString
    BY <1>2 DEF SectionTexts, TextsRead, PlainGeneric
  <2> QED
    BY <1>1, <1>2, <2>1, GenericInverse
<1>3. CASE kind = "memory"
  BY <1>1, <1>3, MemoryInverse
<1>4. CASE kind = "memory2"
  BY <1>1, <1>4, Memory2Inverse
<1>5. CASE kind = "pcie"
  <2>1. ir_section_pcie_to_cper(cper_section_pcie_to_ir(d, {}), {})
          = [d EXCEPT !.PcieCap = @, !.PcieAer = @]
    BY <1>1, <1>5, PcieWritten, ZenonT(60)
  <2>2. [d EXCEPT !.PcieCap = @, !.PcieAer = @] = d
    BY <1>1, <1>5 DEF EFI_PCIE_ERROR_DATA, HasMembers
  <2> QED
    BY <1>1, <1>5, <2>1, <2>2
<1>6. CASE kind = "firmware"
  BY <1>1, <1>6, FirmwareInverse
<1>7. CASE kind = "pcibus"
  BY <1>1, <1>7, PciBusInverse
<1>8. CASE kind = "pcidev"
  BY <1>1, <1>8, PciDevInverse
<1>9. CASE kind = "dmargeneric"
  BY <1>1, <1>9, DmarGenericInverse
<1>10. CASE kind = "dmarvtd"
  <2>1. ir_section_dmar_vtd_to_cper(cper_section_dmar_vtd_to_ir(d, {}), {})
          = [d EXCEPT !.RootEntry = @, !.ContextEntry = @]
    BY <1>1, <1>10, VtdWritten
  <2>2. [d EXCEPT !.RootEntry = @, !.ContextEntry = @] = d
    BY <1>1, <1>10 DEF EFI_DIRECTED_IO_DMAR_ERROR_DATA, HasMembers
  <2> QED
    BY <1>1, <1>10, <2>1, <2>2
<1>11. CASE kind = "dmariommu"
  <2>1. ir_section_dmar_iommu_to_cper(cper_section_dmar_iommu_to_ir(d, {}), {})
          = [d EXCEPT !.EventLogEntry = @, !.DeviceTableEntry = @]
    BY <1>1, <1>11, IommuWritten
  <2>2. [d EXCEPT !.EventLogEntry = @, !.DeviceTableEntry = @] = d
    BY <1>1, <1>11 DEF EFI_IOMMU_DMAR_ERROR_DATA, HasMembers
  <2> QED
    BY <1>1, <1>11, <2>1, <2>2
<1>12. CASE kind = "ccixper"
  BY <1>1, <1>12, CcixWritten
<1>13. CASE kind = "cxlprotocol"
  <2>1. ir_section_cxl_protocol_to_cper(cper_section_cxl_protocol_to_ir(d, data, {}), {})
          = Tailed([d EXCEPT !.CapabilityStructure = @], data)
    BY <1>1, <1>13, CxlProtocolWritten
  <2>2. [d EXCEPT !.CapabilityStructure = @] = d
    BY <1>1, <1>13 DEF EFI_CXL_PROTOCOL_ERROR_DATA, HasMembers
  <2> QED
    BY <1>1, <1>13, <2>1, <2>2
<1>14. CASE kind = "cxlcomponent-media"
  BY <1>1, <1>14, CxlComponentWritten
<1>15. CASE kind = "nvidia"
  <2>1. text = d.Signature
    BY <1>15 DEF SectionTexts, TextsRead, PlainNvidia
  <2> QED
    BY <1>1, <1>15, <2>1, NvidiaInverse
<1> QED
  BY <1>2, <1>3, <1>4, <1>5, <1>6, <1>7, <1>8, <1>9,
     <1>10, <1>11, <1>12, <1>13, <1>14, <1>15
  DEF SectionKinds

(* What is written from the IR of a section of any kind is read as that IR,*)
(* whatever was in the section, but for texts without an end and version   *)
(* numbers of more than two digits.                                        *)
LEMMA SectionSettles ==
  ASSUME kind \in SectionKinds, NEW parts, IsSection(kind, parts),
         NEW text \in SectionTexts(parts),
         kind = "generic" => text < BrandStringSize,
         kind = "nvidia" => text < SignatureSize,
         kind = "pcie" => LET version == parts[1].body.Version
                          IN  bcd_to_int(version[1]) <= 99 /\ bcd_to_int(version[2]) <= 99
  PROVE  LET r == SectionIR(parts, text, {})
             o == SectionOf(r, {})
         IN  \E again \in SectionTexts(o) : SectionIR(o, again, {}) = r
<1> DEFINE d == parts[1].body
           data == DataOf(parts)
           r == SectionIR(parts, text, {})
           o == SectionOf(r, {})
<1>1. OfItsType(kind, d)
  BY SectionShape
<1>2. kind \notin {"generic", "nvidia"} => text = 0 /\ SectionTexts(o) = {0}
  BY DEF SectionTexts, SectionKinds
<1> USE DEF SectionIR, SectionOf, OfItsType
<1>3. CASE kind = "generic"
  <2>1. o[1].body.BrandString = text /\ SectionIR(o, text, {}) = r
    BY <1>1, <1>3, StructureLayout, GenericSettles, SMTT(40)
  <2>2. text \in SectionTexts(o)
    BY <1>3, <2>1, SMTT(40) DEF SectionTexts, TextsRead
  <2> HIDE DEF SectionIR, SectionOf, OfItsType
  <2> QED
    BY <2>1, <2>2
<1>4. CASE kind = "memory"
  BY <1>1, <1>2, <1>4, StructureLayout, MemorySettles, SMTT(40)
<1>5. CASE kind = "memory2"
  BY <1>1, <1>2, <1>5, StructureLayout, Memory2Settles, SMTT(40)
<1>6. CASE kind = "pcie"
  BY <1>1, <1>2, <1>6, StructureLayout, PcieSettles, SMTT(40)
<1>7. CASE kind = "firmware"
  BY <1>1, <1>2, <1>7, StructureLayout, FirmwareSettles, SMTT(40)
<1>8. CASE kind = "pcibus"
  BY <1>1, <1>2, <1>8, StructureLayout, PciBusSettles, SMTT(40)
<1>9. CASE kind = "pcidev"
  BY <1>1, <1>2, <1>9, PciDevSettles
<1>10. CASE kind = "dmargeneric"
  BY <1>1, <1>2, <1>10, StructureLayout, DmarGenericSettles, SMTT(40)
<1>11. CASE kind = "dmarvtd"
  BY <1>1, <1>2, <1>11, StructureLayout, VtdSettles, SMTT(40)
<1>12. CASE kind = "dmariommu"
  BY <1>1, <1>2, <1>12, StructureLayout, IommuSettles, SMTT(40)
<1>13. CASE kind = "ccixper"
  BY <1>1, <1>2, <1>13, CcixSettles
<1>14. CASE kind = "cxlprotocol"
  BY <1>1, <1>2, <1>14, CxlProtocolSettles, ZenonT(60)
<1>15. CASE kind = "cxlcomponent-media"
  BY <1>1, <1>2, <1>15, CxlComponentSettles
<1>16. CASE kind = "nvidia"
  <2>1. o[1].body.Signature = text /\ SectionIR(o, text, {}) = r
    <3>1. EFI_NVIDIA_ERROR_DATA(d)
      BY <1>1, <1>16
    <3>2. \A p : SectionIR(p, text, {}) = cper_section_nvidia_to_ir(p[1].body, DataOf(p), text)
      BY <1>16, SMTT(40)
    <3>3. \A x : SectionOf(x, {}) = ir_section_nvidia_to_cper(x)
      BY <1>16, SMTT(40)
    <3> HIDE DEF SectionIR, SectionOf, OfItsType
    <3> DEFINE x == cper_section_nvidia_to_ir(d, data, text)
               p == ir_section_nvidia_to_cper(x)
    <3>4. r = x /\ o = p
      BY <3>2, <3>3
    <3>5. p[1].body.Signature = text /\ cper_section_nvidia_to_ir(p[1].body, DataOf(p), text) = x
      BY <1>16, <3>1, NvidiaSettles, SMTT(90)
    <3> HIDE DEF r, o, x, p
    <3> QED
      BY <3>2, <3>4, <3>5, SMTT(40)
  <2>2. text \in SectionTexts(o)
    BY <1>16, <2>1, SMTT(40) DEF SectionTexts, TextsRead
  <2> HIDE DEF SectionIR, SectionOf, OfItsType
  <2> QED
    BY <2>1, <2>2, SMTT(40)
<1> HIDE DEF SectionIR, SectionOf, OfItsType
<1> QED
  BY <1>3, <1>4, <1>5, <1>6, <1>7, <1>8, <1>9, <1>10,
     <1>11, <1>12, <1>13, <1>14, <1>15, <1>16
  DEF SectionKinds

(* A generated section is a section of its kind, and plain but for NVIDIA. *)
LEMMA SectionDrawn ==
  ASSUME kind \in SectionKinds, NEW random, IsSection(kind, random),
         Drawable(kind, random)
  PROVE  /\ IsSection(kind, Generated(random))
         /\ kind # "nvidia" => PlainSection(Generated(random))
<1> DEFINE d == random[1].body
           data == DataOf(random)
<1> USE DEF Generated, PlainSection, OfItsType
<1>1. /\ OfItsType(kind, d) /\ Array(data) /\ Len(data) < 2^(IntBits - 1)
      /\ kind = "pcidev" => d.MemoryNumber + d.IoNumber < 2^(IntBits - 1)
  BY SectionShape DEF Drawable
<1>2. CASE kind = "generic"
  <2>1. PICK e : /\ Generated(random) = Structure(e)
                 /\ OfItsType(kind, e) /\ PlainSection(Structure(e))
    BY <1>1, <1>2, GenericDrawn, StructureLayout
  <2> QED
    BY <1>2, <2>1, StructureIsSection DEF SectionKinds, TailedKinds
<1>3. CASE kind = "memory"
  <2>1. PICK e : /\ Generated(random) = Structure(e)
                 /\ OfItsType(kind, e) /\ PlainSection(Structure(e))
    BY <1>1, <1>3, MemoryDrawn, StructureLayout
  <2> QED
    BY <1>3, <2>1, StructureIsSection DEF SectionKinds, TailedKinds
<1>4. CASE kind = "memory2"
  <2>1. PICK e : /\ Generated(random) = Structure(e)
                 /\ OfItsType(kind, e) /\ PlainSection(Structure(e))
    BY <1>1, <1>4, Memory2Drawn, StructureLayout
  <2> QED
    BY <1>4, <2>1, StructureIsSection DEF SectionKinds, TailedKinds
<1>5. CASE kind = "pcie"
  <2>1. PICK e : /\ Generated(random) = Structure(e)
                 /\ OfItsType(kind, e) /\ PlainSection(Structure(e))
    BY <1>1, <1>5, PcieDrawn, StructureLayout
  <2> QED
    BY <1>5, <2>1, StructureIsSection DEF SectionKinds, TailedKinds
<1>6. CASE kind = "firmware"
  <2>1. PICK e : /\ Generated(random) = Structure(e)
                 /\ OfItsType(kind, e) /\ PlainSection(Structure(e))
    BY <1>1, <1>6, FirmwareDrawn, StructureLayout
  <2> QED
    BY <1>6, <2>1, StructureIsSection DEF SectionKinds, TailedKinds
<1>7. CASE kind = "pcibus"
  <2>1. PICK e : /\ Generated(random) = Structure(e)
                 /\ OfItsType(kind, e) /\ PlainSection(Structure(e))
    BY <1>1, <1>7, PciBusDrawn, StructureLayout
  <2> QED
    BY <1>7, <2>1, StructureIsSection DEF SectionKinds, TailedKinds
<1>8. CASE kind = "pcidev"
  <2>1. PICK e, more : /\ Generated(random) = Tailed(e, more)
                       /\ OfItsType(kind, e) /\ Array(more)
                       /\ PlainSection(Tailed(e, more))
    BY <1>1, <1>8, PciDevDrawn, TailedLayout
  <2> QED
    BY <1>8, <2>1, TailedIsSection DEF TailedKinds
<1>9. CASE kind = "dmargeneric"
  <2>1. PICK e : /\ Generated(random) = Structure(e)
                 /\ OfItsType(kind, e) /\ PlainSection(Structure(e))
    BY <1>1, <1>9, DmarGenericDrawn, StructureLayout
  <2> QED
    BY <1>9, <2>1, StructureIsSection DEF SectionKinds, TailedKinds
<1>10. CASE kind = "dmarvtd"
  <2>1. PICK e : /\ Generated(random) = Structure(e)
                 /\ OfItsType(kind, e) /\ PlainSection(Structure(e))
    BY <1>1, <1>10, VtdDrawn, StructureLayout
  <2> QED
    BY <1>10, <2>1, StructureIsSection DEF SectionKinds, TailedKinds
<1>11. CASE kind = "dmariommu"
  <2>1. PICK e : /\ Generated(random) = Structure(e)
                 /\ OfItsType(kind, e) /\ PlainSection(Structure(e))
    BY <1>1, <1>11, IommuDrawn, StructureLayout
  <2> QED
    BY <1>11, <2>1, StructureIsSection DEF SectionKinds, TailedKinds
<1>12. CASE kind = "ccixper"
  <2>1. PICK e, more : /\ Generated(random) = Tailed(e, more)
                       /\ OfItsType(kind, e) /\ Array(more)
                       /\ PlainSection(Tailed(e, more))
    BY <1>1, <1>12, CcixDrawn, TailedLayout
  <2> QED
    BY <1>12, <2>1, TailedIsSection DEF TailedKinds
<1>13. CASE kind = "cxlprotocol"
  <2>1. PICK e, more : /\ Generated(random) = Tailed(e, more)
                       /\ OfItsType(kind, e) /\ Array(more)
                       /\ PlainSection(Tailed(e, more))
    BY <1>1, <1>13, CxlProtocolDrawn, TailedLayout
  <2> QED
    BY <1>13, <2>1, TailedIsSection DEF TailedKinds
<1>14. CASE kind = "cxlcomponent-media"
  <2>1. PICK e, more : /\ Generated(random) = Tailed(e, more)
                       /\ OfItsType(kind, e) /\ Array(more)
                       /\ PlainSection(Tailed(e, more))
    BY <1>1, <1>14, CxlComponentDrawn, TailedLayout
  <2> QED
    BY <1>14, <2>1, TailedIsSection DEF TailedKinds
<1>15. CASE kind = "nvidia"
  <2>1. Array(<<>>)
    BY SMTT(40) DEF Array
  <2> QED
    BY <1>1, <1>15, <2>1, NvidiaDrawn, TailedIsSection DEF TailedKinds
<1> QED
  BY <1>2, <1>3, <1>4, <1>5, <1>6, <1>7, <1>8, <1>9,
     <1>10, <1>11, <1>12, <1>13, <1>14, <1>15
  DEF SectionKinds

(* Only arrays that went through a text are lost, and are zeros then.      *)
Contained(was, now) ==
  /\ DOMAIN now = DOMAIN was
  /\ \A f \in DOMAIN was :
       \/ now[f] = was[f]
       \/ f \in EncodedArrays /\ now[f] = Zero

(* With texts lost on the way to the IR, of those that a converter can go  *)
(* on without, and on the way back: no field of a plain section but their  *)
(* arrays differs.                                                         *)
LEMMA SectionContained ==
  ASSUME kind \in SectionKinds, NEW parts, IsSection(kind, parts), PlainSection(parts),
         NEW text \in SectionTexts(parts),
         NEW lost \in SUBSET (Base64Keys \ UncheckedKeys),
         NEW unread \in SUBSET Base64Keys,
         DOMAIN SectionIR(parts, text, lost) # {}
  PROVE  Contained(parts[1].body, SectionOf(SectionIR(parts, text, lost), unread)[1].body)
<1> DEFINE d == parts[1].body
           data == DataOf(parts)
           r == SectionIR(parts, text, lost)
           o == SectionOf(r, unread)
<1> USE DEF SectionIR, SectionOf, PlainSection, OfItsType
<1>1. OfItsType(kind, d) /\ Array(data)
  BY SectionShape
<1>2. CASE Base64Keys = {}
  <2>1. lost = {} /\ unread = {}
    BY <1>2
  <2>2. o = parts
    BY <2>1, SectionInverse
  <2> QED
    BY <2>2 DEF Contained
<1>3. CASE kind = "pcie"
  <2>1. ir_section_pcie_to_cper(cper_section_pcie_to_ir(d, lost), unread)
          = [d EXCEPT
           !.PcieCap = IF "capabilityStructure" \in lost \union unread THEN Zero ELSE @,
           !.PcieAer = IF "aerInfo" \in lost \union unread THEN Zero ELSE @]
    BY <1>1, <1>3, PcieWritten
  <2>2. o = Structure(ir_section_pcie_to_cper(cper_section_pcie_to_ir(d, lost), unread))
    BY <1>3
  <2>3. o[1].body = [d EXCEPT
           !.PcieCap = IF "capabilityStructure" \in lost \union unread THEN Zero ELSE @,
           !.PcieAer = IF "aerInfo" \in lost \union unread THEN Zero ELSE @]
    BY <2>1, <2>2, StructureLayout
  <2> QED
    BY <2>3, ZenonT(60) DEF Contained, EncodedArrays
<1>4. CASE kind = "dmarvtd"
  <2>1. ir_section_dmar_vtd_to_cper(cper_section_dmar_vtd_to_ir(d, lost), unread)
          = [d EXCEPT
           !.RootEntry = IF "rootEntry" \in unread THEN Zero ELSE @,
           !.ContextEntry = IF "contextEntry" \in lost \union unread THEN Zero ELSE @]
    BY <1>1, <1>4, VtdWritten
  <2>2. o = Structure(ir_section_dmar_vtd_to_cper(cper_section_dmar_vtd_to_ir(d, lost), unread))
    BY <1>4
  <2>3. o[1].body = [d EXCEPT
           !.RootEntry = IF "rootEntry" \in unread THEN Zero ELSE @,
           !.ContextEntry = IF "contextEntry" \in lost \union unread THEN Zero ELSE @]
    BY <2>1, <2>2, StructureLayout
  <2> QED
    BY <2>3, ZenonT(60) DEF Contained, EncodedArrays
<1>5. CASE kind = "dmariommu"
  <2>1. lost = {}
    BY <1>5 DEF cper_section_dmar_iommu_to_ir
  <2>2. ir_section_dmar_iommu_to_cper(cper_section_dmar_iommu_to_ir(d, {}), unread)
          = [d EXCEPT
           !.EventLogEntry = IF "eventLogEntry" \in unread THEN Zero ELSE @,
           !.DeviceTableEntry = IF "deviceTableEntry" \in unread THEN Zero ELSE @]
    BY <1>1, <1>5, <2>1, IommuWritten
  <2>3. o = Structure(ir_section_dmar_iommu_to_cper(cper_section_dmar_iommu_to_ir(d, {}), unread))
    BY <1>5, <2>1
  <2>4. o[1].body = [d EXCEPT
           !.EventLogEntry = IF "eventLogEntry" \in unread THEN Zero ELSE @,
           !.DeviceTableEntry = IF "deviceTableEntry" \in unread THEN Zero ELSE @]
    BY <2>2, <2>3, StructureLayout
  <2> QED
    BY <2>4, ZenonT(60) DEF Contained, EncodedArrays
<1>6. CASE kind = "ccixper"
  <2>1. o[1].body = d
    BY <1>1, <1>6, CcixWritten, TailedLayout
  <2> QED
    BY <2>1 DEF Contained
<1>7. CASE kind = "cxlcomponent-media"
  <2>1. lost = {} \/ RemainingLength(d.Length, CxlHeaderSize) = 0
    <3>1. RemainingLength(d.Length, CxlHeaderSize) \in Nat
      BY <1>1, <1>7 DEF PlainCxlComponent, Array
    <3> QED
      BY <1>7, <3>1 DEF cper_section_cxl_component_to_ir
  <2>2. o[1].body = d
    BY <1>1, <1>7, <2>1, CxlComponentWritten, TailedLayout, SMTT(40)
  <2> QED
    BY <2>2 DEF Contained
<1>8. CASE kind = "cxlprotocol"
  <2>1. lost = {} \/ (d.CxlAgentType # DEVICE_AGENT /\ lost \subseteq {"capabilityStructure"})
    BY <1>8 DEF cper_section_cxl_protocol_to_ir
  <2>2. PICK tail : o = Tailed([d EXCEPT !.CapabilityStructure =
                           IF "capabilityStructure" \in unread THEN Zero ELSE @], tail)
    BY <1>1, <1>8, <2>1, CxlProtocolWritten
  <2>3. o[1].body = [d EXCEPT !.CapabilityStructure =
                       IF "capabilityStructure" \in unread THEN Zero ELSE @]
    BY <2>2, TailedLayout
  <2> QED
    BY <2>3 DEF Contained, EncodedArrays
<1> QED
  BY <1>2, <1>3, <1>4, <1>5, <1>6, <1>7, <1>8 DEF Base64Keys
=============================================================================
