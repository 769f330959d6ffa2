---------------------------- MODULE PciSections ----------------------------
(***************************************************************************)
(* sections/cper-section-pcie.c, -pci-bus.c and -pci-dev.c with their      *)
(* generators.                                                             *)
(***************************************************************************)
EXTENDS FieldCodecs
----------------------------------------------------------------------------
EFI_PCIE_ERROR_DATA(d) ==
  /\ HasMembers(d, {"ValidFields", "PortType", "Version", "CommandStatus", "Resv2",
                    "VendorId", "DeviceId", "ClassCode", "Function", "Device",
                    "Segment", "PrimaryOrDeviceBus", "SecondaryBus", "SlotResv1",
                    "SlotNumber", "DevBridgeResv1", "SerialNo",
                    "BridgeControlStatus", "PcieCap", "PcieAer"})
  /\ {d.Version[1], d.Version[2]} \subseteq 0..255
  /\ d.Version = <<d.Version[1], d.Version[2], d.Version[3]>>
  /\ Pair(d.CommandStatus) /\ Pair(d.BridgeControlStatus)
  /\ d.ClassCode = <<d.ClassCode[1], d.ClassCode[2], d.ClassCode[3]>>

(* Both capabilities are base64: without memory for it the first one's key *)
(* is missing, the second one's object empty.                              *)
cper_section_pcie_to_ir(d, failed) ==
  [validationBits  |-> Named(d.ValidFields, 8),
   portType        |-> d.PortType,
   version         |-> [minor |-> bcd_to_int(d.Version[1]),
                        major |-> bcd_to_int(d.Version[2])],
   commandStatus   |-> [commandRegister |-> d.CommandStatus[1],
                        statusRegister  |-> d.CommandStatus[2]],
   deviceID        |-> [vendorID                 |-> d.VendorId,
                        deviceID                 |-> d.DeviceId,
                        classCode                |-> Reverse(d.ClassCode),
                        functionNumber           |-> d.Function,
                        deviceNumber             |-> d.Device,
                        segmentNumber            |-> d.Segment,
                        primaryOrDeviceBusNumber |-> d.PrimaryOrDeviceBus,
                        secondaryBusNumber       |-> d.SecondaryBus,
                        slotNumber               |-> d.SlotNumber],
   deviceSerialNumber  |-> d.SerialNo,
   bridgeControlStatus |-> [secondaryStatusRegister |-> d.BridgeControlStatus[1],
                            controlRegister         |-> d.BridgeControlStatus[2]]]
  ++ Encode(failed, "capabilityStructure", [capabilityStructure |-> [data |-> d.PcieCap]])
  ++ [aerInfo |-> Encode(failed, "aerInfo", [data |-> d.PcieAer])]

(* The bytes of the class code are the highest first in the structure; in  *)
(* the IR it is a number, its lowest byte first here.                      *)
ir_section_pcie_to_cper(r, failed) ==
  [ValidFields         |-> r.validationBits,
   PortType            |-> r.portType,
   Version             |-> <<int_to_bcd(r.version.minor),
                             int_to_bcd(r.version.major), Zero>>,
   CommandStatus       |-> <<r.commandStatus.commandRegister,
                             r.commandStatus.statusRegister>>,
   Resv2               |-> Zero,
   VendorId            |-> r.deviceID.vendorID,
   DeviceId            |-> r.deviceID.deviceID,
   ClassCode           |-> Reverse(r.deviceID.classCode),
   Function            |-> r.deviceID.functionNumber,
   Device              |-> r.deviceID.deviceNumber,
   Segment             |-> r.deviceID.segmentNumber,
   PrimaryOrDeviceBus  |-> r.deviceID.primaryOrDeviceBusNumber,
   SecondaryBus        |-> r.deviceID.secondaryBusNumber,
   SlotResv1           |-> Zero,
   SlotNumber          |-> r.deviceID.slotNumber,
   DevBridgeResv1      |-> Zero,
   SerialNo            |-> r.deviceSerialNumber,
   BridgeControlStatus |-> <<r.bridgeControlStatus.secondaryStatusRegister,
                             r.bridgeControlStatus.controlRegister>>,
   PcieCap |-> Decode(failed, "capabilityStructure",
                      Get(Get(r, "capabilityStructure", <<>>), "data", Zero)),
   PcieAer |-> Decode(failed, "aerInfo", Get(r.aerInfo, "data", Zero))]

(* The version is made of two numbers below 128, drawn like the bytes.     *)
generate_section_pcie(d) ==
  [d EXCEPT !.ValidFields = @ \intersect 0..7,
            !.Version = <<int_to_bcd(@[1] % 128), int_to_bcd(@[2] % 128), Zero>>,
            !.Resv2 = Zero, !.SlotResv1 = Zero, !.DevBridgeResv1 = Zero]

PlainPcie(d) ==
  /\ d.ValidFields \subseteq 0..7
  /\ DecimalByte(d.Version[1]) /\ DecimalByte(d.Version[2]) /\ d.Version[3] = Zero
  /\ {d.Resv2, d.SlotResv1, d.DevBridgeResv1} = {Zero}
----------------------------------------------------------------------------
EFI_PCI_PCIX_BUS_ERROR_DATA(d) ==
  /\ HasMembers(d, {"ValidFields", "ErrorStatus", "Type", "BusId", "Resv2",
                    "BusAddress", "BusData", "BusCommand", "RequestorId",
                    "ResponderId", "TargetId"})
  /\ EFI_GENERIC_ERROR_STATUS(d.ErrorStatus)
  /\ Pair(d.BusId)

(* Only bit 56 of the bus command has a meaning.                           *)
cper_section_pci_bus_to_ir(d) ==
  [validationBits |-> Named(d.ValidFields, 9),
   errorStatus    |-> cper_generic_error_status_to_ir(d.ErrorStatus),
   errorType      |-> d.Type,
   busID          |-> [busNumber |-> d.BusId[1], segmentNumber |-> d.BusId[2]],
   busAddress     |-> d.BusAddress,
   busData        |-> d.BusData,
   busCommandType |-> IF 56 \in d.BusCommand THEN "PCI-X" ELSE "PCI",
   busRequestorID |-> d.RequestorId,
   busCompleterID |-> d.ResponderId,
   targetID       |-> d.TargetId]

ir_section_pci_bus_to_cper(r) ==
  [ValidFields |-> r.validationBits,
   ErrorStatus |-> ir_generic_error_status_to_cper(r.errorStatus),
   Type        |-> r.errorType,
   BusId       |-> <<r.busID.busNumber, r.busID.segmentNumber>>,
   Resv2       |-> Zero,
   BusAddress  |-> r.busAddress,
   BusData     |-> r.busData,
   BusCommand  |-> IF r.busCommandType = "PCI" THEN {} ELSE {56},
   RequestorId |-> r.busRequestorID,
   ResponderId |-> r.busCompleterID,
   TargetId    |-> r.targetID]

generate_section_pci_bus(d) ==
  [d EXCEPT !.ValidFields = @ \intersect 0..8,
            !.Resv2 = Zero,
            !.BusCommand = @ \intersect {56},
            !.ErrorStatus = create_valid_error_section(@)]

PlainPciBus(d) ==
  /\ d.ValidFields \subseteq 0..8 /\ PlainStatus(d.ErrorStatus)
  /\ d.Resv2 = Zero /\ d.BusCommand \subseteq {56}
----------------------------------------------------------------------------
EFI_PCI_PCIX_DEVICE_ERROR_DATA(d) ==
  /\ HasMembers(d, {"ValidFields", "ErrorStatus", "VendorId", "DeviceId", "ClassCode",
                    "FunctionNumber", "DeviceNumber", "BusNumber", "SegmentNumber",
                    "Reserved", "MemoryNumber", "IoNumber"})
  /\ EFI_GENERIC_ERROR_STATUS(d.ErrorStatus)
  /\ {d.MemoryNumber, d.IoNumber} \subseteq Nat

(* The sum of two UINT32 as an int.                                        *)
PairsAnnounced(d) == Count(d.MemoryNumber + d.IoNumber)

(* As many pairs of words as both numbers announce together.               *)
cper_section_pci_dev_to_ir(d, words) ==
  [validationBits    |-> Named(d.ValidFields, 5),
   errorStatus       |-> cper_generic_error_status_to_ir(d.ErrorStatus),
   idInfo            |-> [vendorID       |-> d.VendorId,
                          deviceID       |-> d.DeviceId,
                          classCode      |-> d.ClassCode,
                          functionNumber |-> d.FunctionNumber,
                          deviceNumber   |-> d.DeviceNumber,
                          busNumber      |-> d.BusNumber,
                          segmentNumber  |-> d.SegmentNumber],
   memoryNumber      |-> d.MemoryNumber,
   ioNumber          |-> d.IoNumber,
   registerDataPairs |-> LET pairs == PairsAnnounced(d)
                             read == Bytes(words, 0, 2 * pairs)
                         IN  [k \in 1..pairs |->
                                [firstHalf |-> read[2*k - 1], secondHalf |-> read[2*k]]]]

(* As many pairs as the array has.                                         *)
ir_section_pci_dev_to_cper(r) ==
  Tailed([ValidFields    |-> r.validationBits,
          ErrorStatus    |-> ir_generic_error_status_to_cper(r.errorStatus),
          VendorId       |-> r.idInfo.vendorID,
          DeviceId       |-> r.idInfo.deviceID,
          ClassCode      |-> r.idInfo.classCode,
          FunctionNumber |-> r.idInfo.functionNumber,
          DeviceNumber   |-> r.idInfo.deviceNumber,
          BusNumber      |-> r.idInfo.busNumber,
          SegmentNumber  |-> r.idInfo.segmentNumber,
          Reserved       |-> Zero,
          MemoryNumber   |-> r.memoryNumber,
          IoNumber       |-> r.ioNumber],
         Halves(r.registerDataPairs, "firstHalf", "secondHalf"))

(* Up to three pairs of each kind are drawn, and as many words.            *)
generate_section_pci_dev(d, words) ==
  Tailed([d EXCEPT !.ValidFields = @ \intersect 0..4,
                   !.Reserved = Zero,
                   !.ErrorStatus = create_valid_error_section(@)],
         Bytes(words, 0, 2 * (d.MemoryNumber + d.IoNumber)))

PlainPciDev(d, words) ==
  /\ d.ValidFields \subseteq 0..4 /\ PlainStatus(d.ErrorStatus)
  /\ d.Reserved = Zero
  /\ Len(words) = 2 * PairsAnnounced(d)
=============================================================================
