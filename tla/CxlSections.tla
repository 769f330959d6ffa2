---------------------------- MODULE CxlSections ----------------------------
(***************************************************************************)
(* sections/cper-section-ccix-per.c, -cxl-component.c and -cxl-protocol.c  *)
(* with their generators: structures followed by logs of any length, which *)
(* the IR holds as base64.  The converters are not told the length of the  *)
(* section; they believe the lengths in the structure.                     *)
(***************************************************************************)
EXTENDS FieldCodecs

CONSTANTS
  CcixHeaderSize,   (* sizeof(EFI_CCIX_PER_LOG_DATA), 16                   *)
  CxlHeaderSize     (* sizeof(EFI_CXL_COMPONENT_EVENT_HEADER), 32          *)

(* What a length of the whole structure leaves for the log.                *)
RemainingLength(length, size) == Count(length - size)
----------------------------------------------------------------------------
EFI_CCIX_PER_LOG_DATA(d) ==
  /\ HasMembers(d, {"Length", "ValidBits", "CcixSourceId", "CcixPortId", "Reserved"})
  /\ d.Length \in Nat

(* Without memory for the text its key is missing.                         *)
cper_section_ccix_per_to_ir(d, log, failed) ==
  LET remaining == RemainingLength(d.Length, CcixHeaderSize) IN
  [length         |-> d.Length,
   validationBits |-> Named(d.ValidBits, 3),
   ccixSourceID   |-> d.CcixSourceId,
   ccixPortID     |-> d.CcixPortId]
  ++ (IF remaining = 0 THEN <<>>
      ELSE Encode(failed, "ccixPERLog", [ccixPERLog |-> Bytes(log, 0, remaining)]))

(* The length is the IR's, whatever is written behind it.                  *)
ir_section_ccix_per_to_cper(r, failed) ==
  Tailed([Length       |-> r.length,
          ValidBits    |-> r.validationBits,
          CcixSourceId |-> r.ccixSourceID,
          CcixPortId   |-> r.ccixPortID,
          Reserved     |-> Zero],
         IF "ccixPERLog" \in failed THEN <<>> ELSE Get(r, "ccixPERLog", <<>>))

(* A mutant: the length is that of the log.                                *)
GeneratedCcixLogLength(d, log) ==
  Tailed([d EXCEPT !.Length = Len(log), !.ValidBits = @ \intersect 0..2,
                   !.Reserved = Zero], log)

(* The three upper bits of the port are cleared: it is a value of its own. *)
generate_section_ccix_per(d, log) ==
  Tailed([d EXCEPT !.Length = CcixHeaderSize + Len(log),
                   !.ValidBits = @ \intersect 0..2, !.Reserved = Zero], log)

PlainCcix(d, log) ==
  /\ d.ValidBits \subseteq 0..2 /\ d.Reserved = Zero
  /\ Len(log) = RemainingLength(d.Length, CcixHeaderSize)
----------------------------------------------------------------------------
EFI_CXL_COMPONENT_EVENT_HEADER(d) ==
  /\ HasMembers(d, {"Length", "ValidBits", "VendorId", "DeviceId", "FunctionNumber",
                    "DeviceNumber", "BusNumber", "SegmentNumber", "Resv1",
                    "SlotNumber", "Resv2", "DeviceSerial"})
  /\ d.Length \in Nat

(* No IR at all without memory for the text.                               *)
cper_section_cxl_component_to_ir(d, log, failed) ==
  LET remaining == RemainingLength(d.Length, CxlHeaderSize) IN
  IF remaining > 0 /\ failed # {} THEN <<>>
  ELSE [length         |-> d.Length,
        validationBits |-> Named(d.ValidBits, 3),
        deviceID       |-> [vendorID       |-> d.VendorId,
                            deviceID       |-> d.DeviceId,
                            functionNumber |-> d.FunctionNumber,
                            deviceNumber   |-> d.DeviceNumber,
                            busNumber      |-> d.BusNumber,
                            segmentNumber  |-> d.SegmentNumber,
                            slotNumber     |-> d.SlotNumber],
        deviceSerial   |-> d.DeviceSerial]
       ++ (IF remaining = 0 THEN <<>>
           ELSE [cxlComponentEventLog |-> [data |-> Bytes(log, 0, remaining)]])

ir_section_cxl_component_to_cper(r, failed) ==
  Tailed([Length         |-> r.length,
          ValidBits      |-> r.validationBits,
          VendorId       |-> r.deviceID.vendorID,
          DeviceId       |-> r.deviceID.deviceID,
          FunctionNumber |-> r.deviceID.functionNumber,
          DeviceNumber   |-> r.deviceID.deviceNumber,
          BusNumber      |-> r.deviceID.busNumber,
          SegmentNumber  |-> r.deviceID.segmentNumber,
          Resv1          |-> Zero,
          SlotNumber     |-> r.deviceID.slotNumber,
          Resv2          |-> Zero,
          DeviceSerial   |-> r.deviceSerial],
         IF "cxlComponentEventLog" \in failed THEN <<>>
         ELSE Get(Get(r, "cxlComponentEventLog", <<>>), "data", <<>>))

generate_section_cxl_component(d, log) ==
  Tailed([d EXCEPT !.Length = CxlHeaderSize + Len(log),
                   !.ValidBits = @ \intersect 0..2,
                   !.Resv1 = Zero, !.Resv2 = Zero], log)

PlainCxlComponent(d, log) ==
  /\ d.ValidBits \subseteq 0..2 /\ {d.Resv1, d.Resv2} = {Zero}
  /\ Len(log) = RemainingLength(d.Length, CxlHeaderSize)
----------------------------------------------------------------------------
DEVICE_AGENT == 0                 (* CXL_PROTOCOL_ERROR_DEVICE_AGENT       *)
HOST_DOWNSTREAM_PORT_AGENT == 1   (* ..._HOST_DOWNSTREAM_PORT_AGENT        *)

(* The address of a device is five parts, the last one reserved; that of a *)
(* port is one number, and no other agent has one.                         *)
AgentAddressIR(type, address) ==
  IF type = DEVICE_AGENT
    THEN [functionNumber |-> address[1], deviceNumber  |-> address[2],
          busNumber      |-> address[3], segmentNumber |-> address[4]]
    ELSE IF type = HOST_DOWNSTREAM_PORT_AGENT THEN [value |-> address] ELSE <<>>

NoAddress == <<Zero, Zero, Zero, Zero, Zero>>

AgentAddressOf(type, r) ==
  IF type = DEVICE_AGENT
    THEN <<r.functionNumber, r.deviceNumber, r.busNumber, r.segmentNumber, Zero>>
    ELSE IF type = HOST_DOWNSTREAM_PORT_AGENT THEN r.value ELSE NoAddress

EFI_CXL_PROTOCOL_ERROR_DATA(d) ==
  /\ HasMembers(d, {"ValidBits", "CxlAgentType", "CxlAgentAddress", "VendorId",
                    "DeviceId", "SubsystemVendorId", "SubsystemDeviceId", "ClassCode",
                    "Reserved1", "SlotNumber", "Reserved2", "DeviceSerial",
                    "CapabilityStructure", "CxlDvsecLength", "CxlErrorLogLength",
                    "Reserved"})
  /\ LET a == d.CxlAgentAddress IN a = <<a[1], a[2], a[3], a[4], a[5]>>
  /\ {d.CxlAgentType, d.CxlDvsecLength, d.CxlErrorLogLength} \subseteq Nat

(* Serial number and capability structure are read of a device only.  No   *)
(* IR at all without memory for one of the texts.                          *)
cper_section_cxl_protocol_to_ir(d, logs, failed) ==
  IF failed \ (IF d.CxlAgentType = DEVICE_AGENT THEN {} ELSE {"capabilityStructure"}) # {}
  THEN <<>>
  ELSE [validationBits  |-> Named(d.ValidBits, 7),
        agentType       |-> d.CxlAgentType,
        cxlAgentAddress |-> AgentAddressIR(d.CxlAgentType, d.CxlAgentAddress),
        deviceID        |-> [vendorID          |-> d.VendorId,
                             deviceID          |-> d.DeviceId,
                             subsystemVendorID |-> d.SubsystemVendorId,
                             subsystemDeviceID |-> d.SubsystemDeviceId,
                             classCode         |-> d.ClassCode,
                             slotNumber        |-> d.SlotNumber],
        dvsecLength     |-> d.CxlDvsecLength,
        errorLogLength  |-> d.CxlErrorLogLength,
        cxlDVSEC        |-> Bytes(logs, 0, d.CxlDvsecLength),
        cxlErrorLog     |-> Bytes(logs, d.CxlDvsecLength, d.CxlErrorLogLength)]
       ++ (IF d.CxlAgentType # DEVICE_AGENT THEN <<>>
           ELSE [deviceSerial        |-> d.DeviceSerial,
                 capabilityStructure |-> d.CapabilityStructure])

(* The texts that are decoded, with the bytes of those that can be.        *)
DecodedLog(r, failed, key) == IF key \in failed THEN <<>> ELSE r[key]

(* A mutant: the error log is written first.                               *)
LogsSwapped(r, failed) ==
  DecodedLog(r, failed, "cxlErrorLog") \o DecodedLog(r, failed, "cxlDVSEC")

LogsOf(r, failed) ==
  DecodedLog(r, failed, "cxlDVSEC") \o DecodedLog(r, failed, "cxlErrorLog")

ir_section_cxl_protocol_to_cper(r, failed) ==
  Tailed([ValidBits           |-> r.validationBits,
          CxlAgentType        |-> r.agentType,
          CxlAgentAddress     |-> AgentAddressOf(r.agentType, r.cxlAgentAddress),
          VendorId            |-> r.deviceID.vendorID,
          DeviceId            |-> r.deviceID.deviceID,
          SubsystemVendorId   |-> r.deviceID.subsystemVendorID,
          SubsystemDeviceId   |-> r.deviceID.subsystemDeviceID,
          ClassCode           |-> r.deviceID.classCode,
          Reserved1           |-> Zero,
          SlotNumber          |-> r.deviceID.slotNumber,
          Reserved2           |-> Zero,
          DeviceSerial        |-> Get(r, "deviceSerial", Zero),
          CapabilityStructure |-> Decode(failed, "capabilityStructure",
                                         Get(r, "capabilityStructure", Zero)),
          CxlDvsecLength      |-> r.dvsecLength,
          CxlErrorLogLength   |-> r.errorLogLength,
          Reserved            |-> Zero],
         LogsOf(r, failed))

(* One of the two agents is drawn, and a length for either log.  All six   *)
(* lower validation bits are kept, the seventh is cleared.                 *)
generate_section_cxl_protocol(d, logs) ==
  LET agent == d.CxlAgentType % 2
      device == agent = DEVICE_AGENT
  IN  Tailed([d EXCEPT !.ValidBits = @ \intersect 0..5,
                       !.CxlAgentType = agent,
                       !.CxlAgentAddress[5] = IF device THEN Zero ELSE @,
                       !.Reserved1 = Zero, !.Reserved2 = Zero,
                       !.DeviceSerial = IF device THEN @ ELSE Zero,
                       !.CapabilityStructure = IF device THEN @ ELSE Zero,
                       !.Reserved = Zero],
             Bytes(logs, 0, d.CxlDvsecLength + d.CxlErrorLogLength))

PlainCxlProtocol(d, logs) ==
  /\ d.ValidBits \subseteq 0..6
  /\ {d.Reserved1, d.Reserved2, d.Reserved} = {Zero}
  /\ d.CxlAgentType = DEVICE_AGENT => d.CxlAgentAddress[5] = Zero
  /\ d.CxlAgentType # DEVICE_AGENT => {d.DeviceSerial, d.CapabilityStructure} = {Zero}
  /\ d.CxlAgentType \notin {DEVICE_AGENT, HOST_DOWNSTREAM_PORT_AGENT}
       => d.CxlAgentAddress = NoAddress
  /\ Len(logs) = d.CxlDvsecLength + d.CxlErrorLogLength
=============================================================================
