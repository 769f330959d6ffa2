---------------------------- MODULE DmarSections ----------------------------
(***************************************************************************)
(* sections/cper-section-dmar-generic.c, -dmar-vtd.c and -dmar-iommu.c,    *)
(* and their generators in generator/sections/gen-section-dmar.c.          *)
(***************************************************************************)
EXTENDS FieldCodecs
----------------------------------------------------------------------------
EFI_DMAR_GENERIC_ERROR_DATA(d) ==
  HasMembers(d, {"RequesterId", "SegmentNumber", "FaultReason", "AccessType",
                 "AddressType", "ArchType", "DeviceAddr", "Resv1"})

cper_section_dmar_generic_to_ir(d) ==
  [requesterID      |-> d.RequesterId,
   segmentNumber    |-> d.SegmentNumber,
   faultReason      |-> d.FaultReason,
   accessType       |-> d.AccessType,
   addressType      |-> d.AddressType,
   architectureType |-> d.ArchType,
   deviceAddress    |-> d.DeviceAddr]

ir_section_dmar_generic_to_cper(r) ==
  [RequesterId   |-> r.requesterID,
   SegmentNumber |-> r.segmentNumber,
   FaultReason   |-> r.faultReason,
   AccessType    |-> r.accessType,
   AddressType   |-> r.addressType,
   ArchType      |-> r.architectureType,
   DeviceAddr    |-> r.deviceAddress,
   Resv1         |-> Zero]

generate_section_dmar_generic(d) == [d EXCEPT !.Resv1 = Zero]

PlainDmarGeneric(d) == d.Resv1 = Zero
----------------------------------------------------------------------------
PageTable == {"PteL1", "PteL2", "PteL3", "PteL4", "PteL5", "PteL6"}

PageTableIR(d) ==
  [pageTableEntry_Level6 |-> d.PteL6,
   pageTableEntry_Level5 |-> d.PteL5,
   pageTableEntry_Level4 |-> d.PteL4,
   pageTableEntry_Level3 |-> d.PteL3,
   pageTableEntry_Level2 |-> d.PteL2,
   pageTableEntry_Level1 |-> d.PteL1]

PageTableOf(r) ==
  [PteL1 |-> r.pageTableEntry_Level1,
   PteL2 |-> r.pageTableEntry_Level2,
   PteL3 |-> r.pageTableEntry_Level3,
   PteL4 |-> r.pageTableEntry_Level4,
   PteL5 |-> r.pageTableEntry_Level5,
   PteL6 |-> r.pageTableEntry_Level6]
----------------------------------------------------------------------------
EFI_VTD_FAULT_RECORD(f) ==
  HasMembers(f, {"Resv1", "FaultInformation", "SourceIdentifier", "Resv2",
                 "PrivelegeModeRequested", "ExecutePermissionRequested",
                 "PasidPresent", "FaultReason", "PasidValue", "AddressType", "Type",
                 "Resv3"})

FaultRecordIR(f) ==
  [faultInformation           |-> f.FaultInformation,
   sourceIdentifier           |-> f.SourceIdentifier,
   privelegeModeRequested     |-> f.PrivelegeModeRequested,
   executePermissionRequested |-> f.ExecutePermissionRequested,
   pasidPresent               |-> f.PasidPresent,
   faultReason                |-> f.FaultReason,
   pasidValue                 |-> f.PasidValue,
   addressType                |-> f.AddressType,
   type                       |-> f.Type]

FaultRecordOf(r) ==
  [Resv1                      |-> Zero,
   FaultInformation           |-> r.faultInformation,
   SourceIdentifier           |-> r.sourceIdentifier,
   Resv2                      |-> Zero,
   PrivelegeModeRequested     |-> r.privelegeModeRequested,
   ExecutePermissionRequested |-> r.executePermissionRequested,
   PasidPresent               |-> r.pasidPresent,
   FaultReason                |-> r.faultReason,
   PasidValue                 |-> r.pasidValue,
   AddressType                |-> r.addressType,
   Type                       |-> r.type,
   Resv3                      |-> Zero]

EFI_DIRECTED_IO_DMAR_ERROR_DATA(d) ==
  /\ HasMembers(d, {"Version", "Revision", "OemId", "Capability", "CapabilityEx",
                    "GlobalCommand", "GlobalStatus", "FaultStatus", "Resv1",
                    "FaultRecord", "RootEntry", "ContextEntry"} \union PageTable)
  /\ EFI_VTD_FAULT_RECORD(d.FaultRecord)

(* Without memory for its text the key of the context entry is missing.    *)
(* There is no IR without one for the root entry (SectionCodec: CrashOnNull).*)
cper_section_dmar_vtd_to_ir(d, failed) ==
  [version                    |-> d.Version,
   revision                   |-> d.Revision,
   oemID                      |-> d.OemId,
   capabilityRegister         |-> d.Capability,
   extendedCapabilityRegister |-> d.CapabilityEx,
   globalCommandRegister      |-> d.GlobalCommand,
   globalStatusRegister       |-> d.GlobalStatus,
   faultStatusRegister        |-> d.FaultStatus,
   faultRecord                |-> FaultRecordIR(d.FaultRecord),
   rootEntry                  |-> d.RootEntry]
  ++ Encode(failed, "contextEntry", [contextEntry |-> d.ContextEntry])
  ++ PageTableIR(d)

ir_section_dmar_vtd_to_cper(r, failed) ==
  [Version       |-> r.version,
   Revision      |-> r.revision,
   OemId         |-> r.oemID,
   Capability    |-> r.capabilityRegister,
   CapabilityEx  |-> r.extendedCapabilityRegister,
   GlobalCommand |-> r.globalCommandRegister,
   GlobalStatus  |-> r.globalStatusRegister,
   FaultStatus   |-> r.faultStatusRegister,
   Resv1         |-> Zero,
   FaultRecord   |-> FaultRecordOf(r.faultRecord),
   RootEntry     |-> Decode(failed, "rootEntry", r.rootEntry),
   ContextEntry  |-> Decode(failed, "contextEntry", Get(r, "contextEntry", Zero))]
  ++ PageTableOf(r)

(* The mask of the last byte clears the type and the address type, too.    *)
generate_section_dmar_vtd(d) ==
  [d EXCEPT !.Resv1 = Zero,
            !.FaultRecord.Resv1 = Zero,
            !.FaultRecord.Resv2 = Zero,
            !.FaultRecord.AddressType = Zero,
            !.FaultRecord.Type = Zero,
            !.FaultRecord.Resv3 = Zero]

PlainVtd(d) ==
  {d.Resv1, d.FaultRecord.Resv1, d.FaultRecord.Resv2, d.FaultRecord.Resv3} = {Zero}
----------------------------------------------------------------------------
EFI_IOMMU_DMAR_ERROR_DATA(d) ==
  HasMembers(d, {"Revision", "Resv1", "Control", "Status", "Resv2", "EventLogEntry",
                 "Resv3", "DeviceTableEntry"} \union PageTable)

(* No IR at all without memory for one of the texts.                       *)
cper_section_dmar_iommu_to_ir(d, failed) ==
  IF failed # {} THEN <<>>
  ELSE [revision         |-> d.Revision,
        controlRegister  |-> d.Control,
        statusRegister   |-> d.Status,
        eventLogEntry    |-> d.EventLogEntry,
        deviceTableEntry |-> d.DeviceTableEntry]
       ++ PageTableIR(d)

ir_section_dmar_iommu_to_cper(r, failed) ==
  [Revision         |-> r.revision,
   Resv1            |-> Zero,
   Control          |-> r.controlRegister,
   Status           |-> r.statusRegister,
   Resv2            |-> Zero,
   EventLogEntry    |-> Decode(failed, "eventLogEntry", r.eventLogEntry),
   Resv3            |-> Zero,
   DeviceTableEntry |-> Decode(failed, "deviceTableEntry", r.deviceTableEntry)]
  ++ PageTableOf(r)

generate_section_dmar_iommu(d) ==
  [d EXCEPT !.Resv1 = Zero, !.Resv2 = Zero, !.Resv3 = Zero]

PlainIommu(d) == {d.Resv1, d.Resv2, d.Resv3} = {Zero}
=============================================================================
