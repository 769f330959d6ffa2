-------------------------- MODULE PlatformSections --------------------------
(***************************************************************************)
(* The converters and generators of the generic processor section, the     *)
(* firmware section and the NVIDIA section: sections/cper-section-         *)
(* generic.c, -firmware.c and -nvidia.c, and generator/sections/           *)
(* gen-section-generic.c, -firmware.c and -nvidia.c.                       *)
(***************************************************************************)
EXTENDS FieldCodecs

CONSTANTS
  BrandStringSize,   (* sizeof(BrandString), 128                           *)
  SignatureSize      (* sizeof(Signature), 16                              *)
----------------------------------------------------------------------------
EFI_PROCESSOR_GENERIC_ERROR_DATA(d) ==
  /\ HasMembers(d, {"ValidFields", "Type", "Isa", "ErrorType", "Operation", "Flags",
                    "Level", "Resv1", "VersionInfo", "BrandString", "ApicId",
                    "TargetAddr", "RequestorId", "ResponderId", "InstructionIP"})
  /\ d.BrandString \in Nat

(* "text" is what json_object_new_string() finds in BrandString.           *)
cper_section_generic_to_ir(d, text) ==
  [validationBits |-> Named(d.ValidFields, 13),
   processorType  |-> d.Type,
   processorISA   |-> d.Isa,
   errorType      |-> d.ErrorType,
   operation      |-> d.Operation,
   flags          |-> Named(d.Flags, 4),
   level          |-> d.Level,
   cpuVersionInfo |-> d.VersionInfo,
   cpuBrandString |-> text,
   processorID    |-> d.ApicId,
   targetAddress  |-> d.TargetAddr,
   requestorID    |-> d.RequestorId,
   responderID    |-> d.ResponderId,
   instructionIP  |-> d.InstructionIP]

ir_section_generic_to_cper(r) ==
  [ValidFields   |-> r.validationBits,
   Type          |-> r.processorType,
   Isa           |-> r.processorISA,
   ErrorType     |-> r.errorType,
   Operation     |-> r.operation,
   Flags         |-> r.flags,
   Level         |-> r.level,
   Resv1         |-> Zero,
   VersionInfo   |-> r.cpuVersionInfo,
   BrandString   |-> TextWritten(r.cpuBrandString, BrandStringSize),
   ApicId        |-> r.processorID,
   TargetAddr    |-> r.targetAddress,
   RequestorId   |-> r.requestorID,
   ResponderId   |-> r.responderID,
   InstructionIP |-> r.instructionIP]

(* Zero bytes in the brand string become others, the last one is zero.     *)
generate_section_generic(d) ==
  [d EXCEPT !.ValidFields = @ \intersect 0..11, !.Flags = @ \intersect 0..2,
            !.Resv1 = Zero, !.BrandString = BrandStringSize - 1]

PlainGeneric(d) ==
  /\ d.ValidFields \subseteq 0..12 /\ d.Flags \subseteq 0..3
  /\ d.Resv1 = Zero /\ d.BrandString < BrandStringSize
----------------------------------------------------------------------------
EFI_FIRMWARE_ERROR_DATA(d) ==
  HasMembers(d, {"ErrorType", "Revision", "Resv1", "RecordId", "RecordIdGuid"})

cper_section_firmware_to_ir(d) ==
  [errorRecordType |-> d.ErrorType,
   revision        |-> d.Revision,
   recordID        |-> d.RecordId,
   recordIDGUID    |-> d.RecordIdGuid]

ir_section_firmware_to_cper(r) ==
  [ErrorType    |-> r.errorRecordType,
   Revision     |-> r.revision,
   Resv1        |-> Zero,
   RecordId     |-> r.recordID,
   RecordIdGuid |-> r.recordIDGUID]

generate_section_firmware(d) ==
  [d EXCEPT !.Resv1 = Zero, !.Revision = "2", !.RecordId = Zero]

PlainFirmware(d) == d.Resv1 = Zero
----------------------------------------------------------------------------
EFI_NVIDIA_ERROR_DATA(d) ==
  /\ HasMembers(d, {"Signature", "ErrorType", "ErrorInstance", "Severity", "Socket",
                    "NumberRegs", "Reserved", "InstanceBase"})
  /\ {d.Signature, d.NumberRegs} \subseteq Nat

(* As many registers, each of two words, as the structure announces.       *)
cper_section_nvidia_to_ir(d, words, text) ==
  [signature     |-> text,
   errorType     |-> d.ErrorType,
   errorInstance |-> d.ErrorInstance,
   severity      |-> d.Severity,
   socket        |-> d.Socket,
   numberRegs    |-> d.NumberRegs,
   instanceBase  |-> d.InstanceBase,
   registers     |-> LET read == Bytes(words, 0, 2 * d.NumberRegs)
                     IN  [k \in 1..d.NumberRegs |->
                            [address |-> read[2*k - 1], value |-> read[2*k]]]]

(* As many registers as the array has.                                     *)
ir_section_nvidia_to_cper(r) ==
  Tailed([Signature     |-> TextWritten(r.signature, SignatureSize),
          ErrorType     |-> r.errorType,
          ErrorInstance |-> r.errorInstance,
          Severity      |-> r.severity,
          Socket        |-> r.socket,
          NumberRegs    |-> r.numberRegs,
          Reserved      |-> Zero,
          InstanceBase  |-> r.instanceBase],
         Halves(r.registers, "address", "value"))

(* A signature of the list; the number of registers stays random, and no   *)
(* register follows.                                                       *)
generate_section_nvidia(d) ==
  [d EXCEPT !.Reserved = Zero, !.Signature = 1]

PlainNvidia(d, words) ==
  /\ d.Reserved = Zero /\ d.Signature < SignatureSize
  /\ Len(words) = 2 * d.NumberRegs
=============================================================================
