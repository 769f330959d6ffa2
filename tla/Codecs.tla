------------------------------- MODULE Codecs -------------------------------
(***************************************************************************)
(* One structure of a record -- its header, a section descriptor or a      *)
(* section of any kind, given or generated -- converted to IR and back:    *)
(* what cper_log_section_ir_test() and cper_log_section_binary_test() in   *)
(* tests/ir-tests.cpp do for one section type at a time, and cper_to_ir()  *)
(* and ir_to_cper() for each structure of a record.                        *)
(*                                                                         *)
(* The generators and converters are modules of their own; this one only   *)
(* picks those of the structure's kind, as section_definitions does.  It   *)
(* adds to SectionCodec the record's own structures and the processors'    *)
(* sections, which are walked with a number and a position.                *)
(***************************************************************************)
EXTENDS SectionCodec

CONSTANTS
  ArmHeaderSize, ArmInfoSize, ArmContextSize, ArmRegisterTypes,
  ArmRegisterSize, ArmContextResidue, ArmRandomHeaders,   (* see ArmSection *)
  X64HeaderSize, X64InfoSize, X64ContextSize, X64RegisterSize,
  X64ContextResidue, X64RandomHeaders,               (* see Ia32x64Section *)
  RecordHeaderSize, SlotSize, FruTextSize,             (* see RecordFields *)
  Starts   (* [kind, drawn, section]: what is drawn for a generated        *)
           (* section, and the section if it is given, <<>> otherwise      *)

VARIABLES n, pos   (* how far a processor's section has been converted     *)

converter == <<n, pos, ir, out, memory>>
vars == <<kind, drawn, section, phase, converter>>

ArmGen == INSTANCE ArmGenerator
X64Gen == INSTANCE Ia32x64Generator
Arm == INSTANCE ArmSection
X64 == INSTANCE Ia32x64Section
Fields == INSTANCE RecordFields

ASSUME StructuresAssumption ==
  /\ {ArmHeaderSize, ArmInfoSize, ArmContextSize,
      X64HeaderSize, X64InfoSize, X64ContextSize,
      RecordHeaderSize, SlotSize, FruTextSize} \subseteq Nat \ {0}
  /\ Arm!GPR \in ArmRegisterTypes
  /\ ArmRegisterSize \in [ArmRegisterTypes -> Nat \ {0}]
  /\ X64RegisterSize \in [{X64!IA32, X64!X64} -> Nat \ {0}]
  /\ ArmContextResidue \subseteq Arm!EFI_ARM_CONTEXT_INFORMATION_HEADER
  /\ X64ContextResidue \subseteq X64!EFI_IA32_X64_PROCESSOR_CONTEXT_INFO
  /\ ArmRandomHeaders \subseteq Arm!EFI_ARM_ERROR_RECORD
  /\ X64RandomHeaders \subseteq X64!EFI_IA32_X64_PROCESSOR_ERROR_RECORD

(* What the generators may draw: any random bytes for structures of the    *)
(* types they choose from, and of IA32/x64 no more than six bits can count.*)
ArmDraws ==
  [infos : Seq(Arm!EFI_ARM_ERROR_INFORMATION_ENTRY),
   contexts : Seq(Arm!EFI_ARM_CONTEXT_INFORMATION_HEADER), vendor : Nat]
X64Draws ==
  {d \in [infos : Seq(X64!EFI_IA32_X64_PROCESS_ERROR_INFO),
          contexts : Seq(X64!EFI_IA32_X64_PROCESSOR_CONTEXT_INFO)] :
     /\ Len(d.infos) <= 63 /\ Len(d.contexts) <= 63
     /\ \A k \in 1..Len(d.infos) : d.infos[k].type \in X64!CheckTypes}

(* A structure has the members of its C type, given or drawn.              *)
ASSUME StartsAssumption ==
  \A start \in Starts :
    /\ start.kind = "record" =>
         LET h == start.section[1].body IN
           /\ start.section = Put(<<>>, "header", RecordHeaderSize, h)
           /\ Fields!EFI_COMMON_ERROR_RECORD_HEADER(h)
    /\ start.kind = "descriptor" =>
         LET d == start.section[1].body IN
           /\ start.section = Put(<<>>, "descriptor", SlotSize, d)
           /\ Fields!EFI_ERROR_SECTION_DESCRIPTOR(d)
    /\ start.kind = "arm" =>
         \/ start.drawn = <<>> /\ Arm!IsArmSection(start.section)
         \/ start.section = <<>> /\ start.drawn \in ArmDraws
    /\ start.kind = "ia32x64" =>
         \/ start.drawn = <<>> /\ X64!IsX64Section(start.section)
         \/ start.section = <<>> /\ start.drawn \in X64Draws
    /\ start.kind \in SectionKinds =>
         \/ start.drawn = <<>> /\ IsSection(start.kind, start.section)
         \/ /\ start.section = <<>>
            /\ IsSection(start.kind, start.drawn)
            /\ Drawable(start.kind, start.drawn)

Init ==
  /\ \E start \in Starts :
       /\ kind = start.kind
       /\ drawn = start.drawn
       /\ section = start.section
       /\ phase = IF start.section = <<>> THEN "random"
                  ELSE IF start.kind \in {"arm", "ia32x64"} THEN "header"
                  ELSE "toIR"
  /\ n = 0 /\ pos = 0
  /\ ir = [made |-> FALSE]
  /\ out = <<>>
  /\ memory = TRUE

GenerateArm == kind = "arm" /\ ArmGen!Step /\ UNCHANGED <<kind, converter>>
GenerateX64 == kind = "ia32x64" /\ X64Gen!Step /\ UNCHANGED <<kind, converter>>
ConvertArm == kind = "arm" /\ Arm!Step /\ UNCHANGED <<kind, drawn, memory>>
ConvertX64 == kind = "ia32x64" /\ X64!Step /\ UNCHANGED <<kind, drawn, memory>>
ConvertHeader ==
  /\ kind = "record"
  /\ Fields!HeaderToIR \/ Fields!HeaderToCper
  /\ UNCHANGED <<kind, drawn, n, pos, memory>>
ConvertDescriptor ==
  /\ kind = "descriptor"
  /\ Fields!DescriptorToIR \/ Fields!DescriptorToCper
  /\ UNCHANGED <<kind, drawn, n, pos, memory>>

(* A section of any other kind.                                            *)
ConvertSection == SectionStep /\ UNCHANGED <<n, pos>>

Converted == phase \in {"done", "noIR", "crashed"} /\ UNCHANGED vars

Next ==
  \/ GenerateArm \/ GenerateX64
  \/ ConvertArm \/ ConvertX64 \/ ConvertHeader \/ ConvertDescriptor
  \/ ConvertSection \/ Converted

Spec == Init /\ [][Next]_vars
----------------------------------------------------------------------------
(* ArmSection: the entries of the IR are the structures of the section.    *)
ArmStructuresFound == kind = "arm" => Arm!StructuresFound

(* ArmSection: everything is written where it was read.                    *)
ArmLayoutKept == kind = "arm" => Arm!LayoutKept

(* ArmSection: without counted structures a section keeps its header and   *)
(* its length.                                                             *)
ArmOpaqueSectionsKept == kind = "arm" => Arm!OpaqueSectionsKept

(* ArmSection: an error information structure keeps its type.              *)
ArmErrorTypesKept == kind = "arm" => Arm!ErrorTypesKept

(* ArmGenerator: a generated section has an error information structure.   *)
ArmInfosAnnounced == kind = "arm" /\ drawn # <<>> => ArmGen!InfosAnnounced

(* Ia32x64Section: a well formed section, without bits that have no place  *)
(* in the IR, comes back byte for byte.                                    *)
X64BinaryEqual == kind = "ia32x64" => X64!BinaryEqual

(* Ia32x64Section: the contexts read end where the section does.           *)
X64EndReached == kind = "ia32x64" => X64!EndReached

(***************************************************************************)
(* Ia32x64Generator: what it makes, whatever the random bytes were, counts *)
(* what follows, has no bit set that the converter drops -- its masks of   *)
(* the check information fit the converter's fields, it clears the end of  *)
(* CpuIdInfo and Resv1 -- and no register array of another size than its   *)
(* structure.                                                              *)
(***************************************************************************)
X64GeneratedWellFormed ==
  kind = "ia32x64" /\ drawn # <<>> /\ phase = "header"
    => X64!WellFormed(section) /\ X64!AllNamed(section)

(* RecordFields: what the IR can hold comes back as it was.                *)
RecordFieldsKept ==
  /\ kind = "record" => Fields!HeaderKept
  /\ kind = "descriptor" => Fields!DescriptorKept

(* RecordFields: reading what was written gives the same IR again.         *)
RecordFieldsSettled ==
  /\ kind = "record" => Fields!HeaderSettled
  /\ kind = "descriptor" => Fields!DescriptorSettled

(* SectionCodec: a plain section comes back as it was.                     *)
SectionsKept == kind \in SectionKinds => Kept

(* SectionCodec: reading what was written gives the same IR again.         *)
SectionsSettled == kind \in SectionKinds => Settled

(* SectionCodec: without memory for a text nothing else is lost.           *)
FailuresContained == kind \in SectionKinds => FailureContained

(* SectionCodec: a generated section comes back byte for byte.             *)
GeneratedSectionsKept ==
  kind \in SectionKinds => GeneratedKept

(* RecordFields: the buffer of a timestamp is large enough for decimals.   *)
TimestampFits == kind = "record" => Fields!TimestampFits
=============================================================================
