---------------------------- MODULE SectionCodec ----------------------------
(***************************************************************************)
(* Any section but a processor's own (ArmSection, Ia32x64Section): made by *)
(* its generator or given, converted to IR and back.  The converters are   *)
(* those that section_definitions and generator_definitions list for it.   *)
(*                                                                         *)
(* Their base64 texts need memory, and each may fail to get it; the        *)
(* converters go on without the text, give up without an IR, or crash.     *)
(***************************************************************************)
EXTENDS PlatformSections, MemorySections, PciSections, DmarSections, CxlSections

ASSUME SectionAssumption ==
  {BrandStringSize, SignatureSize, CcixHeaderSize, CxlHeaderSize} \subseteq Nat \ {0}

(* The int has 2^IntBits values, half of them negative: the provers are    *)
(* not told of powers.                                                     *)
ASSUME PowersAssumption ==
  2^(IntBits - 1) \in Nat \ {0} /\ 2^IntBits = 2 * 2^(IntBits - 1)

VARIABLES
  kind,     (* which section it is, by its short code                      *)
  drawn,    (* the random bytes of a generated section, or <<>>            *)
  section,  (* the section, once it is there                               *)
  phase,    (* "random", "toIR", "toCper", "done", "noIR" if there is      *)
            (* none, "crashed"                                             *)
  ir, out,  (* its IR, and the section written from it                     *)
  memory    (* whether every allocation has succeeded                      *)

SectionKinds ==
  {"generic", "memory", "memory2", "pcie", "firmware", "pcibus", "pcidev",
   "dmargeneric", "dmarvtd", "dmariommu", "ccixper", "cxlprotocol",
   "cxlcomponent-media", "nvidia"}
----------------------------------------------------------------------------
(* The type of a section's structure.                                      *)
OfItsType(code, d) ==
  CASE code = "generic"     -> EFI_PROCESSOR_GENERIC_ERROR_DATA(d)
    [] code = "memory"      -> EFI_PLATFORM_MEMORY_ERROR_DATA(d)
    [] code = "memory2"     -> EFI_PLATFORM_MEMORY2_ERROR_DATA(d)
    [] code = "pcie"        -> EFI_PCIE_ERROR_DATA(d)
    [] code = "firmware"    -> EFI_FIRMWARE_ERROR_DATA(d)
    [] code = "pcibus"      -> EFI_PCI_PCIX_BUS_ERROR_DATA(d)
    [] code = "pcidev"      -> EFI_PCI_PCIX_DEVICE_ERROR_DATA(d)
    [] code = "dmargeneric" -> EFI_DMAR_GENERIC_ERROR_DATA(d)
    [] code = "dmarvtd"     -> EFI_DIRECTED_IO_DMAR_ERROR_DATA(d)
    [] code = "dmariommu"   -> EFI_IOMMU_DMAR_ERROR_DATA(d)
    [] code = "ccixper"     -> EFI_CCIX_PER_LOG_DATA(d)
    [] code = "cxlprotocol" -> EFI_CXL_PROTOCOL_ERROR_DATA(d)
    [] code = "cxlcomponent-media" -> EFI_CXL_COMPONENT_EVENT_HEADER(d)
    [] code = "nvidia"      -> EFI_NVIDIA_ERROR_DATA(d)

(* Those with data behind the structure.                                   *)
TailedKinds == {"pcidev", "ccixper", "cxlprotocol", "cxlcomponent-media", "nvidia"}

(* The bytes of a section: a structure of its type, and what data there is.*)
IsSection(code, parts) ==
  LET d == parts[1].body
      data == DataOf(parts)
  IN  /\ OfItsType(code, d)
      /\ Array(data)
      /\ parts = IF code \in TailedKinds THEN Tailed(d, data) ELSE Structure(d)

(* The random numbers of a generator are small: the data they announce can *)
(* be counted in an int.                                                   *)
Drawable(code, parts) ==
  LET d == parts[1].body
      limit == 2^(IntBits - 1)
  IN  /\ Len(DataOf(parts)) < limit
      /\ code = "pcidev" => d.MemoryNumber + d.IoNumber < limit
----------------------------------------------------------------------------
(* The section that a generator makes of random bytes.                     *)
Generated(random) ==
  LET d == random[1].body
      data == DataOf(random)
  IN  CASE kind = "generic"     -> Structure(generate_section_generic(d))
        [] kind = "memory"      -> Structure(generate_section_memory(d))
        [] kind = "memory2"     -> Structure(generate_section_memory2(d))
        [] kind = "pcie"        -> Structure(generate_section_pcie(d))
        [] kind = "firmware"    -> Structure(generate_section_firmware(d))
        [] kind = "pcibus"      -> Structure(generate_section_pci_bus(d))
        [] kind = "pcidev"      -> generate_section_pci_dev(d, data)
        [] kind = "dmargeneric" -> Structure(generate_section_dmar_generic(d))
        [] kind = "dmarvtd"     -> Structure(generate_section_dmar_vtd(d))
        [] kind = "dmariommu"   -> Structure(generate_section_dmar_iommu(d))
        [] kind = "ccixper"     -> generate_section_ccix_per(d, data)
        [] kind = "cxlprotocol" -> generate_section_cxl_protocol(d, data)
        [] kind = "cxlcomponent-media" -> generate_section_cxl_component(d, data)
        [] kind = "nvidia"      -> Tailed(generate_section_nvidia(d), <<>>)

(* The texts that may be read from the characters of a section.            *)
SectionTexts(parts) ==
  CASE kind = "generic" -> TextsRead(parts[1].body.BrandString, BrandStringSize)
    [] kind = "nvidia"  -> TextsRead(parts[1].body.Signature, SignatureSize)
    [] OTHER            -> {0}

(* The keys of the IR that hold base64 texts.                              *)
Base64Keys ==
  CASE kind = "pcie"        -> {"capabilityStructure", "aerInfo"}
    [] kind = "dmarvtd"     -> {"rootEntry", "contextEntry"}
    [] kind = "dmariommu"   -> {"eventLogEntry", "deviceTableEntry"}
    [] kind = "ccixper"     -> {"ccixPERLog"}
    [] kind = "cxlprotocol" -> {"capabilityStructure", "cxlDVSEC", "cxlErrorLog"}
    [] kind = "cxlcomponent-media" -> {"cxlComponentEventLog"}
    [] OTHER                -> {}

(***************************************************************************)
(* The texts that are added to the IR without a look at the pointer.       *)
(* base64_encode() has set the length by the time malloc() fails, so as    *)
(* many characters are copied from a null pointer.                         *)
(***************************************************************************)
UncheckedKeys == IF kind = "dmarvtd" THEN {"rootEntry"} ELSE {}

(* The IR of a section, with the text read from it and the keys whose      *)
(* texts there was no memory for.                                          *)
SectionIR(parts, text, failed) ==
  LET d == parts[1].body
      data == DataOf(parts)
  IN  CASE kind = "generic"     -> cper_section_generic_to_ir(d, text)
        [] kind = "memory"      -> cper_section_platform_memory_to_ir(d)
        [] kind = "memory2"     -> cper_section_platform_memory2_to_ir(d)
        [] kind = "pcie"        -> cper_section_pcie_to_ir(d, failed)
        [] kind = "firmware"    -> cper_section_firmware_to_ir(d)
        [] kind = "pcibus"      -> cper_section_pci_bus_to_ir(d)
        [] kind = "pcidev"      -> cper_section_pci_dev_to_ir(d, data)
        [] kind = "dmargeneric" -> cper_section_dmar_generic_to_ir(d)
        [] kind = "dmarvtd"     -> cper_section_dmar_vtd_to_ir(d, failed)
        [] kind = "dmariommu"   -> cper_section_dmar_iommu_to_ir(d, failed)
        [] kind = "ccixper"     -> cper_section_ccix_per_to_ir(d, data, failed)
        [] kind = "cxlprotocol" -> cper_section_cxl_protocol_to_ir(d, data, failed)
        [] kind = "cxlcomponent-media" ->
             cper_section_cxl_component_to_ir(d, data, failed)
        [] kind = "nvidia"      -> cper_section_nvidia_to_ir(d, data, text)

(* The section of an IR, without the keys whose texts could not be decoded.*)
SectionOf(r, failed) ==
  CASE kind = "generic"     -> Structure(ir_section_generic_to_cper(r))
    [] kind = "memory"      -> Structure(ir_section_memory_to_cper(r))
    [] kind = "memory2"     -> Structure(ir_section_memory2_to_cper(r))
    [] kind = "pcie"        -> Structure(ir_section_pcie_to_cper(r, failed))
    [] kind = "firmware"    -> Structure(ir_section_firmware_to_cper(r))
    [] kind = "pcibus"      -> Structure(ir_section_pci_bus_to_cper(r))
    [] kind = "pcidev"      -> ir_section_pci_dev_to_cper(r)
    [] kind = "dmargeneric" -> Structure(ir_section_dmar_generic_to_cper(r))
    [] kind = "dmarvtd"     -> Structure(ir_section_dmar_vtd_to_cper(r, failed))
    [] kind = "dmariommu"   -> Structure(ir_section_dmar_iommu_to_cper(r, failed))
    [] kind = "ccixper"     -> ir_section_ccix_per_to_cper(r, failed)
    [] kind = "cxlprotocol" -> ir_section_cxl_protocol_to_cper(r, failed)
    [] kind = "cxlcomponent-media" -> ir_section_cxl_component_to_cper(r, failed)
    [] kind = "nvidia"      -> ir_section_nvidia_to_cper(r)
----------------------------------------------------------------------------
Generate ==
  /\ phase = "random"
  /\ section' = Generated(drawn)
  /\ phase' = "toIR"
  /\ UNCHANGED <<kind, drawn, ir, out, memory>>

ToIR ==
  /\ phase = "toIR"
  /\ \E text \in SectionTexts(section), failed \in SUBSET (Base64Keys \ UncheckedKeys) :
       /\ ir' = SectionIR(section, text, failed)
       /\ memory' = (memory /\ failed = {})
  /\ phase' = IF DOMAIN ir' = {} THEN "noIR" ELSE "toCper"
  /\ UNCHANGED <<kind, drawn, section, out>>

CrashOnNull ==
  /\ phase = "toIR"
  /\ UncheckedKeys # {}
  /\ phase' = "crashed"
  /\ memory' = FALSE
  /\ UNCHANGED <<kind, drawn, section, ir, out>>

ToCper ==
  /\ phase = "toCper"
  /\ \E failed \in SUBSET Base64Keys :
       /\ out' = SectionOf(ir, failed)
       /\ memory' = (memory /\ failed = {})
  /\ phase' = "done"
  /\ UNCHANGED <<kind, drawn, section, ir>>

SectionStep == kind \in SectionKinds /\ (Generate \/ ToIR \/ CrashOnNull \/ ToCper)
----------------------------------------------------------------------------
(* Nothing is in the section that the IR has no place for, its texts end   *)
(* within it, and it is as long as its own numbers say.                    *)
PlainSection(parts) ==
  LET d == parts[1].body
      data == DataOf(parts)
  IN  CASE kind = "generic"     -> PlainGeneric(d)
        [] kind = "memory"      -> PlainMemory(d)
        [] kind = "memory2"     -> PlainMemory2(d)
        [] kind = "pcie"        -> PlainPcie(d)
        [] kind = "firmware"    -> PlainFirmware(d)
        [] kind = "pcibus"      -> PlainPciBus(d)
        [] kind = "pcidev"      -> PlainPciDev(d, data)
        [] kind = "dmargeneric" -> PlainDmarGeneric(d)
        [] kind = "dmarvtd"     -> PlainVtd(d)
        [] kind = "dmariommu"   -> PlainIommu(d)
        [] kind = "ccixper"     -> PlainCcix(d, data)
        [] kind = "cxlprotocol" -> PlainCxlProtocol(d, data)
        [] kind = "cxlcomponent-media" -> PlainCxlComponent(d, data)
        [] kind = "nvidia"      -> PlainNvidia(d, data)

(***************************************************************************)
(* Each ir_section_*_to_cper() undoes the cper_section_*_to_ir() of its    *)
(* kind: a plain section is written as it was read.                        *)
(***************************************************************************)
Kept ==
  phase = "done" /\ memory /\ PlainSection(section) => out = section

(***************************************************************************)
(* Whatever was read -- with reserved bits set, shorter or longer than its *)
(* own numbers say -- the section written from its IR is read as that IR   *)
(* again: the counts and lengths it announces are those of the data that   *)
(* was written.  Only a text without an end and a version number of more   *)
(* than two digits change once more.                                       *)
(***************************************************************************)
Settled ==
  /\ phase = "done" /\ memory
  /\ kind = "generic" => ir.cpuBrandString < BrandStringSize
  /\ kind = "nvidia" => ir.signature < SignatureSize
  /\ kind = "pcie" => ir.version.minor <= 99 /\ ir.version.major <= 99
  => \E text \in SectionTexts(out) : SectionIR(out, text, {}) = ir

(* The arrays of the structures that pass through a base64 text.           *)
EncodedArrays ==
  {"PcieCap", "PcieAer", "RootEntry", "ContextEntry", "EventLogEntry",
   "DeviceTableEntry", "CapabilityStructure"}

(***************************************************************************)
(* Within the structure a text without memory costs no more than itself:   *)
(* the arrays that went through such a text are zeros, not what was in the *)
(* memory before, and all other fields are as they were.  (Behind the      *)
(* structure, what follows a log without memory moves up to its place.)    *)
(* A converter that goes on has looked at every text: the one that does    *)
(* not look crashes.                                                       *)
(***************************************************************************)
FailureContained ==
  phase = "done" /\ ~memory /\ PlainSection(section) =>
    LET was == section[1].body
        now == out[1].body
    IN  /\ DOMAIN now = DOMAIN was
        /\ \A f \in DOMAIN was :
             \/ now[f] = was[f]
             \/ f \in EncodedArrays /\ now[f] = Zero

(***************************************************************************)
(* What a generator makes of any random bytes comes back byte for byte:    *)
(* the BinaryEqual tests of tests/ir-tests.cpp, which draw one section a   *)
(* run.  They leave out NVIDIA sections, whose generator announces         *)
(* registers that it does not make.                                        *)
(***************************************************************************)
GeneratedKept ==
  phase = "done" /\ memory /\ drawn # <<>> /\ kind # "nvidia" => out = section

(***************************************************************************)
(* "Selected structure depends on the validationBits.bankValid field."     *)
(* (specification/document/cper-json-specification.tex): the bank of a     *)
(* memory error is one value if bankValid, the seventh of the bits' names, *)
(* is set, and an address and a group if it is not.                        *)
(***************************************************************************)
BankAsSpecified ==
  phase = "toCper" /\ kind \in {"memory", "memory2"}
    => ("value" \in DOMAIN ir.bank <=> 6 \in ir.validationBits)
=============================================================================
