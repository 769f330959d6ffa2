----------------------------- MODULE ArmSection -----------------------------
(***************************************************************************)
(* sections/cper-section-arm.c: an ARM processor section to IR and back.   *)
(*                                                                         *)
(* A section is a header, ErrInfoNum error information structures of a     *)
(* fixed size, ContextInfoNum contexts, each a header and a register array *)
(* of the size it gives, and vendor specific bytes up to SectionLength.    *)
(* Reading it, the converter keeps a position and takes what it finds      *)
(* there; writing the IR, it puts one structure after another.             *)
(***************************************************************************)
EXTENDS SectionParts

CONSTANTS
  ArmHeaderSize,     (* sizeof(EFI_ARM_ERROR_RECORD), 40                   *)
  ArmInfoSize,       (* sizeof(EFI_ARM_ERROR_INFORMATION_ENTRY), 32        *)
  ArmContextSize,    (* sizeof(EFI_ARM_CONTEXT_INFORMATION_HEADER), 8      *)
  ArmRegisterTypes,  (* the context types with a structure of their own,   *)
                     (* AARCH32_GPR, which is 0, among them                *)
  ArmRegisterSize,   (* ArmRegisterSize[type]: sizeof that structure       *)
  ArmContextResidue  (* context headers that other bytes may decode to     *)

VARIABLES
  section,   (* the structures of the section read                         *)
  phase,     (* where the conversion is                                    *)
  n,         (* the loop counter                                           *)
  pos,       (* cur_error, then cur_pos, from the start of the section     *)
  ir,        (* the IR made of it                                          *)
  out        (* the structures written from that IR                        *)

vars == <<section, phase, n, pos, ir, out>>

CACHE == 0
TLB == 1
BUS == 2
GPR == 0

(***************************************************************************)
(* What an error information structure holds, besides its type: which of   *)
(* these groups of bits are not zero.                                      *)
(*   entry     the fields outside ErrorInformation, reserved bits apart    *)
(*   valid     the validation bits that caches, TLBs and buses share       *)
(*   common    transaction type to restartable PC, which they share        *)
(*   busValid  the validation bits of buses only                           *)
(*   timedOut  the TimeOut bit of buses                                    *)
(*   busOnly   the other fields of buses only                              *)
(*   reserved  everything else                                             *)
(***************************************************************************)
InfoGroups ==
  {"entry", "valid", "common", "busValid", "timedOut", "busOnly", "reserved"}
Subinfo == InfoGroups \ {"entry"}

(* running and top are the bits 0 and 31 of RunningState.                  *)
EFI_ARM_ERROR_RECORD ==
  [valid : SUBSET (0..31), infoNum : Nat, contextNum : Nat, length : Nat,
   running : BOOLEAN, top : BOOLEAN, psci : Nat]
EFI_ARM_ERROR_INFORMATION_ENTRY == [type : Nat, holds : SUBSET InfoGroups]
EFI_ARM_CONTEXT_INFORMATION_HEADER == [type : Nat, size : Nat]

IsArmSection(parts) ==
  /\ IsProcessorSection(parts, ArmHeaderSize, ArmInfoSize, ArmContextSize)
  /\ parts[1].body \in EFI_ARM_ERROR_RECORD
  /\ parts[1].body.length = End(parts)
  /\ \A k \in 2..Len(parts) :
       /\ parts[k].kind = "info"
            => parts[k].body \in EFI_ARM_ERROR_INFORMATION_ENTRY
       /\ parts[k].kind = "context"
            => parts[k].body \in EFI_ARM_CONTEXT_INFORMATION_HEADER

(* The groups that reach the IR, and the keys they are found under.        *)
InfoIR(info) ==
  IF info.type \in {CACHE, TLB}
    THEN [errorType |-> info.type, keys |-> "cache",
          holds |-> info.holds \intersect {"entry", "valid", "common"}]
  ELSE IF info.type = BUS
    THEN [errorType |-> info.type, keys |-> "bus",
          holds |-> info.holds \ {"reserved"}]
  ELSE [errorType |-> info.type, keys |-> "data",
        holds |-> info.holds]

(***************************************************************************)
(* The structures an entry of the IR may be written as.  The type is read  *)
(* from the key "type", which no entry has: it becomes 0.  The structure   *)
(* is not cleared first, so a bit no statement sets may be anything.       *)
(***************************************************************************)
WrittenType(entry) == 0

(* A mutant: the type is read from the key it was written to.              *)
WrittenTypeOfErrorType(entry) == entry.errorType

WrittenInfos(entry) ==
  LET type == WrittenType(entry)
      kept(groups) == entry.holds \intersect ({"entry"} \union groups) IN
    IF type \in {CACHE, TLB}
      THEN {[type |-> type,
             holds |-> IF entry.keys = "data" THEN kept({})
                                              ELSE kept({"valid", "common"})]}
    ELSE IF type = BUS
      THEN {[type |-> type, holds |-> kept({"valid", "common", "busOnly"}) \union t] :
              t \in SUBSET {"timedOut"}}
    ELSE {[type |-> type, holds |-> IF entry.keys = "data" THEN kept(Subinfo)
                                                           ELSE kept({})]}

NoPsci == -1
NoVendorInfo == -1
NoIR == [made |-> FALSE]
NullContext == [type |-> -1, size |-> 0, registers |-> "none"]
----------------------------------------------------------------------------
(* CPER to IR: psciState is left out if the top bit of RunningState is set. *)
ReadHeader ==
  LET header == section[1].body IN
    /\ phase = "header"
    /\ ir' = [made     |-> TRUE,
              valid    |-> header.valid \intersect 0..3,
              infoNum  |-> header.infoNum,
              contextNum |-> header.contextNum,
              length   |-> header.length,
              running  |-> header.running,
              psci     |-> IF header.top THEN NoPsci ELSE header.psci,
              infos    |-> <<>>,
              contexts |-> <<>>,
              vendor   |-> NoVendorInfo]
    /\ pos' = ArmHeaderSize
    /\ n' = 0
    /\ phase' = "infos"
    /\ UNCHANGED <<section, out>>

ReadInfo ==
  /\ phase = "infos"
  /\ n < ir.infoNum
  /\ \E info \in ReadAt(section, "info", pos, {}) :   \* never runs out: CountsAgree
       ir' = [ir EXCEPT !.infos = Append(@, InfoIR(info))]
  /\ pos' = pos + ArmInfoSize
  /\ n' = n + 1
  /\ UNCHANGED <<section, phase, out>>

InfosRead ==
  /\ phase = "infos"
  /\ n = ir.infoNum
  /\ n' = 0
  /\ phase' = "contexts"
  /\ UNCHANGED <<section, pos, ir, out>>

(* A mutant: the position is left behind the context's header.             *)
ReadContextStaying ==
  /\ phase = "contexts"
  /\ n < ir.contextNum
  /\ \E context \in ReadAt(section, "context", pos, ArmContextResidue) :
       /\ ir' = [ir EXCEPT !.contexts =
                   Append(@, [type |-> context.type, size |-> context.size,
                              registers |-> "stack"])]
       /\ pos' = pos + ArmContextSize
  /\ n' = n + 1
  /\ UNCHANGED <<section, phase, out>>

(***************************************************************************)
(* The register array is taken not from the position but from where the    *)
(* position is kept, on the stack.                                         *)
(***************************************************************************)
ReadContext ==
  /\ phase = "contexts"
  /\ n < ir.contextNum
  /\ \E context \in ReadAt(section, "context", pos, ArmContextResidue) :
       /\ ir' = [ir EXCEPT !.contexts =
                   Append(@, [type |-> context.type, size |-> context.size,
                              registers |-> "stack"])]
       /\ pos' = pos + ArmContextSize + context.size
  /\ n' = n + 1
  /\ UNCHANGED <<section, phase, out>>

(* The registers of another type are encoded as base64.  If that fails the *)
(* context is null, and the position is left behind its header.            *)
ContextNotEncoded ==
  /\ phase = "contexts"
  /\ n < ir.contextNum
  /\ \E context \in ReadAt(section, "context", pos, ArmContextResidue) :
       context.type \notin ArmRegisterTypes
  /\ ir' = [ir EXCEPT !.contexts = Append(@, NullContext)]
  /\ pos' = pos + ArmContextSize
  /\ n' = n + 1
  /\ UNCHANGED <<section, phase, out>>

(* Whatever lies between the last context and SectionLength.               *)
ReadVendorInfo ==
  /\ phase = "contexts"
  /\ n = ir.contextNum
  /\ ir' = IF pos < ir.length THEN [ir EXCEPT !.vendor = ir.length - pos] ELSE ir
  /\ n' = 0
  /\ phase' = "writeHeader"
  /\ UNCHANGED <<section, pos, out>>

(* If it cannot be encoded there is no IR at all.                          *)
VendorInfoNotEncoded ==
  /\ phase = "contexts"
  /\ n = ir.contextNum
  /\ pos < ir.length
  /\ ir' = NoIR
  /\ phase' = "done"
  /\ UNCHANGED <<section, n, pos, out>>
----------------------------------------------------------------------------
(* A mutant: psciState is not restored.                                    *)
WriteHeaderWithoutPsci ==
  /\ phase = "writeHeader"
  /\ out' = Put(out, "header", ArmHeaderSize,
                [valid |-> ir.valid, infoNum |-> ir.infoNum,
                 contextNum |-> ir.contextNum, length |-> ir.length,
                 running |-> ir.running, top |-> FALSE, psci |-> 0])
  /\ n' = 0
  /\ phase' = "writeInfos"
  /\ UNCHANGED <<section, pos, ir>>

(* IR to CPER: RunningState becomes 0 or 1, its top bit is not restored.   *)
WriteHeader ==
  /\ phase = "writeHeader"
  /\ out' = Put(out, "header", ArmHeaderSize,
                [valid |-> ir.valid, infoNum |-> ir.infoNum,
                 contextNum |-> ir.contextNum, length |-> ir.length,
                 running |-> ir.running, top |-> FALSE,
                 psci |-> IF ir.psci = NoPsci THEN 0 ELSE ir.psci])
  /\ n' = 0
  /\ phase' = "writeInfos"
  /\ UNCHANGED <<section, pos, ir>>

WriteInfo ==
  /\ phase = "writeInfos"
  /\ n < ir.infoNum
  /\ \E info \in WrittenInfos(ir.infos[n + 1]) :
       out' = Put(out, "info", ArmInfoSize, info)
  /\ n' = n + 1
  /\ UNCHANGED <<section, phase, pos, ir>>

InfosWritten ==
  /\ phase = "writeInfos"
  /\ n = ir.infoNum
  /\ n' = 0
  /\ phase' = "writeContexts"
  /\ UNCHANGED <<section, pos, ir, out>>

(* A mutant: the general purpose registers are written for every type.     *)
RegistersWrittenAsGpr(context) ==
  IF context = NullContext THEN [size |-> 0, of |-> "null"]
  ELSE IF context.type \in ArmRegisterTypes
    THEN [size |-> ArmRegisterSize[GPR], of |-> context.registers]
  ELSE [size |-> context.size, of |-> "stack"]

(***************************************************************************)
(* The register array of a context is the structure of its type, whatever  *)
(* size its header gives; of another type, as many bytes as were encoded,  *)
(* but taken from where the pointer to the decoded bytes is kept.          *)
(***************************************************************************)
RegistersWritten(context) ==
  IF context = NullContext THEN [size |-> ArmRegisterSize[GPR], of |-> "null"]
  ELSE IF context.type \in ArmRegisterTypes
    THEN [size |-> ArmRegisterSize[context.type], of |-> context.registers]
  ELSE [size |-> context.size, of |-> "stack"]

(* A null context has type and size 0.                                     *)
ContextHeader(context) ==
  IF context = NullContext THEN [type |-> GPR, size |-> 0]
  ELSE [type |-> context.type, size |-> context.size]

WriteContext ==
  LET context   == ir.contexts[n + 1]
      registers == RegistersWritten(context) IN
    /\ phase = "writeContexts"
    /\ n < ir.contextNum
    /\ out' = Put(Put(out, "context", ArmContextSize, ContextHeader(context)),
                  "registers", registers.size, [of |-> registers.of])
    /\ n' = n + 1
    /\ UNCHANGED <<section, phase, pos, ir>>

(* Registers that cannot be decoded are left out.                          *)
ContextNotDecoded ==
  LET context == ir.contexts[n + 1] IN
    /\ phase = "writeContexts"
    /\ n < ir.contextNum
    /\ context # NullContext /\ context.type \notin ArmRegisterTypes
    /\ out' = Put(Put(out, "context", ArmContextSize, ContextHeader(context)),
                  "registers", 0, [of |-> "nothing"])
    /\ n' = n + 1
    /\ UNCHANGED <<section, phase, pos, ir>>

WriteVendorInfo ==
  /\ phase = "writeContexts"
  /\ n = ir.contextNum
  /\ out' = IF ir.vendor = NoVendorInfo THEN out
            ELSE Put(out, "vendor", ir.vendor, [of |-> "section"])
  /\ phase' = "done"
  /\ UNCHANGED <<section, n, pos, ir>>

(* base64_decode() has set the length by the time malloc() fails: fwrite() *)
(* is given a null pointer to take that many bytes from.                   *)
VendorInfoNotDecoded ==
  /\ phase = "writeContexts"
  /\ n = ir.contextNum
  /\ ir.vendor # NoVendorInfo
  /\ phase' = "crashed"
  /\ UNCHANGED <<section, n, pos, ir, out>>

Step ==
  \/ ReadHeader
  \/ ReadInfo \/ InfosRead
  \/ ReadContext \/ ContextNotEncoded
  \/ ReadVendorInfo \/ VendorInfoNotEncoded
  \/ WriteHeader
  \/ WriteInfo \/ InfosWritten
  \/ WriteContext \/ ContextNotDecoded
  \/ WriteVendorInfo \/ VendorInfoNotDecoded
----------------------------------------------------------------------------
(* The header counts the structures that follow it, and gives the length.  *)
CountsAgree(parts) == Counted(parts) /\ parts[1].body.length = End(parts)

(* Nothing was left out for want of memory.                                *)
Whole ==
  /\ ir.made
  /\ \A k \in 1..Len(ir.contexts) : ir.contexts[k] # NullContext
  /\ \A k \in 1..Len(out) :
       out[k].kind = "registers" => out[k].body.of # "nothing"

(***************************************************************************)
(* Every entry of the IR describes the structure of the section it stands  *)
(* for, and the vendor specific information is all that is left: the       *)
(* position never strays into a register array or past the section.        *)
(***************************************************************************)
StructuresFound ==
  LET last == section[Len(section)] IN
    Whole /\ CountsAgree(section) =>
      /\ \A k \in 1..Len(ir.infos) : ir.infos[k] = InfoIR(InfoAt(section, k).body)
      /\ \A k \in 1..Len(ir.contexts) :
           LET context == ContextAt(section, k).body
           IN  ir.contexts[k].type = context.type /\ ir.contexts[k].size = context.size
      /\ phase \in {"writeHeader", "writeInfos", "writeContexts", "done"}
           => ir.vendor = IF last.kind = "vendor" THEN last.size ELSE NoVendorInfo

(***************************************************************************)
(* Unless the structure of a register array is larger or smaller than the  *)
(* array (the miscellaneous register: 16 bytes for 10), everything is      *)
(* written where it was read, and the section keeps its length.            *)
(***************************************************************************)
ArraysAsStructures ==
  \A k \in 1..Len(section) :
    section[k].kind = "context" /\ section[k].body.type \in ArmRegisterTypes
      => section[k].body.size = ArmRegisterSize[section[k].body.type]

LayoutKept ==
  phase = "done" /\ Whole /\ CountsAgree(section) /\ ArraysAsStructures
    => SameLayout(out, section)

(* A section without counted structures, such as the generator makes, is   *)
(* written back with the header and the length it had: everything behind   *)
(* the header has become vendor specific information.                      *)
OpaqueSectionsKept ==
  phase = "done" /\ Whole /\ section[1].body.infoNum = 0
    /\ section[1].body.contextNum = 0 /\ ~section[1].body.top
    => out[1].body = [section[1].body EXCEPT !.valid = @ \intersect 0..3]
       /\ End(out) = End(section)

(***************************************************************************)
(* "A library which can readily convert back and forth between the         *)
(* standard CPER binary format and the specified structured JSON"          *)
(* (README.md): an error information structure keeps its type.             *)
(***************************************************************************)
ErrorTypesKept ==
  phase = "done" /\ ir.made /\ CountsAgree(section) =>
    \A k \in 1..ir.infoNum :
      InfoAt(out, k).body.type = InfoAt(section, k).body.type
============================================================================
