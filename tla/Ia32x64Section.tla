--------------------------- MODULE Ia32x64Section ---------------------------
(***************************************************************************)
(* sections/cper-section-ia32x64.c: an IA32/x64 processor section to IR    *)
(* and back.                                                               *)
(*                                                                         *)
(* The header counts the error information structures and the contexts in  *)
(* bits 2 to 7 and 8 to 13 of its validation bits.  A context is a header  *)
(* and a register array; 32 and 64-bit register arrays have a structure of *)
(* their own, the others are as long as the context's header says.         *)
(***************************************************************************)
EXTENDS SectionParts

CONSTANTS
  X64HeaderSize,      (* sizeof(EFI_IA32_X64_PROCESSOR_ERROR_RECORD), 64   *)
  X64InfoSize,        (* sizeof(EFI_IA32_X64_PROCESS_ERROR_INFO), 64       *)
  X64ContextSize,     (* sizeof(EFI_IA32_X64_PROCESSOR_CONTEXT_INFO), 16   *)
  X64RegisterSize,    (* the sizes of the register structures of types     *)
                      (* EFI_REG_CONTEXT_TYPE_IA32 and _X64, 92 and 244    *)
  X64ContextResidue   (* context headers that other bytes may decode to    *)

VARIABLES section, phase, n, pos, ir, out   (* as in ArmSection            *)

vars == <<section, phase, n, pos, ir, out>>

IA32 == 2
X64 == 3
HasStructure(type) == type \in {IA32, X64}

(***************************************************************************)
(* The bits of CheckInfo that the IR has a place for: as many of the 16    *)
(* validation bits as there are names for, and the fields behind them.     *)
(***************************************************************************)
CheckTypes == {"cache", "tlb", "bus", "ms"}
CheckBits(type) ==
  CASE type \in {"cache", "tlb"} -> 0..7  \union 16..29
    [] type = "bus"              -> 0..10 \union 16..34
    [] type = "ms"               -> 0..5  \union 16..23
    [] OTHER                     -> {}

(***************************************************************************)
(* The members that do not all come back, the others being copied as they  *)
(* are.  Six of the header's validation bits for each count; reserved is   *)
(* whether the 16 bytes of CpuIdInfo behind the four registers hold        *)
(* anything, resv1 whether Resv1 does among the registers of a context of  *)
(* type X64: it has its place with the context, not with their names.      *)
(***************************************************************************)
EFI_IA32_X64_PROCESSOR_ERROR_RECORD ==
  [valid : SUBSET (0..1 \union 14..63), infoNum : 0..63, contextNum : 0..63,
   reserved : BOOLEAN]
EFI_IA32_X64_PROCESS_ERROR_INFO ==
  [type : STRING, valid : SUBSET (0..63), check : SUBSET (0..63)]
EFI_IA32_X64_PROCESSOR_CONTEXT_INFO ==
  {c \in [type : Nat, size : Nat, resv1 : BOOLEAN] : c.resv1 => c.type = X64}

IsX64Section(parts) ==
  /\ IsProcessorSection(parts, X64HeaderSize, X64InfoSize, X64ContextSize)
  /\ parts[1].body \in EFI_IA32_X64_PROCESSOR_ERROR_RECORD
  /\ \A k \in 2..Len(parts) :
       /\ parts[k].kind # "vendor"
       /\ parts[k].kind = "info"
            => parts[k].body \in EFI_IA32_X64_PROCESS_ERROR_INFO
       /\ parts[k].kind = "context"
            => parts[k].body \in EFI_IA32_X64_PROCESSOR_CONTEXT_INFO

(* No bits are set that the converter has no place for.                    *)
Named(info) ==
  /\ info.type \in CheckTypes
  /\ info.valid \subseteq 0..4
  /\ info.check \subseteq CheckBits(info.type)

(* A register array with a structure of its own has its size.              *)
Fitting(context) ==
  HasStructure(context.type) => context.size = X64RegisterSize[context.type]

(* Check information of an unknown type is ignored: its IR is null.        *)
InfoIR(info) ==
  [type  |-> info.type,
   valid |-> info.valid \intersect 0..4,
   check |-> info.check \intersect CheckBits(info.type)]

(* A mutant: buses are written with the fields of caches.                  *)
WrittenInfoAsCache(entry) ==
  [entry EXCEPT !.check = @ \intersect CheckBits("cache")]

(* A structure of zeros, with the bits of the IR's fields.                 *)
WrittenInfo(entry) ==
  [type  |-> entry.type, valid |-> entry.valid, check |-> entry.check]

NoIR == [made |-> FALSE]
----------------------------------------------------------------------------
(* CPER to IR: of CpuIdInfo only eax to edx, 8 bytes each.                 *)
ReadHeader ==
  LET header == section[1].body IN
    /\ phase = "header"
    /\ ir' = [made |-> TRUE, valid |-> header.valid \intersect 0..1,
              infoNum |-> header.infoNum, contextNum |-> header.contextNum,
              infos |-> <<>>, contexts |-> <<>>]
    /\ pos' = X64HeaderSize
    /\ n' = 0
    /\ phase' = "infos"
    /\ UNCHANGED <<section, out>>

ReadInfo ==
  /\ phase = "infos"
  /\ n < ir.infoNum
  /\ \E info \in ReadAt(section, "info", pos, {}) :   \* as in ArmSection
       ir' = [ir EXCEPT !.infos = Append(@, InfoIR(info))]
  /\ pos' = pos + X64InfoSize
  /\ n' = n + 1
  /\ UNCHANGED <<section, phase, out>>

InfosRead ==
  /\ phase = "infos"
  /\ n = ir.infoNum
  /\ n' = 0
  /\ phase' = "contexts"
  /\ UNCHANGED <<section, pos, ir, out>>

(* A mutant: the structure of the other mode is skipped.                   *)
ArrayReadAsOther(context) ==
  IF HasStructure(context.type) THEN X64RegisterSize[X64] ELSE context.size

(* Where the next context is looked for: behind the structure of the mode, *)
(* whatever the array size says, or behind as many bytes as it says.       *)
ArrayRead(context) ==
  IF HasStructure(context.type) THEN X64RegisterSize[context.type]
                                ELSE context.size

ContextIR(context, registers) ==
  [type |-> context.type, size |-> context.size, registers |-> registers]

(* The registers of other types are encoded as base64; the array is null   *)
(* if that fails.                                                          *)
ReadContext ==
  /\ phase = "contexts"
  /\ n < ir.contextNum
  /\ \E context \in ReadAt(section, "context", pos, X64ContextResidue),
        encoded \in BOOLEAN :
       /\ HasStructure(context.type) => encoded
       /\ ir' = [ir EXCEPT !.contexts =
                   Append(@, ContextIR(context, IF encoded THEN "section" ELSE "null"))]
       /\ pos' = pos + X64ContextSize + ArrayRead(context)
  /\ n' = n + 1
  /\ UNCHANGED <<section, phase, out>>

ContextsRead ==
  /\ phase = "contexts"
  /\ n = ir.contextNum
  /\ n' = 0
  /\ phase' = "writeHeader"
  /\ UNCHANGED <<section, pos, ir, out>>
----------------------------------------------------------------------------
(* IR to CPER: a header of zeros, the end of CpuIdInfo among them.         *)
WriteHeader ==
  /\ phase = "writeHeader"
  /\ out' = Put(out, "header", X64HeaderSize,
                [valid |-> ir.valid, infoNum |-> ir.infoNum,
                 contextNum |-> ir.contextNum, reserved |-> FALSE])
  /\ n' = 0
  /\ phase' = "writeInfos"
  /\ UNCHANGED <<section, pos, ir>>

WriteInfo ==
  /\ phase = "writeInfos"
  /\ n < ir.infoNum
  /\ out' = Put(out, "info", X64InfoSize, WrittenInfo(ir.infos[n + 1]))
  /\ n' = n + 1
  /\ UNCHANGED <<section, phase, pos, ir>>

InfosWritten ==
  /\ phase = "writeInfos"
  /\ n = ir.infoNum
  /\ n' = 0
  /\ phase' = "writeContexts"
  /\ UNCHANGED <<section, pos, ir, out>>

(* A null array of another type is written as no bytes at all.             *)
ArrayWritten(context) ==
  IF HasStructure(context.type) THEN X64RegisterSize[context.type]
  ELSE IF context.registers = "null" THEN 0 ELSE context.size

(* Resv1 is set to zero (cper-section-ia32x64.c:954).                      *)
ContextWritten(context) ==
  [type |-> context.type, size |-> context.size, resv1 |-> FALSE]

WriteContext ==
  LET context == ir.contexts[n + 1] IN
    /\ phase = "writeContexts"
    /\ n < ir.contextNum
    /\ out' = Put(Put(out, "context", X64ContextSize, ContextWritten(context)),
                  "registers", ArrayWritten(context), [of |-> context.registers])
    /\ n' = n + 1
    /\ UNCHANGED <<section, phase, pos, ir>>

(* Registers that cannot be decoded are left out.                          *)
ContextNotDecoded ==
  LET context == ir.contexts[n + 1] IN
    /\ phase = "writeContexts"
    /\ n < ir.contextNum
    /\ ~HasStructure(context.type) /\ context.registers # "null"
    /\ out' = Put(Put(out, "context", X64ContextSize, ContextWritten(context)),
                  "registers", 0, [of |-> "null"])
    /\ n' = n + 1
    /\ UNCHANGED <<section, phase, pos, ir>>

ContextsWritten ==
  /\ phase = "writeContexts"
  /\ n = ir.contextNum
  /\ phase' = "done"
  /\ UNCHANGED <<section, n, pos, ir, out>>

Step ==
  \/ ReadHeader
  \/ ReadInfo \/ InfosRead
  \/ ReadContext \/ ContextsRead
  \/ WriteHeader
  \/ WriteInfo \/ InfosWritten
  \/ WriteContext \/ ContextNotDecoded \/ ContextsWritten
----------------------------------------------------------------------------
(* The header counts what follows it, and register arrays with a structure *)
(* of their own have its size.                                             *)
WellFormed(parts) ==
  /\ Counted(parts)
  /\ \A k \in 1..Len(parts) :
       parts[k].kind = "context" => Fitting(parts[k].body)

(* Nothing was left out for want of memory.                                *)
Whole ==
  /\ \A k \in 1..Len(ir.contexts) : ir.contexts[k].registers # "null"
  /\ \A k \in 1..Len(out) : out[k].kind = "registers" => out[k].body.of # "null"

(* Nothing is set that the converter has no place for.                     *)
AllNamed(parts) ==
  /\ parts[1].body.valid \subseteq 0..1 /\ ~parts[1].body.reserved
  /\ \A k \in 1..Len(parts) :
       /\ parts[k].kind = "info" => Named(parts[k].body)
       /\ parts[k].kind = "context" => ~parts[k].body.resv1

(***************************************************************************)
(* "Checks for binary round-trip equality" (tests/ir-tests.cpp): a section *)
(* comes back byte for byte, unless bits are set that have no place in the *)
(* IR: unnamed validation bits, the rest of the check information, the     *)
(* last 16 bytes of CpuIdInfo, Resv1 of X64 registers.                     *)
(***************************************************************************)
BinaryEqual ==
  phase = "done" /\ WellFormed(section) /\ Whole /\ AllNamed(section)
    => out = section

(***************************************************************************)
(* Whatever a well formed section holds, the contexts read are those of    *)
(* the section: the position ends up at its end, no sooner and no later.   *)
(***************************************************************************)
EndReached ==
  phase = "writeHeader" /\ WellFormed(section) =>
    /\ pos = End(section)
    /\ \A k \in 1..Len(ir.contexts) :
         LET context == ContextAt(section, k).body
         IN  ir.contexts[k].type = context.type /\ ir.contexts[k].size = context.size
============================================================================
