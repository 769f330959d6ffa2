--------------------------- MODULE MemorySections ---------------------------
(***************************************************************************)
(* sections/cper-section-memory.c and its generators: the two structures a *)
(* memory error is reported in.  A bank is two bytes, one number or two.   *)
(***************************************************************************)
EXTENDS FieldCodecs

(* Bits 0 and 1 are bits of a row, 5 to 7 the chip identification.         *)
ExtendedIR(extended) ==
  [rowBit16           |-> 0 \in extended,
   rowBit17           |-> 1 \in extended,
   chipIdentification |-> {b - 5 : b \in extended \intersect 5..7}]

(* A mutant: the chip identification is shifted by one bit less.           *)
ExtendedOfShifted(r) ==
  (IF r.rowBit16 THEN {0} ELSE {}) \union (IF r.rowBit17 THEN {1} ELSE {})
    \union {b + 4 : b \in r.chipIdentification}

ExtendedOf(r) ==
  (IF r.rowBit16 THEN {0} ELSE {}) \union (IF r.rowBit17 THEN {1} ELSE {})
    \union {b + 5 : b \in r.chipIdentification}

(* Bit 5 tells whether the bank is one number, or an address (its low      *)
(* byte) and a group.                                                      *)
BankIR(valid, bank) ==
  IF 5 \in valid THEN [value |-> bank]
  ELSE [address |-> bank[1], group |-> bank[2]]

BankOf(valid, r) ==
  IF 5 \in valid THEN r.value ELSE <<r.address, r.group>>
----------------------------------------------------------------------------
EFI_PLATFORM_MEMORY_ERROR_DATA(d) ==
  /\ HasMembers(d, {"ValidFields", "ErrorStatus", "PhysicalAddress",
                    "PhysicalAddressMask", "Node", "Card", "ModuleRank", "Bank",
                    "Device", "Row", "Column", "BitPosition", "RequestorId",
                    "ResponderId", "TargetId", "ErrorType", "Extended", "RankNum",
                    "CardHandle", "ModuleHandle"})
  /\ EFI_GENERIC_ERROR_STATUS(d.ErrorStatus)
  /\ Pair(d.Bank) /\ d.Extended \subseteq 0..7

cper_section_platform_memory_to_ir(d) ==
  [validationBits      |-> Named(d.ValidFields, 22),
   errorStatus         |-> cper_generic_error_status_to_ir(d.ErrorStatus),
   bank                |-> BankIR(d.ValidFields, d.Bank),
   memoryErrorType     |-> d.ErrorType,
   extended            |-> ExtendedIR(d.Extended),
   physicalAddress     |-> d.PhysicalAddress,
   physicalAddressMask |-> d.PhysicalAddressMask,
   node                |-> d.Node,
   card                |-> d.Card,
   moduleRank          |-> d.ModuleRank,
   device              |-> d.Device,
   row                 |-> d.Row,
   column              |-> d.Column,
   bitPosition         |-> d.BitPosition,
   requestorID         |-> d.RequestorId,
   responderID         |-> d.ResponderId,
   targetID            |-> d.TargetId,
   rankNumber          |-> d.RankNum,
   cardSmbiosHandle    |-> d.CardHandle,
   moduleSmbiosHandle  |-> d.ModuleHandle]

ir_section_memory_to_cper(r) ==
  [ValidFields         |-> r.validationBits,
   ErrorStatus         |-> ir_generic_error_status_to_cper(r.errorStatus),
   PhysicalAddress     |-> r.physicalAddress,
   PhysicalAddressMask |-> r.physicalAddressMask,
   Node                |-> r.node,
   Card                |-> r.card,
   ModuleRank          |-> r.moduleRank,
   Bank                |-> BankOf(r.validationBits, r.bank),
   Device              |-> r.device,
   Row                 |-> r.row,
   Column              |-> r.column,
   BitPosition         |-> r.bitPosition,
   RequestorId         |-> r.requestorID,
   ResponderId         |-> r.responderID,
   TargetId            |-> r.targetID,
   ErrorType           |-> r.memoryErrorType,
   Extended            |-> ExtendedOf(r.extended),
   RankNum             |-> r.rankNumber,
   CardHandle          |-> r.cardSmbiosHandle,
   ModuleHandle        |-> r.moduleSmbiosHandle]

(* 0x2FFFFF also clears bit 20, which has a name.                          *)
generate_section_memory(d) ==
  [d EXCEPT !.ValidFields = @ \intersect (0..19 \union {21}),
            !.Extended = @ \ 2..4,
            !.ErrorStatus = create_valid_error_section(@)]

PlainMemory(d) ==
  /\ d.ValidFields \subseteq 0..21 /\ PlainStatus(d.ErrorStatus)
  /\ d.Extended \intersect 2..4 = {}
----------------------------------------------------------------------------
EFI_PLATFORM_MEMORY2_ERROR_DATA(d) ==
  /\ HasMembers(d, {"ValidFields", "ErrorStatus", "PhysicalAddress",
                    "PhysicalAddressMask", "Node", "Card", "Module", "Bank", "Device",
                    "Row", "Column", "Rank", "BitPosition", "ChipId", "MemErrorType",
                    "Status", "Reserved", "RequestorId", "ResponderId", "TargetId",
                    "CardHandle", "ModuleHandle"})
  /\ EFI_GENERIC_ERROR_STATUS(d.ErrorStatus)
  /\ Pair(d.Bank)

(* The state that goes with the status is not read back.                   *)
cper_section_platform_memory2_to_ir(d) ==
  [validationBits      |-> Named(d.ValidFields, 22),
   errorStatus         |-> cper_generic_error_status_to_ir(d.ErrorStatus),
   bank                |-> BankIR(d.ValidFields, d.Bank),
   memoryErrorType     |-> d.MemErrorType,
   status              |-> d.Status,
   physicalAddress     |-> d.PhysicalAddress,
   physicalAddressMask |-> d.PhysicalAddressMask,
   node                |-> d.Node,
   card                |-> d.Card,
   module              |-> d.Module,
   device              |-> d.Device,
   row                 |-> d.Row,
   column              |-> d.Column,
   rank                |-> d.Rank,
   bitPosition         |-> d.BitPosition,
   chipID              |-> d.ChipId,
   requestorID         |-> d.RequestorId,
   responderID         |-> d.ResponderId,
   targetID            |-> d.TargetId,
   cardSmbiosHandle    |-> d.CardHandle,
   moduleSmbiosHandle  |-> d.ModuleHandle]

ir_section_memory2_to_cper(r) ==
  [ValidFields         |-> r.validationBits,
   ErrorStatus         |-> ir_generic_error_status_to_cper(r.errorStatus),
   PhysicalAddress     |-> r.physicalAddress,
   PhysicalAddressMask |-> r.physicalAddressMask,
   Node                |-> r.node,
   Card                |-> r.card,
   Module              |-> r.module,
   Bank                |-> BankOf(r.validationBits, r.bank),
   Device              |-> r.device,
   Row                 |-> r.row,
   Column              |-> r.column,
   Rank                |-> r.rank,
   BitPosition         |-> r.bitPosition,
   ChipId              |-> r.chipID,
   MemErrorType        |-> r.memoryErrorType,
   Status              |-> r.status,
   Reserved            |-> Zero,
   RequestorId         |-> r.requestorID,
   ResponderId         |-> r.responderID,
   TargetId            |-> r.targetID,
   CardHandle          |-> r.cardSmbiosHandle,
   ModuleHandle        |-> r.moduleSmbiosHandle]

generate_section_memory2(d) ==
  [d EXCEPT !.ValidFields = @ \intersect (0..19 \union {21}),
            !.Reserved = Zero,
            !.ErrorStatus = create_valid_error_section(@)]

PlainMemory2(d) ==
  /\ d.ValidFields \subseteq 0..21 /\ PlainStatus(d.ErrorStatus)
  /\ d.Reserved = Zero
=============================================================================
