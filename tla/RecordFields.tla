---------------------------- MODULE RecordFields ----------------------------
(***************************************************************************)
(* cper_header_to_ir() and cper_section_descriptor_to_ir() of cper-parse.c *)
(* with ir_header_to_cper() and ir_section_descriptor_to_cper() of         *)
(* ir-parse.c: the structures of fixed size that every record has.         *)
(*                                                                         *)
(* A timestamp is seven bytes and a flag.                                  *)
(***************************************************************************)
EXTENDS FieldCodecs

CONSTANTS
  RecordHeaderSize,   (* sizeof(EFI_COMMON_ERROR_RECORD_HEADER), 128       *)
  SlotSize,           (* sizeof(EFI_ERROR_SECTION_DESCRIPTOR), 72          *)
  FruTextSize         (* sizeof(FruString), 20                             *)

VARIABLES section, phase, ir, out
  (* the structure to convert, as the only part of a section; what is to   *)
  (* be done with it; its IR; the structure written                        *)

vars == <<section, phase, ir, out>>
----------------------------------------------------------------------------
TimeParts ==
  {"Century", "Year", "Month", "Day", "Hours", "Minutes", "Seconds"}
YearParts == {"Century", "Year"}
NoTime == [p \in TimeParts |-> 0]

(* The numbers in the text of a timestamp.  Century and year are cut down  *)
(* to two digits, the others are printed as they are.                      *)
timestamp_to_string(time) ==
  [p \in TimeParts |->
     IF p \in YearParts THEN bcd_to_int(time[p]) % 100 ELSE bcd_to_int(time[p])]

string_to_timestamp(text) == [p \in TimeParts |-> int_to_bcd(text[p])]

(* "CCYY-MM-DDThh:mm:ss.000" and the terminating zero.                     *)
TimestampLength(text) ==
  24 + Cardinality({p \in TimeParts : text[p] > 99})

TIMESTAMP_LENGTH == 24
----------------------------------------------------------------------------
EFI_ERROR_TIME_STAMP == [TimeParts -> 0..255]

EFI_COMMON_ERROR_RECORD_HEADER(h) ==
  /\ HasMembers(h, {"SignatureEnd", "Revision", "SectionCount", "ErrorSeverity",
                    "ValidationBits", "RecordLength", "TimeStamp", "TimeStampFlag",
                    "PlatformID", "PartitionID", "CreatorID", "NotificationType",
                    "RecordID", "Flags", "PersistenceInfo", "Reserved"})
  /\ h.TimeStamp \in EFI_ERROR_TIME_STAMP /\ h.TimeStampFlag \in 0..255

EFI_ERROR_SECTION_DESCRIPTOR(d) ==
  /\ HasMembers(d, {"SectionOffset", "SectionLength", "Revision", "SecValidMask",
                    "Reserved", "SectionFlags", "SectionType", "FruId", "Severity",
                    "FruString"})
  /\ d.FruString \in Nat

HeaderIR(h) ==
  [revision         |-> h.Revision,
   sectionCount     |-> h.SectionCount,
   severity         |-> h.ErrorSeverity,
   validationBits   |-> Named(h.ValidationBits, 3),
   recordLength     |-> h.RecordLength,
   creatorID        |-> h.CreatorID,
   notificationType |-> h.NotificationType,
   recordID         |-> h.RecordID,
   flags            |-> h.Flags,
   persistenceInfo  |-> h.PersistenceInfo]
  ++ If(h.ValidationBits, 1,
        [timestamp          |-> timestamp_to_string(h.TimeStamp),
         timestampIsPrecise |-> h.TimeStampFlag # 0])
  ++ If(h.ValidationBits, 0, [platformID |-> h.PlatformID])
  ++ If(h.ValidationBits, 2, [partitionID |-> h.PartitionID])

HeaderOf(r) ==
  [SignatureEnd     |-> "0xFFFFFFFF",
   Revision         |-> r.revision,
   SectionCount     |-> r.sectionCount,
   ErrorSeverity    |-> r.severity,
   ValidationBits   |-> r.validationBits,
   RecordLength     |-> r.recordLength,
   TimeStamp        |-> IF "timestamp" \in DOMAIN r
                          THEN string_to_timestamp(r.timestamp) ELSE NoTime,
   TimeStampFlag    |-> IF Get(r, "timestampIsPrecise", FALSE) THEN 1 ELSE 0,
   PlatformID       |-> Get(r, "platformID", Zero),
   PartitionID      |-> Get(r, "partitionID", Zero),
   CreatorID        |-> r.creatorID,
   NotificationType |-> r.notificationType,
   RecordID         |-> r.recordID,
   PersistenceInfo  |-> r.persistenceInfo,
   Flags            |-> r.flags,
   Reserved         |-> Zero]

DescriptorIR(d, text) ==
  [sectionOffset  |-> d.SectionOffset,
   sectionLength  |-> d.SectionLength,
   revision       |-> d.Revision,
   validationBits |-> Named(d.SecValidMask, 2),
   flags          |-> Named(d.SectionFlags, 8),
   sectionType    |-> d.SectionType,
   severity       |-> d.Severity]
  ++ If(d.SecValidMask, 0, [fruID |-> d.FruId])
  ++ If(d.SecValidMask, 1, [fruText |-> text])

DescriptorOf(r) ==
  [SectionOffset |-> r.sectionOffset,
   SectionLength |-> r.sectionLength,
   Revision      |-> r.revision,
   SecValidMask  |-> r.validationBits,
   Reserved      |-> Zero,
   SectionFlags  |-> r.flags,
   SectionType   |-> r.sectionType,
   FruId         |-> Get(r, "fruID", Zero),
   Severity      |-> r.severity,
   FruString     |-> TextWritten(Get(r, "fruText", 0), FruTextSize)]
----------------------------------------------------------------------------
HeaderToIR ==
  /\ phase = "toIR"
  /\ ir' = HeaderIR(section[1].body)
  /\ phase' = "toCper"
  /\ UNCHANGED <<section, out>>

HeaderToCper ==
  /\ phase = "toCper"
  /\ out' = Put(out, "header", RecordHeaderSize, HeaderOf(ir))
  /\ phase' = "done"
  /\ UNCHANGED <<section, ir>>

DescriptorToIR ==
  LET d == section[1].body IN
    /\ phase = "toIR"
    /\ \E text \in TextsRead(d.FruString, FruTextSize) : ir' = DescriptorIR(d, text)
    /\ phase' = "toCper"
    /\ UNCHANGED <<section, out>>

DescriptorToCper ==
  /\ phase = "toCper"
  /\ out' = Put(out, "descriptor", SlotSize, DescriptorOf(ir))
  /\ phase' = "done"
  /\ UNCHANGED <<section, ir>>
----------------------------------------------------------------------------
(* Two decimal digits each.                                                *)
Decimal(time) == \A p \in TimeParts : DecimalByte(time[p])

(* No bits without a name are set, and nothing that no bit announces.      *)
PlainHeader(h) ==
  /\ h.SignatureEnd = "0xFFFFFFFF" /\ h.Reserved = Zero
  /\ h.ValidationBits \subseteq 0..2
  /\ IF 1 \in h.ValidationBits
       THEN Decimal(h.TimeStamp) /\ h.TimeStampFlag \in {0, 1}
       ELSE h.TimeStamp = NoTime /\ h.TimeStampFlag = 0
  /\ 0 \notin h.ValidationBits => h.PlatformID = Zero
  /\ 2 \notin h.ValidationBits => h.PartitionID = Zero

PlainDescriptor(d) ==
  /\ d.Reserved = Zero
  /\ d.SecValidMask \subseteq 0..1 /\ d.SectionFlags \subseteq 0..7
  /\ 0 \notin d.SecValidMask => d.FruId = Zero
  /\ d.FruString < (IF 1 \in d.SecValidMask THEN FruTextSize ELSE 1)

(***************************************************************************)
(* cper_header_to_ir() and ir_header_to_cper() are inverse: a header with  *)
(* nothing in it that the IR has no place for is written as it was read.   *)
(***************************************************************************)
HeaderKept ==
  phase = "done" /\ PlainHeader(section[1].body) => out = section

(* The same of a section descriptor.                                       *)
DescriptorKept ==
  phase = "done" /\ PlainDescriptor(section[1].body) => out = section

(***************************************************************************)
(* Reading what was written gives the IR it was written from, whatever was *)
(* read first: what the IR cannot hold is gone after one trip, and nothing *)
(* is lost with the next.  Only numbers above 99 are cut down a second     *)
(* time; of century and year there are none.                               *)
(***************************************************************************)
HeaderSettled ==
  /\ phase = "done"
  /\ "timestamp" \in DOMAIN ir => \A p \in TimeParts : ir.timestamp[p] <= 99
  => HeaderIR(out[1].body) = ir

(***************************************************************************)
(* The same of a descriptor whose text ends within it.                     *)
(***************************************************************************)
DescriptorSettled ==
  phase = "done" /\ Get(ir, "fruText", 0) < FruTextSize
    => DescriptorIR(out[1].body, out[1].body.FruString) = ir

(***************************************************************************)
(* "Output must be at least TIMESTAMP_LENGTH bytes long." (cper-utils.c):  *)
(* with decimal digits, and then with as many as the buffer has room for.  *)
(***************************************************************************)
TimestampFits ==
  phase = "toCper" /\ "timestamp" \in DOMAIN ir /\ Decimal(section[1].body.TimeStamp)
    => TimestampLength(ir.timestamp) <= TIMESTAMP_LENGTH
============================================================================
