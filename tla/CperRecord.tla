---------------------------- MODULE CperRecord ----------------------------
(***************************************************************************)
(* CPER records as a reader finds them: the streams a call may be made on, *)
(* the descriptor table in them, and the IR a section may convert to.      *)
(*                                                                         *)
(* The bytes of a section are abstracted to the extent of the stream they  *)
(* are read from, the bytes of a descriptor to what they decode to:        *)
(* input.at[p] is the descriptor that the DescriptorSize bytes at position *)
(* p decode to, whether or not p is a slot of the descriptor table.        *)
(***************************************************************************)
EXTENDS CperLayout, CStream

CONSTANTS
  MaxStream,  (* bounds the size of the streams considered                 *)
  Table,      (* section_definitions: a sequence of [guid, converts]     *)
              (* entries, with both converters or with none                 *)
  Inputs      (* the streams a call may be made on                         *)

Input ==
  [api     : {"record", "section"},
   backing : Backings,
   size    : 0..MaxStream,
   base    : 0..MaxStream,      \* the position the caller left it at
   magic   : BOOLEAN,           \* the header starts with "CPER"
   count   : Nat,               \* header.SectionCount
   at      : [0..MaxStream -> Descriptor]]

ASSUME ParseAssumption ==
  /\ MaxStream \in Nat
  /\ Table \in Seq([guid : Types, converts : BOOLEAN])
  /\ Inputs \subseteq Input

(* A section that could not be read: cper_section_to_ir() returns NULL.    *)
Null == [conv |-> "null", from |-> 0, length |-> 0]

(***************************************************************************)
(* The IR a section may convert to, once its bytes are in memory: by the   *)
(* first table entry with the section's GUID and a converter, whatever it  *)
(* returns (SectionCodec, ArmSection, Ia32x64Section), otherwise as        *)
(* base64, or as an object without data if the encoder cannot allocate.    *)
(***************************************************************************)
HasConverter(type) ==
  \E k \in 1..Len(Table) : Table[k].guid = type /\ Table[k].converts

Conversions(desc, from) ==
  [conv   : IF HasConverter(desc.type) THEN {"codec"} ELSE {"base64", "nodata"},
   from   : {from},
   length : {desc.length}]

SectionIR ==
  [conv : {"null", "codec", "base64", "nodata"}, from : Nat, length : Nat]

(* The number of times the call goes round: once without a header.         *)
Count(in) == IF in.api = "record" THEN in.count ELSE 1

(* The descriptor table of the record, and what lies in its k-th slot.     *)
TableStart(in) == IF in.api = "record" THEN in.base + HeaderSize ELSE in.base
Slot(in, k) == SlotIn(TableStart(in), k)

(* d is what the k-th slot of the table holds.                             *)
InSlot(in, k, d) ==
  CanRead(in, Slot(in, k), DescriptorSize) /\ d = in.at[Slot(in, k)]

(* The section a descriptor describes can be read from the stream.         *)
Readable(in, desc) == CanRead(in, in.base + desc.offset, desc.length)

(***************************************************************************)
(* Every section of the table can be read: no descriptor is empty or       *)
(* points out of the stream.                                               *)
(***************************************************************************)
AllReadable(in) ==
  \A k \in 1..Count(in) :
    CanRead(in, Slot(in, k), DescriptorSize)
      => Readable(in, in.at[Slot(in, k)])
============================================================================
