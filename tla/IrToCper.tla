------------------------------ MODULE IrToCper ------------------------------
(***************************************************************************)
(* ir-parse.c: writing an IR back as a CPER record (api = "record",        *)
(* ir_to_cper()) or as a single section (api = "section",                  *)
(* ir_single_section_to_cper()).                                           *)
(*                                                                         *)
(* One behaviour is one call; a step is one fwrite() with the code around  *)
(* it.  The descriptors are written with the offsets and lengths the IR    *)
(* gives them; the sections are written one after another, wherever the    *)
(* stream happens to be.  What is recorded is where each of them went.     *)
(***************************************************************************)
EXTENDS CperRecord

CONSTANTS
  CodecSize,   (* CodecSize[type]: the bytes the converter of that type    *)
               (* writes, sizeof() its structure.  Sections whose size     *)
               (* depends on their content are not given to this module.   *)
  NullUnsafe,  (* the types whose converter crashes on a null section: it  *)
               (* compares a missing string, or counts a missing array     *)
  IRs          (* the IRs a call may be made on                            *)

IR ==
  [api         : {"record", "section"},
   count       : Nat,                     \* header.sectionCount
   descriptors : Seq(Descriptor),
   sections    : Seq(SectionIR)]

ASSUME WriterAssumption ==
  /\ CodecSize \in [Types -> Nat]
  /\ NullUnsafe \subseteq Types
  /\ IRs \subseteq IR
  /\ \A r \in IRs : r.api = "section" => /\ Len(r.descriptors) = 1
                                         /\ Len(r.sections) = 1

VARIABLES
  ir,              (* the IR to write; never changes                       *)
  pc,              (* where the call is                                    *)
  i,               (* the loop counter                                     *)
  size,            (* bytes written so far                                 *)
  slotStarts,      (* where each descriptor was written                    *)
  sectionStarts,   (* where each section was written                       *)
  sectionLengths,  (* and how many bytes it took                           *)
  undecoded        (* base64 data was left out, for want of memory         *)

output == <<size, slotStarts, sectionStarts, sectionLengths, undecoded>>
vars == <<ir, pc, i, output>>

NumDescriptors == Len(ir.descriptors)   (* amt_descriptors                 *)
NumSections == Len(ir.sections)         (* amt_sections                    *)

(***************************************************************************)
(* base64.c in numbers (Base64 has what it does with the bytes): how long  *)
(* a text it makes of n bytes, how much of that is padding, and how many   *)
(* bytes it makes of such a text.                                          *)
(***************************************************************************)
EncodedLength(n) == 4 * ((n + 2) \div 3)

Padding(n) ==
  CASE n % 3 = 0 -> 0
    [] n % 3 = 1 -> 2
    [] n % 3 = 2 -> 1

(* A mutant: decoded data keeps the bytes its padding stands for.          *)
DecodedLengthPadded(chars, pads) == 3 * (chars \div 4)

DecodedLength(chars, pads) == 3 * (chars \div 4) - pads

(* A mutant: a section without data is taken for one of length -1.         *)
WrittenLengthFailing(d, s) ==
  IF HasConverter(d.type) THEN CodecSize[d.type]
  ELSE IF s.conv = "base64"
    THEN DecodedLength(EncodedLength(s.length), Padding(s.length))
    ELSE -1

(***************************************************************************)
(* The bytes ir_section_to_cper() writes for section s under descriptor d: *)
(* a converter writes its structure whatever it finds in s, otherwise the  *)
(* base64 data is decoded, if s has any.                                   *)
(***************************************************************************)
WrittenLength(d, s) ==
  IF HasConverter(d.type) THEN CodecSize[d.type]
  ELSE IF s.conv = "base64"
    THEN DecodedLength(EncodedLength(s.length), Padding(s.length))
    ELSE 0

Crashes(d, s) == HasConverter(d.type) /\ d.type \in NullUnsafe /\ s = Null

Start(r) ==
  /\ ir = r
  /\ pc = IF r.api = "record" THEN "header" ELSE "descriptors"
  /\ i = 0
  /\ size = 0
  /\ slotStarts = <<>> /\ sectionStarts = <<>> /\ sectionLengths = <<>>
  /\ undecoded = FALSE

Init == \E r \in IRs : Start(r)

(* A mutant: the header is not written.                                    *)
HeaderNotWritten ==
  /\ pc = "header"
  /\ pc' = "descriptors"
  /\ UNCHANGED <<ir, i, output>>

WriteHeader ==
  /\ pc = "header"
  /\ size' = size + HeaderSize
  /\ pc' = "descriptors"
  /\ UNCHANGED <<ir, i, slotStarts, sectionStarts, sectionLengths, undecoded>>

WriteDescriptor ==
  /\ pc = "descriptors"
  /\ i < NumDescriptors
  /\ slotStarts' = Append(slotStarts, size)
  /\ size' = size + DescriptorSize
  /\ i' = i + 1
  /\ UNCHANGED <<ir, pc, sectionStarts, sectionLengths, undecoded>>

(* A mutant: the header's count is compared instead of the arrays.         *)
DescriptorsWrittenByCount ==
  /\ pc = "descriptors"
  /\ i = NumDescriptors
  /\ pc' = IF NumSections = ir.count THEN "sections" ELSE "done"
  /\ i' = 0
  /\ UNCHANGED <<ir, output>>

(* if (amt_sections == amt_descriptors): otherwise no section is written.  *)
DescriptorsWritten ==
  /\ pc = "descriptors"
  /\ i = NumDescriptors
  /\ pc' = IF NumSections = NumDescriptors THEN "sections" ELSE "done"
  /\ i' = 0
  /\ UNCHANGED <<ir, output>>

WriteSection ==
  LET d == ir.descriptors[i + 1]
      s == ir.sections[i + 1] IN
    /\ pc = "sections"
    /\ i < NumSections
    /\ ~Crashes(d, s)
    /\ sectionStarts' = Append(sectionStarts, size)
    /\ sectionLengths' = Append(sectionLengths, WrittenLength(d, s))
    /\ size' = size + WrittenLength(d, s)
    /\ i' = i + 1
    /\ UNCHANGED <<ir, pc, slotStarts, undecoded>>

(* base64_decode() cannot allocate: nothing is written for the section.    *)
SectionNotDecoded ==
  /\ pc = "sections"
  /\ i < NumSections
  /\ ~HasConverter(ir.descriptors[i + 1].type)
  /\ ir.sections[i + 1].conv = "base64"
  /\ sectionStarts' = Append(sectionStarts, size)
  /\ sectionLengths' = Append(sectionLengths, 0)
  /\ undecoded' = TRUE
  /\ i' = i + 1
  /\ UNCHANGED <<ir, pc, size, slotStarts>>

CrashOnNull ==
  /\ pc = "sections"
  /\ i < NumSections
  /\ Crashes(ir.descriptors[i + 1], ir.sections[i + 1])
  /\ pc' = "crashed"
  /\ UNCHANGED <<ir, i, output>>

SectionsWritten ==
  /\ pc = "sections"
  /\ i = NumSections
  /\ pc' = "done"
  /\ UNCHANGED <<ir, i, output>>

Ended == pc \in {"done", "crashed"} /\ UNCHANGED vars

Step ==
  \/ WriteHeader
  \/ WriteDescriptor \/ DescriptorsWritten
  \/ WriteSection \/ SectionNotDecoded \/ CrashOnNull \/ SectionsWritten

Next == Step \/ Ended

(* A call is sequential code: it takes its next step until it ends.        *)
Spec == Init /\ [][Next]_vars /\ WF_vars(Step)
----------------------------------------------------------------------------
(* Types of the state.                                                     *)
TypeOK ==
  /\ ir \in IR
  /\ pc \in {"header", "descriptors", "sections", "done", "crashed"}
  /\ i \in Nat
  /\ size \in Nat
  /\ slotStarts \in Seq(Nat)
  /\ sectionStarts \in Seq(Nat) /\ sectionLengths \in Seq(Nat)
  /\ undecoded \in BOOLEAN

(* The table is written where a reader looks for it.                       *)
DescriptorsInSlots ==
  \A k \in 1..Len(slotStarts) :
    slotStarts[k] = SlotIn(IF ir.api = "record" THEN HeaderSize ELSE 0, k)

(***************************************************************************)
(* The IR has the layout the writer presumes without looking: each section *)
(* starts where the one before it ends, and its descriptor gives the       *)
(* length of its structure, or of the data it carries.                     *)
(***************************************************************************)
PresumedLayout(r) ==
  /\ Len(r.sections) = Len(r.descriptors)
  /\ \A k \in 1..Len(r.descriptors) :
       LET d == r.descriptors[k]
           s == r.sections[k] IN
         IF HasConverter(d.type)
           THEN d.length = CodecSize[d.type]
           ELSE s.conv = "base64" /\ d.length = s.length
  /\ IF r.api = "record" THEN Contiguous(r.descriptors)
                         ELSE r.descriptors[1].offset = DescriptorSize

(***************************************************************************)
(* From an IR with that layout, every section is written where its         *)
(* descriptor says it is, with the length it says, unless memory ran out.  *)
(***************************************************************************)
SectionsWhereDescribed ==
  PresumedLayout(ir) /\ ~undecoded =>
    \A k \in 1..Len(sectionStarts) :
      /\ sectionStarts[k] = ir.descriptors[k].offset
      /\ sectionLengths[k] = ir.descriptors[k].length

(***************************************************************************)
(* Such an IR is written whole: every section of it, up to the end of the  *)
(* last one, so that the record length its header keeps stays true.        *)
(***************************************************************************)
WholeRecordWritten ==
  pc = "done" /\ PresumedLayout(ir) /\ ~undecoded =>
    /\ Len(sectionStarts) = NumDescriptors
    /\ size = IF NumDescriptors = 0 THEN HeaderSize
              ELSE LET last == ir.descriptors[NumDescriptors]
                   IN  last.offset + last.length
============================================================================
