----------------------------- MODULE CperParse -----------------------------
(***************************************************************************)
(* cper-parse.c: reading a CPER record, or a single section, from a stream *)
(* into the JSON intermediate representation (IR).                         *)
(*                                                                         *)
(* One behaviour is one call of cper_to_ir() (api = "record") or           *)
(* cper_single_section_to_ir() (api = "section") on a stream "input".  A   *)
(* step is one trip to the stream with everything the code does before the *)
(* next one.                                                               *)
(***************************************************************************)
EXTENDS CperRecord

VARIABLES
  input,          (* the stream; never changes                             *)
  pos,            (* its read position                                     *)
  pc,             (* where the call is                                     *)
  i,              (* the loop counter                                      *)
  descriptorsIR,  (* section_descriptors_ir                                *)
  sectionsIR,     (* sections_ir                                           *)
  result          (* "none" until the call returns, then "null" or "ir"    *)

vars == <<input, pos, pc, i, descriptorsIR, sectionsIR, result>>

Init ==
  /\ input \in Inputs
  /\ pos = input.base
  /\ pc = IF input.api = "record" THEN "header" ELSE "descriptor"
  /\ i = 0
  /\ descriptorsIR = <<>>
  /\ sectionsIR = <<>>
  /\ result = "none"

(* return NULL: the partly built IR is freed.                              *)
ReturnNull ==
  /\ result' = "null"
  /\ pc' = "done"
  /\ descriptorsIR' = <<>>
  /\ sectionsIR' = <<>>
  /\ UNCHANGED <<input, i>>

HeaderTooShort ==
  /\ pc = "header"
  /\ ~CanRead(input, pos, HeaderSize)
  /\ pos' = PosAfterRead(input, pos, HeaderSize)
  /\ ReturnNull

HeaderNotCper ==
  /\ pc = "header"
  /\ CanRead(input, pos, HeaderSize)
  /\ ~input.magic
  /\ pos' = PosAfterRead(input, pos, HeaderSize)
  /\ ReturnNull

ReadHeader ==
  /\ pc = "header"
  /\ CanRead(input, pos, HeaderSize)
  /\ input.magic
  /\ pos' = PosAfterRead(input, pos, HeaderSize)
  /\ pc' = "descriptor"
  /\ UNCHANGED <<input, i, descriptorsIR, sectionsIR, result>>

(* A mutant: a short read is tried again instead of given up.              *)
DescriptorTooShortRetried ==
  /\ pc = "descriptor"
  /\ i < Count(input)
  /\ ~CanRead(input, pos, DescriptorSize)
  /\ pos' = PosAfterRead(input, pos, DescriptorSize)
  /\ UNCHANGED <<input, pc, i, descriptorsIR, sectionsIR, result>>

(* A mutant: a short read ends the loop, and what was read is returned.    *)
DescriptorTooShortBreaks ==
  /\ pc = "descriptor"
  /\ i < Count(input)
  /\ ~CanRead(input, pos, DescriptorSize)
  /\ pos' = PosAfterRead(input, pos, DescriptorSize)
  /\ pc' = "done"
  /\ result' = "ir"
  /\ UNCHANGED <<input, i, descriptorsIR, sectionsIR>>

DescriptorTooShort ==
  /\ pc = "descriptor"
  /\ i < Count(input)
  /\ ~CanRead(input, pos, DescriptorSize)
  /\ pos' = PosAfterRead(input, pos, DescriptorSize)
  /\ ReturnNull

ReadDescriptor ==
  /\ pc = "descriptor"
  /\ i < Count(input)
  /\ CanRead(input, pos, DescriptorSize)
  /\ pos' = PosAfterRead(input, pos, DescriptorSize)
  /\ descriptorsIR' = Append(descriptorsIR, input.at[pos])
  /\ pc' = "section"
  /\ UNCHANGED <<input, i, sectionsIR, result>>

(***************************************************************************)
(* cper_section_to_ir() on the descriptor just read.  Only the path on     *)
(* which the section could be read puts the stream back where it was.      *)
(***************************************************************************)
CurrentDescriptor == descriptorsIR[i + 1]

(* Mutants: the distance from here used as a position, and an offset from  *)
(* the start of the stream instead of the start of the record.             *)
SectionStartFromHere ==
  SeekTo(input, pos, input.base + CurrentDescriptor.offset - pos)

SectionStartFromZero == SeekTo(input, pos, CurrentDescriptor.offset)

SectionStart == SeekTo(input, pos, input.base + CurrentDescriptor.offset)

(* A mutant: a section that cannot be read is left out of the array.       *)
SectionUnreadableSkipped ==
  LET n == CurrentDescriptor.length IN
    /\ pc = "section"
    /\ ~CanRead(input, SectionStart, n)
    /\ pos' = PosAfterRead(input, SectionStart, n)
    /\ i' = i + 1
    /\ pc' = "descriptor"
    /\ UNCHANGED <<input, descriptorsIR, sectionsIR, result>>

SectionUnreadable ==
  LET n == CurrentDescriptor.length IN
    /\ pc = "section"
    /\ ~CanRead(input, SectionStart, n)
    /\ pos' = PosAfterRead(input, SectionStart, n)
    /\ sectionsIR' = Append(sectionsIR, Null)
    /\ i' = i + 1
    /\ pc' = "descriptor"
    /\ UNCHANGED <<input, descriptorsIR, result>>

(* A mutant: the stream stays behind the section.                          *)
ReadSectionStaying ==
  LET n == CurrentDescriptor.length IN
    /\ pc = "section"
    /\ CanRead(input, SectionStart, n)
    /\ pos' = PosAfterRead(input, SectionStart, n)
    /\ \E ir \in Conversions(CurrentDescriptor, SectionStart) :
         sectionsIR' = Append(sectionsIR, ir)
    /\ i' = i + 1
    /\ pc' = "descriptor"
    /\ UNCHANGED <<input, descriptorsIR, result>>

ReadSection ==
  LET n == CurrentDescriptor.length IN
    /\ pc = "section"
    /\ CanRead(input, SectionStart, n)
    /\ pos' = SeekTo(input, PosAfterRead(input, SectionStart, n), pos)
    /\ \E ir \in Conversions(CurrentDescriptor, SectionStart) :
         sectionsIR' = Append(sectionsIR, ir)
    /\ i' = i + 1
    /\ pc' = "descriptor"
    /\ UNCHANGED <<input, descriptorsIR, result>>

(* The loop is over: the arrays are added to the parent object.            *)
ReturnIR ==
  /\ pc = "descriptor"
  /\ i = Count(input)
  /\ result' = "ir"
  /\ pc' = "done"
  /\ UNCHANGED <<input, pos, i, descriptorsIR, sectionsIR>>

(* The call has returned.                                                  *)
Returned == pc = "done" /\ UNCHANGED vars

Step ==
  \/ HeaderTooShort \/ HeaderNotCper \/ ReadHeader
  \/ DescriptorTooShort \/ ReadDescriptor
  \/ SectionUnreadable \/ ReadSection
  \/ ReturnIR

Next == Step \/ Returned

(* A call runs to its end: nothing it waits for can be withheld.           *)
Spec == Init /\ [][Next]_vars /\ WF_vars(Step)
----------------------------------------------------------------------------
(* Types of the state: the extents recorded are natural numbers.           *)
TypeOK ==
  /\ input \in Input
  /\ pos \in Nat
  /\ pc \in {"header", "descriptor", "section", "done"}
  /\ i \in Nat
  /\ descriptorsIR \in Seq(Descriptor)
  /\ sectionsIR \in Seq(SectionIR)
  /\ result \in {"none", "null", "ir"}

(***************************************************************************)
(* The two arrays of the IR stay in step, and an IR that is returned has   *)
(* exactly as many descriptors and sections as the header announces: a     *)
(* section that failed is a null entry, never a missing one.               *)
(***************************************************************************)
ArraysInStep ==
  /\ pc = "descriptor" => Len(descriptorsIR) = i /\ Len(sectionsIR) = i
  /\ result = "ir" => Len(descriptorsIR) = Count(input) /\ Len(sectionsIR) = Count(input)

(***************************************************************************)
(* Every descriptor in the IR is the one in its slot of the table ("Read   *)
(* the appropriate number of section descriptors & sections", and "Seek    *)
(* back to our original position" after each section, cper-parse.c).       *)
(***************************************************************************)
DescriptorsFromTable ==
  \A k \in 1..Len(descriptorsIR) : InSlot(input, k, descriptorsIR[k])

(***************************************************************************)
(* What the code keeps of it: a descriptor is the one in its slot as long  *)
(* as every section before it could be read.                               *)
(***************************************************************************)
DescriptorsFromTableUntilFailure ==
  \A k \in 1..Len(descriptorsIR) :
    (\A j \in 1..(k - 1) : sectionsIR[j] # Null)
      => InSlot(input, k, descriptorsIR[k])

(***************************************************************************)
(* Every section in the IR is what its own descriptor describes ("Read     *)
(* section as described by the section descriptor"): the extent at the     *)
(* descriptor's offset from the base of the record with the descriptor's   *)
(* length, or null exactly if that extent is not in the stream.  (The null *)
(* of a converter that gets no memory is not among a call's outcomes here; *)
(* SectionCodec has it.)                                                   *)
(***************************************************************************)
SectionsAsDescribed ==
  \A k \in 1..Len(sectionsIR) :
    LET d == descriptorsIR[k] IN
      IF Readable(input, d)
        THEN sectionsIR[k] \in Conversions(d, input.base + d.offset)
        ELSE sectionsIR[k] = Null

(***************************************************************************)
(* The call does what the reader promises: its IR is only visible to the   *)
(* caller when it is returned.                                             *)
(***************************************************************************)
ReturnedIR ==
  IF result = "ir"
    THEN [descriptors |-> descriptorsIR, sections |-> sectionsIR]
    ELSE [descriptors |-> <<>>, sections |-> <<>>]

Reader == INSTANCE CperReader WITH ir <- ReturnedIR

ImplementsReader == Reader!ReaderSpec
============================================================================
