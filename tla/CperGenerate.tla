---------------------------- MODULE CperGenerate ----------------------------
(***************************************************************************)
(* generator/cper-generate.c: laying out and writing a pseudo-random       *)
(* record (api = "record", generate_cper_record()) or a single section     *)
(* (api = "section", generate_single_section_record()).                    *)
(*                                                                         *)
(* One behaviour is one call; each trip round one of its loops is a step.  *)
(* A section is abstracted to its length; what the section generators put  *)
(* in it is drawn from Lengths and Guids.                                  *)
(***************************************************************************)
EXTENDS CperLayout

CONSTANTS
  Names,     (* section names that may be asked for                        *)
  Lengths,   (* Lengths[name]: the lengths a section of that name may get; *)
             (* only 0 for a name that is not defined                      *)
  Guids,     (* Guids[name]: the GUIDs a descriptor of that name may get:  *)
             (* one for a defined name, any for "unknown", none otherwise  *)
  Requests   (* the calls considered                                       *)

Request == [api : {"record", "section"}, names : Seq(Names)]

ASSUME GenerateAssumption ==
  /\ Lengths \in [Names -> SUBSET Nat]
  /\ Guids \in [Names -> SUBSET Types]
  /\ \A name \in Names : Guids[name] = {} => Lengths[name] = {0}
  /\ Requests \subseteq Request
  /\ \A r \in Requests : r.api = "section" => Len(r.names) = 1

VARIABLES
  request,        (* the arguments of the call; never change               *)
  pc,             (* where the call is                                     *)
  i, j,           (* the loop counters                                     *)
  lengths,        (* section_lengths                                       *)
  offset,         (* descriptor->SectionOffset of the descriptor being made *)
  descriptors,    (* section_descriptors                                   *)
  total,          (* total_len, which becomes header->RecordLength         *)
  size,           (* bytes written to the output so far                    *)
  slotStarts,     (* where each descriptor was written                     *)
  sectionStarts,  (* where each section was written                        *)
  outcome         (* "none" until the call ends: "written", "error" or     *)
                  (* "crash"                                               *)

layout == <<lengths, offset, descriptors, total>>
output == <<size, slotStarts, sectionStarts>>
vars == <<request, pc, i, j, layout, output, outcome>>

NumSections == Len(request.names)
Name(k) == request.names[k]

Init ==
  /\ request \in Requests
  /\ pc = "sections"
  /\ i = 0 /\ j = 0
  /\ lengths = <<>>
  /\ offset = 0
  /\ descriptors = <<>>
  /\ total = 0
  /\ size = 0
  /\ slotStarts = <<>> /\ sectionStarts = <<>>
  /\ outcome = "none"

(* A mutant: the length of a section is never looked at.                   *)
GenerateSectionUnchecked ==
  /\ pc = "sections"
  /\ i < NumSections
  /\ \E length \in Lengths[Name(i + 1)] : lengths' = Append(lengths, length)
  /\ i' = i + 1
  /\ UNCHANGED <<request, pc, j, offset, descriptors, total, output, outcome>>

(***************************************************************************)
(* generate_section().  A record gives up when the length is zero; a       *)
(* single section does not look.                                           *)
(***************************************************************************)
GenerateSection ==
  /\ pc = "sections"
  /\ i < NumSections
  /\ \E length \in Lengths[Name(i + 1)] :
       /\ request.api = "record" => length # 0
       /\ lengths' = Append(lengths, length)
  /\ i' = i + 1
  /\ UNCHANGED <<request, pc, j, offset, descriptors, total, output, outcome>>

EmptySection ==
  /\ pc = "sections"
  /\ i < NumSections
  /\ request.api = "record"
  /\ 0 \in Lengths[Name(i + 1)]
  /\ outcome' = "error"
  /\ pc' = "done"
  /\ UNCHANGED <<request, i, j, layout, output>>

(* generate_section_descriptor() starts from the first section's place.    *)
SectionsGenerated ==
  /\ pc = "sections"
  /\ i = NumSections
  /\ pc' = "descriptors"
  /\ i' = 0 /\ j' = 0
  /\ offset' = FirstSection(NumSections)
  /\ UNCHANGED <<request, lengths, descriptors, total, output, outcome>>

(* A mutant: the section's own length is added, not those before it.       *)
AddOwnLength ==
  /\ pc = "descriptors"
  /\ i < NumSections
  /\ j < i
  /\ offset' = offset + lengths[i + 1]
  /\ j' = j + 1
  /\ UNCHANGED <<request, pc, i, lengths, descriptors, total, output, outcome>>

(* ... and adds the lengths of the sections before it one by one.          *)
AddLength ==
  /\ pc = "descriptors"
  /\ i < NumSections
  /\ j < i
  /\ offset' = offset + lengths[j + 1]
  /\ j' = j + 1
  /\ UNCHANGED <<request, pc, i, lengths, descriptors, total, output, outcome>>

(* A single section has no header in front: its offset is corrected.       *)
MakeDescriptor ==
  /\ pc = "descriptors"
  /\ i < NumSections
  /\ j = i
  /\ \E guid \in Guids[Name(i + 1)] :
       descriptors' =
         Append(descriptors,
                [offset |-> IF request.api = "record" THEN offset
                                                      ELSE DescriptorSize,
                 length |-> lengths[i + 1],
                 type   |-> guid])
  /\ i' = i + 1 /\ j' = 0
  /\ offset' = FirstSection(NumSections)
  /\ UNCHANGED <<request, pc, lengths, total, output, outcome>>

(***************************************************************************)
(* For an undefined name generate_section_descriptor() returns NULL, and   *)
(* generate_single_section_record() writes the offset through it.          *)
(***************************************************************************)
NoDescriptor ==
  /\ pc = "descriptors"
  /\ i < NumSections
  /\ j = i
  /\ request.api = "section"
  /\ Guids[Name(i + 1)] = {}
  /\ outcome' = "crash"
  /\ pc' = "done"
  /\ UNCHANGED <<request, i, j, layout, output>>

DescriptorsMade ==
  /\ pc = "descriptors"
  /\ i = NumSections
  /\ IF request.api = "record"
       THEN pc' = "total" /\ total' = HeaderSize
       ELSE pc' = "writeDescriptors" /\ UNCHANGED total
  /\ i' = 0
  /\ UNCHANGED <<request, j, lengths, offset, descriptors, output, outcome>>

AddToTotal ==
  /\ pc = "total"
  /\ i < NumSections
  /\ total' = total + lengths[i + 1]
  /\ i' = i + 1
  /\ UNCHANGED <<request, pc, j, lengths, offset, descriptors, output, outcome>>

(* Mutants: the table is left out of the length, the header of the output. *)
WriteHeaderWithoutTable ==
  /\ pc = "total"
  /\ i = NumSections
  /\ size' = size + HeaderSize
  /\ i' = 0
  /\ pc' = "writeDescriptors"
  /\ UNCHANGED <<request, j, layout, slotStarts, sectionStarts, outcome>>

HeaderNotWritten ==
  /\ pc = "total"
  /\ i = NumSections
  /\ total' = total + NumSections * DescriptorSize
  /\ i' = 0
  /\ pc' = "writeDescriptors"
  /\ UNCHANGED <<request, j, lengths, offset, descriptors, output, outcome>>

(* The table is added last, and the header is written.                     *)
WriteHeader ==
  /\ pc = "total"
  /\ i = NumSections
  /\ total' = total + NumSections * DescriptorSize
  /\ size' = size + HeaderSize
  /\ i' = 0
  /\ pc' = "writeDescriptors"
  /\ UNCHANGED <<request, j, lengths, offset, descriptors, slotStarts,
                 sectionStarts, outcome>>

(* A mutant: one descriptor too many is written.                           *)
WriteDescriptorOnceMore ==
  /\ pc = "writeDescriptors"
  /\ i <= NumSections
  /\ slotStarts' = Append(slotStarts, size)
  /\ size' = size + DescriptorSize
  /\ i' = i + 1
  /\ UNCHANGED <<request, pc, j, layout, sectionStarts, outcome>>

WriteDescriptor ==
  /\ pc = "writeDescriptors"
  /\ i < NumSections
  /\ slotStarts' = Append(slotStarts, size)
  /\ size' = size + DescriptorSize
  /\ i' = i + 1
  /\ UNCHANGED <<request, pc, j, layout, sectionStarts, outcome>>

DescriptorsWritten ==
  /\ pc = "writeDescriptors"
  /\ i = NumSections
  /\ i' = 0
  /\ pc' = "writeSections"
  /\ UNCHANGED <<request, j, layout, output, outcome>>

WriteSection ==
  /\ pc = "writeSections"
  /\ i < NumSections
  /\ sectionStarts' = Append(sectionStarts, size)
  /\ size' = size + lengths[i + 1]
  /\ i' = i + 1
  /\ UNCHANGED <<request, pc, j, layout, slotStarts, outcome>>

SectionsWritten ==
  /\ pc = "writeSections"
  /\ i = NumSections
  /\ outcome' = "written"
  /\ pc' = "done"
  /\ UNCHANGED <<request, i, j, layout, output>>

Ended == pc = "done" /\ UNCHANGED vars

Step ==
  \/ GenerateSection \/ EmptySection \/ SectionsGenerated
  \/ AddLength \/ MakeDescriptor \/ NoDescriptor \/ DescriptorsMade
  \/ AddToTotal \/ WriteHeader
  \/ WriteDescriptor \/ DescriptorsWritten
  \/ WriteSection \/ SectionsWritten

Next == Step \/ Ended

(* A call is sequential code: it takes its next step until it ends.        *)
Spec == Init /\ [][Next]_vars /\ WF_vars(Step)
----------------------------------------------------------------------------
(* Types of the state.                                                     *)
TypeOK ==
  /\ request \in Requests
  /\ pc \in {"sections", "descriptors", "total", "writeDescriptors",
             "writeSections", "done"}
  /\ i \in 0..NumSections /\ j \in 0..NumSections
  /\ lengths \in Seq(Nat)
  /\ offset \in Nat
  /\ descriptors \in Seq(Descriptor)
  /\ total \in Nat
  /\ size \in Nat
  /\ slotStarts \in Seq(Nat) /\ sectionStarts \in Seq(Nat)
  /\ outcome \in {"none", "written", "error", "crash"}

(***************************************************************************)
(* Every section lies in the output where its descriptor says, with the    *)
(* length it says: the offset added up in generate_section_descriptor()    *)
(* and the position the writing loops arrive at are the same.              *)
(***************************************************************************)
SectionsWhereDescribed ==
  \A k \in 1..Len(sectionStarts) :
    /\ descriptors[k].offset = sectionStarts[k]
    /\ descriptors[k].length = lengths[k]

(* Every descriptor lies in its slot of the table, where a reader looks.   *)
DescriptorsInSlots ==
  \A k \in 1..Len(slotStarts) :
    slotStarts[k] = SlotIn(IF request.api = "record" THEN HeaderSize ELSE 0, k)

(***************************************************************************)
(* The header of a written record gives its length in bytes exactly, and a *)
(* request that fails has written nothing.                                 *)
(***************************************************************************)
RecordLengthExact ==
  pc = "done" /\ request.api = "record"
    => size = IF outcome = "written" THEN total ELSE 0

(***************************************************************************)
(* A written record has the contiguous layout, none of whose sections is   *)
(* empty: what a reader and the writer of IR rely on.                      *)
(***************************************************************************)
WrittenRecordsContiguous ==
  outcome = "written" /\ request.api = "record"
    => /\ Len(descriptors) = NumSections
       /\ Contiguous(descriptors)
       /\ \A k \in 1..NumSections : descriptors[k].length > 0
============================================================================
