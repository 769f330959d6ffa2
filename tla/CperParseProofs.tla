-------------------------- MODULE CperParseProofs --------------------------
(***************************************************************************)
(* What CperParse's runs check on small streams, proved for every stream,  *)
(* every header and descriptor size and every dispatch table.              *)
(***************************************************************************)
EXTENDS CperParse, TLAPS

(* The loop counter and the two arrays at every point of a call.           *)
Progress ==
  /\ pc = "header" => /\ result = "none" /\ i = 0 /\ pos = input.base
                      /\ descriptorsIR = <<>> /\ sectionsIR = <<>>
                      /\ input.api = "record"
  /\ pc = "descriptor" => /\ result = "none" /\ i <= Count(input)
                          /\ Len(descriptorsIR) = i /\ Len(sectionsIR) = i
  /\ pc = "section" => /\ result = "none" /\ i < Count(input)
                       /\ Len(descriptorsIR) = i + 1 /\ Len(sectionsIR) = i
                       /\ pos <= input.size
  /\ pc = "done" => result \in {"null", "ir"}
  /\ result = "null" => descriptorsIR = <<>> /\ sectionsIR = <<>>
  /\ result = "ir" => /\ Len(descriptorsIR) = Count(input)
                      /\ Len(sectionsIR) = Count(input)

(* No section has failed so far.                                           *)
NoFailure == \A j \in 1..Len(sectionsIR) : sectionsIR[j] # Null

(* Until one does, the stream is at the next slot of the table.            *)
AtNextSlot ==
  pc \in {"descriptor", "section"} /\ NoFailure
    => pos = Slot(input, Len(descriptorsIR) + 1)

IInv == TypeOK /\ Progress /\ AtNextSlot /\ DescriptorsFromTableUntilFailure

(* The slots of a table follow each other.                                 *)
LEMMA NextSlot ==
  ASSUME NEW in \in Input, NEW k \in Nat
  PROVE  /\ Slot(in, k) \in Int
         /\ Slot(in, k + 1) = Slot(in, k) + DescriptorSize
  BY LayoutAssumption DEF Slot, SlotIn, TableStart, Input

(* A whole item read moves the stream on by its size, and leaves it inside. *)
LEMMA ReadMoves ==
  ASSUME NEW in \in Input, NEW p \in Nat, NEW n \in Nat
  PROVE  /\ PosAfterRead(in, p, n) \in Nat
         /\ CanRead(in, p, n) => /\ PosAfterRead(in, p, n) = p + n
                                 /\ p + n <= in.size
                                 /\ p \in 0..MaxStream
  BY ParseAssumption DEF PosAfterRead, CanRead, Input

LEMMA InputFields ==
  ASSUME NEW in \in Input
  PROVE  /\ in.base \in Nat /\ in.size \in Nat /\ in.count \in Nat
         /\ Count(in) \in Nat
         /\ \A p \in 0..MaxStream : in.at[p] \in Descriptor
  BY ParseAssumption DEF Input, Count

LEMMA InitIInv == Init => IInv
<1> SUFFICES ASSUME Init PROVE IInv
  OBVIOUS
<1>1. input \in Input
  BY ParseAssumption DEF Init
<1>2. TypeOK
  BY <1>1, InputFields DEF Init, TypeOK
<1>3. Progress
  BY <1>1, InputFields DEF Init, Progress, Input, Count
<1>4. AtNextSlot
  BY <1>1, InputFields, LayoutAssumption
     DEF Init, AtNextSlot, Slot, SlotIn, TableStart, Input
<1>5. DescriptorsFromTableUntilFailure
  BY DEF Init, DescriptorsFromTableUntilFailure
<1> QED BY <1>2, <1>3, <1>4, <1>5 DEF IInv

(* A step that returns NULL leaves nothing behind.                         *)
LEMMA ReturnNullIInv ==
  ASSUME IInv, ReturnNull, pos' \in Nat PROVE IInv'
<1>1. TypeOK'
  BY DEF IInv, TypeOK, ReturnNull
<1>2. Progress'
  BY DEF IInv, Progress, ReturnNull
<1>3. AtNextSlot'
  BY DEF ReturnNull, AtNextSlot
<1>4. DescriptorsFromTableUntilFailure'
  BY DEF ReturnNull, DescriptorsFromTableUntilFailure
<1> QED BY <1>1, <1>2, <1>3, <1>4 DEF IInv

LEMMA ReadHeaderIInv == ASSUME IInv, ReadHeader PROVE IInv'
<1> USE DEF IInv
<1>1. /\ input \in Input /\ input' = input /\ pos \in Nat
      /\ HeaderSize \in Nat /\ DescriptorSize \in Nat
  BY LayoutAssumption DEF TypeOK, ReadHeader
<1>2. pos' = pos + HeaderSize /\ pos' \in Nat
  BY <1>1, ReadMoves DEF ReadHeader
<1>3. /\ i = 0 /\ descriptorsIR = <<>> /\ sectionsIR = <<>>
      /\ result = "none" /\ pos = input.base /\ input.api = "record"
  BY DEF Progress, ReadHeader
<1>4. TypeOK'
  BY <1>2 DEF TypeOK, ReadHeader
<1>5. Progress'
  BY <1>1, <1>3, InputFields DEF Progress, ReadHeader, Count
<1>6. AtNextSlot'
  BY <1>1, <1>2, <1>3, InputFields
     DEF AtNextSlot, ReadHeader, Slot, SlotIn, TableStart
<1>7. DescriptorsFromTableUntilFailure'
  BY <1>1, <1>3 DEF ReadHeader, DescriptorsFromTableUntilFailure
<1> QED BY <1>4, <1>5, <1>6, <1>7

LEMMA ReadDescriptorIInv == ASSUME IInv, ReadDescriptor PROVE IInv'
<1> USE DEF IInv
<1>1. /\ input \in Input /\ input' = input /\ pos \in Nat /\ i \in Nat
      /\ descriptorsIR \in Seq(Descriptor) /\ sectionsIR \in Seq(SectionIR)
      /\ sectionsIR' = sectionsIR /\ DescriptorSize \in Nat
  BY LayoutAssumption DEF TypeOK, ReadDescriptor
<1>2. /\ pos' = pos + DescriptorSize /\ pos' \in Nat /\ pos' <= input.size
      /\ input.at[pos] \in Descriptor
  BY <1>1, ReadMoves, InputFields DEF ReadDescriptor
<1>3. /\ Len(descriptorsIR) = i /\ Len(sectionsIR) = i /\ result = "none"
      /\ i < Count(input)
  BY DEF Progress, ReadDescriptor
<1>4. /\ descriptorsIR' \in Seq(Descriptor) /\ Len(descriptorsIR') = i + 1
      /\ descriptorsIR'[i + 1] = input.at[pos]
      /\ \A k \in 1..i : descriptorsIR'[k] = descriptorsIR[k]
  BY <1>1, <1>2, <1>3 DEF ReadDescriptor
<1>5. TypeOK'
  BY <1>2, <1>4 DEF TypeOK, ReadDescriptor
<1>6. Progress'
  BY <1>1, <1>2, <1>3, <1>4 DEF Progress, ReadDescriptor, Count
<1>7. NoFailure => pos = Slot(input, i + 1)
  BY <1>3 DEF AtNextSlot, ReadDescriptor
<1>8. AtNextSlot'
  <2> SUFFICES ASSUME NoFailure PROVE pos' = Slot(input, (i + 1) + 1)
    BY <1>1, <1>4 DEF AtNextSlot, NoFailure
  <2> QED BY <1>1, <1>2, <1>7, NextSlot, i + 1 \in Nat
<1>9. DescriptorsFromTableUntilFailure'
  <2> SUFFICES ASSUME NEW k \in 1..(i + 1),
                      \A j \in 1..(k - 1) : sectionsIR[j] # Null
               PROVE  InSlot(input, k, descriptorsIR'[k])
    BY <1>1, <1>4 DEF DescriptorsFromTableUntilFailure
  <2>1. CASE k = i + 1
    <3>1. NoFailure
      BY <2>1, <1>3, <1>1 DEF NoFailure
    <3> QED BY <3>1, <2>1, <1>7, <1>4, <1>1 DEF InSlot, ReadDescriptor
  <2>2. CASE k # i + 1
    BY <2>2, <1>1, <1>3, <1>4 DEF DescriptorsFromTableUntilFailure
  <2> QED BY <2>1, <2>2
<1> QED BY <1>5, <1>6, <1>8, <1>9

(***************************************************************************)
(* The two ways cper_section_to_ir() ends, in what they have in common: s  *)
(* is appended to the sections and the stream is left at pos'.             *)
(***************************************************************************)
LEMMA SectionDoneIInv ==
  ASSUME IInv, pc = "section", pc' = "descriptor", i' = i + 1, pos' \in Nat,
         NEW s \in SectionIR, sectionsIR' = Append(sectionsIR, s),
         UNCHANGED <<input, descriptorsIR, result>>,
         s # Null => pos' = pos
  PROVE  IInv'
<1> USE DEF IInv
<1>1. /\ input \in Input /\ pos \in Nat /\ i \in Nat
      /\ descriptorsIR \in Seq(Descriptor) /\ sectionsIR \in Seq(SectionIR)
  BY DEF TypeOK
<1>2. /\ Len(descriptorsIR) = i + 1 /\ Len(sectionsIR) = i /\ result = "none"
      /\ i < Count(input)
  BY DEF Progress
<1>3. /\ sectionsIR' \in Seq(SectionIR) /\ Len(sectionsIR') = i + 1
      /\ sectionsIR'[i + 1] = s
      /\ \A k \in 1..i : sectionsIR'[k] = sectionsIR[k]
  BY <1>1, <1>2
<1>4. TypeOK'
  BY <1>1, <1>3 DEF TypeOK
<1>5. Progress'
  BY <1>1, <1>2, <1>3, InputFields DEF Progress, Count
<1>6. AtNextSlot'
  <2> SUFFICES ASSUME NoFailure' PROVE pos' = Slot(input, Len(descriptorsIR) + 1)
    BY DEF AtNextSlot
  <2>1. s # Null /\ NoFailure
    BY <1>1, <1>2, <1>3 DEF NoFailure
  <2> QED BY <2>1 DEF AtNextSlot
<1>7. DescriptorsFromTableUntilFailure'
  BY <1>1, <1>2, <1>3 DEF DescriptorsFromTableUntilFailure
<1> QED BY <1>4, <1>5, <1>6, <1>7

(* What a section starts from: its descriptor, and where it is looked for. *)
LEMMA SectionStartType ==
  ASSUME IInv, pc = "section"
  PROVE  /\ CurrentDescriptor \in Descriptor /\ CurrentDescriptor.length \in Nat
         /\ CurrentDescriptor.offset \in Nat
         /\ SectionStart \in Nat
<1>1. CurrentDescriptor \in Descriptor
  BY DEF IInv, TypeOK, Progress, CurrentDescriptor
<1>2. CurrentDescriptor.offset \in Nat /\ CurrentDescriptor.length \in Nat
  BY <1>1 DEF Descriptor
<1>3. input \in Input /\ pos \in Nat
  BY DEF IInv, TypeOK
<1> QED BY <1>1, <1>2, <1>3, InputFields DEF SectionStart, SeekTo

LEMMA NullType == Null \in SectionIR
  BY DEF Null, SectionIR

LEMMA ConversionType ==
  ASSUME NEW d \in Descriptor, NEW from \in Nat, NEW s \in Conversions(d, from)
  PROVE  s \in SectionIR /\ s # Null
  BY DEF Conversions, SectionIR, Null, Descriptor

LEMMA SectionUnreadableIInv == ASSUME IInv, SectionUnreadable PROVE IInv'
<1>1. pos' \in Nat
  BY SectionStartType, ReadMoves DEF SectionUnreadable, IInv, TypeOK
<1> QED BY <1>1, NullType, SectionDoneIInv DEF SectionUnreadable

LEMMA ReadSectionIInv == ASSUME IInv, ReadSection PROVE IInv'
<1>1. /\ pc = "section" /\ input \in Input /\ pos \in Nat /\ pos <= input.size
  BY DEF ReadSection, IInv, TypeOK, Progress
<1>2. pos' = pos
  BY <1>1, InputFields DEF ReadSection, SeekTo
<1>3. PICK s \in Conversions(CurrentDescriptor, SectionStart) :
        sectionsIR' = Append(sectionsIR, s)
  BY DEF ReadSection
<1>4. s \in SectionIR
  BY <1>1, <1>3, SectionStartType, ConversionType
<1> QED BY <1>1, <1>2, <1>3, <1>4, SectionDoneIInv DEF ReadSection

LEMMA ReturnIRIInv == ASSUME IInv, ReturnIR PROVE IInv'
  BY DEF IInv, TypeOK, Progress, AtNextSlot, ReturnIR, Count,
         DescriptorsFromTableUntilFailure, InSlot

LEMMA StutterIInv == ASSUME IInv, UNCHANGED vars PROVE IInv'
  BY DEF IInv, TypeOK, Progress, AtNextSlot, NoFailure, vars, Count,
         DescriptorsFromTableUntilFailure, InSlot

LEMMA NextIInv == IInv /\ [Next]_vars => IInv'
<1> SUFFICES ASSUME IInv, [Next]_vars PROVE IInv'
  OBVIOUS
<1>1. CASE HeaderTooShort \/ HeaderNotCper
  <2>1. pos' \in Nat
    BY <1>1, ReadMoves, LayoutAssumption
       DEF IInv, TypeOK, HeaderTooShort, HeaderNotCper
  <2> QED BY <1>1, <2>1, ReturnNullIInv DEF HeaderTooShort, HeaderNotCper
<1>2. CASE DescriptorTooShort
  <2>1. pos' \in Nat
    BY <1>2, ReadMoves, LayoutAssumption DEF IInv, TypeOK, DescriptorTooShort
  <2> QED BY <1>2, <2>1, ReturnNullIInv DEF DescriptorTooShort
<1>3. CASE ReadHeader
  BY <1>3, ReadHeaderIInv
<1>4. CASE ReadDescriptor
  BY <1>4, ReadDescriptorIInv
<1>5. CASE SectionUnreadable
  BY <1>5, SectionUnreadableIInv
<1>6. CASE ReadSection
  BY <1>6, ReadSectionIInv
<1>7. CASE ReturnIR
  BY <1>7, ReturnIRIInv
<1>8. CASE Returned \/ UNCHANGED vars
  BY <1>8, StutterIInv DEF Returned
<1> QED BY <1>1, <1>2, <1>3, <1>4, <1>5, <1>6, <1>7, <1>8 DEF Next, Step

(***************************************************************************)
(* The invariant of a call: types, the loop counter and the arrays in      *)
(* step, and the stream at the next slot until a section fails.            *)
(***************************************************************************)
THEOREM ParseInvariant == Spec => []IInv
  BY InitIInv, NextIInv, PTL DEF Spec

(* The state of a call has its types: no position ever becomes negative.   *)
THEOREM TypeCorrect == Spec => []TypeOK
<1>1. IInv => TypeOK
  BY DEF IInv
<1> QED BY <1>1, ParseInvariant, PTL

(***************************************************************************)
(* An IR that is returned has one descriptor and one section entry for     *)
(* each section the header announces, whatever the stream holds.           *)
(***************************************************************************)
THEOREM InStep == Spec => []ArraysInStep
<1>1. IInv => ArraysInStep
  BY DEF IInv, Progress, ArraysInStep
<1> QED BY <1>1, ParseInvariant, PTL

(***************************************************************************)
(* As long as every section before it could be read, a descriptor of the   *)
(* IR is the one in its slot of the table.                                 *)
(***************************************************************************)
THEOREM TableUntilFailure == Spec => []DescriptorsFromTableUntilFailure
<1>1. IInv => DescriptorsFromTableUntilFailure
  BY DEF IInv
<1> QED BY <1>1, ParseInvariant, PTL

----------------------------------------------------------------------------
(***************************************************************************)
(* Sections.  Where seeking cannot fail, each entry of the IR is what its  *)
(* own descriptor describes.                                               *)
(***************************************************************************)
(* The next entry is as described, so all of them still are.               *)
LEMMA NextSectionAsDescribed ==
  ASSUME IInv, SectionsAsDescribed, pc = "section",
         input.backing = "memory"
           => input.base + CurrentDescriptor.offset <= input.size,
         SectionUnreadable \/ ReadSection
  PROVE  SectionsAsDescribed'
<1> DEFINE d == CurrentDescriptor
<1>1. /\ input \in Input /\ pos \in Nat /\ i \in Nat /\ Len(sectionsIR) = i
      /\ descriptorsIR \in Seq(Descriptor) /\ sectionsIR \in Seq(SectionIR)
  BY DEF IInv, TypeOK, Progress
<1>2. d \in Descriptor /\ d.offset \in Nat /\ d.length \in Nat
  BY SectionStartType
<1>3. SectionStart = input.base + d.offset /\ SectionStart \in Nat
  BY <1>1, <1>2, InputFields DEF SectionStart, SeekTo
<1>4. PICK s \in SectionIR :
        /\ sectionsIR' = Append(sectionsIR, s)
        /\ IF Readable(input, d) THEN s \in Conversions(d, input.base + d.offset)
                                 ELSE s = Null
  <2>1. CASE SectionUnreadable
    BY <2>1, <1>3, NullType DEF SectionUnreadable, Readable
  <2>2. CASE ReadSection
    <3>1. PICK s \in Conversions(d, SectionStart) :
            sectionsIR' = Append(sectionsIR, s)
      BY <2>2 DEF ReadSection
    <3>2. s \in SectionIR
      BY <3>1, <1>2, <1>3, ConversionType
    <3>3. Readable(input, d)
      BY <2>2, <1>3 DEF ReadSection, Readable
    <3> QED BY <3>1, <3>2, <3>3, <1>3
  <2> QED BY <2>1, <2>2
<1>5. /\ sectionsIR' \in Seq(SectionIR) /\ Len(sectionsIR') = i + 1
      /\ sectionsIR'[i + 1] = s
      /\ \A k \in 1..i : sectionsIR'[k] = sectionsIR[k]
  BY <1>1, <1>4
<1>6. UNCHANGED <<input, descriptorsIR>> /\ d = descriptorsIR[i + 1]
  BY DEF SectionUnreadable, ReadSection, CurrentDescriptor
<1> SUFFICES ASSUME NEW k \in 1..(i + 1)
             PROVE  IF Readable(input, descriptorsIR[k])
                    THEN sectionsIR'[k] \in
                           Conversions(descriptorsIR[k],
                                       input.base + descriptorsIR[k].offset)
                    ELSE sectionsIR'[k] = Null
  BY <1>5, <1>6 DEF SectionsAsDescribed
<1>7. CASE k = i + 1
  BY <1>7, <1>4, <1>5, <1>6
<1>8. CASE k # i + 1
  BY <1>8, <1>1, <1>5 DEF SectionsAsDescribed
<1> QED BY <1>7, <1>8

(* Steps that touch no section keep the entries as described.              *)
LEMMA OtherSectionsAsDescribed ==
  ASSUME IInv, SectionsAsDescribed, [Next]_vars,
         ~SectionUnreadable, ~ReadSection
  PROVE  SectionsAsDescribed'
<1>1. CASE ReturnNull
  BY <1>1 DEF ReturnNull, SectionsAsDescribed
<1>2. CASE ReadDescriptor
  <2>1. /\ input \in Input /\ pos \in Nat /\ input.at[pos] \in Descriptor
    BY <1>2, InputFields, ReadMoves, LayoutAssumption
       DEF IInv, TypeOK, ReadDescriptor
  <2>2. \A k \in 1..Len(sectionsIR) : descriptorsIR'[k] = descriptorsIR[k]
    BY <1>2, <2>1 DEF ReadDescriptor, IInv, TypeOK, Progress
  <2> QED BY <1>2, <2>2 DEF ReadDescriptor, SectionsAsDescribed
<1>3. CASE ReadHeader \/ ReturnIR \/ Returned \/ UNCHANGED vars
  BY <1>3 DEF ReadHeader, ReturnIR, Returned, vars, SectionsAsDescribed
<1> QED BY <1>1, <1>2, <1>3
        DEF Next, Step, HeaderTooShort, HeaderNotCper, DescriptorTooShort

(***************************************************************************)
(* On a file, where fseek() cannot fail, every section of the IR is the    *)
(* extent its own descriptor describes, and null exactly if that extent is *)
(* not in the file: whatever failed before, and wherever the stream was    *)
(* left, a section is never taken from another place.                      *)
(***************************************************************************)
THEOREM AsDescribed ==
  Spec => [](input.backing = "file" => SectionsAsDescribed)
<1> DEFINE FInv == input.backing = "file" => SectionsAsDescribed
<1>1. Init => FInv
  BY DEF Init, SectionsAsDescribed
<1>2. IInv /\ FInv /\ [Next]_vars => FInv'
  <2> SUFFICES ASSUME IInv, FInv, [Next]_vars, input'.backing = "file"
               PROVE  SectionsAsDescribed'
    OBVIOUS
  <2>1. input' = input
    BY DEF Next, Step, HeaderTooShort, HeaderNotCper, ReadHeader, ReturnNull,
           DescriptorTooShort, ReadDescriptor, SectionUnreadable, ReadSection,
           ReturnIR, Returned, vars
  <2>2. CASE SectionUnreadable \/ ReadSection
    BY <2>1, <2>2, NextSectionAsDescribed DEF SectionUnreadable, ReadSection
  <2>3. CASE ~SectionUnreadable /\ ~ReadSection
    BY <2>1, <2>3, OtherSectionsAsDescribed
  <2> QED BY <2>2, <2>3
<1> QED BY <1>1, <1>2, ParseInvariant, PTL DEF Spec

----------------------------------------------------------------------------
(***************************************************************************)
(* What is known of the sections even if seeking fails, or the table is    *)
(* lost: an entry that is there was read with the length, and converted by *)
(* the type, of the descriptor beside it.                                  *)
(***************************************************************************)
ConvertedAsDescribed ==
  \A k \in 1..Len(sectionsIR) :
    sectionsIR[k] # Null =>
      /\ descriptorsIR[k].length > 0
      /\ \E from \in Nat : sectionsIR[k] \in Conversions(descriptorsIR[k], from)

LEMMA NextConverted == IInv /\ ConvertedAsDescribed /\ [Next]_vars => ConvertedAsDescribed'
<1> SUFFICES ASSUME IInv, ConvertedAsDescribed, [Next]_vars
             PROVE  ConvertedAsDescribed'
  OBVIOUS
<1> DEFINE Converted(d, s) ==
             s # Null => d.length > 0 /\ \E from \in Nat : s \in Conversions(d, from)
<1>1. /\ input \in Input /\ pos \in Nat /\ i \in Nat
      /\ descriptorsIR \in Seq(Descriptor) /\ sectionsIR \in Seq(SectionIR)
  BY DEF IInv, TypeOK
<1>2. CASE SectionUnreadable \/ ReadSection
  <2>1. Len(sectionsIR) = i /\ pc = "section"
    BY <1>2 DEF IInv, Progress, SectionUnreadable, ReadSection
  <2>2. PICK s \in SectionIR :
          sectionsIR' = Append(sectionsIR, s) /\ Converted(CurrentDescriptor, s)
    <3>1. CASE SectionUnreadable
      BY <3>1, NullType DEF SectionUnreadable
    <3>2. CASE ReadSection
      <4>1. PICK s \in Conversions(CurrentDescriptor, SectionStart) :
              sectionsIR' = Append(sectionsIR, s)
        BY <3>2 DEF ReadSection
      <4>2. s \in SectionIR /\ SectionStart \in Nat
        BY <2>1, <4>1, SectionStartType, ConversionType
      <4>3. CurrentDescriptor.length > 0
        BY <3>2 DEF ReadSection, CanRead
      <4> QED BY <4>1, <4>2, <4>3
    <3> QED BY <1>2, <3>1, <3>2
  <2>3. /\ Len(sectionsIR') = i + 1 /\ sectionsIR'[i + 1] = s
        /\ \A k \in 1..i : sectionsIR'[k] = sectionsIR[k]
    BY <1>1, <2>1, <2>2
  <2>4. descriptorsIR' = descriptorsIR /\ CurrentDescriptor = descriptorsIR[i + 1]
    BY <1>2 DEF SectionUnreadable, ReadSection, CurrentDescriptor
  <2> SUFFICES ASSUME NEW k \in 1..(i + 1)
               PROVE  Converted(descriptorsIR[k], sectionsIR'[k])
    BY <2>3, <2>4 DEF ConvertedAsDescribed
  <2>5. CASE k = i + 1
    BY <2>5, <2>2, <2>3, <2>4
  <2>6. CASE k # i + 1
    BY <2>6, <1>1, <2>1, <2>3 DEF ConvertedAsDescribed
  <2> QED BY <2>5, <2>6
<1>3. CASE ReadDescriptor
  <2>1. input.at[pos] \in Descriptor
    BY <1>1, <1>3, InputFields, ReadMoves, LayoutAssumption DEF ReadDescriptor
  <2>2. \A k \in 1..Len(sectionsIR) : descriptorsIR'[k] = descriptorsIR[k]
    BY <1>1, <1>3, <2>1 DEF ReadDescriptor, IInv, Progress
  <2> QED BY <1>3, <2>2 DEF ReadDescriptor, ConvertedAsDescribed
<1>4. CASE ReturnNull
  BY <1>4 DEF ReturnNull, ConvertedAsDescribed
<1>5. CASE ReadHeader \/ ReturnIR \/ Returned \/ UNCHANGED vars
  BY <1>5 DEF ReadHeader, ReturnIR, Returned, vars, ConvertedAsDescribed
<1> QED BY <1>2, <1>3, <1>4, <1>5
        DEF Next, Step, HeaderTooShort, HeaderNotCper, DescriptorTooShort

(***************************************************************************)
(* Whatever was lost before it, an entry of the IR that is not null was    *)
(* read with the length and converted by the type of its own descriptor.   *)
(***************************************************************************)
THEOREM Converted == Spec => []ConvertedAsDescribed
<1>1. Init => ConvertedAsDescribed
  BY DEF Init, ConvertedAsDescribed
<1> QED BY <1>1, NextConverted, ParseInvariant, PTL DEF Spec

----------------------------------------------------------------------------
(***************************************************************************)
(* Refinement.  When every section of the table can be read, from a file   *)
(* or from a buffer, the call is one step of the reader.                   *)
(***************************************************************************)
HeaderSeen ==
  (pc \in {"descriptor", "section"} \/ result = "ir") /\ input.api = "record"
    => CanRead(input, input.base, HeaderSize) /\ input.magic

JInv ==
  AllReadable(input) => NoFailure /\ SectionsAsDescribed /\ HeaderSeen

(* Then the section at hand is where its descriptor says, and can be read. *)
LEMMA SectionAtHand ==
  ASSUME IInv, AllReadable(input), NoFailure, pc = "section"
  PROVE  /\ Readable(input, CurrentDescriptor)
         /\ SectionStart = input.base + CurrentDescriptor.offset
         /\ input.base + CurrentDescriptor.offset <= input.size
<1>1. /\ input \in Input /\ i \in Nat /\ i < Count(input)
      /\ Len(descriptorsIR) = i + 1 /\ Len(sectionsIR) = i
  BY DEF IInv, TypeOK, Progress
<1>2. InSlot(input, i + 1, CurrentDescriptor)
  BY <1>1 DEF IInv, DescriptorsFromTableUntilFailure, NoFailure, CurrentDescriptor
<1>3. i + 1 \in 1..Count(input)
  BY <1>1, InputFields
<1>4. Readable(input, CurrentDescriptor)
  BY <1>2, <1>3 DEF AllReadable, InSlot
<1>5. input.base + CurrentDescriptor.offset <= input.size
  BY <1>1, <1>4, SectionStartType, InputFields DEF Readable, CanRead
<1> QED BY <1>1, <1>4, <1>5, SectionStartType, InputFields
        DEF SectionStart, SeekTo

LEMMA InitJInv == Init => JInv
  BY DEF Init, JInv, NoFailure, SectionsAsDescribed, HeaderSeen

LEMMA NextJInv == IInv /\ JInv /\ [Next]_vars => JInv'
<1> SUFFICES ASSUME IInv, JInv, [Next]_vars, AllReadable(input')
             PROVE  NoFailure' /\ SectionsAsDescribed' /\ HeaderSeen'
  BY DEF JInv, AllReadable
<1>1. input' = input
  BY DEF Next, Step, HeaderTooShort, HeaderNotCper, ReadHeader, ReturnNull,
         DescriptorTooShort, ReadDescriptor, SectionUnreadable, ReadSection,
         ReturnIR, Returned, vars
<1>2. AllReadable(input) /\ NoFailure /\ SectionsAsDescribed /\ HeaderSeen
  BY <1>1 DEF JInv
<1>3. ~SectionUnreadable
  BY <1>2, SectionAtHand DEF SectionUnreadable, Readable
<1>4. SectionsAsDescribed'
  <2>1. CASE ReadSection
    BY <2>1, <1>2, SectionAtHand, NextSectionAsDescribed DEF ReadSection
  <2> QED BY <2>1, <1>2, <1>3, OtherSectionsAsDescribed
<1>5. NoFailure'
  <2>1. CASE ReadSection
    <3>1. PICK s \in Conversions(CurrentDescriptor, SectionStart) :
            sectionsIR' = Append(sectionsIR, s)
      BY <2>1 DEF ReadSection
    <3>2. s # Null /\ s \in SectionIR
      BY <2>1, <3>1, SectionStartType, ConversionType DEF ReadSection
    <3>3. sectionsIR \in Seq(SectionIR)
      BY DEF IInv, TypeOK
    <3> QED BY <1>2, <3>1, <3>2, <3>3 DEF NoFailure
  <2>2. CASE ~ReadSection
    BY <1>2, <1>3, <2>2
       DEF NoFailure, Next, Step, HeaderTooShort, HeaderNotCper, ReadHeader,
           ReturnNull, DescriptorTooShort, ReadDescriptor, ReturnIR, Returned, vars
  <2> QED BY <2>1, <2>2
<1>6. HeaderSeen'
  <2>1. CASE ReadHeader
    BY <2>1 DEF ReadHeader, HeaderSeen, IInv, Progress
  <2>2. CASE ~ReadHeader
    BY <1>2, <2>2
       DEF HeaderSeen, Next, Step, HeaderTooShort, HeaderNotCper, ReturnNull,
           DescriptorTooShort, ReadDescriptor, SectionUnreadable, ReadSection,
           ReturnIR, Returned, vars
  <2> QED BY <2>1, <2>2
<1> QED BY <1>4, <1>5, <1>6

(***************************************************************************)
(* A header and a table that are in the stream as a whole.                 *)
(***************************************************************************)
WholeTable(in) ==
  /\ in.api = "record" => CanRead(in, in.base, HeaderSize) /\ in.magic
  /\ \A k \in 1..Count(in) : CanRead(in, Slot(in, k), DescriptorSize)

AcceptsWhole == AllReadable(input) /\ WholeTable(input) => result # "null"

LEMMA NextAcceptsWhole ==
  IInv /\ JInv /\ AcceptsWhole /\ [Next]_vars => AcceptsWhole'
<1> SUFFICES ASSUME IInv, JInv, AcceptsWhole, [Next]_vars,
                    AllReadable(input'), WholeTable(input')
             PROVE  result' # "null"
  BY DEF AcceptsWhole, AllReadable, WholeTable
<1>1. input' = input
  BY DEF Next, Step, HeaderTooShort, HeaderNotCper, ReadHeader, ReturnNull,
         DescriptorTooShort, ReadDescriptor, SectionUnreadable, ReadSection,
         ReturnIR, Returned, vars
<1>2. AllReadable(input) /\ WholeTable(input) /\ result # "null"
  BY <1>1 DEF AcceptsWhole
<1>3. ~HeaderTooShort /\ ~HeaderNotCper
  BY <1>2 DEF HeaderTooShort, HeaderNotCper, WholeTable, IInv, Progress
<1>4. ~DescriptorTooShort
  <2> SUFFICES ASSUME DescriptorTooShort PROVE FALSE
    OBVIOUS
  <2>1. i + 1 \in 1..Count(input)
    BY InputFields DEF DescriptorTooShort, IInv, TypeOK
  <2>2. pos = Slot(input, i + 1)
    BY <1>2 DEF DescriptorTooShort, IInv, Progress, AtNextSlot, JInv
  <2> QED BY <1>2, <2>1, <2>2 DEF DescriptorTooShort, WholeTable
<1> QED BY <1>2, <1>3, <1>4
        DEF Next, Step, ReadHeader, ReadDescriptor, SectionUnreadable, ReadSection,
            ReturnIR, Returned, vars

(***************************************************************************)
(* A record that is in the stream with its header, its table and all its   *)
(* sections is never refused.                                              *)
(***************************************************************************)
THEOREM WholeAccepted == Spec => []AcceptsWhole
<1>1. Init => AcceptsWhole
  BY DEF Init, AcceptsWhole
<1> QED BY <1>1, NextAcceptsWhole, ParseInvariant, InitJInv, NextJInv, PTL DEF Spec

(* The reader speaks of the same records.                                  *)
LEMMA SameVocabulary ==
  /\ Reader!Input = Input
  /\ Reader!Null = Null
  /\ \A in : Reader!Count(in) = Count(in)
  /\ \A in, k : Reader!Slot(in, k) = Slot(in, k)
  /\ \A in, p, n : Reader!CanRead(in, p, n) = CanRead(in, p, n)
  /\ \A in, d : Reader!Readable(in, d) = Readable(in, d)
  /\ \A d, from : Reader!Conversions(d, from) = Conversions(d, from)
  BY DEF Reader!Input, Input, Reader!Null, Null, Reader!Count, Count,
         Reader!Slot, Slot, Reader!SlotIn, SlotIn, Reader!TableStart, TableStart,
         Reader!CanRead, CanRead, Reader!Readable, Readable,
         Reader!Conversions, Conversions, Reader!HasConverter, HasConverter,
         Reader!Backings, Backings, Reader!Descriptor, Descriptor

LEMMA SameReadable == Reader!AllReadable(input) <=> AllReadable(input)
BY SameVocabulary DEF Reader!AllReadable, AllReadable

(* A table with a slot that is not in the stream is not accepted.          *)
LEMMA RejectStep ==
  ASSUME IInv, JInv, AllReadable(input),
         HeaderTooShort \/ HeaderNotCper \/ DescriptorTooShort
  PROVE  Reader!Reject
<1>1. result = "none" /\ result' = "null" /\ input' = input
  BY DEF IInv, Progress, HeaderTooShort, HeaderNotCper, DescriptorTooShort,
         ReturnNull
<1>2. ReturnedIR = ReturnedIR'
  BY <1>1 DEF ReturnedIR
<1>3. ~Reader!Accepted(input)
  <2>1. CASE HeaderTooShort \/ HeaderNotCper
    BY <2>1, SameVocabulary
       DEF HeaderTooShort, HeaderNotCper, IInv, Progress, Reader!Accepted
  <2>2. CASE DescriptorTooShort
    <3>1. /\ ~CanRead(input, Slot(input, i + 1), DescriptorSize)
          /\ i \in Nat /\ i < Count(input) /\ input \in Input
      BY <2>2 DEF DescriptorTooShort, IInv, TypeOK, Progress, AtNextSlot, JInv
    <3>2. i + 1 \in 1..Count(input)
      BY <3>1, InputFields
    <3> QED BY <3>1, <3>2, SameVocabulary DEF Reader!Accepted
  <2> QED BY <2>1, <2>2
<1> QED BY <1>1, <1>2, <1>3, SameReadable DEF Reader!Reject

(* An IR that is returned is a meaning of the record.                      *)
LEMMA AnswerStep ==
  ASSUME IInv, JInv, AllReadable(input), ReturnIR
  PROVE  Reader!Answer
<1> DEFINE n == Count(input)
<1>1. /\ result = "none" /\ result' = "ir"
      /\ UNCHANGED <<input, descriptorsIR, sectionsIR>>
      /\ n \in Nat /\ Len(descriptorsIR) = n /\ Len(sectionsIR) = n
      /\ descriptorsIR \in Seq(Descriptor) /\ sectionsIR \in Seq(SectionIR)
  BY InputFields DEF IInv, TypeOK, Progress, ReturnIR
<1>2. \A k \in 1..n : InSlot(input, k, descriptorsIR[k])
  BY <1>1 DEF IInv, DescriptorsFromTableUntilFailure, JInv, NoFailure
<1>3. Reader!Accepted(input)
  BY <1>1, <1>2, SameVocabulary
     DEF Reader!Accepted, InSlot, JInv, HeaderSeen, ReturnIR
<1>4. descriptorsIR = Reader!Descriptors(input)
  BY <1>1, <1>2, SameVocabulary DEF Reader!Descriptors, InSlot
<1>5. \A k \in 1..n :
        sectionsIR[k] \in
          Reader!SectionMeanings(input, Reader!Descriptors(input)[k])
  BY <1>1, <1>4, SameVocabulary
     DEF JInv, SectionsAsDescribed, Reader!SectionMeanings
<1>6. ReturnedIR' = [descriptors |-> descriptorsIR, sections |-> sectionsIR]
  BY <1>1 DEF ReturnedIR
<1>7. ReturnedIR' \in Reader!Meanings(input)
  <2> DEFINE All == UNION {Reader!SectionMeanings(
                              input, Reader!Descriptors(input)[k]) : k \in 1..n}
  <2>1. sectionsIR \in [1..n -> All]
    BY <1>1, <1>5
  <2> QED BY <1>4, <1>5, <1>6, <2>1, SameVocabulary DEF Reader!Meanings
<1> QED BY <1>1, <1>3, <1>7, SameReadable DEF Reader!Answer

(* The other steps of the call are invisible to its caller.                *)
LEMMA SilentStep ==
  ASSUME IInv, ReadHeader \/ ReadDescriptor \/ SectionUnreadable \/ ReadSection
                 \/ Returned \/ UNCHANGED vars
  PROVE  UNCHANGED Reader!readerVars
<1>1. UNCHANGED <<input, result>>
  BY DEF ReadHeader, ReadDescriptor, SectionUnreadable, ReadSection, Returned, vars
<1>2. ReturnedIR' = ReturnedIR
  <2>1. CASE ReadHeader \/ ReadDescriptor \/ SectionUnreadable \/ ReadSection
    BY <1>1, <2>1 DEF ReturnedIR, IInv, Progress, ReadHeader, ReadDescriptor,
                      SectionUnreadable, ReadSection
  <2>2. CASE Returned \/ UNCHANGED vars
    BY <2>2 DEF ReturnedIR, Returned, vars
  <2> QED BY <2>1, <2>2
<1> QED BY <1>1, <1>2 DEF Reader!readerVars

(* Of a record with a section that cannot be read any result may be made.  *)
LEMMA ReturnStep ==
  ASSUME IInv, ~AllReadable(input),
         HeaderTooShort \/ HeaderNotCper \/ DescriptorTooShort \/ ReturnIR
  PROVE  Reader!AnyResult
<1>1. result = "none" /\ result' # "none" /\ input' = input
  BY DEF IInv, Progress, HeaderTooShort, HeaderNotCper, DescriptorTooShort,
         ReturnNull, ReturnIR
<1> QED BY <1>1, SameReadable DEF Reader!AnyResult

(***************************************************************************)
(* A call of cper_to_ir() or cper_single_section_to_ir() does what         *)
(* CperReader promises: on a stream whose sections can all be read, it     *)
(* returns NULL exactly for the records that are not accepted, and         *)
(* otherwise the IR of the record, slot for slot.                          *)
(***************************************************************************)
THEOREM ParseRefinesReader ==
  Spec => Reader!ReaderSafety
<1>1. Init => Reader!ReaderInit
  BY ParseAssumption, SameVocabulary
     DEF Init, Reader!ReaderInit, ReturnedIR, Reader!NoIR
<1>2. /\ IInv /\ JInv /\ [Next]_vars
      => [Reader!Reject \/ Reader!Answer \/ Reader!AnyResult]_(Reader!readerVars)
  <2> SUFFICES ASSUME IInv, JInv, [Next]_vars
               PROVE  Reader!Reject \/ Reader!Answer \/ Reader!AnyResult
                        \/ UNCHANGED Reader!readerVars
    OBVIOUS
  <2>1. CASE AllReadable(input)
    BY <2>1, RejectStep, AnswerStep, SilentStep DEF Next, Step
  <2>2. CASE ~AllReadable(input)
    BY <2>2, ReturnStep, SilentStep DEF Next, Step
  <2> QED BY <2>1, <2>2
<1> QED
  BY <1>1, <1>2, ParseInvariant, InitJInv, NextJInv, PTL
     DEF Spec, Reader!ReaderSafety

============================================================================
