------------------------- MODULE CperConvertProofs -------------------------
(***************************************************************************)
(* What the writer puts where, and the trip of a record through the        *)
(* program, proved for every IR, every stream, every size of header,       *)
(* descriptors and structures and every dispatch table.                    *)
(*                                                                         *)
(* The writer knows no offsets: it writes on.  The invariant relates where *)
(* it has got to EndOf(k), the end of the k-th section as its descriptor   *)
(* gives it, which is the same only in an IR with PresumedLayout.  That    *)
(* nothing written lies behind the end of the output is kept with it, for  *)
(* the conversions, which read the output again.                           *)
(*                                                                         *)
(* What the reader does on its own is proved in CperParseProofs.  The      *)
(* lemmas of the writer apply to a conversion as they stand, those of the  *)
(* reader through the instance PP, which speaks of the reader's state      *)
(* under the names it has here.  What is added is how the one's result     *)
(* becomes the other's input.                                              *)
(***************************************************************************)
EXTENDS CperConvert, TLAPS

WellFormed(r) ==
  /\ r \in IR
  /\ r.api = "section" => Len(r.descriptors) = 1 /\ Len(r.sections) = 1

Front == IF ir.api = "record" THEN HeaderSize ELSE 0
Base == Front + NumDescriptors * DescriptorSize

EndOf(k) ==
  IF k = 0 THEN Base ELSE ir.descriptors[k].offset + ir.descriptors[k].length

(* The loop counter and the arrays at every point of a call.               *)
CallProgress ==
  /\ pc = "header" => ir.api = "record" /\ i = 0 /\ size = 0 /\ slotStarts = <<>>
  /\ pc \in {"header", "descriptors"}
       => sectionStarts = <<>> /\ sectionLengths = <<>> /\ undecoded = FALSE
  /\ pc = "descriptors" => /\ i <= NumDescriptors /\ Len(slotStarts) = i
                           /\ size = Front + i * DescriptorSize
  /\ pc \in {"sections", "done", "crashed"} => Len(slotStarts) = NumDescriptors
  /\ pc \in {"sections", "crashed"}
       => /\ NumSections = NumDescriptors
          /\ i <= NumSections /\ Len(sectionStarts) = i
  /\ pc = "done" => Len(sectionStarts) =
                      IF NumSections = NumDescriptors THEN NumDescriptors ELSE 0
  /\ Len(sectionLengths) = Len(sectionStarts)

(* Nothing lies behind the end of the output.                              *)
Inside ==
  /\ pc \in {"sections", "done", "crashed"} => Base <= size
  /\ \A k \in 1..Len(sectionStarts) : sectionStarts[k] + sectionLengths[k] <= size

(* With the presumed layout the output ends where the descriptors say.     *)
SizeAsDescribed ==
  pc \in {"sections", "done", "crashed"} /\ PresumedLayout(ir) /\ undecoded = FALSE
    => size = EndOf(Len(sectionStarts))

IInv ==
  /\ TypeOK /\ WellFormed(ir)
  /\ CallProgress /\ DescriptorsInSlots /\ Inside
  /\ SizeAsDescribed /\ SectionsWhereDescribed
----------------------------------------------------------------------------
(* The numbers of an IR.                                                   *)
LEMMA IRFields ==
  ASSUME WellFormed(ir)
  PROVE  /\ ir.api \in {"record", "section"}
         /\ ir.descriptors \in Seq(Descriptor) /\ ir.sections \in Seq(SectionIR)
         /\ NumDescriptors \in Nat /\ NumSections \in Nat
         /\ Front \in Nat /\ Base \in Nat
         /\ HeaderSize \in Nat /\ HeaderSize > 0
         /\ DescriptorSize \in Nat /\ DescriptorSize > 0
<1>1. /\ ir.api \in {"record", "section"}
      /\ ir.descriptors \in Seq(Descriptor) /\ ir.sections \in Seq(SectionIR)
      /\ NumDescriptors \in Nat /\ NumSections \in Nat
  BY DEF WellFormed, IR, NumDescriptors, NumSections
<1>2. /\ HeaderSize \in Nat /\ HeaderSize > 0
      /\ DescriptorSize \in Nat /\ DescriptorSize > 0
  BY LayoutAssumption
<1>3. Front \in Nat
  BY <1>2 DEF Front
<1>4. NumDescriptors * DescriptorSize \in Nat
  BY <1>1, <1>2
<1> QED BY <1>1, <1>2, <1>3, <1>4 DEF Base

LEMMA DescriptorFields ==
  ASSUME WellFormed(ir), NEW k \in 1..NumDescriptors
  PROVE  /\ ir.descriptors[k] \in Descriptor
         /\ ir.descriptors[k].offset \in Nat /\ ir.descriptors[k].length \in Nat
         /\ ir.descriptors[k].type \in Types
<1>1. ir.descriptors[k] \in Descriptor
  BY IRFields DEF NumDescriptors
<1> QED BY <1>1 DEF Descriptor

LEMMA SectionFields ==
  ASSUME WellFormed(ir), NEW k \in 1..NumSections
  PROVE  ir.sections[k] \in SectionIR /\ ir.sections[k].length \in Nat
<1>1. ir.sections[k] \in SectionIR
  BY IRFields DEF NumSections
<1> QED BY <1>1 DEF SectionIR

(* The length the decoder ends with is that of the bytes that were encoded: *)
(* the padding makes up for what the text's length is rounded up by.        *)
LEMMA DecodedAsLong ==
  ASSUME NEW n \in Nat
  PROVE  DecodedLength(EncodedLength(n), Padding(n)) = n
<1>1. CASE n % 3 = 0
  <2>1. (n + 2) \div 3 = n \div 3 /\ n = 3 * (n \div 3) /\ Padding(n) = 0
    BY <1>1 DEF Padding
  <2> QED BY <2>1 DEF DecodedLength, EncodedLength
<1>2. CASE n % 3 = 1
  <2>1. (n + 2) \div 3 = n \div 3 + 1 /\ n = 3 * (n \div 3) + 1 /\ Padding(n) = 2
    BY <1>2 DEF Padding
  <2> QED BY <2>1 DEF DecodedLength, EncodedLength
<1>3. CASE n % 3 = 2
  <2>1. (n + 2) \div 3 = n \div 3 + 1 /\ n = 3 * (n \div 3) + 2 /\ Padding(n) = 1
    BY <1>3 DEF Padding
  <2> QED BY <2>1 DEF DecodedLength, EncodedLength
<1> QED BY <1>1, <1>2, <1>3

LEMMA WrittenLengthType ==
  ASSUME WellFormed(ir), NumSections = NumDescriptors, NEW k \in 1..NumSections
  PROVE  WrittenLength(ir.descriptors[k], ir.sections[k]) \in Nat
<1>1. CodecSize[ir.descriptors[k].type] \in Nat
  BY DescriptorFields, WriterAssumption
<1> QED BY <1>1, SectionFields, DecodedAsLong DEF WrittenLength

(* What a section with the presumed layout is written as, and where the    *)
(* one before it ends.                                                     *)
LEMMA PresumedSection ==
  ASSUME WellFormed(ir), PresumedLayout(ir), NEW k \in 1..NumDescriptors
  PROVE  /\ NumSections = NumDescriptors
         /\ WrittenLength(ir.descriptors[k], ir.sections[k]) = ir.descriptors[k].length
         /\ ir.descriptors[k].offset = EndOf(k - 1)
<1>1. NumSections = NumDescriptors
  BY DEF PresumedLayout, NumSections, NumDescriptors
<1>2. WrittenLength(ir.descriptors[k], ir.sections[k]) = ir.descriptors[k].length
  <2>1. /\ ir.sections[k].length \in Nat
        /\ IF HasConverter(ir.descriptors[k].type)
             THEN ir.descriptors[k].length = CodecSize[ir.descriptors[k].type]
             ELSE /\ ir.sections[k].conv = "base64"
                  /\ ir.descriptors[k].length = ir.sections[k].length
    BY <1>1, SectionFields DEF PresumedLayout, NumDescriptors
  <2> QED BY <2>1, DecodedAsLong DEF WrittenLength
<1>3. CASE ir.api = "record"
  <2>1. ir.descriptors[k].offset =
          IF k = 1 THEN FirstSection(Len(ir.descriptors))
                   ELSE ir.descriptors[k - 1].offset + ir.descriptors[k - 1].length
    BY <1>3 DEF PresumedLayout, Contiguous, NumDescriptors
  <2>2. FirstSection(Len(ir.descriptors)) = Base
    BY <1>3 DEF FirstSection, Base, Front, NumDescriptors
  <2> QED BY <1>1, <1>2, <2>1, <2>2, IRFields DEF EndOf
<1>4. CASE ir.api = "section"
  <2>1. NumDescriptors = 1
    BY <1>4 DEF WellFormed, NumDescriptors
  <2>2. k = 1
    BY <2>1
  <2>3. ir.descriptors[1].offset = DescriptorSize
    BY <1>4 DEF PresumedLayout
  <2>4. Base = DescriptorSize
    BY <1>4, <2>1, IRFields DEF Base, Front
  <2> QED BY <1>1, <1>2, <2>2, <2>3, <2>4 DEF EndOf
<1> QED BY <1>3, <1>4, IRFields
----------------------------------------------------------------------------
LEMMA StartIInv == ASSUME NEW r, WellFormed(r), Start(r) PROVE IInv
<1>1. ir = r /\ WellFormed(ir)
  BY DEF Start
<1>2. /\ pc \in {"header", "descriptors"} /\ i = 0 /\ size = 0 /\ undecoded = FALSE
      /\ pc = "header" <=> ir.api = "record"
      /\ slotStarts = <<>> /\ sectionStarts = <<>> /\ sectionLengths = <<>>
  BY <1>1, IRFields DEF Start
<1>3. TypeOK
  <2>1. ir \in IR /\ <<>> \in Seq(Nat)
    BY <1>1 DEF WellFormed
  <2> QED BY <1>2, <2>1 DEF TypeOK
<1>4. /\ pc = "descriptors" => size = Front + i * DescriptorSize
      /\ Len(slotStarts) = 0 /\ i <= NumDescriptors
  BY <1>1, <1>2, IRFields DEF Front
<1>5. CallProgress
  BY <1>1, <1>2, <1>4 DEF CallProgress
<1>6. DescriptorsInSlots /\ Inside /\ SizeAsDescribed /\ SectionsWhereDescribed
  BY <1>2 DEF DescriptorsInSlots, Inside, SizeAsDescribed, SectionsWhereDescribed
<1> QED BY <1>1, <1>3, <1>5, <1>6 DEF IInv

LEMMA InitIInv == Init => IInv
<1> SUFFICES ASSUME NEW r \in IRs, Start(r) PROVE IInv
  BY DEF Init
<1>1. WellFormed(r)
  BY WriterAssumption DEF WellFormed
<1> QED BY <1>1, StartIInv

LEMMA WriteHeaderIInv == ASSUME IInv, WriteHeader PROVE IInv'
<1>1. WellFormed(ir) /\ ir' = ir /\ WellFormed(ir)' /\ size \in Nat
  BY DEF IInv, TypeOK, WriteHeader, WellFormed
<1>2. TypeOK'
  BY <1>1, IRFields DEF IInv, TypeOK, WriteHeader
<1>3. Front' = HeaderSize /\ NumDescriptors' = NumDescriptors
  BY <1>1 DEF IInv, CallProgress, WriteHeader, Front, NumDescriptors
<1>4. CallProgress'
  BY <1>1, <1>3, IRFields DEF IInv, TypeOK, CallProgress, WriteHeader
<1>5. DescriptorsInSlots' /\ Inside' /\ SizeAsDescribed' /\ SectionsWhereDescribed'
  BY DEF IInv, CallProgress, WriteHeader, DescriptorsInSlots, Inside, SizeAsDescribed,
         SectionsWhereDescribed
<1> QED BY <1>1, <1>2, <1>4, <1>5 DEF IInv

LEMMA WriteDescriptorIInv == ASSUME IInv, WriteDescriptor PROVE IInv'
<1> USE DEF IInv
<1>1. /\ WellFormed(ir) /\ ir' = ir /\ size \in Nat /\ i \in Nat
      /\ slotStarts \in Seq(Nat) /\ Len(slotStarts) = i
      /\ size = Front + i * DescriptorSize /\ i < NumDescriptors
      /\ DescriptorSize \in Nat /\ Front \in Nat /\ NumDescriptors \in Nat
      /\ sectionStarts = <<>> /\ sectionLengths = <<>> /\ undecoded = FALSE
  BY IRFields DEF TypeOK, CallProgress, WriteDescriptor
<1>2. /\ slotStarts' \in Seq(Nat) /\ Len(slotStarts') = i + 1
      /\ slotStarts'[i + 1] = size
      /\ \A k \in 1..i : slotStarts'[k] = slotStarts[k]
  BY <1>1 DEF WriteDescriptor
<1>3. Front' = Front /\ NumDescriptors' = NumDescriptors /\ WellFormed(ir)'
  BY <1>1 DEF Front, NumDescriptors, WellFormed
<1>4. TypeOK'
  BY <1>1, <1>2 DEF TypeOK, WriteDescriptor
<1>5. size' = Front + (i + 1) * DescriptorSize
  BY <1>1 DEF WriteDescriptor
<1>6. CallProgress'
  BY <1>1, <1>2, <1>3, <1>5 DEF CallProgress, WriteDescriptor
<1>7. DescriptorsInSlots'
  <2> SUFFICES ASSUME NEW k \in 1..(i + 1)
               PROVE  slotStarts'[k] = SlotIn(Front, k)
    BY <1>1, <1>2, <1>3 DEF DescriptorsInSlots, Front
  <2>1. CASE k = i + 1
    BY <2>1, <1>1, <1>2 DEF SlotIn
  <2>2. CASE k # i + 1
    BY <2>2, <1>1, <1>2 DEF DescriptorsInSlots, Front
  <2> QED BY <2>1, <2>2
<1>8. Inside' /\ SizeAsDescribed' /\ SectionsWhereDescribed'
  BY <1>1 DEF WriteDescriptor, Inside, SizeAsDescribed, SectionsWhereDescribed
<1> QED BY <1>3, <1>4, <1>6, <1>7, <1>8

LEMMA DescriptorsWrittenIInv == ASSUME IInv, DescriptorsWritten PROVE IInv'
<1> USE DEF IInv
<1>1. /\ WellFormed(ir) /\ Len(slotStarts) = NumDescriptors
      /\ size = Base /\ size \in Nat
      /\ NumDescriptors \in Nat /\ NumSections \in Nat
      /\ sectionStarts = <<>> /\ sectionLengths = <<>> /\ undecoded = FALSE
  BY IRFields DEF TypeOK, CallProgress, DescriptorsWritten, Base
<1>2. /\ UNCHANGED <<ir, size, slotStarts, sectionStarts, sectionLengths, undecoded>>
      /\ i' = 0
      /\ pc' = IF NumSections = NumDescriptors THEN "sections" ELSE "done"
  BY DEF DescriptorsWritten, output
<1>3. /\ Base' = Base /\ WellFormed(ir)'
      /\ NumDescriptors' = NumDescriptors /\ NumSections' = NumSections
  BY <1>2 DEF Base, Front, NumDescriptors, NumSections, WellFormed
<1>4. TypeOK'
  BY <1>2 DEF TypeOK
<1>5. CallProgress'
  BY <1>1, <1>2, <1>3 DEF CallProgress
<1>6. DescriptorsInSlots' /\ Inside' /\ SectionsWhereDescribed'
  BY <1>1, <1>2, <1>3 DEF DescriptorsInSlots, Inside, SectionsWhereDescribed
<1>7. SizeAsDescribed'
  BY <1>1, <1>2, <1>3 DEF SizeAsDescribed, EndOf
<1> QED BY <1>3, <1>4, <1>5, <1>6, <1>7

(***************************************************************************)
(* The two ways a section is written, in what they have in common: n bytes *)
(* are written for it, and it counts as decoded only if those are all.     *)
(***************************************************************************)
LEMMA SectionWrittenIInv ==
  ASSUME IInv, pc = "sections", i < NumSections, NEW n \in Nat,
         sectionStarts' = Append(sectionStarts, size),
         sectionLengths' = Append(sectionLengths, n),
         size' = size + n, i' = i + 1, undecoded' \in BOOLEAN,
         UNCHANGED <<ir, pc, slotStarts>>,
         undecoded' = FALSE
           => /\ undecoded = FALSE
              /\ n = WrittenLength(ir.descriptors[i + 1], ir.sections[i + 1])
  PROVE  IInv'
<1> USE DEF IInv
<1>1. /\ WellFormed(ir) /\ size \in Nat /\ i \in Nat
      /\ sectionStarts \in Seq(Nat) /\ sectionLengths \in Seq(Nat)
      /\ Len(sectionStarts) = i /\ Len(sectionLengths) = i
      /\ NumSections = NumDescriptors /\ NumDescriptors \in Nat /\ Base \in Nat
      /\ Base <= size
  BY IRFields DEF TypeOK, CallProgress, Inside
<1>2. /\ sectionStarts' \in Seq(Nat) /\ Len(sectionStarts') = i + 1
      /\ sectionStarts'[i + 1] = size
      /\ \A k \in 1..i : sectionStarts'[k] = sectionStarts[k]
      /\ sectionLengths' \in Seq(Nat) /\ Len(sectionLengths') = i + 1
      /\ sectionLengths'[i + 1] = n
      /\ \A k \in 1..i : sectionLengths'[k] = sectionLengths[k]
  BY <1>1
<1>3. /\ Base' = Base /\ WellFormed(ir)'
      /\ NumDescriptors' = NumDescriptors /\ NumSections' = NumSections
      /\ PresumedLayout(ir)' <=> PresumedLayout(ir)
  BY DEF Base, Front, NumDescriptors, NumSections, WellFormed
<1>4. TypeOK'
  BY <1>1, <1>2 DEF TypeOK
<1>5. CallProgress'
  BY <1>1, <1>2, <1>3 DEF CallProgress
<1>6. DescriptorsInSlots'
  BY DEF DescriptorsInSlots
<1>7. Inside'
  <2> SUFFICES ASSUME NEW k \in 1..(i + 1)
               PROVE  sectionStarts'[k] + sectionLengths'[k] <= size'
    BY <1>1, <1>2, <1>3 DEF Inside
  <2>1. CASE k = i + 1
    BY <2>1, <1>1, <1>2
  <2>2. CASE k # i + 1
    <3>1. k \in 1..i /\ sectionStarts[k] \in Nat /\ sectionLengths[k] \in Nat
      BY <2>2, <1>1
    <3>2. sectionStarts[k] + sectionLengths[k] <= size
      BY <3>1, <1>1 DEF Inside
    <3> QED BY <3>1, <3>2, <1>1, <1>2
  <2> QED BY <2>1, <2>2
<1>8. ASSUME PresumedLayout(ir), undecoded' = FALSE
      PROVE  /\ size = ir.descriptors[i + 1].offset
             /\ n = ir.descriptors[i + 1].length
  <2>1. i + 1 \in 1..NumDescriptors
    BY <1>1
  <2>2. (i + 1) - 1 = i
    BY <1>1
  <2>3. /\ ir.descriptors[i + 1].offset = EndOf((i + 1) - 1)
        /\ WrittenLength(ir.descriptors[i + 1], ir.sections[i + 1])
             = ir.descriptors[i + 1].length
    BY <1>1, <1>8, <2>1, PresumedSection
  <2>4. size = EndOf(i)
    BY <1>1, <1>8 DEF SizeAsDescribed
  <2> QED BY <1>8, <2>2, <2>3, <2>4
<1>9. SizeAsDescribed'
  <2>1. EndOf(Len(sectionStarts))'
          = ir.descriptors[i + 1].offset + ir.descriptors[i + 1].length
    BY <1>1, <1>2 DEF EndOf
  <2> QED BY <1>3, <1>8, <2>1 DEF SizeAsDescribed
<1>10. SectionsWhereDescribed'
  <2> SUFFICES ASSUME PresumedLayout(ir), undecoded' = FALSE, NEW k \in 1..(i + 1)
               PROVE  /\ sectionStarts'[k] = ir.descriptors[k].offset
                      /\ sectionLengths'[k] = ir.descriptors[k].length
    BY <1>2, <1>3 DEF SectionsWhereDescribed
  <2>1. CASE k = i + 1
    BY <2>1, <1>2, <1>8
  <2>2. CASE k # i + 1
    BY <2>2, <1>1, <1>2 DEF SectionsWhereDescribed
  <2> QED BY <2>1, <2>2
<1> QED BY <1>3, <1>4, <1>5, <1>6, <1>7, <1>9, <1>10

LEMMA WriteSectionIInv == ASSUME IInv, WriteSection PROVE IInv'
<1> DEFINE n == WrittenLength(ir.descriptors[i + 1], ir.sections[i + 1])
<1>1. /\ WellFormed(ir) /\ NumSections = NumDescriptors
      /\ i \in Nat /\ i < NumSections /\ NumSections \in Nat
  BY IRFields DEF IInv, TypeOK, CallProgress, WriteSection
<1>2. i + 1 \in 1..NumSections
  BY <1>1
<1>3. n \in Nat
  BY <1>1, <1>2, WrittenLengthType
<1>4. undecoded' = undecoded /\ undecoded \in BOOLEAN
  BY DEF IInv, TypeOK, WriteSection
<1> QED BY <1>1, <1>3, <1>4, SectionWrittenIInv DEF WriteSection

LEMMA SectionNotDecodedIInv == ASSUME IInv, SectionNotDecoded PROVE IInv'
<1>1. size' = size + 0 /\ undecoded' = TRUE
  BY DEF IInv, TypeOK, SectionNotDecoded
<1> QED BY <1>1, SectionWrittenIInv DEF SectionNotDecoded

(* A call that ends, or has ended, writes no more.                         *)
LEMMA EndIInv ==
  ASSUME IInv, CrashOnNull \/ SectionsWritten \/ Ended \/ UNCHANGED vars
  PROVE  IInv'
<1> USE DEF IInv
<1>1. UNCHANGED <<ir, i, output>>
  BY DEF CrashOnNull, SectionsWritten, Ended, vars
<1>2. UNCHANGED <<ir, i, size, slotStarts, sectionStarts, sectionLengths, undecoded>>
  BY <1>1 DEF output
<1>3. /\ Base' = Base /\ WellFormed(ir)' /\ Front' = Front
      /\ NumDescriptors' = NumDescriptors /\ NumSections' = NumSections
      /\ \A k : EndOf(k)' = EndOf(k)
  BY <1>2 DEF Base, Front, NumDescriptors, NumSections, WellFormed, EndOf
<1>4. \/ pc = "sections" /\ pc' = "crashed"
      \/ pc = "sections" /\ pc' = "done" /\ i = NumSections
      \/ pc' = pc
  BY DEF CrashOnNull, SectionsWritten, Ended, vars
<1>5. TypeOK'
  BY <1>2, <1>4 DEF TypeOK
<1>6. CallProgress'
  BY <1>2, <1>3, <1>4 DEF CallProgress
<1>7. DescriptorsInSlots' /\ Inside' /\ SectionsWhereDescribed'
  BY <1>2, <1>3, <1>4 DEF DescriptorsInSlots, Inside, SectionsWhereDescribed
<1>8. SizeAsDescribed'
  BY <1>2, <1>3, <1>4 DEF SizeAsDescribed
<1> QED BY <1>3, <1>5, <1>6, <1>7, <1>8

LEMMA NextIInv == IInv /\ [Next]_vars => IInv'
  BY WriteHeaderIInv, WriteDescriptorIInv, DescriptorsWrittenIInv,
     WriteSectionIInv, SectionNotDecodedIInv, EndIInv DEF Next, Step

(***************************************************************************)
(* The invariant of a call: types, the loop counter and the arrays in      *)
(* step, and the end of the output where the descriptors say.              *)
(***************************************************************************)
THEOREM WriterInvariant == Spec => []IInv
  BY InitIInv, NextIInv, PTL DEF Spec

(* The positions and lengths a call of the writer deals with are numbers.  *)
THEOREM TypeCorrect == Spec => []TypeOK
<1>1. IInv => TypeOK
  BY DEF IInv
<1> QED BY <1>1, WriterInvariant, PTL

(***************************************************************************)
(* The writer puts its descriptor table where a reader looks for it,       *)
(* whatever the IR holds.                                                  *)
(***************************************************************************)
THEOREM InSlots == Spec => []DescriptorsInSlots
<1>1. IInv => DescriptorsInSlots
  BY DEF IInv
<1> QED BY <1>1, WriterInvariant, PTL

(***************************************************************************)
(* An IR with the presumed layout is written with every section where its  *)
(* descriptor says it is, although the writer never looks.                 *)
(***************************************************************************)
THEOREM WhereDescribed == Spec => []SectionsWhereDescribed
<1>1. IInv => SectionsWhereDescribed
  BY DEF IInv
<1> QED BY <1>1, WriterInvariant, PTL

(* And such an IR is written to the end of its last section.               *)
LEMMA WholeWhenDone == IInv => WholeRecordWritten
<1> SUFFICES ASSUME IInv, pc = "done", PresumedLayout(ir), ~undecoded
             PROVE  /\ Len(sectionStarts) = NumDescriptors
                    /\ size = IF NumDescriptors = 0 THEN HeaderSize
                              ELSE LET last == ir.descriptors[NumDescriptors]
                                   IN  last.offset + last.length
  BY DEF WholeRecordWritten
<1>1. /\ WellFormed(ir) /\ Len(sectionStarts) = NumDescriptors
      /\ size = EndOf(NumDescriptors)
  BY DEF IInv, TypeOK, CallProgress, SizeAsDescribed, PresumedLayout, NumSections,
         NumDescriptors
<1>2. NumDescriptors = 0 => Base = HeaderSize
  <2> SUFFICES ASSUME NumDescriptors = 0 PROVE Base = HeaderSize
    OBVIOUS
  <2>1. ir.api = "record"
    BY <1>1, IRFields DEF WellFormed, NumDescriptors
  <2> QED BY <1>1, <2>1, IRFields DEF Base, Front
<1> QED BY <1>1, <1>2 DEF EndOf

(***************************************************************************)
(* An IR with the presumed layout is written whole, so that the record     *)
(* length its header keeps stays true.                                     *)
(***************************************************************************)
THEOREM WholeRecord == Spec => []WholeRecordWritten
  BY WholeWhenDone, WriterInvariant, PTL

----------------------------------------------------------------------------
(* The conversions: what follows reads and writes.                         *)

PP == INSTANCE CperParseProofs WITH pc <- rpc, i <- ri

(* The three modules speak of the same records.                            *)
LEMMA SameRecords ==
  /\ PP!Input = Input /\ PP!Descriptor = Descriptor
  /\ PP!SectionIR = SectionIR /\ PP!Null = Null
  /\ \A in : PP!Count(in) = Count(in) /\ PP!TableStart(in) = TableStart(in)
  /\ \A in, k : PP!Slot(in, k) = Slot(in, k)
  /\ \A t, k : PP!SlotIn(t, k) = SlotIn(t, k)
  /\ \A in, p, n : PP!CanRead(in, p, n) = CanRead(in, p, n)
  /\ \A in, d : PP!Readable(in, d) = Readable(in, d)
  /\ \A d, from : PP!Conversions(d, from) = Conversions(d, from)
  BY DEF PP!Input, Input, PP!Descriptor, Descriptor, PP!Backings, Backings,
         PP!SectionIR, SectionIR, PP!Null, Null, PP!Count, Count, PP!Slot, Slot,
         PP!SlotIn, SlotIn, PP!TableStart, TableStart, PP!CanRead, CanRead,
         PP!Readable, Readable, PP!Conversions, Conversions,
         PP!HasConverter, HasConverter

(* What is proved of the reader holds here, with the assumptions it needs. *)
LEMMA ReaderInit == PP!Init => PP!IInv
  BY LayoutAssumption, ParseAssumption, SameRecords, PP!InitIInv

LEMMA ReaderNext ==
  ASSUME PP!IInv, PP!Next \/ UNCHANGED PP!vars
  PROVE  /\ PP!IInv'
         /\ PP!ConvertedAsDescribed => PP!ConvertedAsDescribed'
         /\ PP!JInv => PP!JInv'
         /\ PP!JInv /\ PP!AcceptsWhole => PP!AcceptsWhole'
<1>1. PP!IInv'
  BY LayoutAssumption, ParseAssumption, SameRecords, PP!NextIInv
<1>2. PP!ConvertedAsDescribed => PP!ConvertedAsDescribed'
  BY LayoutAssumption, ParseAssumption, SameRecords, PP!NextConverted
<1>3. PP!JInv => PP!JInv'
  BY LayoutAssumption, ParseAssumption, SameRecords, PP!NextJInv
<1>4. PP!JInv /\ PP!AcceptsWhole => PP!AcceptsWhole'
  BY LayoutAssumption, ParseAssumption, SameRecords, PP!NextAcceptsWhole
<1> QED BY <1>1, <1>2, <1>3, <1>4

(* The reader that runs is the one CperParseProofs is about.               *)
LEMMA SameReader == P!Step => PP!Step
<1>1. /\ \A in, p, n : P!CanRead(in, p, n) = PP!CanRead(in, p, n)
      /\ \A in, p, n : P!PosAfterRead(in, p, n) = PP!PosAfterRead(in, p, n)
      /\ \A in, p, t : P!SeekTo(in, p, t) = PP!SeekTo(in, p, t)
      /\ \A in : P!Count(in) = PP!Count(in)
      /\ \A d, from : P!Conversions(d, from) = PP!Conversions(d, from)
      /\ P!Null = PP!Null
      /\ P!CurrentDescriptor = PP!CurrentDescriptor
      /\ P!SectionStart = PP!SectionStart
      /\ P!ReturnNull <=> PP!ReturnNull
  BY DEF P!CanRead, PP!CanRead, P!PosAfterRead, PP!PosAfterRead,
         P!SeekTo, PP!SeekTo, P!Count, PP!Count, P!Conversions, PP!Conversions,
         P!HasConverter, PP!HasConverter, P!Null, PP!Null,
         P!CurrentDescriptor, PP!CurrentDescriptor,
         P!SectionStart, PP!SectionStart, P!ReturnNull, PP!ReturnNull
<1>2. P!HeaderTooShort => PP!HeaderTooShort
  BY <1>1 DEF P!HeaderTooShort, PP!HeaderTooShort
<1>3. P!HeaderNotCper => PP!HeaderNotCper
  BY <1>1 DEF P!HeaderNotCper, PP!HeaderNotCper
<1>4. P!ReadHeader => PP!ReadHeader
  BY <1>1 DEF P!ReadHeader, PP!ReadHeader
<1>5. P!DescriptorTooShort => PP!DescriptorTooShort
  BY <1>1 DEF P!DescriptorTooShort, PP!DescriptorTooShort
<1>6. P!ReadDescriptor => PP!ReadDescriptor
  BY <1>1 DEF P!ReadDescriptor, PP!ReadDescriptor
<1>7. P!SectionUnreadable => PP!SectionUnreadable
  BY <1>1 DEF P!SectionUnreadable, PP!SectionUnreadable
<1>8. P!ReadSection => PP!ReadSection
  BY <1>1 DEF P!ReadSection, PP!ReadSection
<1>9. P!ReturnIR => PP!ReturnIR
  BY <1>1 DEF P!ReturnIR, PP!ReturnIR
<1> QED BY <1>2, <1>3, <1>4, <1>5, <1>6, <1>7, <1>8, <1>9 DEF P!Step, PP!Step
----------------------------------------------------------------------------
(* Which files there are at every stage.                                   *)
Control ==
  /\ stage \in {"read", "toCper", "validate", "open", "write", "reread", "over"}
  /\ jsonFile \in {"none", "null", "ir"}
  /\ verdict \in {"none", "valid", "invalid", "unchecked"}
  /\ cperFile \in {"old", "open", "closed"}
  /\ stage = "read" => jsonFile = "none"
  /\ stage \in {"read", "toCper", "validate"} => verdict = "none"
  /\ stage \in {"read", "toCper", "validate", "open"} => cperFile = "old"
  /\ stage \in {"validate", "open", "write", "reread"} => jsonFile = "ir"
  /\ stage \in {"open", "write", "reread"} => verdict \in {"valid", "unchecked"}
  /\ stage = "write" => cperFile = "open"
  /\ stage = "reread" => cperFile = "closed"
  /\ cperFile # "old" => jsonFile = "ir" /\ verdict \in {"valid", "unchecked"}
  /\ cperFile = "closed" => pc = "done"

(* "to-cper" was given an IR that no reading of this trip made.            *)
Foreign == rpc = "done" /\ result = "none"

(* What is known of the reader's state, whenever there is a stream.        *)
ReaderKnown ==
  stage \in {"read", "reread"} \/ result # "none"
    => PP!IInv /\ PP!ConvertedAsDescribed

(***************************************************************************)
(* An IR that was read: as many sections as descriptors and as its header  *)
(* announces, those that are not null converted as their descriptors say.  *)
(***************************************************************************)
FromStream(r) ==
  /\ Len(r.sections) = Len(r.descriptors)
  /\ r.api = "record" => r.count = Len(r.descriptors)
  /\ \A k \in 1..Len(r.descriptors) :
       r.sections[k] # Null =>
         /\ r.descriptors[k].length > 0
         /\ \E from \in Nat : r.sections[k] \in Conversions(r.descriptors[k], from)

FirstKnown ==
  /\ jsonFile = "ir" => WellFormed(first)
  /\ jsonFile = "ir" /\ ~Foreign => FromStream(first)
  /\ cperFile # "old" => ir = first

CInv == Control /\ ReaderKnown /\ FirstKnown /\ IInv
----------------------------------------------------------------------------
LEMMA InitControl == ConvertInit => Control
  BY DEF ConvertInit, Control

(* A read in progress leaves the files, a result leaves the other stages.  *)
LEMMA NextControl == CInv /\ [ConvertNext]_convertVars => Control'
<1> SUFFICES ASSUME CInv, [ConvertNext]_convertVars PROVE Control'
  OBVIOUS
<1>1. CASE Read
  BY <1>1 DEF Read, CInv, Control, files, writer
<1>2. CASE WriteJson
  <2>1. result \in {"null", "ir"}
    BY <1>2 DEF WriteJson, CInv, ReaderKnown, PP!IInv, PP!TypeOK
  <2> QED BY <1>2, <2>1 DEF WriteJson, CInv, Control, writer
<1>3. CASE ReadJson \/ NoJson
  BY <1>3 DEF ReadJson, NoJson, CInv, Control, files, writer
<1>4. CASE Validate
  BY <1>4 DEF Validate, CInv, Control, writer
<1>5. CASE OpenCper
  BY <1>5 DEF OpenCper, CInv, Control
<1>6. CASE Write
  BY <1>6 DEF Write, CInv, Control, files
<1>7. CASE CloseCper
  BY <1>7 DEF CloseCper, CInv, Control, writer
<1>8. CASE NotOpened \/ Exit
  BY <1>8 DEF NotOpened, Exit, CInv, Control, files, writer
<1>9. CASE Over \/ UNCHANGED convertVars
  BY <1>9 DEF Over, convertVars, files, writer, CInv, Control
<1> QED BY <1>1, <1>2, <1>3, <1>4, <1>5, <1>6, <1>7, <1>8, <1>9 DEF ConvertNext, Progress

(* The writer starts afresh on the IR in the JSON file.                    *)
LEMMA OpenCperWriter == ASSUME CInv, OpenCper PROVE IInv'
<1>1. WellFormed(first) /\ ir' = first /\ WellFormed(ir)'
  BY DEF CInv, Control, FirstKnown, OpenCper, WellFormed
<1>2. /\ pc' \in {"header", "descriptors"} /\ i' = 0 /\ size' = 0
      /\ pc' = "header" <=> first.api = "record"
      /\ slotStarts' = <<>> /\ sectionStarts' = <<>> /\ sectionLengths' = <<>>
      /\ undecoded' = FALSE
  BY <1>1 DEF OpenCper
<1>3. TypeOK'
  <2>1. first \in IR /\ <<>> \in Seq(Nat)
    BY <1>1 DEF WellFormed
  <2> QED BY <1>1, <1>2, <2>1 DEF TypeOK
<1>4. /\ pc' = "descriptors" => Front' = 0
      /\ DescriptorSize \in Nat /\ NumDescriptors' \in Nat
  BY <1>1, <1>2, LayoutAssumption DEF Front, NumDescriptors, WellFormed, IR
<1>5. pc' = "descriptors" => size' = Front' + i' * DescriptorSize
  BY <1>2, <1>4
<1>6. CallProgress'
  BY <1>1, <1>2, <1>4, <1>5 DEF CallProgress
<1>7. DescriptorsInSlots' /\ Inside' /\ SizeAsDescribed' /\ SectionsWhereDescribed'
  BY <1>2 DEF DescriptorsInSlots, Inside, SizeAsDescribed, SectionsWhereDescribed
<1> QED BY <1>1, <1>3, <1>6, <1>7 DEF IInv

LEMMA NextWriter == CInv /\ [ConvertNext]_convertVars => IInv'
<1> SUFFICES ASSUME CInv, [ConvertNext]_convertVars PROVE IInv'
  OBVIOUS
<1>1. CASE OpenCper
  BY <1>1, OpenCperWriter
<1>2. CASE Write
  BY <1>2, NextIInv DEF Write, CInv, Next
<1>3. CASE UNCHANGED writer
  BY <1>3, NextIInv DEF writer, vars, CInv
<1> QED BY <1>1, <1>2, <1>3
        DEF ConvertNext, Progress, Read, WriteJson, ReadJson, Validate, CloseCper,
            NotOpened, NoJson, Exit, Over, convertVars

LEMMA InitWriter == ConvertInit => IInv
<1>1. NoIR \in IR /\ WellFormed(NoIR)
  BY DEF NoIR, IR, WellFormed
<1> QED BY <1>1, StartIInv DEF ConvertInit

(* What was written can be opened as a stream.                             *)
LEMMA WrittenType ==
  ASSUME IInv, pc = "done", size <= MaxStream
  PROVE  Written \in Input
<1>1. WellFormed(ir) /\ size \in Nat /\ Len(slotStarts) = NumDescriptors
  BY DEF IInv, TypeOK, CallProgress
<1>2. ir.api \in {"record", "section"} /\ ir.count \in Nat
  BY <1>1 DEF WellFormed, IR
<1>3. ASSUME NEW p PROVE DescriptorAt(p) \in Descriptor
  <2>1. CASE \E k \in 1..Len(slotStarts) : slotStarts[k] = p
    <3> DEFINE c == CHOOSE k \in 1..Len(slotStarts) : slotStarts[k] = p
    <3>1. c \in 1..NumDescriptors
      BY <1>1, <2>1
    <3>2. DescriptorAt(p) = ir.descriptors[c]
      BY <2>1 DEF DescriptorAt
    <3> HIDE DEF c
    <3> QED BY <1>1, <3>1, <3>2, DescriptorFields
  <2>2. CASE ~\E k \in 1..Len(slotStarts) : slotStarts[k] = p
    BY <2>2, ResidueAssumption DEF DescriptorAt
  <2> QED BY <2>1, <2>2
<1>4. [p \in 0..MaxStream |-> DescriptorAt(p)] \in [0..MaxStream -> Descriptor]
  BY <1>3
<1>5. size \in 0..MaxStream /\ 0 \in 0..MaxStream
  BY <1>1, ParseAssumption
<1> QED BY <1>2, <1>4, <1>5 DEF Written, Input, Backings

(* The second reading starts afresh on what was written.                   *)
Fresh ==
  /\ input \in Input /\ input.base = 0 /\ pos = 0
  /\ rpc = IF input.api = "record" THEN "header" ELSE "descriptor"
  /\ ri = 0 /\ descriptorsIR = <<>> /\ sectionsIR = <<>> /\ result = "none"

LEMMA CloseCperFresh ==
  ASSUME CInv, CloseCper, stage' = "reread"
  PROVE  /\ Fresh' /\ input' = Written /\ Written' = Written
         /\ result = "ir"
<1>1. /\ result = "ir" /\ size <= MaxStream /\ pc = "done"
      /\ input' = Written /\ pos' = 0 /\ ri' = 0
      /\ rpc' = IF ir.api = "record" THEN "header" ELSE "descriptor"
      /\ descriptorsIR' = <<>> /\ sectionsIR' = <<>> /\ result' = "none"
      /\ UNCHANGED writer
  BY DEF CloseCper
<1>2. Written \in Input
  BY <1>1, WrittenType DEF CInv
<1>3. Written.base = 0 /\ Written.api = ir.api
  BY DEF Written
<1>4. Written' = Written
  BY <1>1 DEF Written, DescriptorAt, writer, output
<1> QED BY <1>1, <1>2, <1>3, <1>4 DEF Fresh

LEMMA FreshKnown ==
  Fresh => PP!IInv /\ PP!ConvertedAsDescribed /\ PP!JInv /\ PP!AcceptsWhole
<1> SUFFICES ASSUME Fresh
             PROVE  PP!IInv /\ PP!ConvertedAsDescribed /\ PP!JInv /\ PP!AcceptsWhole
  OBVIOUS
<1>1. /\ input.api \in {"record", "section"} /\ Count(input) \in Nat
      /\ DescriptorSize \in Nat
      /\ input.api = "section" => Count(input) = 1
  BY LayoutAssumption DEF Fresh, Input, Count
<1>2. PP!TypeOK
  BY <1>1, SameRecords DEF Fresh, PP!TypeOK
<1>3. PP!Progress
  BY <1>1, SameRecords DEF Fresh, PP!Progress
<1>4. PP!AtNextSlot
  <2> SUFFICES ASSUME rpc \in {"descriptor", "section"} PROVE pos = Slot(input, 0 + 1)
    BY SameRecords DEF Fresh, PP!AtNextSlot
  <2> QED BY <1>1 DEF Fresh, Slot, SlotIn, TableStart
<1>5. PP!DescriptorsFromTableUntilFailure /\ PP!ConvertedAsDescribed
  BY DEF Fresh, PP!DescriptorsFromTableUntilFailure, PP!ConvertedAsDescribed
<1>6. PP!JInv /\ PP!AcceptsWhole
  BY DEF Fresh, PP!JInv, PP!NoFailure, PP!SectionsAsDescribed, PP!HeaderSeen,
         PP!AcceptsWhole
<1> QED BY <1>2, <1>3, <1>4, <1>5, <1>6 DEF PP!IInv

LEMMA FreshKnownNext ==
  Fresh' => /\ PP!IInv' /\ PP!ConvertedAsDescribed'
            /\ PP!JInv' /\ PP!AcceptsWhole'
BY FreshKnown, PTL

(* The stream of the first reading.                                        *)
LEMMA InitReader == ConvertInit => ReaderKnown
<1> SUFFICES ASSUME ConvertInit PROVE ReaderKnown
  OBVIOUS
<1>1. CASE P!Init
  <2>1. PP!Init
    BY <1>1 DEF P!Init, PP!Init
  <2>2. PP!ConvertedAsDescribed
    BY <2>1 DEF PP!Init, PP!ConvertedAsDescribed
  <2> QED BY <2>1, <2>2, ReaderInit DEF ReaderKnown
<1>2. CASE ~P!Init
  BY <1>2 DEF ConvertInit, ReaderKnown
<1> QED BY <1>1, <1>2

LEMMA NextReader == CInv /\ [ConvertNext]_convertVars => ReaderKnown'
<1> SUFFICES ASSUME CInv, [ConvertNext]_convertVars PROVE ReaderKnown'
  OBVIOUS
<1>1. CASE Read
  <2>1. PP!IInv /\ PP!ConvertedAsDescribed
    BY <1>1 DEF Read, CInv, ReaderKnown
  <2>2. PP!Next
    BY <1>1, SameReader DEF Read, PP!Next
  <2> QED BY <2>1, <2>2, ReaderNext DEF ReaderKnown
<1>2. CASE UNCHANGED reader /\ (stage' \in {"read", "reread"} => stage' = stage)
  <2>1. CASE stage \in {"read", "reread"} \/ result # "none"
    <3>1. PP!IInv /\ PP!ConvertedAsDescribed
      BY <2>1 DEF CInv, ReaderKnown
    <3>2. UNCHANGED PP!vars
      BY <1>2 DEF reader, PP!vars
    <3> QED BY <3>1, <3>2, ReaderNext DEF ReaderKnown
  <2>2. CASE ~(stage \in {"read", "reread"} \/ result # "none")
    BY <1>2, <2>2 DEF reader, ReaderKnown
  <2> QED BY <2>1, <2>2
<1>3. CASE CloseCper /\ stage' = "reread"
  BY <1>3, CloseCperFresh, FreshKnownNext DEF ReaderKnown
<1>4. CASE CloseCper /\ stage' # "reread"
  BY <1>2, <1>4 DEF CloseCper
<1>5. CASE OpenCper \/ WriteJson \/ ReadJson \/ Validate \/ Write \/ NotOpened
             \/ NoJson \/ Exit \/ Over \/ UNCHANGED convertVars
  BY <1>2, <1>5
     DEF OpenCper, WriteJson, ReadJson, Validate, Write, NotOpened, NoJson, Exit,
         Over, convertVars
<1> QED BY <1>1, <1>3, <1>4, <1>5 DEF ConvertNext, Progress

(* What the first reading puts into the JSON file.                         *)
LEMMA WriteJsonFirst ==
  ASSUME CInv, WriteJson, result = "ir"
  PROVE  WellFormed(first') /\ FromStream(first')
<1>1. /\ first' = [api         |-> input.api,
                   count       |-> input.count,
                   descriptors |-> descriptorsIR,
                   sections    |-> sectionsIR]
      /\ PP!IInv /\ PP!ConvertedAsDescribed
  BY DEF WriteJson, CInv, ReaderKnown
<1>2. /\ input \in Input /\ descriptorsIR \in Seq(Descriptor)
      /\ sectionsIR \in Seq(SectionIR)
      /\ Len(descriptorsIR) = Count(input) /\ Len(sectionsIR) = Count(input)
  BY <1>1, SameRecords DEF PP!IInv, PP!TypeOK, PP!Progress
<1>3. input.api \in {"record", "section"} /\ input.count \in Nat
  BY <1>2 DEF Input
<1>4. WellFormed(first')
  BY <1>1, <1>2, <1>3 DEF WellFormed, IR, Count
<1>5. \A k \in 1..Len(sectionsIR) :
        sectionsIR[k] # Null =>
          /\ descriptorsIR[k].length > 0
          /\ \E from \in Nat : sectionsIR[k] \in Conversions(descriptorsIR[k], from)
  BY <1>1, SameRecords DEF PP!ConvertedAsDescribed
<1>6. FromStream(first')
  BY <1>1, <1>2, <1>3, <1>5 DEF FromStream, Count
<1> QED BY <1>4, <1>6

LEMMA InitFirst == ConvertInit => FirstKnown
<1> SUFFICES ASSUME ConvertInit PROVE FirstKnown
  OBVIOUS
<1>1. jsonFile = "ir" => first \in IRs /\ Foreign
  BY DEF ConvertInit, Foreign
<1>2. first \in IRs => WellFormed(first)
  BY WriterAssumption DEF WellFormed
<1> QED BY <1>1, <1>2 DEF FirstKnown, ConvertInit

LEMMA NextFirst == CInv /\ [ConvertNext]_convertVars => FirstKnown'
<1> SUFFICES ASSUME CInv, [ConvertNext]_convertVars PROVE FirstKnown'
  OBVIOUS
<1>1. CASE WriteJson
  <2>1. cperFile' = "old" /\ jsonFile' = result
    BY <1>1 DEF WriteJson, CInv, Control
  <2> QED BY <1>1, <2>1, WriteJsonFirst DEF FirstKnown, WellFormed
<1>2. CASE OpenCper
  BY <1>2 DEF OpenCper, CInv, FirstKnown, Foreign, reader
<1>3. CASE UNCHANGED <<jsonFile, first, ir>> /\ (cperFile' # "old" => cperFile # "old")
             /\ (jsonFile = "ir" /\ Foreign => Foreign')
  BY <1>3 DEF CInv, FirstKnown
<1>4. CASE Read
  <2>1. PP!IInv
    BY <1>4 DEF Read, CInv, ReaderKnown
  <2>2. ~Foreign
    BY <2>1 DEF PP!IInv, PP!Progress, Foreign
  <2> QED BY <1>3, <1>4, <2>2 DEF Read, files, writer
<1>5. CASE Write
  <2>1. UNCHANGED <<ir, files, reader>>
    BY <1>5 DEF Write, Step, WriteHeader, WriteDescriptor, DescriptorsWritten,
                WriteSection, SectionNotDecoded, CrashOnNull, SectionsWritten
  <2> QED BY <1>3, <2>1 DEF files, reader, Foreign
<1>6. CASE CloseCper
  <2>1. cperFile = "open" /\ UNCHANGED <<jsonFile, first, ir>>
    BY <1>6 DEF CloseCper, CInv, Control, writer
  <2>2. Foreign => UNCHANGED reader
    BY <1>6 DEF CloseCper, Foreign
  <2> QED BY <1>3, <2>1, <2>2 DEF reader, Foreign
<1>7. CASE ReadJson \/ Validate \/ NotOpened \/ NoJson \/ Exit \/ Over
             \/ UNCHANGED convertVars
  BY <1>3, <1>7 DEF ReadJson, Validate, NotOpened, NoJson, Exit, Over, convertVars,
                    files, reader, writer, Foreign
<1> QED BY <1>1, <1>2, <1>4, <1>5, <1>6, <1>7 DEF ConvertNext, Progress

(***************************************************************************)
(* The invariant of a trip: which files there are, what the reader knows   *)
(* of its stream and the writer of its output, and that the IR between     *)
(* them is well formed.                                                    *)
(***************************************************************************)
THEOREM TripInvariant == ConvertSpec => []CInv
<1>1. ConvertInit => CInv
  BY InitControl, InitReader, InitFirst, InitWriter DEF CInv
<1>2. CInv /\ [ConvertNext]_convertVars => CInv'
  BY NextControl, NextReader, NextFirst, NextWriter DEF CInv
<1> QED BY <1>1, <1>2, PTL DEF ConvertSpec

(***************************************************************************)
(* The output file is left as it was by an IR the validation refuses and   *)
(* by a file that holds none.                                              *)
(***************************************************************************)
THEOREM RefusedKept == ConvertSpec => []RefusedFileKept
<1>1. CInv => RefusedFileKept
  BY DEF CInv, Control, RefusedFileKept
<1> QED BY <1>1, TripInvariant, PTL

(* The types of the writer's state hold on a trip, for every IR read.      *)
THEOREM TripTypeCorrect == ConvertSpec => []TypeOK
<1>1. CInv => TypeOK
  BY DEF CInv, IInv
<1> QED BY <1>1, TripInvariant, PTL

(***************************************************************************)
(* Of every IR that comes out of a JSON file, read from a stream or not,   *)
(* the writer puts the table where a reader looks for it.                  *)
(***************************************************************************)
THEOREM TripInSlots == ConvertSpec => []DescriptorsInSlots
<1>1. CInv => DescriptorsInSlots
  BY DEF CInv, IInv
<1> QED BY <1>1, TripInvariant, PTL

(* And the sections where the descriptors say, if the IR has that layout.  *)
THEOREM TripWhereDescribed == ConvertSpec => []SectionsWhereDescribed
<1>1. CInv => SectionsWhereDescribed
  BY DEF CInv, IInv
<1> QED BY <1>1, TripInvariant, PTL

(* Every one of them, to the end of the last.                              *)
THEOREM TripWholeRecord == ConvertSpec => []WholeRecordWritten
<1>1. CInv => WholeRecordWritten
  BY WholeWhenDone DEF CInv
<1> QED BY <1>1, TripInvariant, PTL
----------------------------------------------------------------------------
(***************************************************************************)
(* The round trip.                                                         *)
(***************************************************************************)
NoNull(r) == \A k \in 1..Len(r.sections) : r.sections[k] # Null

FirstLaidOut ==
  jsonFile = "ir" /\ ~Foreign /\ NoNull(first)
    => LaidOut(first.api, first.descriptors)

RInv ==
  /\ stage = "read" => input \in Inputs
  /\ jsonFile = "ir" /\ stage \in {"toCper", "validate", "open", "write"}
       => result = "ir" \/ (result = "none" /\ input.size = 0)
  /\ stage = "reread" \/ Reread
       => input = Written /\ PP!IInv /\ PP!JInv /\ PP!AcceptsWhole
  /\ Reread => result # "none"

LEMMA InitRInv == ConvertInit => RInv
  BY DEF ConvertInit, P!Init, RInv, Reread

(* A trip that ends without a second reading has not read what it wrote:   *)
(* it wrote an IR from elsewhere, or more than MaxStream bytes.            *)
LEMMA NotReread ==
  ASSUME CInv, RInv, CloseCper, stage' = "over"
  PROVE  input' # Written'
<1>1. /\ pc = "done" /\ stage = "write" /\ jsonFile = "ir"
      /\ ~(result = "ir" /\ size <= MaxStream)
      /\ UNCHANGED <<input, writer>>
  BY DEF CloseCper, CInv, Control, reader
<1>2. Written' = Written /\ Written.size = size
  BY <1>1 DEF Written, DescriptorAt, writer, output
<1>3. size > 0 /\ size \in Nat
  <2>1. WellFormed(ir) /\ Base <= size /\ size \in Nat
    BY <1>1 DEF CInv, IInv, TypeOK, Inside
  <2>2. Base > 0
    <3>1. CASE ir.api = "record"
      <4>1. NumDescriptors * DescriptorSize >= 0
        BY <2>1, IRFields
      <4> QED BY <2>1, <3>1, <4>1, IRFields DEF Base, Front
    <3>2. CASE ir.api = "section"
      <4>1. NumDescriptors = 1
        BY <2>1, <3>2 DEF WellFormed, NumDescriptors
      <4> QED BY <2>1, <3>2, <4>1, IRFields DEF Base, Front
    <3> QED BY <2>1, <3>1, <3>2, IRFields
  <2> QED BY <2>1, <2>2, IRFields
<1>4. CASE result = "ir"
  <2>1. input \in Input
    BY <1>4, SameRecords DEF CInv, ReaderKnown, PP!IInv, PP!TypeOK
  <2>2. input.size <= MaxStream
    BY <2>1, ParseAssumption DEF Input
  <2> QED BY <1>1, <1>2, <1>3, <1>4, <2>1, <2>2, ParseAssumption DEF Input
<1>5. CASE result # "ir"
  BY <1>1, <1>2, <1>3, <1>5 DEF RInv
<1> QED BY <1>4, <1>5

LEMMA NextRInv == CInv /\ CInv' /\ RInv /\ [ConvertNext]_convertVars => RInv'
<1> SUFFICES ASSUME CInv, CInv', RInv, [ConvertNext]_convertVars PROVE RInv'
  OBVIOUS
<1>1. CASE Read
  <2>1. UNCHANGED <<input, stage, jsonFile, Written>> /\ stage \in {"read", "reread"}
    BY <1>1 DEF Read, P!Step, P!HeaderTooShort, P!HeaderNotCper, P!ReadHeader,
                P!ReturnNull, P!DescriptorTooShort, P!ReadDescriptor,
                P!SectionUnreadable, P!ReadSection, P!ReturnIR,
                Written, DescriptorAt, files, writer, output
  <2>2. PP!Next
    BY <1>1, SameReader DEF Read, PP!Next
  <2>3. stage = "reread" => PP!IInv' /\ PP!JInv' /\ PP!AcceptsWhole'
    BY <2>2, ReaderNext DEF RInv
  <2> QED BY <2>1, <2>3 DEF RInv, Reread
<1>2. CASE WriteJson
  <2>1. jsonFile' = result /\ result' = result /\ stage' = "toCper"
    BY <1>2 DEF WriteJson, reader
  <2> QED BY <2>1 DEF RInv, Reread
<1>3. CASE ReadJson \/ Validate \/ NoJson \/ NotOpened
  <2>1. /\ cperFile = "old" /\ stage \in {"read", "toCper", "validate", "open"}
        /\ UNCHANGED <<jsonFile, cperFile, input, result>>
        /\ stage' \in {"validate", "open", "over"}
    BY <1>3 DEF ReadJson, Validate, NoJson, NotOpened, CInv, Control, files, reader
  <2>2. stage' \in {"validate", "open"} => stage \in {"toCper", "validate"}
    BY <1>3 DEF ReadJson, Validate, NoJson, NotOpened
  <2> QED BY <2>1, <2>2 DEF RInv, Reread
<1>4. CASE OpenCper
  BY <1>4 DEF OpenCper, RInv, Reread, reader
<1>5. CASE Write
  BY <1>5 DEF Write, RInv, Reread, reader, files
<1>6. CASE CloseCper
  <2>1. CASE stage' = "reread"
    BY <2>1, <1>6, CloseCperFresh, FreshKnownNext DEF RInv, Reread
  <2>2. CASE stage' = "over"
    BY <2>2, <1>6, NotReread DEF RInv, Reread
  <2> QED BY <1>6, <2>1, <2>2 DEF CloseCper
<1>7. CASE Exit
  <2>1. UNCHANGED <<input, result, Written, cperFile>> /\ UNCHANGED PP!vars
    BY <1>7 DEF Exit, files, reader, writer, output, Written, DescriptorAt, PP!vars
  <2>2. CASE stage = "write"
    BY <1>7, <2>1, <2>2 DEF Exit, CInv, Control, RInv, Reread
  <2>3. CASE stage = "reread"
    <3>1. PP!IInv /\ PP!JInv /\ PP!AcceptsWhole /\ input = Written
      BY <2>3 DEF RInv
    <3>2. PP!IInv' /\ PP!JInv' /\ PP!AcceptsWhole'
      BY <2>1, <3>1, ReaderNext
    <3>3. stage' = "over" /\ result' # "none"
      BY <1>7, <2>1, <2>3 DEF Exit
    <3> QED BY <2>1, <3>1, <3>2, <3>3 DEF RInv
  <2> QED BY <1>7, <2>2, <2>3 DEF Exit
<1>8. CASE Over \/ UNCHANGED convertVars
  <2>1. UNCHANGED <<stage, jsonFile, cperFile, input, result, Written>>
        /\ UNCHANGED PP!vars
    BY <1>8 DEF Over, convertVars, files, reader, writer, output, Written,
                DescriptorAt, PP!vars
  <2> QED BY <2>1, ReaderNext DEF RInv, Reread
<1> QED BY <1>1, <1>2, <1>3, <1>4, <1>5, <1>6, <1>7, <1>8 DEF ConvertNext, Progress

LEMMA RereadInvariant == ConvertSpec => []RInv
  BY InitRInv, NextRInv, TripInvariant, PTL DEF ConvertSpec

(* An IR read with all its sections has the layout of its stream.          *)
LEMMA WriteJsonLaidOut ==
  ASSUME InputsLaidOut, CInv, RInv, WriteJson, result = "ir", NoNull(first')
  PROVE  LaidOut(first'.api, first'.descriptors)
<1> DEFINE n == Count(input)
<1>1. /\ first'.api = input.api /\ first'.descriptors = descriptorsIR
      /\ first'.sections = sectionsIR
      /\ input \in Inputs /\ PP!IInv
  BY DEF WriteJson, RInv, CInv, ReaderKnown
<1>2. /\ descriptorsIR \in Seq(Descriptor)
      /\ Len(descriptorsIR) = n /\ Len(sectionsIR) = n
  BY <1>1, SameRecords DEF PP!IInv, PP!TypeOK, PP!Progress
<1>3. \A k \in 1..n : PP!InSlot(input, k, descriptorsIR[k])
  BY <1>1, <1>2, SameRecords
     DEF NoNull, PP!IInv, PP!DescriptorsFromTableUntilFailure
<1>4. \A k \in 1..n : /\ CanRead(input, Slot(input, k), DescriptorSize)
                      /\ descriptorsIR[k] = input.at[Slot(input, k)]
  BY <1>3, SameRecords DEF PP!InSlot
<1>5. descriptorsIR = [k \in 1..n |-> input.at[Slot(input, k)]]
  BY <1>2, <1>4
<1> QED BY <1>1, <1>4, <1>5 DEF InputsLaidOut

LEMMA NextFirstLaidOut ==
  ASSUME InputsLaidOut, CInv, RInv, FirstLaidOut, [ConvertNext]_convertVars
  PROVE  FirstLaidOut'
<1>1. CASE WriteJson
  BY <1>1, WriteJsonLaidOut DEF WriteJson, FirstLaidOut
<1>2. ASSUME UNCHANGED <<jsonFile, first>>, jsonFile = "ir" /\ Foreign => Foreign'
      PROVE  FirstLaidOut'
  BY <1>2 DEF FirstLaidOut, NoNull
<1>3. CASE Read
  <2>1. PP!IInv
    BY <1>3 DEF Read, CInv, ReaderKnown
  <2>2. ~Foreign
    BY <2>1 DEF PP!IInv, PP!Progress, Foreign
  <2> QED BY <1>2, <1>3, <2>2 DEF Read, files
<1>4. CASE CloseCper
  BY <1>2, <1>4 DEF CloseCper, reader, Foreign
<1>5. CASE UNCHANGED <<jsonFile, first, reader>>
  BY <1>2, <1>5 DEF reader, Foreign
<1> QED BY <1>1, <1>3, <1>4, <1>5
        DEF ConvertNext, Progress, ReadJson, Validate, OpenCper, Write, NotOpened,
            NoJson, Exit, Over, convertVars, files

(* Such an IR is written as the writer presumes.                           *)
LEMMA FirstPresumed ==
  ASSUME CInv, FirstLaidOut, Reread, result # "none", Kept(first.sections)
  PROVE  /\ ir = first /\ WellFormed(ir) /\ FromStream(ir) /\ NoNull(ir)
         /\ PresumedLayout(ir)
         /\ pc = "done" /\ IInv
<1>1. /\ ir = first /\ WellFormed(first) /\ FromStream(first) /\ pc = "done" /\ IInv
  BY DEF Reread, CInv, Control, FirstKnown, Foreign
<1>2. NoNull(first)
  BY DEF Kept, NoNull, Null
<1>3. LaidOut(first.api, first.descriptors) /\ jsonFile = "ir"
  BY <1>2 DEF FirstLaidOut, Foreign, Reread, CInv, Control
<1>4. ASSUME NEW k \in 1..Len(first.descriptors)
      PROVE  LET d == first.descriptors[k]
                 s == first.sections[k] IN
               IF HasConverter(d.type) THEN d.length = CodecSize[d.type]
               ELSE s.conv = "base64" /\ d.length = s.length
  <2>1. Len(first.sections) = Len(first.descriptors)
    BY <1>1 DEF FromStream
  <2>2. PICK from \in Nat :
          first.sections[k] \in Conversions(first.descriptors[k], from)
    BY <1>1, <1>2, <2>1 DEF FromStream, NoNull
  <2>3. first.sections[k].conv \in {"codec", "base64"}
    BY <2>1 DEF Kept
  <2> QED BY <1>3, <2>2, <2>3 DEF Conversions, LaidOut
<1>5. PresumedLayout(first)
  BY <1>1, <1>3, <1>4 DEF PresumedLayout, LaidOut, FromStream
<1> QED BY <1>1, <1>2, <1>5

(* What was written for each section, and where.                           *)
LEMMA SectionWritten ==
  ASSUME IInv, pc = "done", PresumedLayout(ir), ~undecoded,
         NEW k \in 1..NumDescriptors
  PROVE  /\ sectionStarts[k] = ir.descriptors[k].offset
         /\ sectionLengths[k] = ir.descriptors[k].length
         /\ ir.descriptors[k].offset + ir.descriptors[k].length <= size
<1>1. Len(sectionStarts) = NumDescriptors
  BY DEF IInv, CallProgress, PresumedLayout, NumSections, NumDescriptors
<1> QED BY <1>1 DEF IInv, SectionsWhereDescribed, Inside

(* Descriptors do not overlap.                                             *)
LEMMA SlotsApart ==
  ASSUME NEW D \in Nat, D > 0, NEW j \in Nat, NEW k \in Nat, j < k
  PROVE  j * D + D <= k * D
<1>1. (k - j) - 1 \in Nat
  OBVIOUS
<1>2. ((k - j) - 1) * D >= 0
  BY <1>1
<1>3. ((k - j) - 1) * D = k * D - (j * D + D)
  OBVIOUS
<1> QED BY <1>2, <1>3

(* The file that was written holds the k-th descriptor in its k-th slot.   *)
LEMMA WrittenSlots ==
  ASSUME IInv, pc = "done", size <= MaxStream, NEW k \in 1..NumDescriptors
  PROVE  /\ Slot(Written, k) = SlotIn(Front, k)
         /\ CanRead(Written, Slot(Written, k), DescriptorSize)
         /\ Written.at[Slot(Written, k)] = ir.descriptors[k]
<1> DEFINE p == SlotIn(Front, k)
<1>1. /\ WellFormed(ir) /\ size \in Nat /\ Base <= size
      /\ Len(slotStarts) = NumDescriptors
      /\ \A j \in 1..NumDescriptors : slotStarts[j] = SlotIn(Front, j)
  BY DEF IInv, TypeOK, CallProgress, Inside, DescriptorsInSlots, Front
<1>2. /\ NumDescriptors \in Nat /\ DescriptorSize \in Nat /\ DescriptorSize > 0
      /\ Front \in Nat /\ Base \in Nat
  BY <1>1, IRFields
<1>3. Slot(Written, k) = p
  BY <1>2 DEF Slot, SlotIn, TableStart, Written, Front
<1>4. p + DescriptorSize <= size /\ p \in Nat
  <2>1. (k - 1) * DescriptorSize + DescriptorSize <= NumDescriptors * DescriptorSize
    BY <1>2, SlotsApart
  <2>2. (k - 1) * DescriptorSize \in Nat
    BY <1>2
  <2> QED BY <1>1, <1>2, <2>1, <2>2 DEF Base, SlotIn
<1>5. CanRead(Written, p, DescriptorSize)
  BY <1>2, <1>4 DEF CanRead, Written
<1>6. \A j \in 1..NumDescriptors : slotStarts[j] = p => j = k
  <2> SUFFICES ASSUME NEW j \in 1..NumDescriptors, SlotIn(Front, j) = p, j # k
               PROVE  FALSE
    BY <1>1
  <2>1. (j - 1) * DescriptorSize = (k - 1) * DescriptorSize
    <3>1. (j - 1) * DescriptorSize \in Nat /\ (k - 1) * DescriptorSize \in Nat
      BY <1>2
    <3> QED BY <1>2, <3>1 DEF SlotIn
  <2>2. CASE j < k
    BY <2>1, <2>2, <1>2, SlotsApart, j - 1 \in Nat, k - 1 \in Nat, j - 1 < k - 1
  <2>3. CASE k < j
    BY <2>1, <2>3, <1>2, SlotsApart, j - 1 \in Nat, k - 1 \in Nat, k - 1 < j - 1
  <2> QED BY <2>2, <2>3
<1>7. DescriptorAt(p) = ir.descriptors[k]
  BY <1>1, <1>6 DEF DescriptorAt
<1>8. p \in 0..MaxStream
  BY <1>1, <1>2, <1>4, ParseAssumption
<1> QED BY <1>3, <1>5, <1>7, <1>8 DEF Written

(* It is a record the reader accepts, with all its sections.               *)
LEMMA WrittenWhole ==
  ASSUME IInv, pc = "done", size <= MaxStream,
         PresumedLayout(ir), ~undecoded, FromStream(ir), NoNull(ir)
  PROVE  /\ Count(Written) = NumDescriptors
         /\ PP!AllReadable(Written) /\ PP!WholeTable(Written)
         /\ \A k \in 1..NumDescriptors : Readable(Written, ir.descriptors[k])
<1>1. WellFormed(ir) /\ size \in Nat /\ Base <= size
  BY DEF IInv, TypeOK, CallProgress, Inside
<1>2. Count(Written) = NumDescriptors
  BY <1>1, IRFields DEF Count, Written, FromStream, WellFormed, NumDescriptors
<1>3. ASSUME NEW k \in 1..NumDescriptors
      PROVE  Readable(Written, ir.descriptors[k])
  <2>1. ir.descriptors[k].length > 0
    BY <1>3 DEF FromStream, NoNull, NumDescriptors
  <2>2. ir.descriptors[k].offset + ir.descriptors[k].length <= size
    BY <1>3, SectionWritten
  <2> QED BY <1>1, <1>3, <2>1, <2>2, DescriptorFields DEF Readable, CanRead, Written
<1>4. PP!AllReadable(Written)
  BY <1>2, <1>3, WrittenSlots, SameRecords DEF PP!AllReadable
<1>5. ir.api = "record" => CanRead(Written, 0, HeaderSize)
  <2> SUFFICES ASSUME ir.api = "record" PROVE HeaderSize > 0 /\ HeaderSize <= size
    BY IRFields, <1>1 DEF CanRead, Written
  <2>1. Base >= HeaderSize
    <3>1. NumDescriptors * DescriptorSize \in Nat
      BY <1>1, IRFields
    <3> QED BY <1>1, <3>1, IRFields DEF Base, Front
  <2> QED BY <1>1, <2>1, IRFields
<1>6. PP!WholeTable(Written)
  BY <1>2, <1>5, WrittenSlots, SameRecords DEF PP!WholeTable, Written
<1> QED BY <1>2, <1>3, <1>4, <1>6

LEMMA RoundTripKept == CInv /\ RInv /\ FirstLaidOut => RoundTripPreserves
<1> SUFFICES ASSUME CInv, RInv, FirstLaidOut, Reread, Kept(first.sections),
                    "nodata" \notin {s.conv : s \in Range(sectionsIR)}
             PROVE  /\ result = "ir"
                    /\ descriptorsIR = first.descriptors
                    /\ \A k \in 1..Len(first.sections) :
                         sectionsIR[k] = [conv   |-> first.sections[k].conv,
                                          from   |-> sectionStarts[k],
                                          length |-> sectionLengths[k]]
  BY DEF RoundTripPreserves
<1> DEFINE n == NumDescriptors
<1>1. /\ result # "none" /\ input = Written
      /\ PP!IInv /\ PP!JInv /\ PP!AcceptsWhole
  BY DEF RInv
<1>2. /\ ir = first /\ WellFormed(ir) /\ FromStream(ir) /\ NoNull(ir)
      /\ PresumedLayout(ir) /\ pc = "done" /\ IInv /\ ~undecoded
  BY <1>1, FirstPresumed DEF Kept
<1>3. size <= MaxStream
  <2>1. input \in Input /\ input.size = size
    BY <1>1, SameRecords DEF PP!IInv, PP!TypeOK, Written
  <2> QED BY <2>1, ParseAssumption DEF Input
<1>4. /\ Count(input) = n
      /\ PP!AllReadable(input) /\ PP!WholeTable(input)
      /\ \A k \in 1..n : Readable(input, first.descriptors[k])
  BY <1>1, <1>2, <1>3, WrittenWhole
<1>5. result = "ir" /\ PP!NoFailure /\ PP!SectionsAsDescribed
  BY <1>1, <1>4 DEF PP!AcceptsWhole, PP!JInv, PP!IInv, PP!TypeOK
<1>6. /\ descriptorsIR \in Seq(Descriptor) /\ sectionsIR \in Seq(SectionIR)
      /\ Len(descriptorsIR) = n /\ Len(sectionsIR) = n /\ n \in Nat
  BY <1>1, <1>2, <1>4, <1>5, SameRecords, IRFields
     DEF PP!IInv, PP!TypeOK, PP!Progress
<1>7. ASSUME NEW k \in 1..n PROVE descriptorsIR[k] = first.descriptors[k]
  <2>1. PP!InSlot(input, k, descriptorsIR[k])
    BY <1>1, <1>5, <1>6
       DEF PP!IInv, PP!DescriptorsFromTableUntilFailure, PP!NoFailure
  <2>2. input.at[Slot(input, k)] = ir.descriptors[k]
    BY <1>1, <1>2, <1>3, WrittenSlots
  <2> QED BY <1>2, <2>1, <2>2, SameRecords DEF PP!InSlot
<1>8. descriptorsIR = first.descriptors
  <2>1. first.descriptors \in Seq(Descriptor) /\ Len(first.descriptors) = n
    BY <1>2, IRFields DEF NumDescriptors
  <2> QED BY <1>6, <1>7, <2>1
<1>9. ASSUME NEW k \in 1..Len(first.sections)
      PROVE  sectionsIR[k] = [conv   |-> first.sections[k].conv,
                              from   |-> sectionStarts[k],
                              length |-> sectionLengths[k]]
  <2> DEFINE d == first.descriptors[k]
  <2>1. k \in 1..n
    BY <1>2 DEF FromStream, NumDescriptors
  <2>2. sectionsIR[k] \in Conversions(d, 0 + d.offset)
    BY <1>1, <1>4, <1>5, <1>6, <1>8, <2>1, SameRecords
       DEF PP!SectionsAsDescribed, Written
  <2>3. d.offset \in Nat /\ d.offset = sectionStarts[k] /\ d.length = sectionLengths[k]
    BY <1>2, <2>1, SectionWritten, DescriptorFields
  <2>4. PICK from \in Nat : first.sections[k] \in Conversions(d, from)
    BY <1>2, <2>1 DEF FromStream, NoNull, NumDescriptors
  <2>5. first.sections[k].conv \in {"codec", "base64"}
    BY DEF Kept
  <2>6. sectionsIR[k].conv # "nodata"
    BY <1>6, <2>1 DEF Range
  <2>7. sectionsIR[k].conv = first.sections[k].conv
    BY <2>2, <2>4, <2>5, <2>6 DEF Conversions
  <2>8. sectionsIR[k] = [conv   |-> sectionsIR[k].conv,
                         from   |-> 0 + d.offset,
                         length |-> d.length]
    BY <2>2 DEF Conversions
  <2> QED BY <2>3, <2>7, <2>8
<1> QED BY <1>5, <1>8, <1>9

(***************************************************************************)
(* From streams without gaps, read, written and read again is read once:   *)
(* the same descriptors, and each section from where and with the length   *)
(* it was written, converted in the same way.                              *)
(***************************************************************************)
THEOREM RoundTrip ==
  ASSUME InputsLaidOut PROVE ConvertSpec => []RoundTripPreserves
<1>1. ConvertInit => FirstLaidOut
  BY DEF ConvertInit, FirstLaidOut, Foreign
<1>2. CInv /\ RInv /\ FirstLaidOut /\ [ConvertNext]_convertVars => FirstLaidOut'
  BY NextFirstLaidOut
<1> QED BY <1>1, <1>2, RoundTripKept, TripInvariant, RereadInvariant, PTL DEF ConvertSpec
=============================================================================
