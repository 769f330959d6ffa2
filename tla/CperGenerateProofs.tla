------------------------- MODULE CperGenerateProofs -------------------------
(***************************************************************************)
(* The layout of generated records, proved for every request, every        *)
(* section length and every header and descriptor size.                    *)
(*                                                                         *)
(* Three loops add the same lengths: one per descriptor for its offset,    *)
(* one for the record length, and the writing itself.  The invariant ties  *)
(* them together through EndOf(k), the end of the k-th section as its      *)
(* descriptor tells it, so that no sum over the lengths is needed.         *)
(***************************************************************************)
EXTENDS CperGenerate, TLAPS

Front == IF request.api = "record" THEN HeaderSize ELSE 0
Base == IF request.api = "record" THEN FirstSection(NumSections) ELSE DescriptorSize

EndOf(k) == IF k = 0 THEN Base ELSE descriptors[k].offset + descriptors[k].length

(* The sections are generated: one length each, none of them 0 in a record. *)
LengthsOK ==
  /\ pc = "sections" => Len(lengths) = i
  /\ pc \in {"descriptors", "total", "writeDescriptors", "writeSections"}
       => Len(lengths) = NumSections
  /\ outcome = "written" => Len(lengths) = NumSections
  /\ request.api = "record" => \A k \in 1..Len(lengths) : lengths[k] > 0

(* Each descriptor starts where the one before it ends.                    *)
Chained ==
  \A k \in 1..Len(descriptors) :
    /\ k <= Len(lengths)
    /\ descriptors[k].length = lengths[k]
    /\ descriptors[k].offset = EndOf(k - 1)

DescriptorsOK ==
  /\ pc = "sections" => descriptors = <<>>
  /\ pc = "descriptors" =>
       /\ Len(descriptors) = i /\ j <= i
       /\ request.api = "record" => offset = EndOf(j)
       /\ request.api = "section" => j = 0
  /\ pc \in {"total", "writeDescriptors", "writeSections"} => Len(descriptors) = NumSections
  /\ outcome = "written" => Len(descriptors) = NumSections

(* The record length is the end of the last section.                       *)
TotalOK ==
  /\ pc = "total" => /\ request.api = "record"
                     /\ total = HeaderSize + EndOf(i) - Base
  /\ request.api = "record"
       /\ (pc \in {"writeDescriptors", "writeSections"} \/ outcome = "written")
       => total = EndOf(NumSections)

(* What has been written, and where.                                       *)
OutputOK ==
  /\ pc \in {"sections", "descriptors", "total"}
       => size = 0 /\ slotStarts = <<>> /\ sectionStarts = <<>>
  /\ pc = "writeDescriptors" => /\ size = Front + i * DescriptorSize
                                /\ Len(slotStarts) = i /\ sectionStarts = <<>>
  /\ pc = "writeSections" => size = EndOf(i) /\ Len(sectionStarts) = i
  /\ outcome = "written" => size = EndOf(NumSections) /\ Len(sectionStarts) = NumSections
  /\ pc = "done" /\ outcome # "written"
       => size = 0 /\ slotStarts = <<>> /\ sectionStarts = <<>>

StartsOK ==
  /\ \A k \in 1..Len(slotStarts) : slotStarts[k] = Front + (k - 1) * DescriptorSize
  /\ \A k \in 1..Len(sectionStarts) : k <= Len(descriptors)
                                       /\ sectionStarts[k] = descriptors[k].offset

OutcomeOK == outcome = "none" <=> pc # "done"

IInv == /\ TypeOK /\ OutcomeOK /\ LengthsOK /\ DescriptorsOK /\ Chained
        /\ TotalOK /\ OutputOK /\ StartsOK

LEMMA RequestFields ==
  ASSUME NEW r \in Requests
  PROVE  /\ r.api \in {"record", "section"}
         /\ r.names \in Seq(Names) /\ Len(r.names) \in Nat
         /\ r.api = "section" => Len(r.names) = 1
  BY GenerateAssumption DEF Request

(* Facts every step starts from.                                           *)
LEMMA Types0 ==
  ASSUME TypeOK
  PROVE  /\ NumSections \in Nat /\ Front \in Nat /\ Base \in Nat
         /\ request.api \in {"record", "section"}
         /\ request.api = "section" => NumSections = 1
         /\ HeaderSize \in Nat /\ DescriptorSize \in Nat
         /\ FirstSection(NumSections) \in Nat
         /\ Base = Front + NumSections * DescriptorSize
         /\ \A k \in 1..Len(descriptors) :
              descriptors[k].offset \in Nat /\ descriptors[k].length \in Nat
         /\ \A k \in 1..Len(lengths) : lengths[k] \in Nat
         /\ \A k \in 0..Len(descriptors) : EndOf(k) \in Nat
<1>1. /\ NumSections \in Nat /\ request.api \in {"record", "section"}
      /\ request.api = "section" => NumSections = 1
  BY RequestFields DEF TypeOK, NumSections
<1>2. HeaderSize \in Nat /\ DescriptorSize \in Nat
  BY LayoutAssumption
<1>3. NumSections * DescriptorSize \in Nat
  BY <1>1, <1>2
<1>4. Front \in Nat /\ Base \in Nat /\ Base = Front + NumSections * DescriptorSize
  BY <1>1, <1>2, <1>3 DEF Front, Base, FirstSection
<1>5. \A k \in 1..Len(descriptors) :
        descriptors[k].offset \in Nat /\ descriptors[k].length \in Nat
  <2> SUFFICES ASSUME NEW k \in 1..Len(descriptors)
               PROVE  descriptors[k].offset \in Nat /\ descriptors[k].length \in Nat
    OBVIOUS
  <2>1. descriptors[k] \in Descriptor
    BY DEF TypeOK
  <2> QED BY <2>1 DEF Descriptor
<1>6. \A k \in 1..Len(lengths) : lengths[k] \in Nat
  BY DEF TypeOK
<1>7. \A k \in 0..Len(descriptors) : EndOf(k) \in Nat
  <2> SUFFICES ASSUME NEW k \in 0..Len(descriptors) PROVE EndOf(k) \in Nat
    OBVIOUS
  <2>1. CASE k = 0
    BY <2>1, <1>4 DEF EndOf
  <2>2. CASE k # 0
    <3>1. Len(descriptors) \in Nat
      BY DEF TypeOK
    <3>2. k \in 1..Len(descriptors)
      BY <3>1, <2>2
    <3>3. descriptors[k].offset \in Nat /\ descriptors[k].length \in Nat
      BY <3>2, <1>5
    <3> QED BY <2>2, <3>3 DEF EndOf
  <2> QED BY <2>1, <2>2
<1>8. FirstSection(NumSections) \in Nat
  BY <1>2, <1>3 DEF FirstSection
<1> QED BY <1>1, <1>2, <1>4, <1>5, <1>6, <1>7, <1>8

(* The numbers of the state, one conjunct of TypeOK each.                  *)
LEMMA Counters ==
  ASSUME TypeOK
  PROVE  /\ NumSections \in Nat /\ i \in Nat /\ j \in Nat
         /\ i <= NumSections /\ j <= NumSections
         /\ offset \in Nat /\ total \in Nat /\ size \in Nat
         /\ lengths \in Seq(Nat) /\ descriptors \in Seq(Descriptor)
         /\ slotStarts \in Seq(Nat) /\ sectionStarts \in Seq(Nat)
<1>1. NumSections \in Nat
  BY Types0
<1>2. i \in 0..NumSections /\ j \in 0..NumSections
  BY DEF TypeOK
<1>3. i \in Nat /\ j \in Nat /\ i <= NumSections /\ j <= NumSections
  BY <1>1, <1>2
<1> QED BY <1>1, <1>3 DEF TypeOK

LEMMA InitIInv == Init => IInv
<1> SUFFICES ASSUME Init PROVE IInv
  OBVIOUS
<1>1. TypeOK
  BY RequestFields DEF Init, TypeOK, NumSections
<1>2. OutcomeOK /\ LengthsOK /\ DescriptorsOK
  BY DEF Init, OutcomeOK, LengthsOK, DescriptorsOK
<1>3. Chained /\ StartsOK
  BY DEF Init, Chained, StartsOK
<1>4. TotalOK /\ OutputOK
  BY DEF Init, TotalOK, OutputOK
<1> QED BY <1>1, <1>2, <1>3, <1>4 DEF IInv

(* Steps of the first loop, and its two ends.                              *)
LEMMA GenerateSectionIInv == ASSUME IInv, GenerateSection PROVE IInv'
<1>1. PICK length \in Lengths[Name(i + 1)] :
        /\ request.api = "record" => length # 0
        /\ lengths' = Append(lengths, length)
  BY DEF GenerateSection
<1>2. length \in Nat
  <2>1. Name(i + 1) \in Names
    BY RequestFields DEF IInv, TypeOK, GenerateSection, Name, NumSections
  <2> QED BY <2>1, <1>1, GenerateAssumption
<1>3. /\ lengths' \in Seq(Nat) /\ Len(lengths') = i + 1
      /\ lengths'[i + 1] = length
      /\ \A k \in 1..i : lengths'[k] = lengths[k]
  BY <1>1, <1>2 DEF IInv, TypeOK, LengthsOK, GenerateSection
<1>4. TypeOK'
  <2>1. i' \in 0..NumSections /\ NumSections' = NumSections
    BY Counters DEF IInv, GenerateSection, NumSections
  <2> QED BY <2>1, <1>3 DEF IInv, TypeOK, GenerateSection, output
<1>5. LengthsOK'
  <2>1. /\ pc = "sections" /\ pc' = pc /\ i' = i + 1 /\ i \in Nat
        /\ outcome' = "none" /\ request' = request
    BY Types0 DEF IInv, OutcomeOK, GenerateSection, TypeOK
  <2>2. request.api = "record" => \A k \in 1..(i + 1) : lengths'[k] > 0
    BY <2>1, <1>1, <1>2, <1>3 DEF IInv, LengthsOK
  <2> QED BY <2>1, <2>2, <1>3 DEF LengthsOK
<1>6. /\ pc = "sections" /\ pc' = "sections" /\ descriptors' = <<>>
      /\ descriptors = <<>> /\ outcome = "none" /\ outcome' = "none"
      /\ UNCHANGED output
  BY DEF IInv, DescriptorsOK, OutcomeOK, GenerateSection
<1>7. DescriptorsOK' /\ OutcomeOK' /\ TotalOK'
  BY <1>6 DEF DescriptorsOK, OutcomeOK, TotalOK
<1>8. Chained'
  BY <1>6 DEF Chained
<1>9. OutputOK' /\ StartsOK'
  BY <1>6 DEF IInv, OutputOK, StartsOK, output
<1> QED BY <1>4, <1>5, <1>7, <1>8, <1>9 DEF IInv

LEMMA EmptySectionIInv == ASSUME IInv, EmptySection PROVE IInv'
  BY DEF IInv, TypeOK, LengthsOK, DescriptorsOK, Chained, TotalOK, OutputOK,
         StartsOK, OutcomeOK, EmptySection, layout, output, NumSections, EndOf,
         Base

LEMMA SectionsGeneratedIInv == ASSUME IInv, SectionsGenerated PROVE IInv'
<1>1. TypeOK'
  BY Types0, LayoutAssumption
     DEF IInv, TypeOK, SectionsGenerated, NumSections, FirstSection, output
<1>2. DescriptorsOK'
  BY Types0 DEF IInv, OutcomeOK, TypeOK, DescriptorsOK, SectionsGenerated, EndOf, Base,
                NumSections
<1>3. LengthsOK' /\ OutcomeOK' /\ TotalOK'
  BY DEF IInv, LengthsOK, OutcomeOK, TotalOK, SectionsGenerated, output, NumSections
<1>4. Chained' /\ OutputOK' /\ StartsOK'
  BY DEF IInv, DescriptorsOK, OutcomeOK, Chained, OutputOK, StartsOK,
         SectionsGenerated, output
<1> QED BY <1>1, <1>2, <1>3, <1>4 DEF IInv

(* Adding up an offset follows the chain of the descriptors already made.  *)
LEMMA AddLengthIInv == ASSUME IInv, AddLength PROVE IInv'
<1>1. /\ request.api = "record" /\ i \in Nat /\ j \in Nat /\ j < i
      /\ i < NumSections /\ NumSections \in Nat
      /\ Len(descriptors) = i /\ Len(lengths) = NumSections /\ offset = EndOf(j)
  <2>1. i \in Nat /\ j \in Nat /\ NumSections \in Nat
    BY Counters DEF IInv
  <2>2. request.api = "record"
    <3>1. request.api \in {"record", "section"} /\ pc = "descriptors" /\ j < i
      BY Types0 DEF IInv, AddLength
    <3>2. request.api = "section" => j = 0 /\ i = 0
      <4> SUFFICES ASSUME request.api = "section" PROVE j = 0 /\ i = 0
        OBVIOUS
      <4>1. NumSections = 1 /\ i < NumSections
        BY Types0 DEF IInv, AddLength
      <4> QED BY <4>1, <2>1, <3>1 DEF IInv, DescriptorsOK
    <3> QED BY <3>1, <3>2
  <2>3. Len(descriptors) = i /\ offset = EndOf(j)
    BY <2>2 DEF IInv, DescriptorsOK, AddLength
  <2>4. Len(lengths) = NumSections
    BY DEF IInv, LengthsOK, AddLength
  <2> QED BY <2>1, <2>2, <2>3, <2>4 DEF AddLength
<1>2. /\ descriptors[j + 1].offset = EndOf(j)
      /\ descriptors[j + 1].length = lengths[j + 1]
  BY <1>1 DEF IInv, Chained
<1>3. offset' = EndOf(j + 1)
  BY <1>1, <1>2 DEF AddLength, EndOf
<1>4. TypeOK'
  <2>1. j + 1 \in 1..Len(lengths)
    BY <1>1
  <2>2. lengths[j + 1] \in Nat
    BY <2>1, Types0 DEF IInv
  <2>3. offset' \in Nat
    <3>1. offset \in Nat /\ offset' = offset + lengths[j + 1]
      BY Counters DEF IInv, AddLength
    <3> QED BY <3>1, <2>2
  <2>4. j' \in 0..NumSections /\ NumSections' = NumSections
    BY <1>1 DEF AddLength, NumSections
  <2> QED BY <2>3, <2>4 DEF IInv, TypeOK, AddLength, output
<1>5. DescriptorsOK'
  BY <1>1, <1>3 DEF IInv, DescriptorsOK, OutcomeOK, AddLength, EndOf, Base,
                    NumSections
<1>6. LengthsOK' /\ OutcomeOK' /\ TotalOK'
  BY <1>1 DEF IInv, LengthsOK, OutcomeOK, TotalOK, AddLength, NumSections
<1>7. Chained' /\ OutputOK' /\ StartsOK'
  BY DEF IInv, OutcomeOK, Chained, OutputOK, StartsOK, AddLength, output, EndOf,
         Base, Front, NumSections
<1> QED BY <1>4, <1>5, <1>6, <1>7 DEF IInv

LEMMA MakeDescriptorIInv == ASSUME IInv, MakeDescriptor PROVE IInv'
<1>1. /\ i \in Nat /\ j = i /\ i < NumSections /\ NumSections \in Nat
      /\ Len(descriptors) = i /\ Len(lengths) = NumSections
      /\ request.api \in {"record", "section"}
      /\ request.api = "record" => offset = EndOf(i)
      /\ request.api = "section" => i = 0
      /\ outcome = "none" /\ pc = "descriptors"
  BY Types0 DEF IInv, TypeOK, OutcomeOK, DescriptorsOK, LengthsOK, MakeDescriptor
<1>2. PICK guid \in Guids[Name(i + 1)] :
        descriptors' = Append(descriptors,
          [offset |-> IF request.api = "record" THEN offset ELSE DescriptorSize,
           length |-> lengths[i + 1], type |-> guid])
  BY DEF MakeDescriptor
<1> DEFINE d == [offset |-> IF request.api = "record" THEN offset
                                                      ELSE DescriptorSize,
                 length |-> lengths[i + 1], type |-> guid]
<1>3. guid \in Types
  <2>1. Name(i + 1) \in Names
    BY <1>1, RequestFields DEF IInv, TypeOK, Name, NumSections
  <2> QED BY <2>1, <1>2, GenerateAssumption
<1>4. d \in Descriptor
  <2>1. i + 1 \in 1..Len(lengths)
    BY <1>1
  <2>2. lengths[i + 1] \in Nat
    BY <2>1, Types0 DEF IInv
  <2>3. offset \in Nat /\ DescriptorSize \in Nat
    BY LayoutAssumption DEF IInv, TypeOK
  <2> QED BY <2>2, <2>3, <1>3 DEF Descriptor
<1>5. d.offset = EndOf(i)
  BY <1>1 DEF EndOf, Base
<1>6. /\ descriptors' \in Seq(Descriptor) /\ Len(descriptors') = i + 1
      /\ descriptors'[i + 1] = d
      /\ \A k \in 1..i : descriptors'[k] = descriptors[k]
  BY <1>1, <1>2, <1>4 DEF IInv, TypeOK
<1>7. \A k \in 0..i : EndOf(k)' = EndOf(k)
  <2>1. Base' = Base
    BY DEF Base, MakeDescriptor, NumSections
  <2> QED BY <2>1, <1>1, <1>6 DEF EndOf
<1>8. TypeOK'
  <2>1. FirstSection(NumSections) \in Nat
    BY Types0 DEF IInv
  <2> QED BY <2>1, <1>1, <1>6 DEF IInv, TypeOK, MakeDescriptor, NumSections, output
<1>9. Chained'
  <2> SUFFICES ASSUME NEW k \in 1..(i + 1)
               PROVE  /\ k <= Len(lengths)
                      /\ descriptors'[k].length = lengths[k]
                      /\ descriptors'[k].offset = EndOf(k - 1)'
    BY <1>6 DEF Chained, MakeDescriptor
  <2>1. CASE k = i + 1
    BY <2>1, <1>1, <1>5, <1>6, <1>7
  <2>2. CASE k # i + 1
    BY <2>2, <1>1, <1>6, <1>7 DEF IInv, Chained
  <2> QED BY <2>1, <2>2
<1>10. DescriptorsOK'
  <2>1. offset' = FirstSection(NumSections)
    BY DEF MakeDescriptor
  <2>2. request.api = "record" => EndOf(0)' = FirstSection(NumSections)
    BY DEF EndOf, Base, MakeDescriptor, NumSections
  <2> QED BY <2>1, <2>2, <1>1, <1>6 DEF DescriptorsOK, MakeDescriptor
<1>11. LengthsOK' /\ OutcomeOK' /\ TotalOK' /\ OutputOK'
  BY <1>1 DEF IInv, LengthsOK, OutcomeOK, TotalOK, OutputOK, MakeDescriptor,
              NumSections, output
<1>12. StartsOK'
  BY <1>1 DEF IInv, OutputOK, StartsOK, MakeDescriptor, output
<1> QED BY <1>8, <1>9, <1>10, <1>11, <1>12 DEF IInv

LEMMA NoDescriptorIInv == ASSUME IInv, NoDescriptor PROVE IInv'
  BY DEF IInv, TypeOK, LengthsOK, DescriptorsOK, Chained, TotalOK, OutputOK,
         StartsOK, OutcomeOK, NoDescriptor, layout, output, NumSections, EndOf,
         Base, Front

LEMMA DescriptorsMadeIInv == ASSUME IInv, DescriptorsMade PROVE IInv'
<1>1. /\ Len(descriptors) = NumSections /\ NumSections \in Nat
      /\ Base \in Nat /\ HeaderSize \in Nat
      /\ request.api \in {"record", "section"}
      /\ outcome = "none" /\ outcome' = "none"
  BY Types0 DEF IInv, OutcomeOK, DescriptorsOK, DescriptorsMade
<1>2. TypeOK' /\ OutcomeOK' /\ LengthsOK'
  BY <1>1 DEF IInv, TypeOK, OutcomeOK, LengthsOK, DescriptorsMade, NumSections,
              output
<1>3. TotalOK'
  BY <1>1 DEF IInv, TotalOK, DescriptorsMade, NumSections, EndOf, Base
<1>4. DescriptorsOK' /\ Chained'
  BY <1>1 DEF IInv, DescriptorsOK, Chained, DescriptorsMade, EndOf, Base,
              NumSections
<1>5. OutputOK' /\ StartsOK'
  BY <1>1, Types0 DEF IInv, OutputOK, StartsOK, DescriptorsMade, output, Front
<1> QED BY <1>2, <1>3, <1>4, <1>5 DEF IInv

LEMMA AddToTotalIInv == ASSUME IInv, AddToTotal PROVE IInv'
<1>1. /\ i \in Nat /\ i < NumSections /\ NumSections \in Nat /\ pc = "total"
      /\ Len(descriptors) = NumSections /\ Len(lengths) = NumSections
      /\ outcome = "none" /\ request.api = "record"
      /\ total = HeaderSize + EndOf(i) - Base
      /\ Base \in Nat /\ HeaderSize \in Nat /\ EndOf(i) \in Nat
      /\ lengths[i + 1] \in Nat
  <2>1. i \in Nat /\ NumSections \in Nat /\ i < NumSections /\ pc = "total"
    BY Counters DEF IInv, AddToTotal
  <2>2. Len(descriptors) = NumSections /\ Len(lengths) = NumSections
    BY <2>1 DEF IInv, DescriptorsOK, LengthsOK
  <2>3. /\ outcome = "none" /\ request.api = "record"
        /\ total = HeaderSize + EndOf(i) - Base
    BY <2>1 DEF IInv, OutcomeOK, TotalOK
  <2>4. i + 1 \in 1..Len(lengths) /\ i \in 0..Len(descriptors)
    BY <2>1, <2>2
  <2>5. lengths[i + 1] \in Nat /\ EndOf(i) \in Nat
    BY <2>4, Types0 DEF IInv
  <2>6. Base \in Nat /\ HeaderSize \in Nat
    BY Types0 DEF IInv
  <2> QED BY <2>1, <2>2, <2>3, <2>5, <2>6
<1>2. EndOf(i + 1) = EndOf(i) + lengths[i + 1]
  BY <1>1 DEF IInv, Chained, EndOf
<1>3. UNCHANGED <<Base, request, descriptors>> /\ \A k \in Nat : EndOf(k)' = EndOf(k)
  BY DEF AddToTotal, Base, NumSections, EndOf
<1>4. total' = HeaderSize + EndOf(i + 1) - Base /\ i' = i + 1
  BY <1>1, <1>2 DEF AddToTotal
<1>5. TypeOK'
  <2>1. total' \in Nat
    <3>1. total \in Nat /\ lengths[i + 1] \in Nat
      BY <1>1, Counters DEF IInv
    <3> QED BY <3>1 DEF AddToTotal
  <2>2. i' \in 0..NumSections /\ NumSections' = NumSections
    BY <1>1 DEF AddToTotal, NumSections
  <2> QED BY <2>1, <2>2 DEF IInv, TypeOK, AddToTotal, output
<1>6. TotalOK'
  <2>1. EndOf(i)' = EndOf(i + 1)
    BY <1>3, <1>4 DEF EndOf
  <2>2. pc' = "total" /\ outcome' = "none" /\ request' = request
    BY <1>1 DEF AddToTotal
  <2> QED BY <2>1, <2>2, <1>1, <1>3, <1>4 DEF TotalOK
<1>7. DescriptorsOK' /\ Chained' /\ LengthsOK' /\ OutcomeOK'
  BY <1>1, <1>3 DEF IInv, DescriptorsOK, Chained, LengthsOK, OutcomeOK, AddToTotal,
                    NumSections, EndOf
<1>8. OutputOK' /\ StartsOK'
  BY <1>1 DEF IInv, OutputOK, StartsOK, AddToTotal, output, Front
<1> QED BY <1>5, <1>6, <1>7, <1>8 DEF IInv

LEMMA WriteHeaderIInv == ASSUME IInv, WriteHeader PROVE IInv'
<1>1. /\ i = NumSections /\ NumSections \in Nat /\ pc = "total"
      /\ Len(descriptors) = NumSections /\ Len(lengths) = NumSections
      /\ outcome = "none" /\ request.api = "record" /\ size = 0
      /\ total = HeaderSize + EndOf(NumSections) - Base
      /\ HeaderSize \in Nat /\ EndOf(NumSections) \in Nat
      /\ Base = HeaderSize + NumSections * DescriptorSize
      /\ NumSections * DescriptorSize \in Nat /\ DescriptorSize \in Nat
  <2>1. NumSections \in Nat /\ i = NumSections /\ pc = "total"
    BY Counters DEF IInv, WriteHeader
  <2>2. Len(descriptors) = NumSections /\ Len(lengths) = NumSections
    BY <2>1 DEF IInv, DescriptorsOK, LengthsOK
  <2>3. /\ outcome = "none" /\ request.api = "record"
        /\ total = HeaderSize + EndOf(NumSections) - Base
    BY <2>1 DEF IInv, OutcomeOK, TotalOK
  <2>4. size = 0
    BY <2>1 DEF IInv, OutputOK
  <2>5. NumSections \in 0..Len(descriptors)
    BY <2>1, <2>2
  <2>6. EndOf(NumSections) \in Nat
    BY <2>5, Types0 DEF IInv
  <2>7. HeaderSize \in Nat /\ DescriptorSize \in Nat
    BY LayoutAssumption
  <2>8. NumSections * DescriptorSize \in Nat
    BY <2>1, <2>7
  <2>9. Base = HeaderSize + NumSections * DescriptorSize
    BY <2>3 DEF Base, FirstSection
  <2> QED BY <2>1, <2>2, <2>3, <2>4, <2>6, <2>7, <2>8, <2>9
<1>2. UNCHANGED <<request, descriptors, lengths, Base, NumSections, EndOf(NumSections)>>
  BY DEF WriteHeader, Base, NumSections, EndOf
<1>3. total' = EndOf(NumSections) /\ size' = HeaderSize
  BY <1>1 DEF WriteHeader
<1>4. TypeOK'
  BY <1>1, <1>2, <1>3 DEF IInv, TypeOK, WriteHeader
<1>5. TotalOK' /\ LengthsOK' /\ OutcomeOK'
  BY <1>1, <1>2, <1>3 DEF IInv, TotalOK, LengthsOK, OutcomeOK, WriteHeader
<1>6. DescriptorsOK' /\ Chained'
  BY <1>1, <1>2 DEF IInv, DescriptorsOK, Chained, WriteHeader, EndOf
<1>7. OutputOK'
  BY <1>1, <1>2, <1>3 DEF IInv, OutputOK, WriteHeader, Front
<1>8. StartsOK'
  BY <1>1, <1>2 DEF IInv, OutputOK, StartsOK, WriteHeader
<1> QED BY <1>4, <1>5, <1>6, <1>7, <1>8 DEF IInv

(* What the writing loops leave alone keeps its part of the invariant.     *)
LEMMA WritingKeepsLayout ==
  ASSUME IInv, UNCHANGED <<request, layout>>,
         pc \in {"writeDescriptors", "writeSections"},
         \/ pc' \in {"writeDescriptors", "writeSections"} /\ outcome' = "none"
         \/ pc' = "done" /\ outcome' = "written"
  PROVE  /\ LengthsOK' /\ DescriptorsOK' /\ Chained' /\ TotalOK' /\ OutcomeOK'
         /\ UNCHANGED <<NumSections, Base, Front>>
         /\ \A k \in Nat : EndOf(k)' = EndOf(k)
         /\ Len(descriptors) = NumSections /\ Len(lengths) = NumSections
<1>1. UNCHANGED <<NumSections, Base, Front, lengths, descriptors, total, request>>
  BY DEF NumSections, Base, Front, layout
<1>2. \A k \in Nat : EndOf(k)' = EndOf(k)
  BY <1>1 DEF EndOf
<1>3. Len(descriptors) = NumSections /\ Len(lengths) = NumSections
  BY DEF IInv, DescriptorsOK, LengthsOK
<1>4. NumSections \in Nat
  BY Types0 DEF IInv
<1>5. Chained'
  <2> SUFFICES ASSUME NEW k \in 1..Len(descriptors)
               PROVE  /\ k <= Len(lengths)
                      /\ descriptors[k].length = lengths[k]
                      /\ descriptors[k].offset = EndOf(k - 1)'
    BY <1>1 DEF Chained
  <2>1. k - 1 \in Nat
    BY <1>3, <1>4
  <2> QED BY <2>1, <1>2 DEF IInv, Chained
<1>6. LengthsOK' /\ OutcomeOK'
  BY <1>1, <1>3 DEF IInv, LengthsOK, OutcomeOK
<1>7. DescriptorsOK' /\ TotalOK'
  BY <1>1, <1>2, <1>3, <1>4 DEF IInv, DescriptorsOK, TotalOK, OutcomeOK
<1> QED BY <1>1, <1>2, <1>3, <1>5, <1>6, <1>7

LEMMA WriteDescriptorIInv == ASSUME IInv, WriteDescriptor PROVE IInv'
<1>1. /\ i \in Nat /\ i < NumSections /\ NumSections \in Nat
      /\ outcome = "none" /\ outcome' = "none" /\ request' = request
      /\ size = Front + i * DescriptorSize /\ Front \in Nat
      /\ DescriptorSize \in Nat /\ i * DescriptorSize \in Nat
      /\ slotStarts \in Seq(Nat) /\ Len(slotStarts) = i /\ sectionStarts = <<>>
      /\ size \in Nat
  <2>1. i \in Nat /\ NumSections \in Nat /\ slotStarts \in Seq(Nat) /\ size \in Nat
    BY Counters DEF IInv
  <2>2. pc = "writeDescriptors" /\ i < NumSections /\ request' = request
    BY DEF WriteDescriptor
  <2>3. outcome = "none" /\ outcome' = "none"
    BY <2>2 DEF IInv, OutcomeOK, WriteDescriptor
  <2>4. /\ size = Front + i * DescriptorSize
        /\ Len(slotStarts) = i /\ sectionStarts = <<>>
    BY <2>2 DEF IInv, OutputOK
  <2>5. Front \in Nat /\ DescriptorSize \in Nat
    BY Types0 DEF IInv
  <2>6. i * DescriptorSize \in Nat
    BY <2>1, <2>5
  <2> QED BY <2>1, <2>2, <2>3, <2>4, <2>5, <2>6
<1>2. /\ LengthsOK' /\ DescriptorsOK' /\ Chained' /\ TotalOK' /\ OutcomeOK'
      /\ UNCHANGED <<NumSections, Front>>
  BY <1>1, WritingKeepsLayout DEF WriteDescriptor
<1>3. /\ slotStarts' \in Seq(Nat) /\ Len(slotStarts') = i + 1
      /\ slotStarts'[i + 1] = Front + i * DescriptorSize
      /\ \A k \in 1..i : slotStarts'[k] = slotStarts[k]
  BY <1>1 DEF WriteDescriptor
<1>4. TypeOK'
  BY <1>1, <1>2, <1>3 DEF IInv, TypeOK, WriteDescriptor, layout
<1>5. OutputOK'
  BY <1>1, <1>2, <1>3 DEF IInv, OutputOK, WriteDescriptor
<1>6. StartsOK'
  <2>1. \A k \in 1..(i + 1) : slotStarts'[k] = Front + (k - 1) * DescriptorSize
    <3> SUFFICES ASSUME NEW k \in 1..(i + 1)
                 PROVE  slotStarts'[k] = Front + (k - 1) * DescriptorSize
      OBVIOUS
    <3>1. CASE k = i + 1
      <4>1. k - 1 = i
        BY <3>1, <1>1
      <4> QED BY <4>1, <3>1, <1>3
    <3>2. CASE k # i + 1
      BY <3>2, <1>1, <1>3 DEF IInv, StartsOK
    <3> QED BY <3>1, <3>2
  <2> QED BY <2>1, <1>1, <1>2, <1>3 DEF StartsOK, WriteDescriptor
<1> QED BY <1>2, <1>4, <1>5, <1>6 DEF IInv

LEMMA DescriptorsWrittenIInv == ASSUME IInv, DescriptorsWritten PROVE IInv'
<1>1. /\ i = NumSections /\ NumSections \in Nat /\ outcome = "none"
      /\ size = Front + NumSections * DescriptorSize /\ sectionStarts = <<>>
      /\ Base = Front + NumSections * DescriptorSize
  BY Types0 DEF IInv, TypeOK, OutcomeOK, OutputOK, DescriptorsWritten
<1>2. /\ LengthsOK' /\ DescriptorsOK' /\ Chained' /\ TotalOK' /\ OutcomeOK'
      /\ UNCHANGED <<NumSections, Base, Front>>
  BY <1>1, WritingKeepsLayout DEF DescriptorsWritten
<1>3. TypeOK' /\ StartsOK'
  BY <1>1, <1>2 DEF IInv, TypeOK, StartsOK, DescriptorsWritten, layout, output
<1>4. OutputOK'
  BY <1>1, <1>2 DEF OutputOK, DescriptorsWritten, output, EndOf
<1> QED BY <1>2, <1>3, <1>4 DEF IInv

(* The k-th section is written where the (k - 1)-th ends.                  *)
LEMMA WriteSectionIInv == ASSUME IInv, WriteSection PROVE IInv'
<1>1. /\ i \in Nat /\ i < NumSections /\ NumSections \in Nat
      /\ outcome = "none" /\ outcome' = "none" /\ request' = request
      /\ Len(descriptors) = NumSections /\ Len(lengths) = NumSections
      /\ size = EndOf(i) /\ size \in Nat /\ lengths[i + 1] \in Nat
      /\ sectionStarts \in Seq(Nat) /\ Len(sectionStarts) = i
  BY Types0 DEF IInv, TypeOK, OutcomeOK, OutputOK, LengthsOK, DescriptorsOK,
                WriteSection
<1>2. /\ LengthsOK' /\ DescriptorsOK' /\ Chained' /\ TotalOK' /\ OutcomeOK'
      /\ UNCHANGED <<NumSections, Front>>
      /\ \A k \in Nat : EndOf(k)' = EndOf(k)
  BY <1>1, WritingKeepsLayout DEF WriteSection
<1>3. /\ descriptors[i + 1].offset = EndOf(i)
      /\ EndOf(i + 1) = EndOf(i) + lengths[i + 1]
  BY <1>1 DEF IInv, Chained, EndOf
<1>4. /\ sectionStarts' \in Seq(Nat) /\ Len(sectionStarts') = i + 1
      /\ sectionStarts'[i + 1] = EndOf(i)
      /\ \A k \in 1..i : sectionStarts'[k] = sectionStarts[k]
  BY <1>1 DEF WriteSection
<1>5. TypeOK'
  BY <1>1, <1>2, <1>4 DEF IInv, TypeOK, WriteSection, layout
<1>6. OutputOK'
  <2>1. size' = EndOf(i + 1) /\ i' = i + 1 /\ pc' = "writeSections"
    BY <1>1, <1>3 DEF WriteSection
  <2>2. EndOf(i)' = EndOf(i + 1)
    BY <2>1, <1>1, WritingKeepsLayout DEF EndOf, WriteSection, layout, Base, NumSections
  <2> QED BY <2>1, <2>2, <1>1, <1>4 DEF OutputOK
<1>7. StartsOK'
  BY <1>1, <1>2, <1>3, <1>4 DEF IInv, StartsOK, WriteSection, layout
<1> QED BY <1>2, <1>5, <1>6, <1>7 DEF IInv

LEMMA SectionsWrittenIInv == ASSUME IInv, SectionsWritten PROVE IInv'
<1>1. /\ i = NumSections /\ NumSections \in Nat /\ outcome = "none"
      /\ size = EndOf(NumSections) /\ Len(sectionStarts) = NumSections
  BY Types0 DEF IInv, TypeOK, OutcomeOK, OutputOK, SectionsWritten
<1>2. /\ LengthsOK' /\ DescriptorsOK' /\ Chained' /\ TotalOK' /\ OutcomeOK'
      /\ UNCHANGED <<NumSections, Base, Front>>
      /\ \A k \in Nat : EndOf(k)' = EndOf(k)
  BY <1>1, WritingKeepsLayout DEF SectionsWritten
<1>3. TypeOK' /\ StartsOK'
  BY <1>1, <1>2 DEF IInv, TypeOK, StartsOK, SectionsWritten, layout, output
<1>4. OutputOK'
  <2>1. EndOf(NumSections)' = EndOf(NumSections)
    BY <1>2 DEF EndOf, SectionsWritten, layout
  <2> QED BY <2>1, <1>1, <1>2 DEF OutputOK, SectionsWritten, output
<1> QED BY <1>2, <1>3, <1>4 DEF IInv

LEMMA StutterIInv == ASSUME IInv, UNCHANGED vars PROVE IInv'
  BY DEF IInv, TypeOK, LengthsOK, DescriptorsOK, Chained, TotalOK, OutputOK,
         StartsOK, OutcomeOK, vars, layout, output, NumSections, EndOf, Base, Front

LEMMA NextIInv == IInv /\ [Next]_vars => IInv'
  BY GenerateSectionIInv, EmptySectionIInv, SectionsGeneratedIInv, AddLengthIInv,
     MakeDescriptorIInv, NoDescriptorIInv, DescriptorsMadeIInv, AddToTotalIInv,
     WriteHeaderIInv, WriteDescriptorIInv, DescriptorsWrittenIInv,
     WriteSectionIInv, SectionsWrittenIInv, StutterIInv
     DEF Next, Step, Ended

(***************************************************************************)
(* The invariant of a call: offsets, total and output agree at every trip  *)
(* round every loop.                                                       *)
(***************************************************************************)
THEOREM GenerateInvariant == Spec => []IInv
  BY InitIInv, NextIInv, PTL DEF Spec

(* The state of a call has its types.                                      *)
THEOREM TypeCorrect == Spec => []TypeOK
<1>1. IInv => TypeOK
  BY DEF IInv
<1> QED BY <1>1, GenerateInvariant, PTL

(***************************************************************************)
(* Every section of every record and of every single section lies where    *)
(* its descriptor says and has the length it says.                         *)
(***************************************************************************)
THEOREM WhereDescribed == Spec => []SectionsWhereDescribed
<1>1. IInv => SectionsWhereDescribed
  <2> SUFFICES ASSUME IInv, NEW k \in 1..Len(sectionStarts)
               PROVE  /\ descriptors[k].offset = sectionStarts[k]
                      /\ descriptors[k].length = lengths[k]
    BY DEF SectionsWhereDescribed
  <2>1. k <= Len(descriptors) /\ sectionStarts[k] = descriptors[k].offset
    BY DEF IInv, StartsOK
  <2>2. descriptors \in Seq(Descriptor) /\ sectionStarts \in Seq(Nat)
    BY Counters DEF IInv
  <2>3. k \in 1..Len(descriptors)
    BY <2>1, <2>2
  <2> QED BY <2>1, <2>3 DEF IInv, Chained
<1> QED BY <1>1, GenerateInvariant, PTL

(* Every descriptor lies in its slot of the table.                         *)
THEOREM InSlots == Spec => []DescriptorsInSlots
<1>1. IInv => DescriptorsInSlots
  BY DEF IInv, StartsOK, DescriptorsInSlots, SlotIn, Front
<1> QED BY <1>1, GenerateInvariant, PTL

(* The record length in the header is the number of bytes written.         *)
THEOREM LengthExact == Spec => []RecordLengthExact
<1>1. IInv => RecordLengthExact
  BY DEF IInv, OutputOK, TotalOK, RecordLengthExact
<1> QED BY <1>1, GenerateInvariant, PTL

(* Every record written is contiguous, and none of its sections is empty.  *)
THEOREM WrittenContiguous == Spec => []WrittenRecordsContiguous
<1>1. IInv => WrittenRecordsContiguous
  <2> SUFFICES ASSUME IInv, outcome = "written", request.api = "record"
               PROVE  /\ Len(descriptors) = NumSections
                      /\ Contiguous(descriptors)
                      /\ \A k \in 1..NumSections : descriptors[k].length > 0
    BY DEF WrittenRecordsContiguous
  <2>1. Len(descriptors) = NumSections /\ Len(lengths) = NumSections
    BY DEF IInv, DescriptorsOK, LengthsOK
  <2>2. \A k \in 1..NumSections : descriptors[k].length > 0
    BY <2>1 DEF IInv, Chained, LengthsOK
  <2>3. Contiguous(descriptors)
    BY <2>1, Types0 DEF IInv, Contiguous, Chained, EndOf, Base
  <2> QED BY <2>1, <2>2, <2>3
<1> QED BY <1>1, GenerateInvariant, PTL

============================================================================
