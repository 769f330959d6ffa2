---------------------------- MODULE CodecsProofs ----------------------------
(***************************************************************************)
(* Theorems about Codecs: what its fixed-layout conversions -- the header, *)
(* the section descriptor and the fourteen section types of SectionCodec   *)
(* -- keep, settle on and lose, for every structure of those types and any *)
(* sizes.  SectionProofs has the lemmas about each section type; what is   *)
(* left for this module is that a run of the state machine does what they  *)
(* are about: convert what was given or generated to an IR, and that IR    *)
(* and nothing else to the output.                                         *)
(*                                                                         *)
(* The processors' own sections are of variable length: SectionPartsProofs *)
(* has the lemmas about the walk through one.  Here the invariants say how *)
(* much of a section the IR and the output stand for at each step, however *)
(* many structures it has.                                                 *)
(***************************************************************************)
EXTENDS Codecs, SectionProofs, SectionPartsProofs
----------------------------------------------------------------------------
(* The IR is that of the section, with this text read and those texts lost.*)
SectionReadAs(text, lost) ==
  /\ text \in SectionTexts(section)
  /\ ir = SectionIR(section, text, lost)
  /\ DOMAIN ir # {}

SectionRead ==
  \E text \in SectionTexts(section),
     lost \in SUBSET (Base64Keys \ UncheckedKeys) :
    SectionReadAs(text, lost) /\ (memory => lost = {})

SectionWritten ==
  \E text \in SectionTexts(section),
     lost \in SUBSET (Base64Keys \ UncheckedKeys), unread \in SUBSET Base64Keys :
    /\ SectionReadAs(text, lost)
    /\ out = SectionOf(ir, unread)
    /\ memory => lost = {} /\ unread = {}

(***************************************************************************)
(* The inductive invariant of a section of any kind of SectionKinds: it is *)
(* a section of its kind once it is there, and plain if it was generated   *)
(* (all but NVIDIA's); its IR is that of some text read and some texts     *)
(* lost, of those that are looked at, and what was written is what that IR *)
(* says, some texts not decoded; nothing was lost unless memory says so,   *)
(* and a text that is not looked at was lost if the converter crashed.     *)
(***************************************************************************)
SectionInv ==
  kind \in SectionKinds =>
    /\ phase \in {"random", "toIR", "toCper", "done", "noIR", "crashed"}
    /\ phase = "random" =>
         memory /\ IsSection(kind, drawn) /\ Drawable(kind, drawn)
    /\ phase # "random" =>
         /\ IsSection(kind, section)
         /\ drawn # <<>> /\ kind # "nvidia" => PlainSection(section)
    /\ phase = "toCper" => SectionRead
    /\ phase = "done" => SectionWritten
    /\ phase = "crashed" => ~memory /\ kind = "dmarvtd"

(* The kind of the structure is fixed, and a section of these kinds is     *)
(* converted by SectionStep only.                                          *)
LEMMA KindOfStep ==
  ASSUME [Next]_vars
  PROVE  /\ kind' = kind
         /\ kind \in SectionKinds => SectionStep \/ UNCHANGED vars
BY DEF Next, vars, converter, GenerateArm, GenerateX64, ConvertArm, ConvertX64,
       ConvertHeader, ConvertDescriptor, ConvertSection, Converted, SectionKinds,
       SectionStep, Generate, ToIR, CrashOnNull, ToCper

(* A given or drawn section is one of its kind (StartsAssumption).         *)
LEMMA SectionInvInit == Init => SectionInv
<1> SUFFICES ASSUME Init, kind \in SectionKinds PROVE SectionInv
  BY DEF SectionInv
<1>1. PICK start \in Starts :
        /\ kind = start.kind /\ drawn = start.drawn /\ section = start.section
        /\ phase = IF start.section = <<>> THEN "random"
                   ELSE IF start.kind \in {"arm", "ia32x64"} THEN "header"
                   ELSE "toIR"
  BY DEF Init
<1>2. \/ drawn = <<>> /\ IsSection(kind, section)
      \/ section = <<>> /\ IsSection(kind, drawn) /\ Drawable(kind, drawn)
  BY <1>1, StartsAssumption
<1>3. kind \notin {"arm", "ia32x64"}
  BY DEF SectionKinds
<1>4. ASSUME IsSection(kind, section) PROVE section # <<>>
  BY <1>4 DEF IsSection, Structure, Tailed, Put
<1> QED
  BY <1>1, <1>2, <1>3, <1>4 DEF SectionInv, Init

(* What depends on the kind and the section is fixed while they are.       *)
LEMMA SectionFixed ==
  ASSUME kind' = kind, section' = section
  PROVE  /\ SectionTexts(section)' = SectionTexts(section)
         /\ Base64Keys' = Base64Keys /\ UncheckedKeys' = UncheckedKeys
         /\ PlainSection(section)' <=> PlainSection(section)
         /\ \A text, lost : SectionIR(section, text, lost)' = SectionIR(section, text, lost)
<1>1. SectionTexts(section)' = SectionTexts(section)
  BY DEF SectionTexts
<1>2. Base64Keys' = Base64Keys /\ UncheckedKeys' = UncheckedKeys
  BY DEF Base64Keys, UncheckedKeys
<1>3. PlainSection(section)' <=> PlainSection(section)
  BY DEF PlainSection
<1>4. ASSUME NEW text, NEW lost
      PROVE  SectionIR(section, text, lost)' = SectionIR(section, text, lost)
  BY DEF SectionIR
<1> QED
  BY <1>1, <1>2, <1>3, <1>4

(* So is what is written from the IR.                                      *)
LEMMA IRFixed ==
  ASSUME kind' = kind, ir' = ir, NEW CONSTANT unread
  PROVE  SectionOf(ir, unread)' = SectionOf(ir, unread)
BY DEF SectionOf

(* Generators and converters keep the invariant.                           *)
LEMMA SectionInvStep == SectionInv /\ [Next]_vars => SectionInv'
<1> SUFFICES ASSUME SectionInv, [Next]_vars, kind \in SectionKinds PROVE SectionInv'
  BY KindOfStep DEF SectionInv
<1>0. kind' = kind
  BY KindOfStep
<1>1. CASE Generate
  BY <1>0, <1>1, SectionDrawn DEF Generate, SectionInv, PlainSection
<1>2. CASE ToIR
  <2>1. /\ phase = "toIR" /\ section' = section /\ drawn' = drawn
        /\ IsSection(kind, section)
        /\ drawn # <<>> /\ kind # "nvidia" => PlainSection(section)
    BY <1>2 DEF ToIR, SectionInv
  <2>2. PICK text \in SectionTexts(section),
              lost \in SUBSET (Base64Keys \ UncheckedKeys) :
          ir' = SectionIR(section, text, lost) /\ memory' = (memory /\ lost = {})
    BY <1>2 DEF ToIR
  <2>3. DOMAIN ir' # {} => SectionReadAs(text, lost)'
    BY <1>0, <2>1, <2>2, SectionFixed DEF SectionReadAs
  <2>4. DOMAIN ir' # {} => SectionRead'
    <3>1. /\ SectionTexts(section)' = SectionTexts(section)
          /\ Base64Keys' = Base64Keys /\ UncheckedKeys' = UncheckedKeys
      BY <1>0, <2>1, SectionFixed
    <3> QED
      BY <2>2, <2>3, <3>1 DEF SectionRead
  <2>5. drawn # <<>> /\ kind # "nvidia" => PlainSection(section)'
    BY <1>0, <2>1, SectionFixed
  <2> QED
    BY <1>0, <1>2, <2>1, <2>4, <2>5 DEF ToIR, SectionInv
<1>3. CASE ToCper
  <2>1. /\ phase = "toCper" /\ section' = section /\ drawn' = drawn /\ ir' = ir
        /\ IsSection(kind, section) /\ SectionRead
        /\ drawn # <<>> /\ kind # "nvidia" => PlainSection(section)
    BY <1>3 DEF ToCper, SectionInv
  <2>2. PICK text \in SectionTexts(section),
              lost \in SUBSET (Base64Keys \ UncheckedKeys) :
          SectionReadAs(text, lost) /\ (memory => lost = {})
    BY <2>1 DEF SectionRead
  <2>3. PICK unread \in SUBSET Base64Keys :
          out' = SectionOf(ir, unread) /\ memory' = (memory /\ unread = {})
    BY <1>3 DEF ToCper
  <2>4. SectionReadAs(text, lost)' /\ SectionOf(ir, unread)' = SectionOf(ir, unread)
    BY <1>0, <2>1, <2>2, SectionFixed, IRFixed DEF SectionReadAs
  <2>5. SectionWritten'
    <3>1. /\ SectionTexts(section)' = SectionTexts(section)
          /\ Base64Keys' = Base64Keys /\ UncheckedKeys' = UncheckedKeys
      BY <1>0, <2>1, SectionFixed
    <3>2. text \in SectionTexts(section)
      BY <2>2 DEF SectionReadAs
    <3> QED
      BY <2>2, <2>3, <2>4, <3>1, <3>2 DEF SectionWritten
  <2>6. drawn # <<>> /\ kind # "nvidia" => PlainSection(section)'
    BY <1>0, <2>1, SectionFixed
  <2> QED
    BY <1>0, <1>3, <2>1, <2>5, <2>6 DEF ToCper, SectionInv
<1>4. CASE CrashOnNull
  <2>1. /\ phase = "toIR" /\ section' = section /\ drawn' = drawn
        /\ phase' = "crashed" /\ memory' = FALSE /\ kind = "dmarvtd"
    BY <1>4 DEF CrashOnNull, UncheckedKeys
  <2>2. PlainSection(section)' <=> PlainSection(section)
    BY <1>0, <2>1, SectionFixed
  <2> QED
    BY <1>0, <2>1, <2>2 DEF SectionInv
<1>5. CASE UNCHANGED vars
  <2>1. /\ section' = section /\ drawn' = drawn /\ ir' = ir /\ out' = out
        /\ phase' = phase /\ memory' = memory
    BY <1>5 DEF vars, converter
  <2>2. \A text, lost : SectionReadAs(text, lost) => SectionReadAs(text, lost)'
    BY <1>0, <2>1, SectionFixed DEF SectionReadAs
  <2>3. \A unread : SectionOf(ir, unread)' = SectionOf(ir, unread)
    BY <1>0, <2>1, IRFixed
  <2>4. /\ SectionTexts(section)' = SectionTexts(section) /\ Base64Keys' = Base64Keys
        /\ UncheckedKeys' = UncheckedKeys
        /\ PlainSection(section)' <=> PlainSection(section)
    BY <1>0, <2>1, SectionFixed
  <2>5. SectionRead => SectionRead'
    BY <2>1, <2>2, <2>4 DEF SectionRead
  <2>6. SectionWritten => SectionWritten'
    BY <2>1, <2>2, <2>3, <2>4 DEF SectionWritten
  <2> QED
    BY <1>0, <2>1, <2>4, <2>5, <2>6 DEF SectionInv
<1> QED
  BY <1>1, <1>2, <1>3, <1>4, <1>5, KindOfStep DEF SectionStep

(* It holds in every state of every conversion.                            *)
THEOREM SectionInvariant == Spec => []SectionInv
BY SectionInvInit, SectionInvStep, PTL DEF Spec

(***************************************************************************)
(* SectionsKept for every section of the fourteen kinds: each              *)
(* ir_section_*_to_cper() undoes the cper_section_*_to_ir() of its kind.   *)
(***************************************************************************)
THEOREM KeepsSections == Spec => []SectionsKept
<1>1. SectionInv => SectionsKept
  <2> SUFFICES ASSUME SectionInv, kind \in SectionKinds, phase = "done", memory,
                      PlainSection(section)
               PROVE  out = section
    BY DEF SectionsKept, Kept
  <2>1. IsSection(kind, section) /\ SectionWritten
    BY DEF SectionInv
  <2>2. PICK text \in SectionTexts(section),
              lost \in SUBSET (Base64Keys \ UncheckedKeys), unread \in SUBSET Base64Keys :
          /\ SectionReadAs(text, lost) /\ out = SectionOf(ir, unread)
          /\ lost = {} /\ unread = {}
    BY <2>1 DEF SectionWritten
  <2> QED
    BY <2>1, <2>2, SectionInverse DEF SectionReadAs
<1> QED
  BY <1>1, SectionInvariant, PTL

(***************************************************************************)
(* SectionsSettled for every section, plain or not: what was written is    *)
(* read as the IR it was written from.                                     *)
(***************************************************************************)
THEOREM SettlesSections == Spec => []SectionsSettled
<1>1. SectionInv => SectionsSettled
  <2> SUFFICES ASSUME SectionInv, kind \in SectionKinds, phase = "done", memory,
                      kind = "generic" => ir.cpuBrandString < BrandStringSize,
                      kind = "nvidia" => ir.signature < SignatureSize,
                      kind = "pcie" => ir.version.minor <= 99 /\ ir.version.major <= 99
               PROVE  \E text \in SectionTexts(out) : SectionIR(out, text, {}) = ir
    BY DEF SectionsSettled, Settled
  <2>1. IsSection(kind, section) /\ SectionWritten
    BY DEF SectionInv
  <2>2. PICK text \in SectionTexts(section),
              lost \in SUBSET (Base64Keys \ UncheckedKeys), unread \in SUBSET Base64Keys :
          /\ SectionReadAs(text, lost) /\ out = SectionOf(ir, unread)
          /\ lost = {} /\ unread = {}
    BY <2>1 DEF SectionWritten
  <2>3. ir = SectionIR(section, text, {}) /\ text \in SectionTexts(section)
    BY <2>2 DEF SectionReadAs
  <2>4. kind = "generic" => text < BrandStringSize
    BY <2>3 DEF SectionIR, cper_section_generic_to_ir
  <2>5. kind = "nvidia" => text < SignatureSize
    BY <2>3, SMTT(30) DEF SectionIR, cper_section_nvidia_to_ir
  <2>6. kind = "pcie" =>
          LET version == section[1].body.Version
          IN  bcd_to_int(version[1]) <= 99 /\ bcd_to_int(version[2]) <= 99
    BY <2>3, ZenonT(60) DEF SectionIR, cper_section_pcie_to_ir, ++
  <2> QED
    BY <2>1, <2>2, <2>3, <2>4, <2>5, <2>6, SectionSettles
<1> QED
  BY <1>1, SectionInvariant, PTL

(***************************************************************************)
(* FailuresContained for every section and whichever of its texts there    *)
(* was no memory for, on the way to the IR or back, if the converter lives *)
(* to the end: without a text for the root entry of VT-d it does not.      *)
(***************************************************************************)
THEOREM ContainsFailures == Spec => []FailuresContained
<1>1. SectionInv => FailuresContained
  <2> SUFFICES ASSUME SectionInv, kind \in SectionKinds, phase = "done",
                      PlainSection(section)
               PROVE  Contained(section[1].body, out[1].body)
    BY DEF FailuresContained, FailureContained, Contained
  <2>1. IsSection(kind, section) /\ SectionWritten
    BY DEF SectionInv
  <2>2. PICK text \in SectionTexts(section),
              lost \in SUBSET (Base64Keys \ UncheckedKeys), unread \in SUBSET Base64Keys :
          SectionReadAs(text, lost) /\ out = SectionOf(ir, unread)
    BY <2>1 DEF SectionWritten
  <2> QED
    BY <2>1, <2>2, SectionContained DEF SectionReadAs
<1> QED
  BY <1>1, SectionInvariant, PTL

(***************************************************************************)
(* GeneratedSectionsKept for every draw of random bytes: the BinaryEqual   *)
(* tests of tests/ir-tests.cpp cannot fail for these sections.             *)
(***************************************************************************)
THEOREM KeepsGeneratedSections == Spec => []GeneratedSectionsKept
<1>1. SectionInv /\ SectionsKept => GeneratedSectionsKept
  BY DEF SectionInv, SectionsKept, Kept, GeneratedSectionsKept, GeneratedKept
<1> QED
  BY <1>1, SectionInvariant, KeepsSections, PTL
----------------------------------------------------------------------------
(* With decimal digits a timestamp is the same after a trip through its    *)
(* text, whose numbers have two digits.                                    *)
LEMMA TimestampKept ==
  ASSUME NEW time \in Fields!EFI_ERROR_TIME_STAMP, Fields!Decimal(time)
  PROVE  /\ Fields!string_to_timestamp(Fields!timestamp_to_string(time)) = time
         /\ \A p \in Fields!TimeParts : Fields!timestamp_to_string(time)[p] \in 0..99
<1>1. ASSUME NEW byte, byte \in 0..255, Fields!DecimalByte(byte)
      PROVE  /\ Fields!bcd_to_int(byte) \in 0..99
             /\ Fields!bcd_to_int(byte) % 100 = Fields!bcd_to_int(byte)
             /\ Fields!int_to_bcd(Fields!bcd_to_int(byte)) = byte
  BY <1>1 DEF Fields!DecimalByte, Fields!bcd_to_int, Fields!int_to_bcd
<1>2. \A p \in Fields!TimeParts : time[p] \in 0..255 /\ Fields!DecimalByte(time[p])
  BY DEF Fields!EFI_ERROR_TIME_STAMP, Fields!Decimal
<1>3. \A p \in Fields!TimeParts :
        /\ Fields!timestamp_to_string(time)[p] = Fields!bcd_to_int(time[p])
        /\ Fields!bcd_to_int(time[p]) \in 0..99
        /\ Fields!int_to_bcd(Fields!bcd_to_int(time[p])) = time[p]
  BY <1>1, <1>2 DEF Fields!timestamp_to_string
<1> QED
  BY <1>3 DEF Fields!string_to_timestamp, Fields!EFI_ERROR_TIME_STAMP

(* Numbers of two digits are read from a text as they were written.        *)
LEMMA TimestampSettles ==
  ASSUME NEW text, text = [p \in Fields!TimeParts |-> text[p]],
         \A p \in Fields!TimeParts : text[p] \in Nat /\ text[p] <= 99
  PROVE  Fields!timestamp_to_string(Fields!string_to_timestamp(text)) = text
<1>1. ASSUME NEW number, number \in 0..99
      PROVE  /\ Fields!bcd_to_int(Fields!int_to_bcd(number)) = number
             /\ number % 100 = number
  BY <1>1 DEF Fields!bcd_to_int, Fields!int_to_bcd
<1>2. \A p \in Fields!TimeParts :
        /\ Fields!bcd_to_int(Fields!int_to_bcd(text[p])) = text[p]
        /\ text[p] % 100 = text[p]
  BY <1>1
<1> QED
  BY <1>2 DEF Fields!timestamp_to_string, Fields!string_to_timestamp

(* Such numbers fit into the buffer.                                       *)
LEMMA TimestampLengthFits ==
  ASSUME NEW text, \A p \in Fields!TimeParts : text[p] \in 0..99
  PROVE  Fields!TimestampLength(text) <= Fields!TIMESTAMP_LENGTH
<1>1. {p \in Fields!TimeParts : text[p] > 99} = {}
  OBVIOUS
<1>2. Fields!Cardinality({}) = Cardinality({})
  BY DEF Fields!Cardinality, Cardinality
<1>3. Cardinality({}) = 0
  BY FS_EmptySet
<1> QED
  BY <1>1, <1>2, <1>3 DEF Fields!TimestampLength, Fields!TIMESTAMP_LENGTH

(* What the IR of a header has of the members that a validation bit        *)
(* announces.                                                              *)
LEMMA HeaderRead ==
  ASSUME NEW h
  PROVE  LET r == Fields!HeaderIR(h)
             bits == h.ValidationBits
         IN  /\ r.validationBits = Fields!Named(bits, 3)
             /\ 0 \in bits <=> "platformID" \in DOMAIN r
             /\ 0 \in bits => r.platformID = h.PlatformID
             /\ 2 \in bits <=> "partitionID" \in DOMAIN r
             /\ 2 \in bits => r.partitionID = h.PartitionID
             /\ 1 \in bits <=> "timestamp" \in DOMAIN r
             /\ 1 \in bits <=> "timestampIsPrecise" \in DOMAIN r
             /\ 1 \in bits => /\ r.timestamp = Fields!timestamp_to_string(h.TimeStamp)
                              /\ r.timestampIsPrecise = (h.TimeStampFlag # 0)
<1> DEFINE bits == h.ValidationBits
           always == [revision         |-> h.Revision,
                      sectionCount     |-> h.SectionCount,
                      severity         |-> h.ErrorSeverity,
                      validationBits   |-> Fields!Named(h.ValidationBits, 3),
                      recordLength     |-> h.RecordLength,
                      creatorID        |-> h.CreatorID,
                      notificationType |-> h.NotificationType,
                      recordID         |-> h.RecordID,
                      flags            |-> h.Flags,
                      persistenceInfo  |-> h.PersistenceInfo]
           times == Fields!If(bits, 1,
                      [timestamp          |-> Fields!timestamp_to_string(h.TimeStamp),
                       timestampIsPrecise |-> h.TimeStampFlag # 0])
           platform == Fields!If(bits, 0, [platformID |-> h.PlatformID])
           partition == Fields!If(bits, 2, [partitionID |-> h.PartitionID])
<1>1. DOMAIN times = IF 1 \in bits THEN {"timestamp", "timestampIsPrecise"} ELSE {}
  BY DEF Fields!If
<1>2. DOMAIN platform = IF 0 \in bits THEN {"platformID"} ELSE {}
  BY DEF Fields!If
<1>3. DOMAIN partition = IF 2 \in bits THEN {"partitionID"} ELSE {}
  BY DEF Fields!If
<1>4. /\ 1 \in bits => /\ times.timestamp = Fields!timestamp_to_string(h.TimeStamp)
                       /\ times.timestampIsPrecise = (h.TimeStampFlag # 0)
      /\ 0 \in bits => platform.platformID = h.PlatformID
      /\ 2 \in bits => partition.partitionID = h.PartitionID
  BY DEF Fields!If
<1>5. /\ DOMAIN always \intersect
           {"platformID", "partitionID", "timestamp", "timestampIsPrecise"} = {}
      /\ "validationBits" \in DOMAIN always
      /\ always.validationBits = Fields!Named(bits, 3)
  OBVIOUS
<1>6. Fields!HeaderIR(h)
        = Fields!++(Fields!++(Fields!++(always, times), platform), partition)
  BY DEF Fields!HeaderIR
<1> HIDE DEF always, times, platform, partition
<1> QED
  BY <1>1, <1>2, <1>3, <1>4, <1>5, <1>6 DEF Fields!++

(* A plain header is written from its IR as it was.                        *)
LEMMA HeaderInverse ==
  ASSUME NEW h, Fields!EFI_COMMON_ERROR_RECORD_HEADER(h), Fields!PlainHeader(h)
  PROVE  Fields!HeaderOf(Fields!HeaderIR(h)) = h
<1> DEFINE r == Fields!HeaderIR(h)
           o == Fields!HeaderOf(r)
<1>1. /\ o.SignatureEnd = "0xFFFFFFFF" /\ o.Reserved = Fields!Zero
      /\ o.Revision = h.Revision /\ o.SectionCount = h.SectionCount
      /\ o.ErrorSeverity = h.ErrorSeverity
      /\ o.ValidationBits = Fields!Named(h.ValidationBits, 3)
      /\ o.RecordLength = h.RecordLength /\ o.CreatorID = h.CreatorID
      /\ o.NotificationType = h.NotificationType /\ o.RecordID = h.RecordID
      /\ o.PersistenceInfo = h.PersistenceInfo /\ o.Flags = h.Flags
  BY ZenonT(60) DEF Fields!HeaderIR, Fields!HeaderOf, Fields!++
<1>2. o.PlatformID = IF 0 \in h.ValidationBits THEN h.PlatformID ELSE Fields!Zero
  BY HeaderRead DEF Fields!HeaderOf, Fields!Get
<1>3. o.PartitionID = IF 2 \in h.ValidationBits THEN h.PartitionID ELSE Fields!Zero
  BY HeaderRead DEF Fields!HeaderOf, Fields!Get
<1>4. o.TimeStamp = IF 1 \in h.ValidationBits
                      THEN Fields!string_to_timestamp(Fields!timestamp_to_string(h.TimeStamp))
                      ELSE Fields!NoTime
  BY HeaderRead DEF Fields!HeaderOf, Fields!Get
<1>5. o.TimeStampFlag = IF 1 \in h.ValidationBits /\ h.TimeStampFlag # 0 THEN 1 ELSE 0
  BY HeaderRead DEF Fields!HeaderOf, Fields!Get
<1>6. DOMAIN o = DOMAIN h /\ o = [f \in DOMAIN h |-> o[f]] /\ h = [f \in DOMAIN h |-> h[f]]
  BY ZenonT(60) DEF Fields!HeaderOf, Fields!EFI_COMMON_ERROR_RECORD_HEADER, Fields!HasMembers
<1> HIDE DEF o
<1>7. \A f \in DOMAIN h : o[f] = h[f]
  BY <1>1, <1>2, <1>3, <1>4, <1>5, TimestampKept
  DEF Fields!PlainHeader, Fields!EFI_COMMON_ERROR_RECORD_HEADER, Fields!HasMembers,
      Fields!Named
<1> QED
  BY <1>6, <1>7, SMTT(30) DEF o

(* What is written from the IR of a header is read as that IR, but for     *)
(* numbers of three digits.                                                *)
LEMMA HeaderSettles ==
  ASSUME NEW h, Fields!EFI_COMMON_ERROR_RECORD_HEADER(h),
         1 \in h.ValidationBits =>
           \A p \in Fields!TimeParts : Fields!timestamp_to_string(h.TimeStamp)[p] <= 99
  PROVE  LET r == Fields!HeaderIR(h)
         IN  Fields!HeaderIR(Fields!HeaderOf(r)) = r
<1> DEFINE r == Fields!HeaderIR(h)
           o == Fields!HeaderOf(r)
           text == Fields!timestamp_to_string(h.TimeStamp)
<1>1. /\ o.Revision = h.Revision /\ o.SectionCount = h.SectionCount
      /\ o.ErrorSeverity = h.ErrorSeverity
      /\ o.ValidationBits = Fields!Named(h.ValidationBits, 3)
      /\ o.RecordLength = h.RecordLength /\ o.CreatorID = h.CreatorID
      /\ o.NotificationType = h.NotificationType /\ o.RecordID = h.RecordID
      /\ o.PersistenceInfo = h.PersistenceInfo /\ o.Flags = h.Flags
  BY ZenonT(60) DEF Fields!HeaderIR, Fields!HeaderOf, Fields!++
<1>2. 0 \in h.ValidationBits => o.PlatformID = h.PlatformID
  BY HeaderRead DEF Fields!HeaderOf, Fields!Get
<1>3. 2 \in h.ValidationBits => o.PartitionID = h.PartitionID
  BY HeaderRead DEF Fields!HeaderOf, Fields!Get
<1>4. 1 \in h.ValidationBits =>
        /\ o.TimeStamp = Fields!string_to_timestamp(text)
        /\ (o.TimeStampFlag # 0) = (h.TimeStampFlag # 0)
  <2>1. 1 \in h.ValidationBits => o.TimeStamp = Fields!string_to_timestamp(text)
    BY HeaderRead DEF Fields!HeaderOf
  <2>2. o.TimeStampFlag = IF 1 \in h.ValidationBits /\ h.TimeStampFlag # 0 THEN 1 ELSE 0
    BY HeaderRead DEF Fields!HeaderOf, Fields!Get
  <2> HIDE DEF o
  <2> QED
    BY <2>1, <2>2
<1>5. 1 \in h.ValidationBits => Fields!timestamp_to_string(o.TimeStamp) = text
  <2>1. text = [p \in Fields!TimeParts |-> text[p]]
    BY DEF Fields!timestamp_to_string
  <2>2. \A p \in Fields!TimeParts : text[p] \in Nat
    BY DEF Fields!timestamp_to_string, Fields!bcd_to_int, Fields!EFI_ERROR_TIME_STAMP,
           Fields!EFI_COMMON_ERROR_RECORD_HEADER
  <2> HIDE DEF text
  <2> QED
    BY <1>4, <2>1, <2>2, TimestampSettles DEF text
<1>6. /\ Fields!Named(o.ValidationBits, 3) = Fields!Named(h.ValidationBits, 3)
      /\ \A b \in 0..2 : b \in o.ValidationBits <=> b \in h.ValidationBits
  BY <1>1 DEF Fields!Named
<1> HIDE DEF o
<1> QED
  BY <1>1, <1>2, <1>3, <1>4, <1>5, <1>6 DEF Fields!HeaderIR, Fields!If, o

(* The text of a descriptor is in its IR if a validation bit says so.      *)
LEMMA TextRead ==
  ASSUME NEW d, NEW text, 1 \in d.SecValidMask
  PROVE  Fields!Get(Fields!DescriptorIR(d, text), "fruText", 0) = text
<1>1. /\ "fruText" \in DOMAIN Fields!DescriptorIR(d, text)
      /\ Fields!DescriptorIR(d, text).fruText = text
  BY DEF Fields!DescriptorIR, Fields!++, Fields!If
<1> QED
  BY <1>1 DEF Fields!Get

(* A plain descriptor is written from its IR as it was, and what is        *)
(* written from any IR is read as that IR.                                 *)
LEMMA DescriptorInverse ==
  ASSUME NEW d, Fields!EFI_ERROR_SECTION_DESCRIPTOR(d), Fields!PlainDescriptor(d)
  PROVE  Fields!DescriptorOf(Fields!DescriptorIR(d, d.FruString)) = d
<1> DEFINE o == Fields!DescriptorOf(Fields!DescriptorIR(d, d.FruString))
<1>1. /\ o.SectionOffset = d.SectionOffset /\ o.SectionLength = d.SectionLength
      /\ o.Revision = d.Revision /\ o.Reserved = Fields!Zero
      /\ o.SecValidMask = Fields!Named(d.SecValidMask, 2)
      /\ o.SectionFlags = Fields!Named(d.SectionFlags, 8)
      /\ o.SectionType = d.SectionType /\ o.Severity = d.Severity
  BY ZenonT(60) DEF Fields!DescriptorIR, Fields!DescriptorOf, Fields!++
<1>2. o.FruId = IF 0 \in d.SecValidMask THEN d.FruId ELSE Fields!Zero
  BY SMTT(40) DEF Fields!DescriptorIR, Fields!DescriptorOf, Fields!++, Fields!If, Fields!Get
<1>3. o.FruString =
        Fields!TextWritten(IF 1 \in d.SecValidMask THEN d.FruString ELSE 0, FruTextSize)
  BY DEF Fields!DescriptorIR, Fields!DescriptorOf, Fields!++, Fields!If, Fields!Get
<1>4. o.FruString = d.FruString
  BY <1>3, StructuresAssumption, SMTT(30)
  DEF Fields!TextWritten, Fields!PlainDescriptor, Fields!EFI_ERROR_SECTION_DESCRIPTOR
<1>5. DOMAIN o = DOMAIN d /\ o = [f \in DOMAIN d |-> o[f]] /\ d = [f \in DOMAIN d |-> d[f]]
  BY ZenonT(60) DEF Fields!DescriptorOf, Fields!EFI_ERROR_SECTION_DESCRIPTOR, Fields!HasMembers
<1> HIDE DEF o
<1>6. \A f \in DOMAIN d : o[f] = d[f]
  BY <1>1, <1>2, <1>4
  DEF Fields!PlainDescriptor, Fields!EFI_ERROR_SECTION_DESCRIPTOR, Fields!HasMembers,
      Fields!Named
<1> QED
  BY <1>5, <1>6, SMTT(30) DEF o

LEMMA DescriptorSettles ==
  ASSUME NEW d, Fields!EFI_ERROR_SECTION_DESCRIPTOR(d), NEW text,
         1 \in d.SecValidMask => text < FruTextSize
  PROVE  LET r == Fields!DescriptorIR(d, text)
             o == Fields!DescriptorOf(r)
         IN  Fields!DescriptorIR(o, o.FruString) = r
<1> DEFINE r == Fields!DescriptorIR(d, text)
           o == Fields!DescriptorOf(r)
<1>1. /\ o.SectionOffset = d.SectionOffset /\ o.SectionLength = d.SectionLength
      /\ o.Revision = d.Revision
      /\ o.SecValidMask = Fields!Named(d.SecValidMask, 2)
      /\ o.SectionFlags = Fields!Named(d.SectionFlags, 8)
      /\ o.SectionType = d.SectionType /\ o.Severity = d.Severity
  BY ZenonT(60) DEF Fields!DescriptorIR, Fields!DescriptorOf, Fields!++
<1>2. 0 \in d.SecValidMask => o.FruId = d.FruId
  BY SMTT(40) DEF Fields!DescriptorIR, Fields!DescriptorOf, Fields!++, Fields!If, Fields!Get
<1>3. 1 \in d.SecValidMask => o.FruString = Fields!TextWritten(text, FruTextSize)
  BY DEF Fields!DescriptorIR, Fields!DescriptorOf, Fields!++, Fields!If, Fields!Get
<1>4. 1 \in d.SecValidMask => o.FruString = text
  BY <1>3 DEF Fields!TextWritten
<1>5. /\ Fields!Named(o.SecValidMask, 2) = Fields!Named(d.SecValidMask, 2)
      /\ Fields!Named(o.SectionFlags, 8) = Fields!Named(d.SectionFlags, 8)
      /\ \A b \in 0..1 : b \in o.SecValidMask <=> b \in d.SecValidMask
  BY <1>1 DEF Fields!Named
<1> HIDE DEF o
<1> QED
  BY <1>1, <1>2, <1>4, <1>5 DEF Fields!DescriptorIR, Fields!If, o

(***************************************************************************)
(* The inductive invariant of the structures of fixed size: the structure  *)
(* has its C type, its IR is the one of what it holds, and what was        *)
(* written is what that IR says, at the start of the output.  The IR is the*)
(* only state between the two conversions, so it is all there is to know.  *)
(***************************************************************************)
FieldsInv ==
  LET s == section[1].body IN
    /\ kind \in {"record", "descriptor"} =>
         /\ phase \in {"toIR", "toCper", "done"}
         /\ phase # "done" => out = <<>>
    /\ kind = "record" =>
         /\ section = Put(<<>>, "header", RecordHeaderSize, s)
         /\ Fields!EFI_COMMON_ERROR_RECORD_HEADER(s)
         /\ phase # "toIR" => ir = Fields!HeaderIR(s)
         /\ phase = "done" => out = Put(<<>>, "header", RecordHeaderSize, Fields!HeaderOf(ir))
    /\ kind = "descriptor" =>
         /\ section = Put(<<>>, "descriptor", SlotSize, s)
         /\ Fields!EFI_ERROR_SECTION_DESCRIPTOR(s)
         /\ phase # "toIR" =>
              \E text \in Fields!TextsRead(s.FruString, FruTextSize) :
                ir = Fields!DescriptorIR(s, text)
         /\ phase = "done" => out = Put(<<>>, "descriptor", SlotSize, Fields!DescriptorOf(ir))

(* A structure is put at the start of an empty output.                     *)
LEMMA FieldsPut ==
  ASSUME NEW name, NEW size, NEW s
  PROVE  /\ Fields!Put(<<>>, name, size, s) = Put(<<>>, name, size, s)
         /\ Put(<<>>, name, size, s)[1].body = s
         /\ Put(<<>>, name, size, s) # <<>>
BY DEF Fields!Put, Put, Fields!End, End

(* The given structures have their C type (StartsAssumption).              *)
LEMMA FieldsInvInit == Init => FieldsInv
<1> SUFFICES ASSUME Init, kind \in {"record", "descriptor"} PROVE FieldsInv
  BY DEF FieldsInv
<1>1. PICK start \in Starts :
        /\ kind = start.kind /\ section = start.section
        /\ phase = IF start.section = <<>> THEN "random"
                   ELSE IF start.kind \in {"arm", "ia32x64"} THEN "header"
                   ELSE "toIR"
  BY DEF Init
<1> QED
  BY <1>1, StartsAssumption, FieldsPut DEF FieldsInv, Init

(* The two conversions of each structure keep the invariant.               *)
LEMMA FieldsInvStep == FieldsInv /\ [Next]_vars => FieldsInv'
<1> SUFFICES ASSUME FieldsInv, [Next]_vars PROVE FieldsInv'
  OBVIOUS
<1>1. CASE kind \notin {"record", "descriptor"}
  <2>1. kind' = kind
    BY DEF Next, vars, converter, GenerateArm, GenerateX64, ConvertArm, ConvertX64,
           ConvertHeader, ConvertDescriptor, ConvertSection, Converted, SectionStep,
           Generate, ToIR, CrashOnNull, ToCper
  <2> QED
    BY <1>1, <2>1 DEF FieldsInv
<1>2. CASE kind \in {"record", "descriptor"} /\ ConvertHeader
  <2>1. kind = "record" /\ kind' = kind /\ section' = section
    BY <1>2 DEF ConvertHeader, Fields!HeaderToIR, Fields!HeaderToCper
  <2>2. CASE Fields!HeaderToIR
    BY <2>1, <2>2 DEF FieldsInv, Fields!HeaderToIR
  <2>3. CASE Fields!HeaderToCper
    BY <2>1, <2>3, FieldsPut DEF FieldsInv, Fields!HeaderToCper
  <2> QED
    BY <1>2, <2>2, <2>3 DEF ConvertHeader
<1>3. CASE kind \in {"record", "descriptor"} /\ ConvertDescriptor
  <2>1. kind = "descriptor" /\ kind' = kind /\ section' = section
    BY <1>3 DEF ConvertDescriptor, Fields!DescriptorToIR, Fields!DescriptorToCper
  <2>2. CASE Fields!DescriptorToIR
    BY <2>1, <2>2 DEF FieldsInv, Fields!DescriptorToIR
  <2>3. CASE Fields!DescriptorToCper
    BY <2>1, <2>3, FieldsPut DEF FieldsInv, Fields!DescriptorToCper
  <2> QED
    BY <1>3, <2>2, <2>3 DEF ConvertDescriptor
<1>4. CASE UNCHANGED vars
  BY <1>4 DEF vars, converter, FieldsInv
<1> QED
  BY <1>1, <1>2, <1>3, <1>4
  DEF Next, GenerateArm, GenerateX64, ConvertArm, ConvertX64, ConvertSection,
      SectionStep, SectionKinds, Converted

(* It holds in every state of every conversion.                            *)
THEOREM FieldsInvariant == Spec => []FieldsInv
BY FieldsInvInit, FieldsInvStep, PTL DEF Spec

(***************************************************************************)
(* RecordFieldsKept for every header and descriptor: cper_header_to_ir()   *)
(* and ir_header_to_cper(), cper_section_descriptor_to_ir() and            *)
(* ir_section_descriptor_to_cper() write what they read, if the IR has a   *)
(* place for all of it.                                                    *)
(***************************************************************************)
THEOREM KeepsRecordFields == Spec => []RecordFieldsKept
<1>1. FieldsInv => RecordFieldsKept
  <2> DEFINE s == section[1].body
  <2>1. ASSUME FieldsInv, kind = "record", phase = "done", Fields!PlainHeader(s)
        PROVE  out = section
    BY <2>1, HeaderInverse DEF FieldsInv
  <2>2. ASSUME FieldsInv, kind = "descriptor", phase = "done", Fields!PlainDescriptor(s)
        PROVE  out = section
    <3>1. s.FruString < FruTextSize
      BY <2>2, StructuresAssumption DEF FieldsInv, Fields!PlainDescriptor,
         Fields!EFI_ERROR_SECTION_DESCRIPTOR
    <3>2. ir = Fields!DescriptorIR(s, s.FruString)
      BY <2>2, <3>1 DEF FieldsInv, Fields!TextsRead
    <3> QED
      BY <2>2, <3>2, DescriptorInverse DEF FieldsInv
  <2> QED
    BY <2>1, <2>2 DEF RecordFieldsKept, Fields!HeaderKept, Fields!DescriptorKept
<1> QED
  BY <1>1, FieldsInvariant, PTL

(***************************************************************************)
(* RecordFieldsSettled for every header and descriptor, whatever is in     *)
(* them: what was written is read as the IR it was written from.           *)
(***************************************************************************)
THEOREM SettlesRecordFields == Spec => []RecordFieldsSettled
<1>1. FieldsInv => RecordFieldsSettled
  <2> DEFINE s == section[1].body
  <2>1. ASSUME FieldsInv, kind = "record", phase = "done",
               "timestamp" \in DOMAIN ir =>
                 \A p \in Fields!TimeParts : ir.timestamp[p] <= 99
        PROVE  Fields!HeaderIR(out[1].body) = ir
    <3>1. /\ ir = Fields!HeaderIR(s) /\ out[1].body = Fields!HeaderOf(ir)
          /\ Fields!EFI_COMMON_ERROR_RECORD_HEADER(s)
      BY <2>1, FieldsPut DEF FieldsInv
    <3>2. 1 \in s.ValidationBits =>
            \A p \in Fields!TimeParts : Fields!timestamp_to_string(s.TimeStamp)[p] <= 99
      BY <2>1, <3>1, HeaderRead
    <3> QED
      BY <3>1, <3>2, HeaderSettles
  <2>2. ASSUME FieldsInv, kind = "descriptor", phase = "done",
               Fields!Get(ir, "fruText", 0) < FruTextSize
        PROVE  Fields!DescriptorIR(out[1].body, out[1].body.FruString) = ir
    <3>1. PICK text :
            /\ ir = Fields!DescriptorIR(s, text) /\ out[1].body = Fields!DescriptorOf(ir)
            /\ Fields!EFI_ERROR_SECTION_DESCRIPTOR(s)
      BY <2>2, FieldsPut DEF FieldsInv
    <3>2. 1 \in s.SecValidMask => text < FruTextSize
      BY <2>2, <3>1, TextRead
    <3> QED
      BY <3>1, <3>2, DescriptorSettles
  <2> QED
    BY <2>1, <2>2 DEF RecordFieldsSettled, Fields!HeaderSettled, Fields!DescriptorSettled
<1> QED
  BY <1>1, FieldsInvariant, PTL

(***************************************************************************)
(* TimestampFits for every timestamp of decimal digits: its text, of       *)
(* timestamp_to_string() in cper-utils.c, is no longer than the buffer of  *)
(* TIMESTAMP_LENGTH bytes.                                                 *)
(***************************************************************************)
THEOREM FitsTimestamp == Spec => []TimestampFits
<1>1. FieldsInv => TimestampFits
  <2> SUFFICES ASSUME FieldsInv, kind = "record", phase = "toCper",
                      "timestamp" \in DOMAIN ir,
                      Fields!Decimal(section[1].body.TimeStamp)
               PROVE  Fields!TimestampLength(ir.timestamp) <= Fields!TIMESTAMP_LENGTH
    BY DEF TimestampFits, Fields!TimestampFits
  <2> DEFINE s == section[1].body
  <2>1. ir = Fields!HeaderIR(s) /\ Fields!EFI_COMMON_ERROR_RECORD_HEADER(s)
    BY DEF FieldsInv
  <2>2. ir.timestamp = Fields!timestamp_to_string(s.TimeStamp)
    BY <2>1, HeaderRead
  <2>3. s.TimeStamp \in Fields!EFI_ERROR_TIME_STAMP
    BY <2>1 DEF Fields!EFI_COMMON_ERROR_RECORD_HEADER
  <2>4. \A p \in Fields!TimeParts : ir.timestamp[p] \in 0..99
    BY <2>2, <2>3, TimestampKept
  <2> QED
    BY <2>4, TimestampLengthFits
<1> QED
  BY <1>1, FieldsInvariant, PTL
----------------------------------------------------------------------------
(* ArmSection has its own instance of the operators of SectionParts.       *)
LEMMA ArmCopies ==
  /\ \A parts : Arm!End(parts) = End(parts)
  /\ \A parts, name, size, body : Arm!Put(parts, name, size, body) = Put(parts, name, size, body)
  /\ \A parts, name, p, residues :
       Arm!ReadAt(parts, name, p, residues) = ReadAt(parts, name, p, residues)
  /\ \A parts : Arm!Counted(parts) <=> Counted(parts)
  /\ \A parts, k : Arm!InfoAt(parts, k) = InfoAt(parts, k)
  /\ \A parts, k : Arm!ContextAt(parts, k) = ContextAt(parts, k)
  /\ \A parts, others : Arm!SameLayout(parts, others) <=> SameLayout(parts, others)
  /\ \A parts, a, b, c :
       Arm!IsProcessorSection(parts, a, b, c) <=> IsProcessorSection(parts, a, b, c)
<1>1. \A parts : Arm!End(parts) = End(parts)
  BY DEF Arm!End, End
<1>2. \A parts, name, size, body :
        Arm!Put(parts, name, size, body) = Put(parts, name, size, body)
  BY <1>1 DEF Arm!Put, Put
<1>3. \A parts, name, p, residues :
        Arm!ReadAt(parts, name, p, residues) = ReadAt(parts, name, p, residues)
  BY DEF Arm!ReadAt, ReadAt
<1>4. \A parts : Arm!Counted(parts) <=> Counted(parts)
  BY DEF Arm!Counted, Counted
<1>5. \A parts, k : Arm!InfoAt(parts, k) = InfoAt(parts, k)
  BY DEF Arm!InfoAt, InfoAt
<1>6. \A parts, k : Arm!ContextAt(parts, k) = ContextAt(parts, k)
  BY DEF Arm!ContextAt, ContextAt
<1>7. \A parts, others : Arm!SameLayout(parts, others) <=> SameLayout(parts, others)
  BY DEF Arm!SameLayout, SameLayout
<1>8. \A parts, a, b, c :
        Arm!IsProcessorSection(parts, a, b, c) <=> IsProcessorSection(parts, a, b, c)
  BY DEF Arm!IsProcessorSection, IsProcessorSection, Arm!Contiguous, Contiguous
<1> QED
  BY <1>1, <1>2, <1>3, <1>4, <1>5, <1>6, <1>7, <1>8

(* So has ArmGenerator.                                                    *)
LEMMA ArmGenCopies ==
  /\ \A structures : ArmGen!Ends(structures) = Ends(structures)
  /\ \A structures : ArmGen!Laid(structures) = Laid(structures)
  /\ \A infos, contexts, a, b, vendor :
       ArmGen!Behind(infos, contexts, a, b, vendor) = Behind(infos, contexts, a, b, vendor)
  /\ \A parts, name, size, body :
       ArmGen!Put(parts, name, size, body) = Put(parts, name, size, body)
<1>1. \A structures : ArmGen!Ends(structures) = Ends(structures)
  BY DEF ArmGen!Ends, Ends
<1>2. \A structures : ArmGen!Laid(structures) = Laid(structures)
  BY <1>1 DEF ArmGen!Laid, Laid
<1>3. \A infos, contexts, a, b, vendor :
        ArmGen!Behind(infos, contexts, a, b, vendor) = Behind(infos, contexts, a, b, vendor)
  BY DEF ArmGen!Behind, Behind
<1>4. \A parts, name, size, body :
        ArmGen!Put(parts, name, size, body) = Put(parts, name, size, body)
  BY DEF ArmGen!Put, Put, ArmGen!End, End
<1> QED
  BY <1>1, <1>2, <1>3, <1>4
----------------------------------------------------------------------------
(* The IR that cper_section_arm_to_ir() makes of a section, but for its    *)
(* entries and the vendor specific information.                            *)
ArmIROf(made, header, infos, contexts, vendor) ==
  [made |-> made, valid |-> header.valid \intersect 0..3,
   infoNum |-> header.infoNum, contextNum |-> header.contextNum,
   length |-> header.length, running |-> header.running,
   psci |-> IF header.top THEN Arm!NoPsci ELSE header.psci,
   infos |-> infos, contexts |-> contexts, vendor |-> vendor]

ArmIRWith(parts, infos, contexts, vendor) ==
  ArmIROf(TRUE, parts[1].body, infos, contexts, vendor)

ArmIR(parts, r) ==
  /\ r = ArmIRWith(parts, r.infos, r.contexts, r.vendor)
  /\ \E S : r.infos \in Seq(S)
  /\ \E S : r.contexts \in Seq(S)

(* The fields of such an IR, and what setting one of them makes of it.     *)
ArmFieldsOf(parts, r, infos, contexts, vendor) ==
  /\ r.made /\ r.infos = infos /\ r.contexts = contexts /\ r.vendor = vendor
  /\ r.infoNum = parts[1].body.infoNum
  /\ r.contextNum = parts[1].body.contextNum
  /\ r.length = parts[1].body.length

LEMMA ArmIRFields ==
  ASSUME NEW parts, NEW infos, NEW contexts, NEW vendor
  PROVE  ArmFieldsOf(parts, ArmIRWith(parts, infos, contexts, vendor), infos, contexts, vendor)
BY DEF ArmIRWith, ArmIROf, ArmFieldsOf

WithInfos(r, x) == [r EXCEPT !.infos = x]
WithContexts(r, x) == [r EXCEPT !.contexts = x]
WithVendor(r, x) == [r EXCEPT !.vendor = x]

LEMMA ArmIRExcept ==
  ASSUME NEW parts, NEW r, ArmIR(parts, r), NEW x
  PROVE  /\ WithInfos(r, x) = ArmIRWith(parts, x, r.contexts, r.vendor)
         /\ WithContexts(r, x) = ArmIRWith(parts, r.infos, x, r.vendor)
         /\ WithVendor(r, x) = ArmIRWith(parts, r.infos, r.contexts, x)
<1>1. ASSUME NEW made, NEW header, NEW infos, NEW contexts, NEW vendor
      PROVE  /\ WithInfos(ArmIROf(made, header, infos, contexts, vendor), x)
                   = ArmIROf(made, header, x, contexts, vendor)
             /\ WithContexts(ArmIROf(made, header, infos, contexts, vendor), x)
                   = ArmIROf(made, header, infos, x, vendor)
             /\ WithVendor(ArmIROf(made, header, infos, contexts, vendor), x)
                   = ArmIROf(made, header, infos, contexts, x)
  BY DEF ArmIROf, WithInfos, WithContexts, WithVendor
<1>2. ASSUME NEW infos, NEW contexts, NEW vendor, r = ArmIRWith(parts, infos, contexts, vendor)
      PROVE  /\ WithInfos(r, x) = ArmIRWith(parts, x, contexts, vendor)
             /\ WithContexts(r, x) = ArmIRWith(parts, infos, x, vendor)
             /\ WithVendor(r, x) = ArmIRWith(parts, infos, contexts, x)
  <2>1. PICK yes, header : yes = TRUE /\ header = parts[1].body
    OBVIOUS
  <2>2. \A a, b, c : ArmIRWith(parts, a, b, c) = ArmIROf(yes, header, a, b, c)
    BY <2>1 DEF ArmIRWith
  <2> HIDE <2>1
  <2> QED
    BY <1>1, <1>2, <2>2
<1>3. r = ArmIRWith(parts, r.infos, r.contexts, r.vendor)
  BY DEF ArmIR
<1> QED
  BY <1>2, <1>3

(* The entries are those of the structures, if the section counts them and *)
(* no context is null.                                                     *)
ArmInfosRead(parts, r) ==
  Counted(parts) =>
    \A k \in 1..Len(r.infos) : r.infos[k] = Arm!InfoIR(InfoAt(parts, k).body)

NoContextNull(r) == \A k \in 1..Len(r.contexts) : r.contexts[k] # Arm!NullContext

ArmContextsRead(parts, r) ==
  Counted(parts) /\ NoContextNull(r) =>
    \A k \in 1..Len(r.contexts) :
      LET context == ContextAt(parts, k).body
      IN  r.contexts[k] = [type |-> context.type, size |-> context.size,
                           registers |-> "stack"]

(* m error information structures, then m contexts have been read; the     *)
(* position is p.                                                          *)
ArmInfosSoFar(parts, r, m, p) ==
  /\ ArmIR(parts, r) /\ ArmInfosRead(parts, r)
  /\ m \in 0..r.infoNum /\ Len(r.infos) = m /\ r.contexts = <<>>
  /\ r.vendor = Arm!NoVendorInfo
  /\ Counted(parts) => p = StartAt(parts, 2 + m)
  /\ r.infoNum = 0 => p = ArmHeaderSize

ArmContextsSoFar(parts, r, m, p) ==
  /\ ArmIR(parts, r) /\ ArmInfosRead(parts, r) /\ ArmContextsRead(parts, r)
  /\ m \in 0..r.contextNum /\ Len(r.infos) = r.infoNum /\ Len(r.contexts) = m
  /\ r.vendor = Arm!NoVendorInfo
  /\ Counted(parts) /\ NoContextNull(r) => p = StartAt(parts, 2 + r.infoNum + 2 * m)
  /\ r.infoNum = 0 /\ m = 0 => p = ArmHeaderSize

(* The section has been read.                                              *)
ArmRead(parts, r) ==
  /\ ArmIR(parts, r) /\ ArmInfosRead(parts, r) /\ ArmContextsRead(parts, r)
  /\ Len(r.infos) = r.infoNum /\ Len(r.contexts) = r.contextNum
  /\ Counted(parts) /\ NoContextNull(r) =>
       r.vendor = IF parts[Len(parts)].kind = "vendor" THEN parts[Len(parts)].size
                                                       ELSE Arm!NoVendorInfo
  /\ r.infoNum = 0 /\ r.contextNum = 0 =>
       r.vendor = IF ArmHeaderSize < r.length THEN r.length - ArmHeaderSize
                                              ELSE Arm!NoVendorInfo

(* An ARM section whose header counts what follows it.                     *)
LEMMA ArmCounts ==
  ASSUME NEW parts, Arm!IsArmSection(parts)
  PROVE  /\ Len(parts) \in Nat \ {0} /\ Contiguous(parts)
         /\ parts[1].body \in Arm!EFI_ARM_ERROR_RECORD
         /\ parts[1].body.infoNum \in Nat /\ parts[1].body.contextNum \in Nat
         /\ parts[1].body.length = End(parts)
         /\ End(parts) \in Nat /\ ArmHeaderSize <= End(parts)
         /\ parts[1].kind = "header" /\ parts[1].size = ArmHeaderSize
         /\ parts[1].start = 0
         /\ Counted(parts) =>
              SectionCounts(parts, ArmHeaderSize, ArmInfoSize, ArmContextSize,
                            parts[1].body.infoNum, parts[1].body.contextNum)
<1>1. /\ IsProcessorSection(parts, ArmHeaderSize, ArmInfoSize, ArmContextSize)
      /\ parts[1].body \in Arm!EFI_ARM_ERROR_RECORD
      /\ parts[1].body.length = End(parts)
  BY ArmCopies DEF Arm!IsArmSection
<1>2. \A k \in 2..Len(parts) : parts[k].kind = "context" => parts[k].body.size \in Nat
  BY DEF Arm!IsArmSection, Arm!EFI_ARM_CONTEXT_INFORMATION_HEADER
<1>3. parts[1].body.infoNum \in Nat /\ parts[1].body.contextNum \in Nat
  BY <1>1 DEF Arm!EFI_ARM_ERROR_RECORD
<1>4. /\ ArmHeaderSize \in Nat \ {0} /\ ArmInfoSize \in Nat \ {0} /\ ArmContextSize \in Nat \ {0}
  BY StructuresAssumption
<1>5. /\ Len(parts) \in Nat \ {0} /\ Contiguous(parts)
      /\ parts[1].kind = "header" /\ parts[1].size = ArmHeaderSize
  BY <1>1 DEF IsProcessorSection
<1>6. /\ parts[1].start = 0
      /\ \A k \in 1..Len(parts) : parts[k].start \in Nat /\ parts[k].size \in Nat
  <2>1. parts[1].start = 0 /\ \A k \in 1..Len(parts) : parts[k].size \in Nat
    BY <1>1, <1>2, <1>4, ProcessorSectionShape
  <2>2. \A k \in 1..Len(parts) : parts[k].start \in Nat
    BY <1>5, <2>1, StartsOrdered
  <2> QED
    BY <2>1, <2>2
<1>7. End(parts) \in Nat /\ ArmHeaderSize <= End(parts)
  <2>1. /\ End(parts) = parts[Len(parts)].start + parts[Len(parts)].size
        /\ \A j, k \in 1..Len(parts) :
             j < k => parts[j].start + parts[j].size <= parts[k].start
    BY <1>5, <1>6, StartsOrdered
  <2>2. Len(parts) \in 1..Len(parts) /\ 1 \in 1..Len(parts)
        /\ (Len(parts) = 1 \/ 1 < Len(parts))
    BY <1>5, SMTT(30)
  <2>3. parts[Len(parts)].start \in Nat /\ parts[Len(parts)].size \in Nat
    BY <1>6, <2>2
  <2>4. Len(parts) = 1 \/ ArmHeaderSize <= parts[Len(parts)].start
    BY <2>1, <2>2, <1>4, <1>5, <1>6
  <2> QED
    BY <2>1, <2>3, <2>4, <1>4, <1>5
<1> QED
  BY <1>1, <1>2, <1>3, <1>4, <1>5, <1>6, <1>7 DEF SectionCounts

(* Reading the header makes such an IR (cper-section-arm.c:46).            *)
LEMMA ArmHeaderIsRead ==
  ASSUME NEW parts, Arm!IsArmSection(parts), NEW r,
         r = ArmIRWith(parts, <<>>, <<>>, Arm!NoVendorInfo)
  PROVE  ArmInfosSoFar(parts, r, 0, ArmHeaderSize)
<1>1. r.infos = <<>> /\ r.contexts = <<>> /\ r.vendor = Arm!NoVendorInfo
      /\ r.infoNum = parts[1].body.infoNum
  BY ArmIRFields DEF ArmFieldsOf
<1>2. <<>> \in Seq({}) /\ Len(<<>>) = 0
  OBVIOUS
<1>3. ArmIR(parts, r)
  BY <1>1, <1>2 DEF ArmIR
<1>4. ArmInfosRead(parts, r)
  BY <1>1, <1>2 DEF ArmInfosRead
<1>5. Counted(parts) => ArmHeaderSize = StartAt(parts, 2 + 0)
  BY ArmCounts, WalkEnd
<1>6. 0 \in 0..r.infoNum
  BY <1>1, ArmCounts
<1> QED
  BY <1>1, <1>2, <1>3, <1>4, <1>5, <1>6 DEF ArmInfosSoFar

(* Reading an error information structure adds its entry.                  *)
LEMMA ArmInfoIsRead ==
  ASSUME NEW parts, Arm!IsArmSection(parts), NEW r, NEW m, NEW p,
         ArmInfosSoFar(parts, r, m, p), m < r.infoNum,
         NEW info \in ReadAt(parts, "info", p, {}),
         NEW q, q = WithInfos(r, Append(r.infos, Arm!InfoIR(info)))
  PROVE  ArmInfosSoFar(parts, q, m + 1, p + ArmInfoSize)
<1>1. /\ ArmIR(parts, r) /\ ArmInfosRead(parts, r)
      /\ m \in 0..r.infoNum /\ Len(r.infos) = m /\ r.contexts = <<>>
      /\ r.vendor = Arm!NoVendorInfo
      /\ Counted(parts) => p = StartAt(parts, 2 + m)
  BY DEF ArmInfosSoFar
<1>2. /\ r = ArmIRWith(parts, r.infos, r.contexts, r.vendor)
      /\ \E S : r.infos \in Seq(S)
      /\ \E S : r.contexts \in Seq(S)
  BY <1>1 DEF ArmIR
<1>3. /\ q = ArmIRWith(parts, q.infos, q.contexts, q.vendor)
      /\ q.infos = Append(r.infos, Arm!InfoIR(info)) /\ q.contexts = r.contexts
      /\ q.vendor = r.vendor /\ q.infoNum = r.infoNum
  <2>1. q = ArmIRWith(parts, Append(r.infos, Arm!InfoIR(info)), r.contexts, r.vendor)
    BY <1>1, ArmIRExcept
  <2>2. ArmFieldsOf(parts, q, Append(r.infos, Arm!InfoIR(info)), r.contexts, r.vendor)
    BY <2>1, ArmIRFields
  <2>3. ArmFieldsOf(parts, r, r.infos, r.contexts, r.vendor)
    BY <1>2, ArmIRFields
  <2> QED
    BY <2>1, <2>2, <2>3 DEF ArmFieldsOf
<1>4. Longer(q.infos, r.infos, Arm!InfoIR(info)) /\ m \in Nat
  BY <1>1, <1>2, <1>3, AppendLonger
<1>40. /\ \E S : q.infos \in Seq(S)
       /\ Len(q.infos) = m + 1 /\ m \in Nat
       /\ \A k \in 1..m : q.infos[k] = r.infos[k]
       /\ q.infos[m + 1] = Arm!InfoIR(info)
  BY <1>1, <1>4 DEF Longer
<1>5. r.infoNum = parts[1].body.infoNum /\ r.infoNum \in Nat
  BY <1>2, ArmCounts, ArmIRFields DEF ArmFieldsOf
<1>6. ASSUME Counted(parts)
      PROVE  /\ info = InfoAt(parts, m + 1).body
             /\ p + ArmInfoSize = StartAt(parts, 2 + (m + 1))
  <2>1. PICK i \in Nat, c \in Nat :
          SectionCounts(parts, ArmHeaderSize, ArmInfoSize, ArmContextSize, i, c)
          /\ i = r.infoNum
    BY <1>5, <1>6, ArmCounts
  <2>2. m \in Nat /\ m < i
    BY <2>1, <1>4
  <2>3. InfoMet(parts, ArmInfoSize, i, m)
    BY <2>1, <2>2, InfoWalk
  <2>4. /\ ReadAt(parts, "info", StartAt(parts, 2 + m), {}) = {InfoAt(parts, m + 1).body}
        /\ StartAt(parts, 2 + m) + ArmInfoSize = StartAt(parts, 2 + (m + 1))
    BY <2>3 DEF InfoMet
  <2> QED
    BY <2>4, <1>1, <1>6
<1>7. ArmIR(parts, q)
  BY <1>2, <1>3, <1>40 DEF ArmIR
<1>8. ArmInfosRead(parts, q)
  <2> SUFFICES ASSUME Counted(parts), NEW k \in 1..m + 1
               PROVE  q.infos[k] = Arm!InfoIR(InfoAt(parts, k).body)
    BY <1>40 DEF ArmInfosRead
  <2>1. CASE k = m + 1
    BY <2>1, <1>40, <1>6
  <2>2. CASE k # m + 1
    <3>1. k \in 1..m
      BY <2>2, <1>40
    <3> QED
      BY <3>1, <1>1, <1>40 DEF ArmInfosRead
  <2> QED
    BY <2>1, <2>2
<1>9. m + 1 \in 0..q.infoNum /\ q.infoNum # 0
  BY <1>3, <1>40, <1>5
<1> QED
  BY <1>1, <1>3, <1>40, <1>6, <1>7, <1>8, <1>9 DEF ArmInfosSoFar

(* All of them read, the contexts are next.                                *)
LEMMA ArmInfosAreRead ==
  ASSUME NEW parts, NEW r, NEW m, NEW p, ArmInfosSoFar(parts, r, m, p), m = r.infoNum,
         Arm!IsArmSection(parts)
  PROVE  ArmContextsSoFar(parts, r, 0, p)
<1>1. /\ ArmIR(parts, r) /\ ArmInfosRead(parts, r)
      /\ Len(r.infos) = m /\ r.contexts = <<>>
      /\ r.vendor = Arm!NoVendorInfo
      /\ Counted(parts) => p = StartAt(parts, 2 + m)
      /\ r.infoNum = 0 => p = ArmHeaderSize
  BY DEF ArmInfosSoFar
<1>2. r.infoNum = parts[1].body.infoNum /\ r.contextNum = parts[1].body.contextNum
  BY <1>1, ArmIRFields DEF ArmIR, ArmFieldsOf
<1>3. r.infoNum \in Nat /\ r.contextNum \in Nat /\ 0 \in 0..r.contextNum
  BY <1>2, ArmCounts
<1>4. 2 + r.infoNum + 2 * 0 = 2 + m
  BY <1>3
<1>5. ArmContextsRead(parts, r) /\ Len(r.contexts) = 0
  BY <1>1 DEF ArmContextsRead
<1> QED
  BY <1>1, <1>3, <1>4, <1>5 DEF ArmContextsSoFar

(* The entry of a context that was encoded.                                *)
ContextEntry(context) ==
  [type |-> context.type, size |-> context.size, registers |-> "stack"]

(* Whatever the entry of a context is, it is added behind the others.      *)
LEMMA ArmContextEntryIsRead ==
  ASSUME NEW parts, Arm!IsArmSection(parts), NEW r, NEW m, NEW p, NEW s, NEW entry,
         ArmContextsSoFar(parts, r, m, p), m < r.contextNum,
         NEW q, q = WithContexts(r, Append(r.contexts, entry)),
         Counted(parts) /\ NoContextNull(r) /\ entry # Arm!NullContext =>
           /\ entry = ContextEntry(ContextAt(parts, m + 1).body)
           /\ s = StartAt(parts, 2 + r.infoNum + 2 * (m + 1))
  PROVE  ArmContextsSoFar(parts, q, m + 1, s)
<1>1. /\ ArmIR(parts, r) /\ ArmInfosRead(parts, r) /\ ArmContextsRead(parts, r)
      /\ m \in 0..r.contextNum /\ Len(r.infos) = r.infoNum /\ Len(r.contexts) = m
      /\ r.vendor = Arm!NoVendorInfo
  BY DEF ArmContextsSoFar
<1>2. /\ r = ArmIRWith(parts, r.infos, r.contexts, r.vendor)
      /\ \E S : r.infos \in Seq(S)
      /\ \E S : r.contexts \in Seq(S)
  BY <1>1 DEF ArmIR
<1>3. /\ q = ArmIRWith(parts, q.infos, q.contexts, q.vendor)
      /\ q.infos = r.infos /\ q.contexts = Append(r.contexts, entry)
      /\ q.vendor = r.vendor /\ q.infoNum = r.infoNum /\ q.contextNum = r.contextNum
  <2>1. q = ArmIRWith(parts, r.infos, Append(r.contexts, entry), r.vendor)
    BY <1>1, ArmIRExcept
  <2>2. ArmFieldsOf(parts, q, r.infos, Append(r.contexts, entry), r.vendor)
    BY <2>1, ArmIRFields
  <2>3. ArmFieldsOf(parts, r, r.infos, r.contexts, r.vendor)
    BY <1>2, ArmIRFields
  <2> QED
    BY <2>1, <2>2, <2>3 DEF ArmFieldsOf
<1>4. /\ \E S : q.contexts \in Seq(S)
      /\ Len(q.contexts) = m + 1 /\ m \in Nat
      /\ \A k \in 1..m : q.contexts[k] = r.contexts[k]
      /\ q.contexts[m + 1] = entry
  <2>1. Longer(q.contexts, r.contexts, entry) /\ m \in Nat
    BY <1>1, <1>2, <1>3, AppendLonger
  <2> QED
    BY <1>1, <2>1 DEF Longer
<1>5. r.contextNum = parts[1].body.contextNum /\ r.contextNum \in Nat
  BY <1>2, ArmCounts, ArmIRFields DEF ArmFieldsOf
<1>6. NoContextNull(q) => NoContextNull(r) /\ entry # Arm!NullContext
  <2> SUFFICES ASSUME \A k \in 1..m + 1 : q.contexts[k] # Arm!NullContext
               PROVE  /\ \A k \in 1..m : r.contexts[k] # Arm!NullContext
                      /\ entry # Arm!NullContext
    BY <1>1, <1>4 DEF NoContextNull
  <2>1. m + 1 \in 1..m + 1 /\ \A k \in 1..m : k \in 1..m + 1
    BY <1>4
  <2> QED
    BY <2>1, <1>4
<1>7. ArmIR(parts, q)
  BY <1>2, <1>3, <1>4 DEF ArmIR
<1>8. ArmInfosRead(parts, q)
  BY <1>1, <1>3 DEF ArmInfosRead
<1>9. ArmContextsRead(parts, q)
  <2> SUFFICES ASSUME Counted(parts), NoContextNull(q), NEW k \in 1..m + 1
               PROVE  q.contexts[k] = ContextEntry(ContextAt(parts, k).body)
    BY <1>4 DEF ArmContextsRead, ContextEntry
  <2>1. NoContextNull(r) /\ entry = ContextEntry(ContextAt(parts, m + 1).body)
    BY <1>6
  <2>2. CASE k = m + 1
    BY <2>1, <2>2, <1>4
  <2>3. CASE k # m + 1
    <3>1. k \in 1..m
      BY <2>3, <1>4
    <3> QED
      BY <2>1, <3>1, <1>1, <1>4 DEF ArmContextsRead, ContextEntry
  <2> QED
    BY <2>2, <2>3
<1>10. m + 1 \in 0..q.contextNum /\ m + 1 # 0
  BY <1>3, <1>4, <1>5
<1> QED
  BY <1>1, <1>3, <1>4, <1>6, <1>7, <1>8, <1>9, <1>10 DEF ArmContextsSoFar

(* Reading a context adds its entry and moves behind its registers.        *)
LEMMA ArmContextIsRead ==
  ASSUME NEW parts, Arm!IsArmSection(parts), NEW r, NEW m, NEW p,
         ArmContextsSoFar(parts, r, m, p), m < r.contextNum,
         NEW context \in ReadAt(parts, "context", p, ArmContextResidue),
         NEW q, q = WithContexts(r, Append(r.contexts, ContextEntry(context)))
  PROVE  ArmContextsSoFar(parts, q, m + 1, p + ArmContextSize + context.size)
<1>1. /\ ArmIR(parts, r) /\ m \in 0..r.contextNum
      /\ Counted(parts) /\ NoContextNull(r) => p = StartAt(parts, 2 + r.infoNum + 2 * m)
  BY DEF ArmContextsSoFar
<1>2. /\ r.infoNum = parts[1].body.infoNum /\ r.infoNum \in Nat
      /\ r.contextNum = parts[1].body.contextNum /\ r.contextNum \in Nat
  BY <1>1, ArmCounts, ArmIRFields DEF ArmIR, ArmFieldsOf
<1>3. ASSUME Counted(parts), NoContextNull(r)
      PROVE  /\ context = ContextAt(parts, m + 1).body
             /\ p + ArmContextSize + context.size
                  = StartAt(parts, 2 + r.infoNum + 2 * (m + 1))
  <2>1. PICK i \in Nat, c \in Nat :
          /\ SectionCounts(parts, ArmHeaderSize, ArmInfoSize, ArmContextSize, i, c)
          /\ i = r.infoNum /\ c = r.contextNum
    BY <1>2, <1>3, ArmCounts
  <2>2. m \in Nat /\ m < c
    BY <2>1, <1>1, <1>2
  <2>3. ContextMet(parts, ArmContextSize, i, c, m)
    BY <2>1, <2>2, ContextWalk
  <2>4. /\ ReadAt(parts, "context", StartAt(parts, 2 + i + 2 * m), ArmContextResidue)
              = {ContextAt(parts, m + 1).body}
        /\ StartAt(parts, 2 + i + 2 * m) + ArmContextSize + ContextAt(parts, m + 1).body.size
              = StartAt(parts, 2 + i + 2 * (m + 1))
    BY <2>3 DEF ContextMet
  <2>5. p = StartAt(parts, 2 + i + 2 * m)
    BY <1>1, <1>3, <2>1
  <2>6. context = ContextAt(parts, m + 1).body
    BY <2>4, <2>5
  <2> QED
    BY <2>1, <2>4, <2>5, <2>6
<1> QED
  BY <1>3, ArmContextEntryIsRead

(* A context whose registers cannot be encoded adds a null.                *)
LEMMA ArmContextIsNotEncoded ==
  ASSUME NEW parts, Arm!IsArmSection(parts), NEW r, NEW m, NEW p,
         ArmContextsSoFar(parts, r, m, p), m < r.contextNum,
         NEW q, q = WithContexts(r, Append(r.contexts, Arm!NullContext)), NEW s
  PROVE  ArmContextsSoFar(parts, q, m + 1, s)
BY ArmContextEntryIsRead

(* The vendor specific information is what is left.                        *)
LEMMA ArmVendorIsRead ==
  ASSUME NEW parts, Arm!IsArmSection(parts), NEW r, NEW m, NEW p,
         ArmContextsSoFar(parts, r, m, p), m = r.contextNum,
         NEW q, q = IF p < r.length THEN WithVendor(r, r.length - p) ELSE r
  PROVE  ArmRead(parts, q)
<1>1. /\ ArmIR(parts, r) /\ ArmInfosRead(parts, r) /\ ArmContextsRead(parts, r)
      /\ Len(r.infos) = r.infoNum /\ Len(r.contexts) = m
      /\ r.vendor = Arm!NoVendorInfo
      /\ Counted(parts) /\ NoContextNull(r) => p = StartAt(parts, 2 + r.infoNum + 2 * m)
      /\ r.infoNum = 0 /\ m = 0 => p = ArmHeaderSize
  BY DEF ArmContextsSoFar
<1>2. /\ r = ArmIRWith(parts, r.infos, r.contexts, r.vendor)
      /\ \E S : r.infos \in Seq(S)
      /\ \E S : r.contexts \in Seq(S)
  BY <1>1 DEF ArmIR
<1>3. PICK v : q = ArmIRWith(parts, r.infos, r.contexts, v)
                /\ v = IF p < r.length THEN r.length - p ELSE Arm!NoVendorInfo
  <2>1. CASE p < r.length
    <3>1. WithVendor(r, r.length - p) = ArmIRWith(parts, r.infos, r.contexts, r.length - p)
      BY <1>1, ArmIRExcept
    <3> QED
      BY <2>1, <3>1
  <2>2. CASE ~(p < r.length)
    <3>1. q = ArmIRWith(parts, r.infos, r.contexts, Arm!NoVendorInfo)
      BY <1>1, <1>2, <2>2
    <3> QED
      BY <2>2, <3>1
  <2> QED
    BY <2>1, <2>2
<1>4. /\ q.infos = r.infos /\ q.contexts = r.contexts /\ q.vendor = v
      /\ q.infoNum = r.infoNum /\ q.contextNum = r.contextNum /\ q.length = r.length
  <2>1. ArmFieldsOf(parts, q, r.infos, r.contexts, v)
    BY <1>3, ArmIRFields
  <2>2. ArmFieldsOf(parts, r, r.infos, r.contexts, r.vendor)
    BY <1>2, ArmIRFields
  <2> QED
    BY <2>1, <2>2 DEF ArmFieldsOf
<1>5. /\ r.infoNum = parts[1].body.infoNum /\ r.infoNum \in Nat
      /\ r.contextNum = parts[1].body.contextNum /\ r.contextNum \in Nat
      /\ r.length = End(parts)
  BY <1>2, ArmCounts, ArmIRFields, SMTT(30) DEF ArmFieldsOf
<1>6. ArmIR(parts, q)
  BY <1>2, <1>3, <1>4 DEF ArmIR
<1>7. ArmInfosRead(parts, q)
  BY <1>1, <1>4 DEF ArmInfosRead
<1>8. /\ NoContextNull(q) <=> NoContextNull(r)
      /\ ArmContextsRead(parts, q)
  BY <1>1, <1>4 DEF ArmContextsRead, NoContextNull
<1>9. ASSUME Counted(parts), NoContextNull(q)
      PROVE  q.vendor = IF parts[Len(parts)].kind = "vendor" THEN parts[Len(parts)].size
                                                             ELSE Arm!NoVendorInfo
  <2>1. PICK i \in Nat, c \in Nat, rest \in Nat :
          /\ SectionCounts(parts, ArmHeaderSize, ArmInfoSize, ArmContextSize, i, c)
          /\ i = r.infoNum /\ c = r.contextNum /\ rest = 2 + i + 2 * c
    <3>1. 2 + r.infoNum + 2 * r.contextNum \in Nat
      BY <1>5
    <3> QED
      BY <3>1, <1>5, <1>9, ArmCounts
  <2>2. WalkEnds(parts, rest)
    BY <2>1, WalkEnd
  <2>3. p = StartAt(parts, rest)
    BY <1>1, <1>8, <1>9, <2>1
  <2>4. \/ /\ parts[Len(parts)].kind # "vendor" /\ p = r.length /\ p \in Nat
        \/ /\ parts[Len(parts)].kind = "vendor"
           /\ p \in Nat /\ parts[Len(parts)].size \in Nat \ {0}
           /\ r.length = p + parts[Len(parts)].size
    BY <2>2, <2>3, <1>5 DEF WalkEnds
  <2>5. parts[Len(parts)].kind # "vendor" => ~(p < r.length)
    BY <2>4
  <2> QED
    BY <2>4, <2>5, <1>3, <1>4
<1>10. ASSUME q.infoNum = 0, q.contextNum = 0
       PROVE  q.vendor = IF ArmHeaderSize < q.length THEN q.length - ArmHeaderSize
                                                     ELSE Arm!NoVendorInfo
  BY <1>1, <1>3, <1>4, <1>10
<1> QED
  BY <1>1, <1>4, <1>6, <1>7, <1>8, <1>9, <1>10 DEF ArmRead
----------------------------------------------------------------------------
(* What has been written: the header first; if the section counts its      *)
(* structures, the arrays are of the size of their structures and nothing  *)
(* was left out, everything in its place.                                  *)
ArmHeaderOf(r) ==
  [valid |-> r.valid, infoNum |-> r.infoNum, contextNum |-> r.contextNum,
   length |-> r.length, running |-> r.running, top |-> FALSE,
   psci |-> IF r.psci = Arm!NoPsci THEN 0 ELSE r.psci]

NothingLeftOut(o) ==
  \A k \in 1..Len(o) : o[k].kind = "registers" => o[k].body.of # "nothing"

Arrays(parts) ==
  \A k \in 1..Len(parts) :
    parts[k].kind = "context" /\ parts[k].body.type \in ArmRegisterTypes
      => parts[k].body.size = ArmRegisterSize[parts[k].body.type]

ArmOutput(r, o) ==
  /\ \E S : o \in Seq(S)
  /\ Len(o) \in Nat \ {0}
  /\ o[1] = [kind |-> "header", start |-> 0, size |-> ArmHeaderSize, body |-> ArmHeaderOf(r)]

Faithful(parts, r) == Counted(parts) /\ Arrays(parts) /\ NoContextNull(r)

ArmWriting(parts, r, o, len) ==
  /\ ArmOutput(r, o) /\ Len(o) = len
  /\ Faithful(parts, r) /\ NothingLeftOut(o) => InPlace(o, parts)

ArmDone(parts, r, o) ==
  /\ ArmOutput(r, o)
  /\ Faithful(parts, r) /\ NothingLeftOut(o) => InPlace(o, parts) /\ Len(o) = Len(parts)
  /\ r.infoNum = 0 /\ r.contextNum = 0 /\ NothingLeftOut(o) => End(o) = End(parts)

(* The header written from the IR is the first structure.                  *)
LEMMA ArmHeaderIsWritten ==
  ASSUME NEW parts, Arm!IsArmSection(parts), NEW r,
         NEW o, o = Put(<<>>, "header", ArmHeaderSize, ArmHeaderOf(r))
  PROVE  ArmWriting(parts, r, o, 1)
<1>2. /\ Len(o) = 1 /\ \E S : o \in Seq(S)
      /\ o[1] = [kind |-> "header", start |-> 0, size |-> ArmHeaderSize, body |-> ArmHeaderOf(r)]
  BY PutFirst
<1>3. /\ Len(parts) \in Nat \ {0} /\ parts[1].kind = "header" /\ parts[1].start = 0
      /\ parts[1].size = ArmHeaderSize
  BY ArmCounts
<1>4. o[1].kind = "header" /\ o[1].start = 0 /\ o[1].size = ArmHeaderSize
  BY <1>2
<1>5. InPlace(o, parts)
  <2>1. Len(o) = 1
    BY <1>2
  <2>2. Len(parts) \in Nat \ {0}
    BY <1>3
  <2>3. Len(o) <= Len(parts) /\ \A k \in 1..Len(o) : k = 1
    BY <2>1, <2>2
  <2> QED
    BY <2>3, <1>3, <1>4 DEF InPlace
<1> QED
  BY <1>2, <1>5 DEF ArmWriting, ArmOutput

(* Each structure written, if it is the section's next, is in place.       *)
LEMMA ArmPutInPlace ==
  ASSUME NEW parts, Contiguous(parts), NEW r, NEW o, NEW len, ArmWriting(parts, r, o, len),
         NEW name, NEW size, NEW body, NEW more, more = Put(o, name, size, body),
         Faithful(parts, r) /\ (name = "registers" => body.of # "nothing")
           => /\ len + 1 \in 1..Len(parts)
              /\ parts[len + 1].kind = name /\ parts[len + 1].size = size
  PROVE  ArmWriting(parts, r, more, len + 1)
<1>1. /\ \E S : o \in Seq(S)
      /\ Len(o) \in Nat \ {0} /\ Len(o) = len
      /\ o[1] = [kind |-> "header", start |-> 0, size |-> ArmHeaderSize, body |-> ArmHeaderOf(r)]
  BY DEF ArmWriting, ArmOutput
<1>2. /\ Len(more) = len + 1
      /\ \A k \in 1..len : more[k] = o[k]
      /\ more[len + 1] = [kind |-> name, start |-> End(o), size |-> size, body |-> body]
      /\ \E T : more \in Seq(T)
  BY <1>1, PutShape
<1>3. /\ Len(more) \in Nat \ {0} /\ 1 \in 1..len
      /\ \A k \in 1..len : k \in 1..Len(more)
      /\ len + 1 \in 1..Len(more)
  BY <1>1, <1>2
<1>4. ArmOutput(r, more)
  BY <1>1, <1>2, <1>3 DEF ArmOutput
<1>5. ASSUME Faithful(parts, r), NothingLeftOut(more)
      PROVE  InPlace(more, parts)
  <2>1. NothingLeftOut(o)
    BY <1>1, <1>2, <1>3, <1>5 DEF NothingLeftOut
  <2>2. InPlace(o, parts)
    BY <2>1, <1>5 DEF ArmWriting
  <2>3. name = "registers" => body.of # "nothing"
    <3>1. more[len + 1].kind = name /\ more[len + 1].body = body
      BY <1>2
    <3> QED
      BY <3>1, <1>3, <1>5 DEF NothingLeftOut
  <2>4. /\ len + 1 \in 1..Len(parts)
        /\ parts[len + 1].kind = name /\ parts[len + 1].size = size
    BY <2>3, <1>5
  <2>5. InPlace(Put(o, parts[len + 1].kind, parts[len + 1].size, body), parts)
    BY <1>1, <2>2, <2>4, PutInPlace
  <2> QED
    BY <2>4, <2>5
<1> QED
  BY <1>2, <1>4, <1>5 DEF ArmWriting

(* The counts of the IR are those of the section.                          *)
LEMMA ArmCounted ==
  ASSUME NEW parts, Arm!IsArmSection(parts), NEW r, ArmIR(parts, r)
  PROVE  /\ r.infoNum \in Nat /\ r.contextNum \in Nat /\ r.length = End(parts) /\ r.made
         /\ Contiguous(parts)
         /\ r.infoNum = parts[1].body.infoNum /\ r.contextNum = parts[1].body.contextNum
         /\ Counted(parts) =>
              SectionCounts(parts, ArmHeaderSize, ArmInfoSize, ArmContextSize,
                            r.infoNum, r.contextNum)
<1>1. ArmFieldsOf(parts, r, r.infos, r.contexts, r.vendor)
  BY ArmIRFields DEF ArmIR
<1>2. /\ r.made /\ r.infoNum = parts[1].body.infoNum
      /\ r.contextNum = parts[1].body.contextNum
      /\ r.length = parts[1].body.length
  BY <1>1 DEF ArmFieldsOf
<1> QED
  BY <1>2, ArmCounts

(* An error information structure is written where it was.                 *)
LEMMA ArmInfoIsWritten ==
  ASSUME NEW parts, Arm!IsArmSection(parts), NEW r, ArmRead(parts, r), NEW o,
         NEW m \in 0..r.infoNum, m < r.infoNum, ArmWriting(parts, r, o, 1 + m), NEW info
  PROVE  ArmWriting(parts, r, Put(o, "info", ArmInfoSize, info), 1 + (m + 1))
<1>1. ArmIR(parts, r)
  BY DEF ArmRead
<1>2. /\ r.infoNum \in Nat /\ r.contextNum \in Nat /\ Contiguous(parts)
      /\ Counted(parts) => SectionCounts(parts, ArmHeaderSize, ArmInfoSize, ArmContextSize,
                                         r.infoNum, r.contextNum)
  BY <1>1, ArmCounted
<1>3. m \in Nat /\ (1 + m) + 1 = 2 + m /\ 1 + (m + 1) = (1 + m) + 1
  BY <1>2
<1>4. ASSUME Counted(parts)
      PROVE  /\ (1 + m) + 1 \in 1..Len(parts)
             /\ parts[(1 + m) + 1].kind = "info" /\ parts[(1 + m) + 1].size = ArmInfoSize
  <2>1. InfoMet(parts, ArmInfoSize, r.infoNum, m)
    BY <1>2, <1>3, <1>4, InfoWalk
  <2>2. /\ 2 + m \in 2..Len(parts)
        /\ parts[2 + m].kind = "info" /\ parts[2 + m].size = ArmInfoSize
    BY <2>1 DEF InfoMet
  <2> QED
    BY <1>3, <2>2
<1>5. ArmWriting(parts, r, Put(o, "info", ArmInfoSize, info), (1 + m) + 1)
  BY <1>2, <1>4, ArmPutInPlace DEF Faithful
<1> QED
  BY <1>3, <1>5

(* Both structures of a context are written.                               *)
LEMMA ArmPairIsWritten ==
  ASSUME NEW parts, Arm!IsArmSection(parts), NEW r, ArmRead(parts, r), NEW o,
         NEW m \in 0..r.contextNum, m < r.contextNum,
         ArmWriting(parts, r, o, 1 + r.infoNum + 2 * m),
         NEW header, NEW size, NEW body,
         Faithful(parts, r) /\ body.of # "nothing" => size = ContextAt(parts, m + 1).body.size
  PROVE  ArmWriting(parts, r, Put(Put(o, "context", ArmContextSize, header), "registers", size, body),
                    1 + r.infoNum + 2 * (m + 1))
<1>1. ArmIR(parts, r)
  BY DEF ArmRead
<1>2. /\ r.infoNum \in Nat /\ r.contextNum \in Nat /\ Contiguous(parts)
      /\ Counted(parts) => SectionCounts(parts, ArmHeaderSize, ArmInfoSize, ArmContextSize,
                                         r.infoNum, r.contextNum)
  BY <1>1, ArmCounted
<1>3. PICK x \in Nat : x = 1 + r.infoNum + 2 * m
  BY <1>2
<1>4. /\ m \in Nat /\ x + 1 = 2 + r.infoNum + 2 * m /\ (x + 1) + 1 = 3 + r.infoNum + 2 * m
      /\ (x + 1) + 1 = 1 + r.infoNum + 2 * (m + 1)
  BY <1>2, <1>3
<1>5. ASSUME Counted(parts)
      PROVE  /\ x + 1 \in 1..Len(parts) /\ (x + 1) + 1 \in 1..Len(parts)
             /\ parts[x + 1].kind = "context" /\ parts[x + 1].size = ArmContextSize
             /\ parts[(x + 1) + 1].kind = "registers"
             /\ parts[(x + 1) + 1].size = ContextAt(parts, m + 1).body.size
  <2>1. ContextMet(parts, ArmContextSize, r.infoNum, r.contextNum, m)
    BY <1>2, <1>4, <1>5, ContextWalk
  <2>2. PICK i : i = r.infoNum /\ ContextMet(parts, ArmContextSize, i, r.contextNum, m)
    BY <2>1
  <2>3. /\ 2 + i + 2 * m \in 2..Len(parts) /\ 3 + i + 2 * m \in 2..Len(parts)
        /\ parts[2 + i + 2 * m].kind = "context" /\ parts[2 + i + 2 * m].size = ArmContextSize
        /\ parts[3 + i + 2 * m].kind = "registers"
        /\ parts[3 + i + 2 * m].size = ContextAt(parts, m + 1).body.size
    BY <2>2 DEF ContextMet
  <2> QED
    BY <1>4, <2>2, <2>3
<1>6. ArmWriting(parts, r, Put(o, "context", ArmContextSize, header), x + 1)
  BY <1>2, <1>3, <1>5, ArmPutInPlace DEF Faithful
<1>7. ArmWriting(parts, r, Put(Put(o, "context", ArmContextSize, header), "registers", size, body),
                 (x + 1) + 1)
  <2>1. Faithful(parts, r) /\ ("registers" = "registers" => body.of # "nothing")
          => /\ (x + 1) + 1 \in 1..Len(parts)
             /\ parts[(x + 1) + 1].kind = "registers" /\ parts[(x + 1) + 1].size = size
    BY <1>5 DEF Faithful
  <2> QED
    BY <1>2, <1>6, <2>1, ArmPutInPlace
<1> QED
  BY <1>4, <1>7

(* A context and its registers are written where they were.                *)
LEMMA ArmContextIsWritten ==
  ASSUME NEW parts, Arm!IsArmSection(parts), NEW r, ArmRead(parts, r), NEW o,
         NEW m \in 0..r.contextNum, m < r.contextNum,
         ArmWriting(parts, r, o, 1 + r.infoNum + 2 * m), NEW header,
         NEW registers, registers = Arm!RegistersWritten(r.contexts[m + 1]), NEW body
  PROVE  ArmWriting(parts, r, Put(Put(o, "context", ArmContextSize, header), "registers",
                                  registers.size, body),
                    1 + r.infoNum + 2 * (m + 1))
<1>1. ArmIR(parts, r) /\ ArmContextsRead(parts, r) /\ Len(r.contexts) = r.contextNum
  BY DEF ArmRead
<1>2. /\ r.infoNum \in Nat /\ r.contextNum \in Nat
      /\ Counted(parts) => SectionCounts(parts, ArmHeaderSize, ArmInfoSize, ArmContextSize,
                                         r.infoNum, r.contextNum)
  BY <1>1, ArmCounted
<1>3. m + 1 \in 1..Len(r.contexts) /\ m \in Nat
  BY <1>1, <1>2
<1>4. ASSUME Faithful(parts, r)
      PROVE  registers.size = ContextAt(parts, m + 1).body.size
  <2>1. Counted(parts) /\ Arrays(parts) /\ NoContextNull(r)
    BY <1>4 DEF Faithful
  <2>2. PICK context : context = ContextAt(parts, m + 1).body
    OBVIOUS
  <2>3. r.contexts[m + 1] # Arm!NullContext /\ r.contexts[m + 1] = ContextEntry(context)
    BY <1>1, <1>3, <2>1, <2>2 DEF NoContextNull, ArmContextsRead, ContextEntry
  <2>4. context.type \in ArmRegisterTypes => context.size = ArmRegisterSize[context.type]
    <3>1. ContextMet(parts, ArmContextSize, r.infoNum, r.contextNum, m)
      BY <1>2, <1>3, <2>1, ContextWalk
    <3>2. PICK x \in 1..Len(parts) : parts[x].kind = "context" /\ parts[x].body = context
      <4>1. /\ 2 + r.infoNum + 2 * m \in 2..Len(parts)
            /\ ContextAt(parts, m + 1) = parts[2 + r.infoNum + 2 * m]
            /\ ContextAt(parts, m + 1).kind = "context"
        BY <3>1 DEF ContextMet
      <4> QED
        BY <4>1, <2>2
    <3> QED
      BY <3>2, <2>1 DEF Arrays
  <2>5. ASSUME NEW entry, entry = ContextEntry(context)
        PROVE  entry.type = context.type /\ entry.size = context.size
    BY <2>5 DEF ContextEntry
  <2>6. registers.size = context.size
    BY <2>3, <2>4, <2>5 DEF Arm!RegistersWritten
  <2> QED
    BY <2>2, <2>6
<1> QED
  BY <1>4, ArmPairIsWritten

(* Registers that cannot be decoded are left out.                          *)
LEMMA ArmContextIsNotDecoded ==
  ASSUME NEW parts, Arm!IsArmSection(parts), NEW r, ArmRead(parts, r), NEW o,
         NEW m \in 0..r.contextNum, m < r.contextNum,
         ArmWriting(parts, r, o, 1 + r.infoNum + 2 * m), NEW header
  PROVE  ArmWriting(parts, r, Put(Put(o, "context", ArmContextSize, header), "registers",
                                  0, [of |-> "nothing"]),
                    1 + r.infoNum + 2 * (m + 1))
<1>1. [of |-> "nothing"].of = "nothing"
  OBVIOUS
<1> QED
  BY <1>1, ArmPairIsWritten

(* The header alone ends where the structures begin.                       *)
LEMMA ArmEndOfHeader ==
  ASSUME NEW r, NEW o, ArmOutput(r, o), Len(o) = 1
  PROVE  End(o) = ArmHeaderSize
<1>1. ArmHeaderSize \in Nat
  BY StructuresAssumption
<1>2. o # <<>> /\ o[1].start = 0 /\ o[1].size = ArmHeaderSize
  BY DEF ArmOutput
<1> QED
  BY <1>1, <1>2 DEF End

(* The vendor specific bytes are written last.                             *)
LEMMA ArmVendorIsWritten ==
  ASSUME NEW parts, Arm!IsArmSection(parts), NEW r, ArmRead(parts, r), NEW o,
         ArmWriting(parts, r, o, 1 + r.infoNum + 2 * r.contextNum),
         NEW body, NEW more,
         more = IF r.vendor = Arm!NoVendorInfo THEN o ELSE Put(o, "vendor", r.vendor, body)
  PROVE  ArmDone(parts, r, more)
<1>1. /\ ArmIR(parts, r)
      /\ Faithful(parts, r) =>
           r.vendor = IF parts[Len(parts)].kind = "vendor" THEN parts[Len(parts)].size
                                                           ELSE Arm!NoVendorInfo
      /\ r.infoNum = 0 /\ r.contextNum = 0 =>
           r.vendor = IF ArmHeaderSize < r.length THEN r.length - ArmHeaderSize
                                                  ELSE Arm!NoVendorInfo
  BY DEF ArmRead, Faithful
<1>2. /\ r.infoNum \in Nat /\ r.contextNum \in Nat /\ Contiguous(parts)
      /\ r.length = End(parts)
      /\ Counted(parts) => SectionCounts(parts, ArmHeaderSize, ArmInfoSize, ArmContextSize,
                                         r.infoNum, r.contextNum)
  BY <1>1, ArmCounted
<1>3. PICK len \in Nat \ {0} : len = 1 + r.infoNum + 2 * r.contextNum
  BY <1>2
<1>4. ArmWriting(parts, r, o, len)
  BY <1>3
<1>5. /\ ArmOutput(r, o) /\ Len(o) = len
      /\ Faithful(parts, r) /\ NothingLeftOut(o) => InPlace(o, parts)
  BY <1>4 DEF ArmWriting
<1>6. ASSUME Faithful(parts, r)
      PROVE  \/ /\ parts[Len(parts)].kind # "vendor" /\ Len(parts) = len
                /\ r.vendor = Arm!NoVendorInfo
             \/ /\ parts[Len(parts)].kind = "vendor" /\ Len(parts) = len + 1
                /\ r.vendor = parts[Len(parts)].size /\ r.vendor \in Nat \ {0}
  <2>1. SectionCounts(parts, ArmHeaderSize, ArmInfoSize, ArmContextSize, r.infoNum, r.contextNum)
    BY <1>2, <1>6 DEF Faithful
  <2>2. PICK rest : rest = 2 + r.infoNum + 2 * r.contextNum
    OBVIOUS
  <2>3. WalkEnds(parts, rest)
    BY <2>1, <2>2, <1>2, WalkEnd
  <2>4. rest = len + 1 /\ rest - 1 = len
    BY <2>2, <1>2, <1>3
  <2> QED
    BY <2>3, <2>4, <1>1, <1>6 DEF WalkEnds
<1>7. ArmHeaderSize \in Nat /\ End(parts) \in Nat /\ ArmHeaderSize <= End(parts)
  BY ArmCounts, StructuresAssumption
<1>8. ASSUME r.infoNum = 0, r.contextNum = 0
      PROVE  /\ len = 1 /\ End(o) = ArmHeaderSize
             /\ r.vendor = IF ArmHeaderSize < End(parts) THEN End(parts) - ArmHeaderSize ELSE -1
  <2>1. len = 1
    BY <1>3, <1>8
  <2>2. End(o) = ArmHeaderSize
    BY <2>1, <1>5, ArmEndOfHeader
  <2> QED
    BY <2>1, <2>2, <1>1, <1>2, <1>8 DEF Arm!NoVendorInfo
<1>9. CASE r.vendor = Arm!NoVendorInfo
  <2>1. more = o
    BY <1>9
  <2>2. ASSUME Faithful(parts, r) PROVE Len(parts) = len
    BY <2>2, <1>6, <1>9 DEF Arm!NoVendorInfo
  <2>3. ASSUME r.infoNum = 0, r.contextNum = 0 PROVE End(o) = End(parts)
    BY <2>3, <1>7, <1>8, <1>9 DEF Arm!NoVendorInfo
  <2> QED
    BY <2>1, <2>2, <2>3, <1>5 DEF ArmDone
<1>10. CASE r.vendor # Arm!NoVendorInfo
  <2>1. more = Put(o, "vendor", r.vendor, body)
    BY <1>10
  <2>2. ASSUME Faithful(parts, r)
        PROVE  /\ len + 1 \in 1..Len(parts) /\ Len(parts) = len + 1
               /\ parts[len + 1].kind = "vendor" /\ parts[len + 1].size = r.vendor
    BY <2>2, <1>6, <1>10
  <2>3. ArmWriting(parts, r, more, len + 1)
    BY <2>1, <2>2, <1>2, <1>4, ArmPutInPlace
  <2>4. /\ ArmOutput(r, more) /\ Len(more) = len + 1
        /\ Faithful(parts, r) /\ NothingLeftOut(more) => InPlace(more, parts)
    BY <2>3 DEF ArmWriting
  <2>5. ASSUME r.infoNum = 0, r.contextNum = 0 PROVE End(more) = End(parts)
    <3>1. \E S : o \in Seq(S)
      BY <1>5 DEF ArmOutput
    <3>2. End(Put(o, "vendor", r.vendor, body)) = End(o) + r.vendor
      BY <3>1, EndPut
    <3> QED
      BY <2>1, <3>2, <2>5, <1>7, <1>8, <1>10 DEF Arm!NoVendorInfo
  <2> QED
    BY <2>2, <2>4, <2>5 DEF ArmDone
<1> QED
  BY <1>9, <1>10

----------------------------------------------------------------------------
(* Generation: what is laid behind the header is what was drawn.           *)
LEMMA ArmIsDrawn ==
  ASSUME NEW d \in ArmDraws, NEW first, first.kind = "header", first.size = ArmHeaderSize
  PROVE  /\ ArmGen!TotalLength(d) \in Nat
         /\ first.body \in Arm!EFI_ARM_ERROR_RECORD
              /\ first.body.length = ArmGen!TotalLength(d)
            => Arm!IsArmSection(ArmGen!Laid(<<first>> \o ArmGen!Structures(d)))
<1>1. /\ d.infos \in Seq(Arm!EFI_ARM_ERROR_INFORMATION_ENTRY)
      /\ d.contexts \in Seq(Arm!EFI_ARM_CONTEXT_INFORMATION_HEADER)
      /\ d.vendor \in Nat
  BY DEF ArmDraws
<1>2. /\ ArmHeaderSize \in Nat \ {0} /\ ArmInfoSize \in Nat \ {0} /\ ArmContextSize \in Nat \ {0}
  BY StructuresAssumption
<1>3. \A x \in Arm!EFI_ARM_CONTEXT_INFORMATION_HEADER : x.size \in Nat
  BY DEF Arm!EFI_ARM_CONTEXT_INFORMATION_HEADER
<1>4. PICK v : v = IF d.vendor = 0 THEN 0 ELSE 1
  OBVIOUS
<1>5. PICK b : b = Behind(d.infos, d.contexts, ArmInfoSize, ArmContextSize, d.vendor)
  OBVIOUS
<1>6. ArmGen!Structures(d) = b
  BY <1>5, ArmGenCopies DEF ArmGen!Structures
<1>7. PICK parts : parts = Laid(<<first>> \o b)
  OBVIOUS
<1>8. PICK i, c : i = Len(d.infos) /\ c = Len(d.contexts)
  OBVIOUS
<1>9. DrawnSection(parts, d.infos, d.contexts, ArmHeaderSize, ArmInfoSize, ArmContextSize,
                   d.vendor, first.body, Ends(b)[Len(b)], i, c, v)
  <2>1. DrawnSection(Laid(<<first>> \o b), d.infos, d.contexts, ArmHeaderSize, ArmInfoSize,
                     ArmContextSize, d.vendor, first.body, Ends(b)[Len(b)],
                     Len(d.infos), Len(d.contexts), v)
    BY <1>1, <1>2, <1>3, <1>4, <1>5, DrawnSectionShape
  <2> QED
    BY <2>1, <1>7, <1>8
<1>10. /\ IsProcessorSection(parts, ArmHeaderSize, ArmInfoSize, ArmContextSize)
       /\ parts[1].body = first.body
       /\ End(parts) = ArmHeaderSize + Ends(b)[Len(b)] /\ Ends(b)[Len(b)] \in Nat
       /\ \A k \in 2..Len(parts) :
            /\ parts[k].kind = "info" => \E j \in 1..i : parts[k].body = d.infos[j]
            /\ parts[k].kind = "context" => \E j \in 1..c : parts[k].body = d.contexts[j]
  BY <1>9 DEF DrawnSection
<1>11. ArmGen!TotalLength(d) = ArmHeaderSize + Ends(b)[Len(b)]
  BY <1>6, ArmGenCopies DEF ArmGen!TotalLength
<1>12. \A k \in 2..Len(parts) :
         /\ parts[k].kind = "info" => parts[k].body \in Arm!EFI_ARM_ERROR_INFORMATION_ENTRY
         /\ parts[k].kind = "context" => parts[k].body \in Arm!EFI_ARM_CONTEXT_INFORMATION_HEADER
  <2>1. \A j \in 1..i : d.infos[j] \in Arm!EFI_ARM_ERROR_INFORMATION_ENTRY
    BY <1>1, <1>8
  <2>2. \A j \in 1..c : d.contexts[j] \in Arm!EFI_ARM_CONTEXT_INFORMATION_HEADER
    BY <1>1, <1>8
  <2> QED
    BY <2>1, <2>2, <1>10
<1>13. ASSUME first.body \in Arm!EFI_ARM_ERROR_RECORD,
              first.body.length = ArmGen!TotalLength(d)
       PROVE  Arm!IsArmSection(parts)
  BY <1>10, <1>11, <1>12, <1>13, ArmCopies DEF Arm!IsArmSection
<1>14. ArmGen!Laid(<<first>> \o ArmGen!Structures(d)) = parts
  BY <1>6, <1>7, ArmGenCopies
<1> QED
  BY <1>2, <1>10, <1>11, <1>13, <1>14

(* The header, set field by field and masked.                              *)
ArmHeaderSet(h, i, c, l) == [h EXCEPT !.infoNum = i, !.contextNum = c, !.length = l]

LEMMA ArmHeaderIsSet ==
  ASSUME NEW h \in Arm!EFI_ARM_ERROR_RECORD, NEW i \in Nat, NEW c \in Nat, NEW l \in Nat
  PROVE  ArmHeaderSet(h, i, c, l) \in Arm!EFI_ARM_ERROR_RECORD
         /\ ArmHeaderSet(h, i, c, l).length = l
BY DEF Arm!EFI_ARM_ERROR_RECORD, ArmHeaderSet

LEMMA ArmHeaderIsMasked ==
  ASSUME NEW h \in Arm!EFI_ARM_ERROR_RECORD
  PROVE  LET x == [ArmGen!Masked(h, 0..2) EXCEPT !.top = FALSE]
         IN  x \in Arm!EFI_ARM_ERROR_RECORD /\ x.length = h.length
BY DEF Arm!EFI_ARM_ERROR_RECORD, ArmGen!Masked

(* Without counted structures the header is written as it was read.        *)
LEMMA ArmHeaderIsKept ==
  ASSUME NEW parts, parts[1].body \in Arm!EFI_ARM_ERROR_RECORD, ~parts[1].body.top,
         NEW r, ArmIR(parts, r)
  PROVE  ArmHeaderOf(r) = [parts[1].body EXCEPT !.valid = @ \intersect 0..3]
<1>1. PICK h \in Arm!EFI_ARM_ERROR_RECORD : h = parts[1].body
  OBVIOUS
<1>2. ~h.top
  BY <1>1
<1>3. ASSUME NEW made, NEW infos, NEW contexts, NEW vendor,
             NEW q, q = ArmIROf(made, h, infos, contexts, vendor)
      PROVE  /\ q.valid = h.valid \intersect 0..3 /\ q.infoNum = h.infoNum
             /\ q.contextNum = h.contextNum /\ q.length = h.length
             /\ q.running = h.running /\ q.psci = h.psci
  BY <1>2, <1>3 DEF ArmIROf
<1>4. PICK yes : r = ArmIROf(yes, h, r.infos, r.contexts, r.vendor)
  BY <1>1 DEF ArmIR, ArmIRWith
<1>5. /\ r.valid = h.valid \intersect 0..3 /\ r.infoNum = h.infoNum
      /\ r.contextNum = h.contextNum /\ r.length = h.length
      /\ r.running = h.running /\ r.psci = h.psci
  BY <1>3, <1>4
<1> HIDE <1>1, <1>4
<1>6. h.psci \in Nat /\ h.top = FALSE
  BY <1>2 DEF Arm!EFI_ARM_ERROR_RECORD
<1>7. ArmHeaderOf(r) = [h EXCEPT !.valid = h.valid \intersect 0..3]
  <2>1. ASSUME NEW v
        PROVE  [h EXCEPT !.valid = v]
                 = [valid |-> v, infoNum |-> h.infoNum, contextNum |-> h.contextNum,
                    length |-> h.length, running |-> h.running, top |-> h.top, psci |-> h.psci]
    BY DEF Arm!EFI_ARM_ERROR_RECORD
  <2>2. ~(r.psci = Arm!NoPsci) /\ (IF r.psci = Arm!NoPsci THEN 0 ELSE r.psci) = h.psci
    BY <1>5, <1>6 DEF Arm!NoPsci
  <2>3. ArmHeaderOf(r)
          = [valid |-> r.valid, infoNum |-> h.infoNum, contextNum |-> h.contextNum,
             length |-> h.length, running |-> h.running, top |-> FALSE, psci |-> h.psci]
    BY <1>5, <2>2, Zenon DEF ArmHeaderOf
  <2>4. ArmHeaderOf(r)
          = [valid |-> r.valid, infoNum |-> h.infoNum, contextNum |-> h.contextNum,
             length |-> h.length, running |-> h.running, top |-> h.top, psci |-> h.psci]
    BY <1>6, <2>3, Zenon
  <2>5. r.valid = h.valid \intersect 0..3
    BY <1>5
  <2> QED
    BY <2>1, <2>4, <2>5, Zenon
<1> QED
  BY <1>1, <1>7
----------------------------------------------------------------------------
Drawing == {"random", "setHeader", "clear", "copy"}

ArmHeaderDrawn ==
  \E h \in Arm!EFI_ARM_ERROR_RECORD :
    /\ section = Put(<<>>, "header", ArmHeaderSize, h)
    /\ phase # "setHeader" => h.length = ArmGen!TotalLength(drawn)

(***************************************************************************)
(* The inductive invariant of an ARM section: it is one once it is there;  *)
(* what has been read stands for the structures up to the position, what   *)
(* has been written for those up to the counter; no IR, or done with it,   *)
(* or crashed on the vendor specific bytes.                                *)
(***************************************************************************)
ArmInv ==
  kind = "arm" =>
    /\ phase \in Drawing \union {"header", "infos", "contexts", "writeHeader", "writeInfos",
                                 "writeContexts", "done", "crashed"}
    /\ phase \in Drawing => drawn \in ArmDraws
    /\ phase = "random" => section = <<>>
    /\ phase \in {"setHeader", "clear", "copy"} => ArmHeaderDrawn
    /\ phase \notin Drawing => Arm!IsArmSection(section)
    /\ phase \in Drawing \union {"header"} => ~ir.made
    /\ phase \in Drawing \union {"header", "infos", "contexts", "writeHeader"} => out = <<>>
    /\ phase = "infos" => ArmInfosSoFar(section, ir, n, pos)
    /\ phase = "contexts" => ArmContextsSoFar(section, ir, n, pos)
    /\ phase \in {"writeHeader", "writeInfos", "writeContexts", "crashed"}
         => ArmRead(section, ir)
    /\ phase = "writeInfos" => n \in 0..ir.infoNum /\ ArmWriting(section, ir, out, 1 + n)
    /\ phase = "writeContexts" =>
         n \in 0..ir.contextNum /\ ArmWriting(section, ir, out, 1 + ir.infoNum + 2 * n)
    /\ phase = "done" => ~ir.made \/ (ArmRead(section, ir) /\ ArmDone(section, ir, out))

(* A step of an ARM section is one of its generator or its converter.      *)
LEMMA ArmStep ==
  ASSUME [Next]_vars, kind = "arm"
  PROVE  /\ kind' = kind
         /\ \/ ArmGen!Step /\ UNCHANGED <<n, pos, ir, out>>
            \/ Arm!Step /\ UNCHANGED drawn
            \/ UNCHANGED vars
BY DEF Next, vars, converter, GenerateArm, GenerateX64, ConvertArm, ConvertX64,
       ConvertHeader, ConvertDescriptor, ConvertSection, Converted, SectionKinds,
       SectionStep, Generate, ToIR, CrashOnNull, ToCper

(* What is given or drawn satisfies the invariant.                         *)
LEMMA ArmInvInit == Init => ArmInv
<1> SUFFICES ASSUME Init, kind = "arm" PROVE ArmInv
  BY DEF ArmInv
<1>1. PICK start \in Starts :
        /\ kind = start.kind /\ drawn = start.drawn /\ section = start.section
        /\ phase = IF start.section = <<>> THEN "random"
                   ELSE IF start.kind \in {"arm", "ia32x64"} THEN "header"
                   ELSE "toIR"
  BY DEF Init
<1>2. \/ drawn = <<>> /\ Arm!IsArmSection(section)
      \/ section = <<>> /\ drawn \in ArmDraws
  BY <1>1, StartsAssumption
<1>3. Arm!IsArmSection(section) => section # <<>>
  BY ArmCounts
<1>4. ~ir.made /\ out = <<>>
  BY DEF Init
<1>5. CASE section = <<>>
  BY <1>1, <1>2, <1>3, <1>4, <1>5 DEF ArmInv, Drawing
<1>6. CASE section # <<>>
  BY <1>1, <1>2, <1>3, <1>4, <1>6 DEF ArmInv, Drawing
<1> QED
  BY <1>5, <1>6

(* So does every step of the generator,                                    *)
LEMMA ArmGenKeeps ==
  ASSUME ArmInv, kind = "arm", kind' = kind, ArmGen!Step, UNCHANGED <<n, pos, ir, out>>
  PROVE  ArmInv'
<1>1. CASE ArmGen!RandomBytes
  <2>1. PICK h \in Arm!EFI_ARM_ERROR_RECORD :
          section' = Put(<<>>, "header", ArmHeaderSize, h)
    BY <1>1, ArmGenCopies, StructuresAssumption DEF ArmGen!RandomBytes
  <2>2. ArmHeaderDrawn'
    BY <1>1, <2>1 DEF ArmHeaderDrawn, ArmGen!RandomBytes
  <2> QED
    BY <1>1, <2>2 DEF ArmInv, Drawing, ArmGen!RandomBytes
<1>2. CASE ArmGen!SetHeader
  <2>1. PICK h \in Arm!EFI_ARM_ERROR_RECORD :
          section = Put(<<>>, "header", ArmHeaderSize, h)
    BY <1>2 DEF ArmInv, ArmHeaderDrawn, ArmGen!SetHeader
  <2>2. drawn \in ArmDraws /\ Len(drawn.infos) \in Nat /\ Len(drawn.contexts) \in Nat
    BY <1>2 DEF ArmInv, Drawing, ArmGen!SetHeader, ArmDraws
  <2>3. ArmGen!TotalLength(drawn) \in Nat
    <3>1. PICK first : first.kind = "header" /\ first.size = ArmHeaderSize
      <4>1. [kind |-> "header", size |-> ArmHeaderSize].kind = "header"
            /\ [kind |-> "header", size |-> ArmHeaderSize].size = ArmHeaderSize
        OBVIOUS
      <4> QED
        BY <4>1
    <3> QED
      BY <2>2, <3>1, ArmIsDrawn
  <2>4. PICK i \in Nat, c \in Nat, l \in Nat :
          i = Len(drawn.infos) /\ c = Len(drawn.contexts) /\ l = ArmGen!TotalLength(drawn)
    BY <2>2, <2>3
  <2>5. PICK x \in Arm!EFI_ARM_ERROR_RECORD :
          x.length = l /\ x = ArmHeaderSet(h, i, c, l)
    BY ArmHeaderIsSet
  <2>6. section' = Put(<<>>, "header", ArmHeaderSize, x)
    <3>1. section' = [section EXCEPT ![1].body =
                        ArmHeaderSet(section[1].body, Len(drawn.infos), Len(drawn.contexts),
                                     ArmGen!TotalLength(drawn))]
      BY <1>2 DEF ArmGen!SetHeader, ArmHeaderSet
    <3>2. section[1].body = h
      BY <2>1, PutFirstExcept
    <3>3. section' = [section EXCEPT ![1].body = x]
      BY <3>1, <3>2, <2>4, <2>5
    <3>4. [Put(<<>>, "header", ArmHeaderSize, h) EXCEPT ![1].body = x]
            = Put(<<>>, "header", ArmHeaderSize, x)
      BY PutFirstExcept
    <3> QED
      BY <3>3, <3>4, <2>1
  <2>7. ArmHeaderDrawn'
    BY <1>2, <2>4, <2>5, <2>6 DEF ArmHeaderDrawn, ArmGen!SetHeader
  <2> QED
    BY <1>2, <2>2, <2>7 DEF ArmInv, Drawing, ArmGen!SetHeader
<1>3. CASE ArmGen!ClearReserved
  <2>1. PICK h \in Arm!EFI_ARM_ERROR_RECORD :
          section = Put(<<>>, "header", ArmHeaderSize, h) /\ h.length = ArmGen!TotalLength(drawn)
    BY <1>3 DEF ArmInv, ArmHeaderDrawn, ArmGen!ClearReserved
  <2>2. PICK x : x = [ArmGen!Masked(h, 0..2) EXCEPT !.top = FALSE]
    OBVIOUS
  <2>3. x \in Arm!EFI_ARM_ERROR_RECORD /\ x.length = h.length
    BY <2>2, ArmHeaderIsMasked
  <2>4. section' = Put(<<>>, "header", ArmHeaderSize, x)
    <3>1. section' = [section EXCEPT ![1].body =
                        [ArmGen!Masked(section[1].body, 0..2) EXCEPT !.top = FALSE]]
      BY <1>3 DEF ArmGen!ClearReserved
    <3>2. section[1].body = h
      BY <2>1, PutFirstExcept
    <3>3. section' = [section EXCEPT ![1].body = x]
      BY <3>1, <3>2, <2>2
    <3>4. [Put(<<>>, "header", ArmHeaderSize, h) EXCEPT ![1].body = x]
            = Put(<<>>, "header", ArmHeaderSize, x)
      BY PutFirstExcept
    <3> QED
      BY <3>3, <3>4, <2>1
  <2>5. ArmHeaderDrawn'
    BY <1>3, <2>1, <2>3, <2>4 DEF ArmHeaderDrawn, ArmGen!ClearReserved
  <2> QED
    BY <1>3, <2>5 DEF ArmInv, Drawing, ArmGen!ClearReserved
<1>4. CASE ArmGen!CopyStructures
  <2>1. PICK h \in Arm!EFI_ARM_ERROR_RECORD :
          section = Put(<<>>, "header", ArmHeaderSize, h) /\ h.length = ArmGen!TotalLength(drawn)
    BY <1>4 DEF ArmInv, ArmHeaderDrawn, ArmGen!CopyStructures
  <2>2. drawn \in ArmDraws
    BY <1>4 DEF ArmInv, Drawing, ArmGen!CopyStructures
  <2>3. PICK first : /\ section = <<first>> /\ first.kind = "header"
                     /\ first.size = ArmHeaderSize /\ first.body = h
    BY <2>1, PutFirstIs
  <2>4. Arm!IsArmSection(ArmGen!Laid(<<first>> \o ArmGen!Structures(drawn)))
    BY <2>1, <2>2, <2>3, ArmIsDrawn
  <2>5. Arm!IsArmSection(section')
    BY <1>4, <2>3, <2>4 DEF ArmGen!CopyStructures
  <2> QED
    BY <1>4, <2>5 DEF ArmInv, Drawing, ArmGen!CopyStructures
<1> QED
  BY <1>1, <1>2, <1>3, <1>4 DEF ArmGen!Step

(* every step to the IR,                                                   *)
LEMMA ArmReadKeeps ==
  ASSUME ArmInv, kind = "arm", kind' = kind, Arm!Step, UNCHANGED drawn,
         phase \in {"header", "infos", "contexts"}
  PROVE  ArmInv'
<1>1. Arm!IsArmSection(section) /\ section' = section /\ Arm!IsArmSection(section')
  BY DEF ArmInv, Drawing, Arm!Step, Arm!ReadHeader, Arm!ReadInfo, Arm!InfosRead, Arm!ReadContext,
         Arm!ContextNotEncoded, Arm!ReadVendorInfo, Arm!VendorInfoNotEncoded, Arm!WriteHeader,
         Arm!WriteInfo, Arm!InfosWritten, Arm!WriteContext, Arm!ContextNotDecoded,
         Arm!WriteVendorInfo, Arm!VendorInfoNotDecoded
<1>2. CASE Arm!ReadHeader
  <2>1. ir' = ArmIRWith(section, <<>>, <<>>, Arm!NoVendorInfo)
    BY <1>2 DEF Arm!ReadHeader, ArmIRWith, ArmIROf
  <2>2. ArmInfosSoFar(section, ir', 0, ArmHeaderSize)
    BY <1>1, <2>1, ArmHeaderIsRead
  <2>3. ArmInfosSoFar(section', ir', n', pos')
    BY <1>1, <1>2, <2>2 DEF Arm!ReadHeader
  <2> QED
    BY <1>1, <1>2, <2>3 DEF ArmInv, Drawing, Arm!ReadHeader
<1>3. CASE Arm!ReadInfo
  <2>1. ArmInfosSoFar(section, ir, n, pos) /\ n < ir.infoNum
    BY <1>3 DEF ArmInv, Arm!ReadInfo
  <2>2. PICK info \in ReadAt(section, "info", pos, {}) :
          ir' = WithInfos(ir, Append(ir.infos, Arm!InfoIR(info)))
    BY <1>3, ArmCopies DEF Arm!ReadInfo, WithInfos
  <2>3. ArmInfosSoFar(section, ir', n + 1, pos + ArmInfoSize)
    BY <1>1, <2>1, <2>2, ArmInfoIsRead
  <2>4. ArmInfosSoFar(section', ir', n', pos')
    BY <1>1, <1>3, <2>3 DEF Arm!ReadInfo
  <2> QED
    BY <1>1, <1>3, <2>4 DEF ArmInv, Drawing, Arm!ReadInfo
<1>4. CASE Arm!InfosRead
  <2>1. ArmContextsSoFar(section, ir, 0, pos)
    BY <1>1, <1>4, ArmInfosAreRead DEF ArmInv, Arm!InfosRead
  <2>2. ArmContextsSoFar(section', ir', n', pos')
    BY <1>1, <1>4, <2>1 DEF Arm!InfosRead
  <2> QED
    BY <1>1, <1>4, <2>2 DEF ArmInv, Drawing, Arm!InfosRead
<1>5. CASE Arm!ReadContext
  <2>1. ArmContextsSoFar(section, ir, n, pos) /\ n < ir.contextNum
    BY <1>5 DEF ArmInv, Arm!ReadContext
  <2>2. PICK context \in ReadAt(section, "context", pos, ArmContextResidue) :
          /\ ir' = WithContexts(ir, Append(ir.contexts, ContextEntry(context)))
          /\ pos' = pos + ArmContextSize + context.size
    BY <1>5, ArmCopies DEF Arm!ReadContext, WithContexts, ContextEntry
  <2>3. ArmContextsSoFar(section, ir', n + 1, pos + ArmContextSize + context.size)
    BY <1>1, <2>1, <2>2, ArmContextIsRead
  <2>4. ArmContextsSoFar(section', ir', n', pos')
    BY <1>1, <1>5, <2>2, <2>3 DEF Arm!ReadContext
  <2> QED
    BY <1>1, <1>5, <2>4 DEF ArmInv, Drawing, Arm!ReadContext
<1>6. CASE Arm!ContextNotEncoded
  <2>1. ArmContextsSoFar(section, ir, n, pos) /\ n < ir.contextNum
    BY <1>6 DEF ArmInv, Arm!ContextNotEncoded
  <2>2. ir' = WithContexts(ir, Append(ir.contexts, Arm!NullContext))
    BY <1>6 DEF Arm!ContextNotEncoded, WithContexts
  <2>3. ArmContextsSoFar(section, ir', n + 1, pos')
    BY <1>1, <2>1, <2>2, ArmContextIsNotEncoded
  <2>4. ArmContextsSoFar(section', ir', n', pos')
    BY <1>1, <1>6, <2>3 DEF Arm!ContextNotEncoded
  <2> QED
    BY <1>1, <1>6, <2>4 DEF ArmInv, Drawing, Arm!ContextNotEncoded
<1>7. CASE Arm!ReadVendorInfo
  <2>1. ArmContextsSoFar(section, ir, n, pos) /\ n = ir.contextNum
    BY <1>7 DEF ArmInv, Arm!ReadVendorInfo
  <2>2. ir' = IF pos < ir.length THEN WithVendor(ir, ir.length - pos) ELSE ir
    BY <1>7 DEF Arm!ReadVendorInfo, WithVendor
  <2>3. ArmRead(section, ir')
    BY <1>1, <2>1, <2>2, ArmVendorIsRead
  <2>4. ArmRead(section', ir')
    BY <1>1, <2>3
  <2> QED
    BY <1>1, <1>7, <2>4 DEF ArmInv, Drawing, Arm!ReadVendorInfo
<1>8. CASE Arm!VendorInfoNotEncoded
  <2>1. ~ir'.made
    BY <1>8 DEF Arm!VendorInfoNotEncoded, Arm!NoIR
  <2>2. phase' = "done"
    BY <1>8 DEF Arm!VendorInfoNotEncoded
  <2> QED
    BY <1>1, <2>1, <2>2 DEF ArmInv, Drawing
<1> QED
  BY <1>2, <1>3, <1>4, <1>5, <1>6, <1>7, <1>8
  DEF Arm!Step, Arm!WriteHeader, Arm!WriteInfo, Arm!InfosWritten, Arm!WriteContext,
      Arm!ContextNotDecoded, Arm!WriteVendorInfo, Arm!VendorInfoNotDecoded

(* and every step back.                                                    *)
LEMMA ArmWriteKeeps ==
  ASSUME ArmInv, kind = "arm", kind' = kind, Arm!Step, UNCHANGED drawn,
         phase \in {"writeHeader", "writeInfos", "writeContexts"}
  PROVE  ArmInv'
<1>1. /\ Arm!IsArmSection(section) /\ section' = section /\ Arm!IsArmSection(section')
      /\ ir' = ir /\ ArmRead(section, ir) /\ ArmRead(section', ir')
  BY DEF ArmInv, Drawing, Arm!Step, Arm!ReadHeader, Arm!ReadInfo, Arm!InfosRead, Arm!ReadContext,
         Arm!ContextNotEncoded, Arm!ReadVendorInfo, Arm!VendorInfoNotEncoded, Arm!WriteHeader,
         Arm!WriteInfo, Arm!InfosWritten, Arm!WriteContext, Arm!ContextNotDecoded,
         Arm!WriteVendorInfo, Arm!VendorInfoNotDecoded
<1>2. ir.infoNum \in Nat /\ ir.contextNum \in Nat
  BY <1>1, ArmCounted DEF ArmRead
<1>3. CASE Arm!WriteHeader
  <2>1. out' = Put(<<>>, "header", ArmHeaderSize, ArmHeaderOf(ir))
    BY <1>3, ArmCopies DEF ArmInv, Arm!WriteHeader, ArmHeaderOf
  <2>2. ArmWriting(section, ir, out', 1)
    BY <1>1, <2>1, ArmHeaderIsWritten
  <2>3. ArmWriting(section', ir', out', 1 + n') /\ n' \in 0..ir'.infoNum
    BY <1>1, <1>2, <1>3, <2>2 DEF Arm!WriteHeader
  <2> QED
    BY <1>1, <1>3, <2>3 DEF ArmInv, Drawing, Arm!WriteHeader
<1>4. CASE Arm!WriteInfo
  <2>1. n \in 0..ir.infoNum /\ n < ir.infoNum /\ ArmWriting(section, ir, out, 1 + n)
    BY <1>4 DEF ArmInv, Arm!WriteInfo
  <2>2. PICK info : out' = Put(out, "info", ArmInfoSize, info)
    BY <1>4, ArmCopies DEF Arm!WriteInfo
  <2>3. ArmWriting(section, ir, out', 1 + (n + 1))
    BY <1>1, <2>1, <2>2, ArmInfoIsWritten
  <2>4. ArmWriting(section', ir', out', 1 + n') /\ n' \in 0..ir'.infoNum
    BY <1>1, <1>2, <1>4, <2>1, <2>3 DEF Arm!WriteInfo
  <2> QED
    BY <1>1, <1>4, <2>4 DEF ArmInv, Drawing, Arm!WriteInfo
<1>5. CASE Arm!InfosWritten
  <2>1. ArmWriting(section, ir, out, 1 + ir.infoNum)
    BY <1>5 DEF ArmInv, Arm!InfosWritten
  <2>2. 1 + ir.infoNum = 1 + ir.infoNum + 2 * 0
    BY <1>2
  <2>3. ArmWriting(section', ir', out', 1 + ir'.infoNum + 2 * n') /\ n' \in 0..ir'.contextNum
    BY <1>1, <1>2, <1>5, <2>1, <2>2 DEF Arm!InfosWritten
  <2> QED
    BY <1>1, <1>5, <2>3 DEF ArmInv, Drawing, Arm!InfosWritten
<1>6. ASSUME phase = "writeContexts", n < ir.contextNum, n' = n + 1, phase' = "writeContexts",
             ArmWriting(section, ir, out', 1 + ir.infoNum + 2 * (n + 1))
      PROVE  ArmInv'
  <2>1. n \in 0..ir.contextNum
    BY <1>6 DEF ArmInv
  <2>2. /\ ArmWriting(section', ir', out', 1 + ir'.infoNum + 2 * n')
        /\ n' \in 0..ir'.contextNum
    BY <1>1, <1>2, <1>6, <2>1
  <2> QED
    BY <1>1, <1>6, <2>2 DEF ArmInv, Drawing
<1>7. phase = "writeContexts" =>
        n \in 0..ir.contextNum /\ ArmWriting(section, ir, out, 1 + ir.infoNum + 2 * n)
  BY DEF ArmInv
<1>8. CASE Arm!WriteContext
  <2>1. PICK registers : registers = Arm!RegistersWritten(ir.contexts[n + 1])
    OBVIOUS
  <2>2. PICK header, body :
          out' = Put(Put(out, "context", ArmContextSize, header), "registers",
                     registers.size, body)
    BY <1>8, <2>1, ArmCopies DEF Arm!WriteContext
  <2>3. phase = "writeContexts" /\ n < ir.contextNum
        /\ n' = n + 1 /\ phase' = "writeContexts"
    BY <1>8 DEF Arm!WriteContext
  <2>4. ArmWriting(section, ir, out', 1 + ir.infoNum + 2 * (n + 1))
    BY <1>1, <1>7, <2>1, <2>2, <2>3, ArmContextIsWritten
  <2> QED
    BY <1>6, <2>3, <2>4
<1>9. CASE Arm!ContextNotDecoded
  <2>1. PICK header :
          out' = Put(Put(out, "context", ArmContextSize, header), "registers",
                     0, [of |-> "nothing"])
    BY <1>9, ArmCopies DEF Arm!ContextNotDecoded
  <2>2. phase = "writeContexts" /\ n < ir.contextNum
        /\ n' = n + 1 /\ phase' = "writeContexts"
    BY <1>9 DEF Arm!ContextNotDecoded
  <2>3. ArmWriting(section, ir, out', 1 + ir.infoNum + 2 * (n + 1))
    BY <1>1, <1>7, <2>1, <2>2, ArmContextIsNotDecoded
  <2> QED
    BY <1>6, <2>2, <2>3
<1>10. ASSUME phase' = "done", ArmDone(section, ir, out') PROVE ArmInv'
  <2>1. ArmDone(section', ir', out')
    BY <1>1, <1>10
  <2> QED
    BY <1>1, <1>10, <2>1 DEF ArmInv, Drawing
<1>11. CASE Arm!WriteVendorInfo
  <2>1. n = ir.contextNum /\ phase = "writeContexts" /\ phase' = "done"
    BY <1>11 DEF Arm!WriteVendorInfo
  <2>2. PICK body : out' = IF ir.vendor = Arm!NoVendorInfo THEN out
                           ELSE Put(out, "vendor", ir.vendor, body)
    BY <1>11, ArmCopies DEF Arm!WriteVendorInfo
  <2>3. ArmDone(section, ir, out')
    BY <1>1, <1>7, <2>1, <2>2, ArmVendorIsWritten
  <2> QED
    BY <1>10, <2>1, <2>3
<1>12. CASE Arm!VendorInfoNotDecoded
  <2>1. phase' = "crashed"
    BY <1>12 DEF Arm!VendorInfoNotDecoded
  <2> QED
    BY <1>1, <2>1 DEF ArmInv, Drawing
<1> QED
  BY <1>3, <1>4, <1>5, <1>8, <1>9, <1>11, <1>12
  DEF Arm!Step, Arm!ReadHeader, Arm!ReadInfo, Arm!InfosRead, Arm!ReadContext,
      Arm!ContextNotEncoded, Arm!ReadVendorInfo, Arm!VendorInfoNotEncoded

(* No step breaks it.                                                      *)
LEMMA ArmInvStep == ArmInv /\ [Next]_vars => ArmInv'
<1> SUFFICES ASSUME ArmInv, [Next]_vars, kind = "arm" PROVE ArmInv'
  BY KindOfStep DEF ArmInv
<1>1. /\ kind' = kind
      /\ \/ ArmGen!Step /\ UNCHANGED <<n, pos, ir, out>>
         \/ Arm!Step /\ UNCHANGED drawn
         \/ UNCHANGED vars
  BY ArmStep
<1>2. CASE UNCHANGED vars
  BY <1>2 DEF ArmInv, Drawing, ArmHeaderDrawn, vars, converter
<1>3. CASE Arm!Step /\ UNCHANGED drawn
  <2>1. phase \in {"header", "infos", "contexts"}
        \/ phase \in {"writeHeader", "writeInfos", "writeContexts"}
    BY <1>3 DEF Arm!Step, Arm!ReadHeader, Arm!ReadInfo, Arm!InfosRead, Arm!ReadContext,
         Arm!ContextNotEncoded, Arm!ReadVendorInfo, Arm!VendorInfoNotEncoded, Arm!WriteHeader,
         Arm!WriteInfo, Arm!InfosWritten, Arm!WriteContext, Arm!ContextNotDecoded,
         Arm!WriteVendorInfo, Arm!VendorInfoNotDecoded
  <2> QED
    BY <1>1, <1>3, <2>1, ArmReadKeeps, ArmWriteKeeps
<1> QED
  BY <1>1, <1>2, <1>3, ArmGenKeeps

(***************************************************************************)
(* Every state of an ARM section satisfies the invariant, whatever the     *)
(* counts, register types, sizes and residues are.                         *)
(***************************************************************************)
THEOREM ArmInvariant == Spec => []ArmInv
BY ArmInvInit, ArmInvStep, PTL DEF Spec

(***************************************************************************)
(* cper_section_arm_to_ir() knows only a position, moved by structure      *)
(* sizes and by the array sizes that the contexts state                    *)
(* (cper-section-arm.c:95-115, :355-463): in a section of any length whose *)
(* header counts what follows it, each entry is that of its structure, and *)
(* the vendor specific information is exactly what is left, if anything    *)
(* is.                                                                     *)
(***************************************************************************)
THEOREM FindsArmStructures == Spec => []ArmStructuresFound
<1>1. ArmInv => ArmStructuresFound
  <2> SUFFICES ASSUME ArmInv, kind = "arm", Arm!Whole, Arm!CountsAgree(section)
               PROVE  LET last == section[Len(section)] IN
                        /\ \A k \in 1..Len(ir.infos) :
                             ir.infos[k] = Arm!InfoIR(Arm!InfoAt(section, k).body)
                        /\ \A k \in 1..Len(ir.contexts) :
                             LET context == Arm!ContextAt(section, k).body
                             IN  /\ ir.contexts[k].type = context.type
                                 /\ ir.contexts[k].size = context.size
                        /\ phase \in {"writeHeader", "writeInfos", "writeContexts", "done"}
                             => ir.vendor = IF last.kind = "vendor" THEN last.size
                                                                    ELSE Arm!NoVendorInfo
    BY DEF ArmStructuresFound, Arm!StructuresFound
  <2>1. Counted(section) /\ NoContextNull(ir) /\ ir.made
    BY ArmCopies DEF Arm!Whole, Arm!CountsAgree, NoContextNull
  <2>2. \/ phase \notin {"writeHeader", "writeInfos", "writeContexts", "done"}
           /\ ArmInfosRead(section, ir) /\ ArmContextsRead(section, ir)
        \/ ArmRead(section, ir)
    <3>1. phase = "infos" => ArmInfosRead(section, ir) /\ ir.contexts = <<>>
      BY DEF ArmInv, ArmInfosSoFar
    <3>2. ir.contexts = <<>> => ArmContextsRead(section, ir)
      BY DEF ArmContextsRead
    <3>3. phase = "contexts" => ArmInfosRead(section, ir) /\ ArmContextsRead(section, ir)
      BY DEF ArmInv, ArmContextsSoFar
    <3> QED
      BY <2>1, <3>1, <3>2, <3>3 DEF ArmInv, Drawing
  <2>3. ArmInfosRead(section, ir) /\ ArmContextsRead(section, ir)
    BY <2>2 DEF ArmRead
  <2>4. \A k \in 1..Len(ir.infos) :
          ir.infos[k] = Arm!InfoIR(Arm!InfoAt(section, k).body)
    BY <2>1, <2>3, ArmCopies DEF ArmInfosRead
  <2>5. ASSUME NEW k \in 1..Len(ir.contexts)
        PROVE  /\ ir.contexts[k].type = Arm!ContextAt(section, k).body.type
               /\ ir.contexts[k].size = Arm!ContextAt(section, k).body.size
    <3>1. PICK context : context = ContextAt(section, k).body
      OBVIOUS
    <3>2. ir.contexts[k] = ContextEntry(context)
      BY <2>1, <2>3, <3>1 DEF ArmContextsRead, ContextEntry
    <3>3. ContextEntry(context).type = context.type /\ ContextEntry(context).size = context.size
      BY DEF ContextEntry
    <3> QED
      BY <3>1, <3>2, <3>3, ArmCopies
  <2>6. ASSUME phase \in {"writeHeader", "writeInfos", "writeContexts", "done"}
        PROVE  ir.vendor = IF section[Len(section)].kind = "vendor"
                             THEN section[Len(section)].size ELSE Arm!NoVendorInfo
    BY <2>1, <2>2, <2>6 DEF ArmRead
  <2> QED
    BY <2>4, <2>5, <2>6
<1> QED
  BY <1>1, ArmInvariant, PTL

(***************************************************************************)
(* ir_section_arm_to_cper() writes the arrays of known types as structures *)
(* of their own size and never looks at the section                        *)
(* (cper-section-arm.c:489-566, :696-748): where those are the sizes the   *)
(* contexts state and nothing is lost, every structure is written where it *)
(* was read, for any number of them.                                       *)
(***************************************************************************)
THEOREM KeepsArmLayout == Spec => []ArmLayoutKept
<1>1. ArmInv => ArmLayoutKept
  <2> SUFFICES ASSUME ArmInv, kind = "arm", phase = "done", Arm!Whole, Arm!CountsAgree(section),
                      Arm!ArraysAsStructures
               PROVE  Arm!SameLayout(out, section)
    BY DEF ArmLayoutKept, Arm!LayoutKept
  <2>1. Counted(section) /\ NoContextNull(ir) /\ ir.made /\ NothingLeftOut(out)
    BY ArmCopies DEF Arm!Whole, Arm!CountsAgree, NoContextNull, NothingLeftOut
  <2>2. Arrays(section)
    BY DEF Arm!ArraysAsStructures, Arrays
  <2>3. ArmDone(section, ir, out)
    BY <2>1 DEF ArmInv
  <2>4. InPlace(out, section) /\ Len(out) = Len(section)
    BY <2>1, <2>2, <2>3 DEF ArmDone, Faithful
  <2>5. SameLayout(out, section)
    BY <2>4 DEF SameLayout, InPlace
  <2> QED
    BY <2>5, ArmCopies
<1> QED
  BY <1>1, ArmInvariant, PTL

(***************************************************************************)
(* A section that counts nothing is a header and opaque bytes: it comes    *)
(* back with its header, but for validation bits without a name, and ends  *)
(* where it did, whatever the length in it says.                           *)
(***************************************************************************)
THEOREM KeepsOpaqueArmSections == Spec => []ArmOpaqueSectionsKept
<1>1. ArmInv => ArmOpaqueSectionsKept
  <2> SUFFICES ASSUME ArmInv, kind = "arm", phase = "done", Arm!Whole,
                      section[1].body.infoNum = 0, section[1].body.contextNum = 0,
                      ~section[1].body.top
               PROVE  /\ out[1].body = [section[1].body EXCEPT !.valid = @ \intersect 0..3]
                      /\ Arm!End(out) = Arm!End(section)
    BY DEF ArmOpaqueSectionsKept, Arm!OpaqueSectionsKept
  <2>1. ir.made /\ NothingLeftOut(out)
    BY DEF Arm!Whole, NothingLeftOut
  <2>2. /\ Arm!IsArmSection(section) /\ ArmDone(section, ir, out) /\ ArmIR(section, ir)
    BY <2>1 DEF ArmInv, Drawing, ArmRead
  <2>3. ir.infoNum = 0 /\ ir.contextNum = 0
    BY <2>2, ArmCounted
  <2>4. End(out) = End(section)
    BY <2>1, <2>2, <2>3 DEF ArmDone
  <2>5. out[1].body = ArmHeaderOf(ir)
    BY <2>2 DEF ArmDone, ArmOutput
  <2>6. ArmHeaderOf(ir) = [section[1].body EXCEPT !.valid = @ \intersect 0..3]
    BY <2>2, ArmCounts, ArmHeaderIsKept
  <2> QED
    BY <2>4, <2>5, <2>6, ArmCopies
<1> QED
  BY <1>1, ArmInvariant, PTL
----------------------------------------------------------------------------
(* Ia32x64Section has its own instance of the operators of SectionParts.   *)
LEMMA X64Copies ==
  /\ \A parts : X64!End(parts) = End(parts)
  /\ \A parts, name, size, body : X64!Put(parts, name, size, body) = Put(parts, name, size, body)
  /\ \A parts, name, p, residues :
       X64!ReadAt(parts, name, p, residues) = ReadAt(parts, name, p, residues)
  /\ \A parts : X64!Counted(parts) <=> Counted(parts)
  /\ \A parts, k : X64!InfoAt(parts, k) = InfoAt(parts, k)
  /\ \A parts, k : X64!ContextAt(parts, k) = ContextAt(parts, k)
  /\ \A parts, a, b, c :
       X64!IsProcessorSection(parts, a, b, c) <=> IsProcessorSection(parts, a, b, c)
<1>1. \A parts : X64!End(parts) = End(parts)
  BY DEF X64!End, End
<1>2. \A parts, name, size, body :
        X64!Put(parts, name, size, body) = Put(parts, name, size, body)
  BY <1>1 DEF X64!Put, Put
<1>3. \A parts, name, p, residues :
        X64!ReadAt(parts, name, p, residues) = ReadAt(parts, name, p, residues)
  BY DEF X64!ReadAt, ReadAt
<1>4. \A parts : X64!Counted(parts) <=> Counted(parts)
  BY DEF X64!Counted, Counted
<1>5. \A parts, k : X64!InfoAt(parts, k) = InfoAt(parts, k)
  BY DEF X64!InfoAt, InfoAt
<1>6. \A parts, k : X64!ContextAt(parts, k) = ContextAt(parts, k)
  BY DEF X64!ContextAt, ContextAt
<1>7. \A parts, a, b, c :
        X64!IsProcessorSection(parts, a, b, c) <=> IsProcessorSection(parts, a, b, c)
  BY DEF X64!IsProcessorSection, IsProcessorSection, X64!Contiguous, Contiguous
<1> QED
  BY <1>1, <1>2, <1>3, <1>4, <1>5, <1>6, <1>7

(* So has Ia32x64Generator.                                                *)
LEMMA X64GenCopies ==
  /\ \A structures : X64Gen!Ends(structures) = Ends(structures)
  /\ \A structures : X64Gen!Laid(structures) = Laid(structures)
  /\ \A infos, contexts, a, b, vendor :
       X64Gen!Behind(infos, contexts, a, b, vendor) = Behind(infos, contexts, a, b, vendor)
  /\ \A parts, name, size, body :
       X64Gen!Put(parts, name, size, body) = Put(parts, name, size, body)
<1>1. \A structures : X64Gen!Ends(structures) = Ends(structures)
  BY DEF X64Gen!Ends, Ends
<1>2. \A structures : X64Gen!Laid(structures) = Laid(structures)
  BY <1>1 DEF X64Gen!Laid, Laid
<1>3. \A infos, contexts, a, b, vendor :
        X64Gen!Behind(infos, contexts, a, b, vendor) = Behind(infos, contexts, a, b, vendor)
  BY DEF X64Gen!Behind, Behind
<1>4. \A parts, name, size, body :
        X64Gen!Put(parts, name, size, body) = Put(parts, name, size, body)
  BY DEF X64Gen!Put, Put, X64Gen!End, End
<1> QED
  BY <1>1, <1>2, <1>3, <1>4

(* The IR that cper_section_ia32x64_to_ir() makes of a section, but for    *)
(* its entries.                                                            *)
X64IROf(made, header, infos, contexts) ==
  [made |-> made, valid |-> header.valid \intersect 0..1,
   infoNum |-> header.infoNum, contextNum |-> header.contextNum,
   infos |-> infos, contexts |-> contexts]

X64IRWith(parts, infos, contexts) == X64IROf(TRUE, parts[1].body, infos, contexts)

X64IR(parts, r) ==
  /\ r = X64IRWith(parts, r.infos, r.contexts)
  /\ \E S : r.infos \in Seq(S)
  /\ \E S : r.contexts \in Seq(S)

X64FieldsOf(parts, r, infos, contexts) ==
  /\ r.infos = infos /\ r.contexts = contexts
  /\ r.valid = parts[1].body.valid \intersect 0..1
  /\ r.infoNum = parts[1].body.infoNum
  /\ r.contextNum = parts[1].body.contextNum

(* The fields of such an IR, and what setting one of them makes of it.     *)
LEMMA X64IRFields ==
  ASSUME NEW parts, NEW infos, NEW contexts
  PROVE  X64FieldsOf(parts, X64IRWith(parts, infos, contexts), infos, contexts)
BY DEF X64IRWith, X64IROf, X64FieldsOf

LEMMA X64IRExcept ==
  ASSUME NEW parts, NEW r, X64IR(parts, r), NEW x
  PROVE  /\ WithInfos(r, x) = X64IRWith(parts, x, r.contexts)
         /\ WithContexts(r, x) = X64IRWith(parts, r.infos, x)
<1>1. ASSUME NEW made, NEW header, NEW infos, NEW contexts
      PROVE  /\ WithInfos(X64IROf(made, header, infos, contexts), x)
                   = X64IROf(made, header, x, contexts)
             /\ WithContexts(X64IROf(made, header, infos, contexts), x)
                   = X64IROf(made, header, infos, x)
  BY DEF X64IROf, WithInfos, WithContexts
<1>2. ASSUME NEW infos, NEW contexts, r = X64IRWith(parts, infos, contexts)
      PROVE  /\ WithInfos(r, x) = X64IRWith(parts, x, contexts)
             /\ WithContexts(r, x) = X64IRWith(parts, infos, x)
  <2>1. PICK yes, header : yes = TRUE /\ header = parts[1].body
    OBVIOUS
  <2>2. \A a, b : X64IRWith(parts, a, b) = X64IROf(yes, header, a, b)
    BY <2>1 DEF X64IRWith
  <2> HIDE <2>1
  <2> QED
    BY <1>1, <1>2, <2>2
<1>3. r = X64IRWith(parts, r.infos, r.contexts)
  BY DEF X64IR
<1> QED
  BY <1>2, <1>3

(* The entries are those of the structures, if the section is well formed. *)
X64InfosRead(parts, r) ==
  X64!WellFormed(parts) =>
    \A k \in 1..Len(r.infos) : r.infos[k] = X64!InfoIR(InfoAt(parts, k).body)

X64EntryOf(entry, context) ==
  \E registers \in {"section", "null"} : entry = X64!ContextIR(context, registers)

X64ContextsRead(parts, r) ==
  X64!WellFormed(parts) =>
    \A k \in 1..Len(r.contexts) : X64EntryOf(r.contexts[k], ContextAt(parts, k).body)

X64InfosSoFar(parts, r, m, p) ==
  /\ X64IR(parts, r) /\ X64InfosRead(parts, r)
  /\ m \in 0..r.infoNum /\ Len(r.infos) = m /\ r.contexts = <<>>
  /\ X64!WellFormed(parts) => p = StartAt(parts, 2 + m)

X64ContextsSoFar(parts, r, m, p) ==
  /\ X64IR(parts, r) /\ X64InfosRead(parts, r) /\ X64ContextsRead(parts, r)
  /\ m \in 0..r.contextNum /\ Len(r.infos) = r.infoNum /\ Len(r.contexts) = m
  /\ X64!WellFormed(parts) => p = StartAt(parts, 2 + r.infoNum + 2 * m)

X64Read(parts, r) ==
  /\ X64IR(parts, r) /\ X64InfosRead(parts, r) /\ X64ContextsRead(parts, r)
  /\ Len(r.infos) = r.infoNum /\ Len(r.contexts) = r.contextNum

(* An IA32/x64 section, well formed or not.                                *)
LEMMA X64Counts ==
  ASSUME NEW parts, X64!IsX64Section(parts)
  PROVE  /\ Len(parts) \in Nat \ {0} /\ Contiguous(parts)
         /\ parts[1].body \in X64!EFI_IA32_X64_PROCESSOR_ERROR_RECORD
         /\ parts[1].body.infoNum \in Nat /\ parts[1].body.contextNum \in Nat
         /\ parts[1].kind = "header" /\ parts[1].size = X64HeaderSize
         /\ parts[1].start = 0
         /\ parts = [k \in 1..Len(parts) |->
                       [kind |-> parts[k].kind, start |-> parts[k].start,
                        size |-> parts[k].size, body |-> parts[k].body]]
         /\ X64!WellFormed(parts) =>
              SectionCounts(parts, X64HeaderSize, X64InfoSize, X64ContextSize,
                            parts[1].body.infoNum, parts[1].body.contextNum)
<1>1. /\ IsProcessorSection(parts, X64HeaderSize, X64InfoSize, X64ContextSize)
      /\ parts[1].body \in X64!EFI_IA32_X64_PROCESSOR_ERROR_RECORD
  BY X64Copies DEF X64!IsX64Section
<1>2. \A k \in 2..Len(parts) : parts[k].kind = "context" => parts[k].body.size \in Nat
  BY DEF X64!IsX64Section, X64!EFI_IA32_X64_PROCESSOR_CONTEXT_INFO
<1>3. parts[1].body.infoNum \in Nat /\ parts[1].body.contextNum \in Nat
  BY <1>1 DEF X64!EFI_IA32_X64_PROCESSOR_ERROR_RECORD
<1>4. /\ X64HeaderSize \in Nat \ {0} /\ X64InfoSize \in Nat \ {0} /\ X64ContextSize \in Nat \ {0}
  BY StructuresAssumption
<1>5. /\ Len(parts) \in Nat \ {0} /\ Contiguous(parts)
      /\ parts[1].kind = "header" /\ parts[1].size = X64HeaderSize
      /\ parts = [k \in 1..Len(parts) |->
                    [kind |-> parts[k].kind, start |-> parts[k].start,
                     size |-> parts[k].size, body |-> parts[k].body]]
  BY <1>1 DEF IsProcessorSection
<1>6. parts[1].start = 0
  BY <1>1, <1>2, <1>4, ProcessorSectionShape
<1>7. X64!WellFormed(parts) => Counted(parts)
  BY X64Copies DEF X64!WellFormed
<1> QED
  BY <1>1, <1>2, <1>3, <1>4, <1>5, <1>6, <1>7 DEF SectionCounts

(* The counts of the IR are those of the section.                          *)
LEMMA X64Counted ==
  ASSUME NEW parts, X64!IsX64Section(parts), NEW r, X64IR(parts, r)
  PROVE  /\ r.infoNum \in Nat /\ r.contextNum \in Nat
         /\ Contiguous(parts)
         /\ r.valid = parts[1].body.valid \intersect 0..1
         /\ r.infoNum = parts[1].body.infoNum /\ r.contextNum = parts[1].body.contextNum
         /\ X64!WellFormed(parts) =>
              SectionCounts(parts, X64HeaderSize, X64InfoSize, X64ContextSize,
                            r.infoNum, r.contextNum)
<1>1. X64FieldsOf(parts, r, r.infos, r.contexts)
  BY X64IRFields DEF X64IR
<1>2. /\ r.infoNum = parts[1].body.infoNum
      /\ r.contextNum = parts[1].body.contextNum
      /\ r.valid = parts[1].body.valid \intersect 0..1
  BY <1>1 DEF X64FieldsOf
<1> QED
  BY <1>2, X64Counts

(* Reading the header makes such an IR (cper-section-ia32x64.c:46).        *)
LEMMA X64HeaderIsRead ==
  ASSUME NEW parts, X64!IsX64Section(parts), NEW r, r = X64IRWith(parts, <<>>, <<>>)
  PROVE  X64InfosSoFar(parts, r, 0, X64HeaderSize)
<1>1. r.infos = <<>> /\ r.contexts = <<>> /\ r.infoNum = parts[1].body.infoNum
  BY X64IRFields DEF X64FieldsOf
<1>2. <<>> \in Seq({}) /\ Len(<<>>) = 0
  OBVIOUS
<1>3. X64IR(parts, r)
  BY <1>1, <1>2 DEF X64IR
<1>4. X64InfosRead(parts, r)
  BY <1>1, <1>2 DEF X64InfosRead
<1>5. X64!WellFormed(parts) => X64HeaderSize = StartAt(parts, 2 + 0)
  BY X64Counts, WalkEnd
<1>6. 0 \in 0..r.infoNum
  BY <1>1, X64Counts
<1> QED
  BY <1>1, <1>2, <1>3, <1>4, <1>5, <1>6 DEF X64InfosSoFar

(* Reading an error information structure adds its entry.                  *)
LEMMA X64InfoIsRead ==
  ASSUME NEW parts, X64!IsX64Section(parts), NEW r, NEW m, NEW p,
         X64InfosSoFar(parts, r, m, p), m < r.infoNum,
         NEW info \in ReadAt(parts, "info", p, {}),
         NEW q, q = WithInfos(r, Append(r.infos, X64!InfoIR(info)))
  PROVE  X64InfosSoFar(parts, q, m + 1, p + X64InfoSize)
<1>1. /\ X64IR(parts, r) /\ X64InfosRead(parts, r)
      /\ m \in 0..r.infoNum /\ Len(r.infos) = m /\ r.contexts = <<>>
      /\ X64!WellFormed(parts) => p = StartAt(parts, 2 + m)
  BY DEF X64InfosSoFar
<1>2. /\ r = X64IRWith(parts, r.infos, r.contexts)
      /\ \E S : r.infos \in Seq(S)
      /\ \E S : r.contexts \in Seq(S)
  BY <1>1 DEF X64IR
<1>3. /\ q = X64IRWith(parts, q.infos, q.contexts)
      /\ q.infos = Append(r.infos, X64!InfoIR(info)) /\ q.contexts = r.contexts
      /\ q.infoNum = r.infoNum
  <2>1. q = X64IRWith(parts, Append(r.infos, X64!InfoIR(info)), r.contexts)
    BY <1>1, X64IRExcept
  <2>2. X64FieldsOf(parts, q, Append(r.infos, X64!InfoIR(info)), r.contexts)
    BY <2>1, X64IRFields
  <2>3. X64FieldsOf(parts, r, r.infos, r.contexts)
    BY <1>2, X64IRFields
  <2> QED
    BY <2>1, <2>2, <2>3 DEF X64FieldsOf
<1>4. /\ \E S : q.infos \in Seq(S)
      /\ Len(q.infos) = m + 1 /\ m \in Nat
      /\ \A k \in 1..m : q.infos[k] = r.infos[k]
      /\ q.infos[m + 1] = X64!InfoIR(info)
  <2>1. Longer(q.infos, r.infos, X64!InfoIR(info)) /\ m \in Nat
    BY <1>1, <1>2, <1>3, AppendLonger
  <2> QED
    BY <1>1, <2>1 DEF Longer
<1>5. /\ r.infoNum \in Nat /\ r.contextNum \in Nat
      /\ X64!WellFormed(parts) =>
           SectionCounts(parts, X64HeaderSize, X64InfoSize, X64ContextSize,
                         r.infoNum, r.contextNum)
  BY <1>1, X64Counted
<1>6. ASSUME X64!WellFormed(parts)
      PROVE  /\ info = InfoAt(parts, m + 1).body
             /\ p + X64InfoSize = StartAt(parts, 2 + (m + 1))
  <2>1. InfoMet(parts, X64InfoSize, r.infoNum, m)
    BY <1>4, <1>5, <1>6, InfoWalk
  <2>2. /\ ReadAt(parts, "info", StartAt(parts, 2 + m), {}) = {InfoAt(parts, m + 1).body}
        /\ StartAt(parts, 2 + m) + X64InfoSize = StartAt(parts, 2 + (m + 1))
    BY <2>1 DEF InfoMet
  <2> QED
    BY <2>2, <1>1, <1>6
<1>7. X64IR(parts, q)
  BY <1>2, <1>3, <1>4 DEF X64IR
<1>8. X64InfosRead(parts, q)
  <2> SUFFICES ASSUME X64!WellFormed(parts), NEW k \in 1..m + 1
               PROVE  q.infos[k] = X64!InfoIR(InfoAt(parts, k).body)
    BY <1>4 DEF X64InfosRead
  <2>1. CASE k = m + 1
    BY <2>1, <1>4, <1>6
  <2>2. CASE k # m + 1
    <3>1. k \in 1..m
      BY <2>2, <1>4
    <3> QED
      BY <3>1, <1>1, <1>4 DEF X64InfosRead
  <2> QED
    BY <2>1, <2>2
<1>9. m + 1 \in 0..q.infoNum
  BY <1>3, <1>4, <1>5
<1> QED
  BY <1>1, <1>3, <1>4, <1>6, <1>7, <1>8, <1>9 DEF X64InfosSoFar

(* All of them read, the contexts are next.                                *)
LEMMA X64InfosAreRead ==
  ASSUME NEW parts, NEW r, NEW m, NEW p, X64InfosSoFar(parts, r, m, p), m = r.infoNum,
         X64!IsX64Section(parts)
  PROVE  X64ContextsSoFar(parts, r, 0, p)
<1>1. /\ X64IR(parts, r) /\ X64InfosRead(parts, r)
      /\ Len(r.infos) = m /\ r.contexts = <<>>
      /\ X64!WellFormed(parts) => p = StartAt(parts, 2 + m)
  BY DEF X64InfosSoFar
<1>2. r.infoNum \in Nat /\ r.contextNum \in Nat /\ 0 \in 0..r.contextNum
  BY <1>1, X64Counted
<1>3. 2 + r.infoNum + 2 * 0 = 2 + m
  BY <1>2
<1>4. X64ContextsRead(parts, r) /\ Len(r.contexts) = 0
  BY <1>1 DEF X64ContextsRead
<1> QED
  BY <1>1, <1>2, <1>3, <1>4 DEF X64ContextsSoFar

(* Reading a context adds its entry and moves behind its registers: a      *)
(* register array with a structure of its own has its size.                *)
LEMMA X64ContextIsRead ==
  ASSUME NEW parts, X64!IsX64Section(parts), NEW r, NEW m, NEW p,
         X64ContextsSoFar(parts, r, m, p), m < r.contextNum,
         NEW context \in ReadAt(parts, "context", p, X64ContextResidue),
         NEW entry, X64EntryOf(entry, context),
         NEW q, q = WithContexts(r, Append(r.contexts, entry))
  PROVE  X64ContextsSoFar(parts, q, m + 1, p + X64ContextSize + X64!ArrayRead(context))
<1>1. /\ X64IR(parts, r) /\ X64InfosRead(parts, r) /\ X64ContextsRead(parts, r)
      /\ m \in 0..r.contextNum /\ Len(r.infos) = r.infoNum /\ Len(r.contexts) = m
      /\ X64!WellFormed(parts) => p = StartAt(parts, 2 + r.infoNum + 2 * m)
  BY DEF X64ContextsSoFar
<1>2. /\ r = X64IRWith(parts, r.infos, r.contexts)
      /\ \E S : r.infos \in Seq(S)
      /\ \E S : r.contexts \in Seq(S)
  BY <1>1 DEF X64IR
<1>3. /\ q = X64IRWith(parts, q.infos, q.contexts)
      /\ q.infos = r.infos /\ q.contexts = Append(r.contexts, entry)
      /\ q.infoNum = r.infoNum /\ q.contextNum = r.contextNum
  <2>1. q = X64IRWith(parts, r.infos, Append(r.contexts, entry))
    BY <1>1, X64IRExcept
  <2>2. X64FieldsOf(parts, q, r.infos, Append(r.contexts, entry))
    BY <2>1, X64IRFields
  <2>3. X64FieldsOf(parts, r, r.infos, r.contexts)
    BY <1>2, X64IRFields
  <2> QED
    BY <2>1, <2>2, <2>3 DEF X64FieldsOf
<1>4. /\ \E S : q.contexts \in Seq(S)
      /\ Len(q.contexts) = m + 1 /\ m \in Nat
      /\ \A k \in 1..m : q.contexts[k] = r.contexts[k]
      /\ q.contexts[m + 1] = entry
  <2>1. Longer(q.contexts, r.contexts, entry) /\ m \in Nat
    BY <1>1, <1>2, <1>3, AppendLonger
  <2> QED
    BY <1>1, <2>1 DEF Longer
<1>5. /\ r.infoNum \in Nat /\ r.contextNum \in Nat
      /\ X64!WellFormed(parts) =>
           SectionCounts(parts, X64HeaderSize, X64InfoSize, X64ContextSize,
                         r.infoNum, r.contextNum)
  BY <1>1, X64Counted
<1>6. ASSUME X64!WellFormed(parts)
      PROVE  /\ context = ContextAt(parts, m + 1).body
             /\ p + X64ContextSize + X64!ArrayRead(context)
                  = StartAt(parts, 2 + r.infoNum + 2 * (m + 1))
  <2>1. ContextMet(parts, X64ContextSize, r.infoNum, r.contextNum, m)
    BY <1>4, <1>5, <1>6, ContextWalk
  <2>2. PICK i : i = r.infoNum /\ ContextMet(parts, X64ContextSize, i, r.contextNum, m)
    BY <2>1
  <2>3. /\ ReadAt(parts, "context", StartAt(parts, 2 + i + 2 * m), X64ContextResidue)
              = {ContextAt(parts, m + 1).body}
        /\ StartAt(parts, 2 + i + 2 * m) + X64ContextSize + ContextAt(parts, m + 1).body.size
              = StartAt(parts, 2 + i + 2 * (m + 1))
        /\ ContextAt(parts, m + 1).kind = "context"
        /\ ContextAt(parts, m + 1) = parts[2 + i + 2 * m]
        /\ 2 + i + 2 * m \in 2..Len(parts)
    BY <2>2 DEF ContextMet
  <2>4. context = ContextAt(parts, m + 1).body
    BY <1>1, <1>6, <2>2, <2>3
  <2>5. X64!ArrayRead(context) = context.size
    <3>1. \A k \in 1..Len(parts) : parts[k].kind = "context" => X64!Fitting(parts[k].body)
      BY <1>6 DEF X64!WellFormed
    <3>2. X64!Fitting(context)
      BY <2>3, <2>4, <3>1
    <3> QED
      BY <3>2 DEF X64!Fitting, X64!ArrayRead
  <2> QED
    BY <1>1, <1>6, <2>2, <2>3, <2>4, <2>5
<1>7. X64IR(parts, q)
  BY <1>2, <1>3, <1>4 DEF X64IR
<1>8. X64InfosRead(parts, q)
  BY <1>1, <1>3 DEF X64InfosRead
<1>9. X64ContextsRead(parts, q)
  <2> SUFFICES ASSUME X64!WellFormed(parts), NEW k \in 1..m + 1
               PROVE  X64EntryOf(q.contexts[k], ContextAt(parts, k).body)
    BY <1>4 DEF X64ContextsRead
  <2>1. CASE k = m + 1
    BY <2>1, <1>4, <1>6
  <2>2. CASE k # m + 1
    <3>1. k \in 1..m
      BY <2>2, <1>4
    <3> QED
      BY <3>1, <1>1, <1>4 DEF X64ContextsRead
  <2> QED
    BY <2>1, <2>2
<1>10. m + 1 \in 0..q.contextNum
  BY <1>3, <1>4, <1>5
<1> QED
  BY <1>1, <1>3, <1>4, <1>6, <1>7, <1>8, <1>9, <1>10 DEF X64ContextsSoFar

(* There are no vendor specific bytes.                                     *)
LEMMA X64NoVendor ==
  ASSUME NEW parts, X64!IsX64Section(parts)
  PROVE  parts[Len(parts)].kind # "vendor"
<1>1. Len(parts) \in Nat \ {0} /\ parts[1].kind = "header"
  BY X64Counts
<1>2. \A k \in 2..Len(parts) : parts[k].kind # "vendor"
  BY DEF X64!IsX64Section
<1>3. Len(parts) = 1 \/ Len(parts) \in 2..Len(parts)
  BY <1>1
<1> QED
  BY <1>1, <1>2, <1>3

(* The position is at the end of a well formed section.                    *)
LEMMA X64ContextsAreRead ==
  ASSUME NEW parts, X64!IsX64Section(parts), NEW r, NEW m, NEW p,
         X64ContextsSoFar(parts, r, m, p), m = r.contextNum
  PROVE  X64Read(parts, r) /\ (X64!WellFormed(parts) => p = End(parts))
<1>1. /\ X64IR(parts, r) /\ X64InfosRead(parts, r) /\ X64ContextsRead(parts, r)
      /\ Len(r.infos) = r.infoNum /\ Len(r.contexts) = m
      /\ X64!WellFormed(parts) => p = StartAt(parts, 2 + r.infoNum + 2 * m)
  BY DEF X64ContextsSoFar
<1>2. /\ r.infoNum \in Nat /\ r.contextNum \in Nat
      /\ X64!WellFormed(parts) =>
           SectionCounts(parts, X64HeaderSize, X64InfoSize, X64ContextSize,
                         r.infoNum, r.contextNum)
  BY <1>1, X64Counted
<1>3. ASSUME X64!WellFormed(parts) PROVE p = End(parts)
  <2>1. PICK rest : rest = 2 + r.infoNum + 2 * r.contextNum
    OBVIOUS
  <2>2. WalkEnds(parts, rest)
    BY <1>2, <1>3, <2>1, WalkEnd
  <2>3. parts[Len(parts)].kind # "vendor"
    BY X64NoVendor
  <2> QED
    BY <1>1, <1>3, <2>1, <2>2, <2>3 DEF WalkEnds
<1> QED
  BY <1>1, <1>3 DEF X64Read
----------------------------------------------------------------------------
NoArrayNull(r) == \A k \in 1..Len(r.contexts) : r.contexts[k].registers # "null"

NothingNull(o) == \A k \in 1..Len(o) : o[k].kind = "registers" => o[k].body.of # "null"

X64Faithful(parts, r) == X64!WellFormed(parts) /\ X64!AllNamed(parts) /\ NoArrayNull(r)

(* What has been written, if nothing was lost, is what was read.           *)
X64Writing(parts, r, o, len) ==
  /\ \E S : o \in Seq(S)
  /\ Len(o) = len
  /\ X64Faithful(parts, r) /\ NothingNull(o) => Beginning(o, parts)

X64HeaderOf(r) ==
  [valid |-> r.valid, infoNum |-> r.infoNum, contextNum |-> r.contextNum,
   reserved |-> FALSE]

(* The header written from the IR is the section's.                        *)
LEMMA X64HeaderIsWritten ==
  ASSUME NEW parts, X64!IsX64Section(parts), NEW r, X64IR(parts, r),
         NEW o, o = Put(<<>>, "header", X64HeaderSize, X64HeaderOf(r))
  PROVE  X64Writing(parts, r, o, 1)
<1>1. /\ Len(o) = 1 /\ \E S : o \in Seq(S)
      /\ o[1] = [kind |-> "header", start |-> 0, size |-> X64HeaderSize, body |-> X64HeaderOf(r)]
  BY PutFirst
<1>2. /\ Len(parts) \in Nat \ {0} /\ parts[1].kind = "header" /\ parts[1].start = 0
      /\ parts[1].size = X64HeaderSize
      /\ parts = [k \in 1..Len(parts) |->
                    [kind |-> parts[k].kind, start |-> parts[k].start,
                     size |-> parts[k].size, body |-> parts[k].body]]
      /\ parts[1].body \in X64!EFI_IA32_X64_PROCESSOR_ERROR_RECORD
  BY X64Counts
<1>3. ASSUME X64Faithful(parts, r) PROVE Beginning(o, parts)
  <2>1. PICK h \in X64!EFI_IA32_X64_PROCESSOR_ERROR_RECORD : h = parts[1].body
    BY <1>2
  <2>2. h.valid \subseteq 0..1 /\ h.reserved = FALSE
    <3>1. h.valid \subseteq 0..1 /\ ~h.reserved
      BY <1>3, <2>1 DEF X64Faithful, X64!AllNamed
    <3>2. h.reserved \in BOOLEAN
      BY DEF X64!EFI_IA32_X64_PROCESSOR_ERROR_RECORD
    <3> QED
      BY <3>1, <3>2
  <2>3. r.valid = h.valid /\ r.infoNum = h.infoNum /\ r.contextNum = h.contextNum
    <3>1. /\ r.valid = h.valid \intersect 0..1
          /\ r.infoNum = h.infoNum /\ r.contextNum = h.contextNum
      BY <2>1, X64Counted
    <3>2. h.valid \intersect 0..1 = h.valid
      BY <2>2
    <3> QED
      BY <3>1, <3>2
  <2>4. X64HeaderOf(r) = h
    <3>1. h = [valid |-> h.valid, infoNum |-> h.infoNum, contextNum |-> h.contextNum,
               reserved |-> h.reserved]
      BY DEF X64!EFI_IA32_X64_PROCESSOR_ERROR_RECORD
    <3> QED
      BY <2>2, <2>3, <3>1, Zenon DEF X64HeaderOf
  <2>5. 1 \in 1..Len(parts)
    BY <1>2
  <2>6. parts[1] = [kind |-> parts[1].kind, start |-> parts[1].start,
                    size |-> parts[1].size, body |-> parts[1].body]
    BY <1>2, <2>5, Zenon
  <2>7. o[1] = parts[1]
    BY <1>1, <1>2, <2>1, <2>4, <2>6
  <2>8. Len(o) = 1
    BY <1>1
  <2>9. Len(o) <= Len(parts) /\ \A k \in 1..Len(o) : k = 1
    <3>1. PICK a, b : a = Len(parts) /\ b = Len(o)
      OBVIOUS
    <3>2. a \in Nat \ {0}
      BY <1>2, <3>1
    <3>3. b = 1
      BY <2>8, <3>1
    <3>4. b <= a /\ \A k \in 1..b : k = 1
      BY <3>2, <3>3
    <3> QED
      BY <3>1, <3>4
  <2> QED
    BY <2>7, <2>9 DEF Beginning
<1> QED
  BY <1>1, <1>3 DEF X64Writing

(* Each structure written, if it is the section's next, continues it.      *)
LEMMA X64PutBeginning ==
  ASSUME NEW parts, X64!IsX64Section(parts), NEW r, NEW o, NEW len,
         X64Writing(parts, r, o, len),
         NEW name, NEW size, NEW body, NEW more, more = Put(o, name, size, body),
         X64Faithful(parts, r) /\ (name = "registers" => body.of # "null")
           => /\ len + 1 \in 1..Len(parts)
              /\ parts[len + 1].kind = name /\ parts[len + 1].size = size
              /\ parts[len + 1].body = body
  PROVE  X64Writing(parts, r, more, len + 1)
<1>1. (\E S : o \in Seq(S)) /\ Len(o) \in Nat /\ Len(o) = len
  BY DEF X64Writing
<1>2. /\ Len(more) = len + 1
      /\ \A k \in 1..len : more[k] = o[k]
      /\ more[len + 1] = [kind |-> name, start |-> End(o), size |-> size, body |-> body]
      /\ \E T : more \in Seq(T)
  BY <1>1, PutShape
<1>3. (\A k \in 1..len : k \in 1..Len(more)) /\ len + 1 \in 1..Len(more)
  BY <1>1, <1>2
<1>4. ASSUME X64Faithful(parts, r), NothingNull(more)
      PROVE  Beginning(more, parts)
  <2>1. NothingNull(o)
    BY <1>1, <1>2, <1>3, <1>4 DEF NothingNull
  <2>2. Beginning(o, parts)
    BY <2>1, <1>4 DEF X64Writing
  <2>3. name = "registers" => body.of # "null"
    <3>1. more[len + 1].kind = name /\ more[len + 1].body = body
      BY <1>2
    <3> QED
      BY <3>1, <1>3, <1>4 DEF NothingNull
  <2>4. /\ len + 1 \in 1..Len(parts)
        /\ parts[len + 1].kind = name /\ parts[len + 1].size = size
        /\ parts[len + 1].body = body
    BY <2>3, <1>4
  <2>5. Contiguous(parts)
        /\ parts = [k \in 1..Len(parts) |->
                      [kind |-> parts[k].kind, start |-> parts[k].start,
                       size |-> parts[k].size, body |-> parts[k].body]]
    BY X64Counts
  <2>6. PICK k \in 1..Len(parts) : k = len + 1
    BY <2>4
  <2>7. parts[k] = [kind |-> parts[k].kind, start |-> parts[k].start,
                    size |-> parts[k].size, body |-> parts[k].body]
    BY <2>5, Zenon
  <2>8. Beginning(Put(o, parts[k].kind, parts[k].size, parts[k].body), parts)
    BY <1>1, <2>2, <2>5, <2>6, <2>7, PutBeginning
  <2> QED
    BY <2>4, <2>6, <2>8
<1> QED
  BY <1>2, <1>4 DEF X64Writing

(* An error information structure with named bits only is kept.            *)
LEMMA X64NamedKept ==
  ASSUME NEW info \in X64!EFI_IA32_X64_PROCESS_ERROR_INFO, X64!Named(info)
  PROVE  X64!WrittenInfo(X64!InfoIR(info)) = info
<1>1. PICK bits : bits = X64!CheckBits(info.type)
  OBVIOUS
<1>2. info.valid \intersect 0..4 = info.valid /\ info.check \intersect bits = info.check
  BY <1>1 DEF X64!Named
<1>3. X64!InfoIR(info) = [type |-> info.type, valid |-> info.valid, check |-> info.check]
  BY <1>1, <1>2 DEF X64!InfoIR
<1>4. info = [type |-> info.type, valid |-> info.valid, check |-> info.check]
  BY DEF X64!EFI_IA32_X64_PROCESS_ERROR_INFO
<1> QED
  BY <1>3, <1>4 DEF X64!WrittenInfo

(* Each error information structure is written as it was.                  *)
LEMMA X64InfoIsWritten ==
  ASSUME NEW parts, X64!IsX64Section(parts), NEW r, X64Read(parts, r), NEW o,
         NEW m \in 0..r.infoNum, m < r.infoNum, X64Writing(parts, r, o, 1 + m)
  PROVE  X64Writing(parts, r, Put(o, "info", X64InfoSize, X64!WrittenInfo(r.infos[m + 1])),
                    1 + (m + 1))
<1>1. X64IR(parts, r) /\ X64InfosRead(parts, r) /\ Len(r.infos) = r.infoNum
  BY DEF X64Read
<1>2. /\ r.infoNum \in Nat /\ r.contextNum \in Nat
      /\ X64!WellFormed(parts) => SectionCounts(parts, X64HeaderSize, X64InfoSize, X64ContextSize,
                                                r.infoNum, r.contextNum)
  BY <1>1, X64Counted
<1>3. m \in Nat /\ (1 + m) + 1 = 2 + m /\ 1 + (m + 1) = (1 + m) + 1 /\ m + 1 \in 1..Len(r.infos)
  BY <1>1, <1>2
<1>4. PICK entry : entry = X64!WrittenInfo(r.infos[m + 1])
  OBVIOUS
<1>5. ASSUME X64Faithful(parts, r)
      PROVE  /\ (1 + m) + 1 \in 1..Len(parts)
             /\ parts[(1 + m) + 1].kind = "info" /\ parts[(1 + m) + 1].size = X64InfoSize
             /\ parts[(1 + m) + 1].body = entry
  <2>1. X64!WellFormed(parts) /\ X64!AllNamed(parts)
    BY <1>5 DEF X64Faithful
  <2>2. InfoMet(parts, X64InfoSize, r.infoNum, m)
    BY <1>2, <1>3, <2>1, InfoWalk
  <2>3. PICK x \in 2..Len(parts) :
          /\ x = (1 + m) + 1 /\ InfoAt(parts, m + 1) = parts[x]
          /\ parts[x].kind = "info" /\ parts[x].size = X64InfoSize
    <3>1. /\ 2 + m \in 2..Len(parts) /\ InfoAt(parts, m + 1) = parts[2 + m]
          /\ parts[2 + m].kind = "info" /\ parts[2 + m].size = X64InfoSize
      BY <2>2 DEF InfoMet
    <3> QED
      BY <1>3, <3>1
  <2>4. PICK info \in X64!EFI_IA32_X64_PROCESS_ERROR_INFO :
          info = parts[x].body /\ X64!Named(info)
    <3>1. parts[x].body \in X64!EFI_IA32_X64_PROCESS_ERROR_INFO
      BY <2>3 DEF X64!IsX64Section
    <3>2. x \in 1..Len(parts)
      OBVIOUS
    <3>3. X64!Named(parts[x].body)
      BY <2>1, <2>3, <3>2 DEF X64!AllNamed
    <3> QED
      BY <3>1, <3>3
  <2>5. r.infos[m + 1] = X64!InfoIR(info)
    BY <1>1, <1>3, <2>1, <2>3, <2>4 DEF X64InfosRead
  <2>6. X64!WrittenInfo(X64!InfoIR(info)) = info
    BY <2>4, X64NamedKept
  <2> QED
    BY <1>4, <2>3, <2>4, <2>5, <2>6
<1>6. X64Writing(parts, r, Put(o, "info", X64InfoSize, entry), (1 + m) + 1)
  BY <1>5, X64PutBeginning
<1> QED
  BY <1>3, <1>4, <1>6

(* So are both structures of a context,                                    *)
LEMMA X64PairIsWritten ==
  ASSUME NEW parts, X64!IsX64Section(parts), NEW r, X64Read(parts, r), NEW o,
         NEW m \in 0..r.contextNum, m < r.contextNum,
         X64Writing(parts, r, o, 1 + r.infoNum + 2 * m),
         NEW header, NEW size, NEW body,
         X64Faithful(parts, r) => header = ContextAt(parts, m + 1).body,
         X64Faithful(parts, r) /\ body.of # "null" =>
           size = ContextAt(parts, m + 1).body.size /\ body = [of |-> "section"]
  PROVE  X64Writing(parts, r, Put(Put(o, "context", X64ContextSize, header), "registers", size, body),
                    1 + r.infoNum + 2 * (m + 1))
<1>1. X64IR(parts, r)
  BY DEF X64Read
<1>2. /\ r.infoNum \in Nat /\ r.contextNum \in Nat
      /\ X64!WellFormed(parts) => SectionCounts(parts, X64HeaderSize, X64InfoSize, X64ContextSize,
                                                r.infoNum, r.contextNum)
  BY <1>1, X64Counted
<1>3. PICK x \in Nat : x = 1 + r.infoNum + 2 * m
  BY <1>2
<1>4. /\ m \in Nat /\ x + 1 = 2 + r.infoNum + 2 * m /\ (x + 1) + 1 = 3 + r.infoNum + 2 * m
      /\ (x + 1) + 1 = 1 + r.infoNum + 2 * (m + 1)
  BY <1>2, <1>3
<1>5. ASSUME X64Faithful(parts, r)
      PROVE  /\ x + 1 \in 1..Len(parts) /\ (x + 1) + 1 \in 1..Len(parts)
             /\ parts[x + 1].kind = "context" /\ parts[x + 1].size = X64ContextSize
             /\ parts[x + 1].body = ContextAt(parts, m + 1).body
             /\ parts[(x + 1) + 1].kind = "registers"
             /\ parts[(x + 1) + 1].size = ContextAt(parts, m + 1).body.size
             /\ parts[(x + 1) + 1].body = [of |-> "section"]
  <2>1. ContextMet(parts, X64ContextSize, r.infoNum, r.contextNum, m)
    BY <1>2, <1>4, <1>5, ContextWalk DEF X64Faithful
  <2>2. PICK i : i = r.infoNum /\ ContextMet(parts, X64ContextSize, i, r.contextNum, m)
    BY <2>1
  <2>3. /\ 2 + i + 2 * m \in 2..Len(parts) /\ 3 + i + 2 * m \in 2..Len(parts)
        /\ ContextAt(parts, m + 1) = parts[2 + i + 2 * m]
        /\ ContextAt(parts, m + 1).kind = "context"
        /\ ContextAt(parts, m + 1).size = X64ContextSize
        /\ parts[3 + i + 2 * m].kind = "registers"
        /\ parts[3 + i + 2 * m].size = ContextAt(parts, m + 1).body.size
        /\ parts[3 + i + 2 * m].body = [of |-> "section"]
    BY <2>2 DEF ContextMet
  <2> QED
    BY <1>4, <2>2, <2>3
<1>6. X64Writing(parts, r, Put(o, "context", X64ContextSize, header), x + 1)
  BY <1>3, <1>5, X64PutBeginning
<1>7. X64Writing(parts, r, Put(Put(o, "context", X64ContextSize, header), "registers", size, body),
                 (x + 1) + 1)
  <2>1. X64Faithful(parts, r) /\ ("registers" = "registers" => body.of # "null")
          => /\ (x + 1) + 1 \in 1..Len(parts)
             /\ parts[(x + 1) + 1].kind = "registers" /\ parts[(x + 1) + 1].size = size
             /\ parts[(x + 1) + 1].body = body
    BY <1>5
  <2> QED
    BY <1>6, <2>1, X64PutBeginning
<1> QED
  BY <1>4, <1>7

(* The entry of a context, if nothing was lost, is of the one it was read  *)
(* from.                                                                   *)
LEMMA X64EntryOfContext ==
  ASSUME NEW parts, X64!IsX64Section(parts), NEW r, X64Read(parts, r),
         NEW m \in 0..r.contextNum, m < r.contextNum, X64Faithful(parts, r),
         NEW entry, entry = r.contexts[m + 1],
         NEW context, context = ContextAt(parts, m + 1).body
  PROVE  /\ X64!ContextWritten(entry) = context
         /\ X64!ArrayWritten(entry) = context.size
         /\ entry.registers = "section"
<1>1. X64IR(parts, r) /\ X64ContextsRead(parts, r) /\ Len(r.contexts) = r.contextNum
  BY DEF X64Read
<1>2. /\ r.infoNum \in Nat /\ r.contextNum \in Nat
      /\ X64!WellFormed(parts) => SectionCounts(parts, X64HeaderSize, X64InfoSize, X64ContextSize,
                                                r.infoNum, r.contextNum)
  BY <1>1, X64Counted
<1>3. X64!WellFormed(parts) /\ NoArrayNull(r)
  BY DEF X64Faithful
<1>4. m \in Nat /\ m + 1 \in 1..Len(r.contexts)
  BY <1>1, <1>2
<1>5. X64EntryOf(entry, context) /\ entry.registers # "null"
  BY <1>1, <1>3, <1>4 DEF X64ContextsRead, NoArrayNull
<1>6. PICK registers \in {"section", "null"} : entry = X64!ContextIR(context, registers)
  BY <1>5 DEF X64EntryOf
<1>7. entry.type = context.type /\ entry.size = context.size /\ entry.registers = registers
  BY <1>6 DEF X64!ContextIR
<1>8. PICK x \in 2..Len(parts) : parts[x].kind = "context" /\ parts[x].body = context
  <2>1. ContextMet(parts, X64ContextSize, r.infoNum, r.contextNum, m)
    BY <1>2, <1>3, <1>4, ContextWalk
  <2>2. /\ 2 + r.infoNum + 2 * m \in 2..Len(parts)
        /\ ContextAt(parts, m + 1) = parts[2 + r.infoNum + 2 * m]
        /\ ContextAt(parts, m + 1).kind = "context"
    BY <2>1 DEF ContextMet
  <2> QED
    BY <2>2
<1>9. context \in X64!EFI_IA32_X64_PROCESSOR_CONTEXT_INFO
  BY <1>8 DEF X64!IsX64Section
<1>10. X64!Fitting(context)
  <2>1. x \in 1..Len(parts)
    OBVIOUS
  <2> QED
    BY <1>3, <1>8, <2>1 DEF X64!WellFormed
<1>11. context = [type |-> context.type, size |-> context.size, resv1 |-> FALSE]
  <2>1. x \in 2..Len(parts) /\ parts[x].kind = "context" /\ parts[x].body = context
    BY <1>8
  <2>2. ~context.resv1
    BY <2>1 DEF X64Faithful, X64!AllNamed, X64!WellFormed
  <2>3. /\ context.resv1 \in BOOLEAN
        /\ context = [type |-> context.type, size |-> context.size, resv1 |-> context.resv1]
    BY <1>9 DEF X64!EFI_IA32_X64_PROCESSOR_CONTEXT_INFO
  <2>4. context.resv1 = FALSE
    BY <2>2, <2>3
  <2> QED
    BY <2>3, <2>4, Zenon
<1>12. X64!ContextWritten(entry) = context
  BY <1>7, <1>11, Zenon DEF X64!ContextWritten
<1> QED
  BY <1>5, <1>7, <1>10, <1>12 DEF X64!Fitting, X64!ArrayWritten

(* as WriteContext does it;                                                *)
LEMMA X64ContextIsWritten ==
  ASSUME NEW parts, X64!IsX64Section(parts), NEW r, X64Read(parts, r), NEW o,
         NEW m \in 0..r.contextNum, m < r.contextNum,
         X64Writing(parts, r, o, 1 + r.infoNum + 2 * m),
         NEW entry, entry = r.contexts[m + 1]
  PROVE  X64Writing(parts, r,
                    Put(Put(o, "context", X64ContextSize,
                            X64!ContextWritten(entry)),
                        "registers", X64!ArrayWritten(entry), [of |-> entry.registers]),
                    1 + r.infoNum + 2 * (m + 1))
<1>1. PICK header, body : /\ header = X64!ContextWritten(entry)
                          /\ body = [of |-> entry.registers]
  OBVIOUS
<1>2. PICK context : context = ContextAt(parts, m + 1).body
  OBVIOUS
<1>3. X64Faithful(parts, r) => /\ header = context
                               /\ X64!ArrayWritten(entry) = context.size
                               /\ body = [of |-> "section"]
  BY <1>1, <1>2, X64EntryOfContext
<1>4. X64Writing(parts, r,
                 Put(Put(o, "context", X64ContextSize, header),
                     "registers", X64!ArrayWritten(entry), body),
                 1 + r.infoNum + 2 * (m + 1))
  BY <1>2, <1>3, X64PairIsWritten
<1> QED
  BY <1>1, <1>4

(* registers that cannot be decoded are left out.                          *)
LEMMA X64ContextIsNotDecoded ==
  ASSUME NEW parts, X64!IsX64Section(parts), NEW r, X64Read(parts, r), NEW o,
         NEW m \in 0..r.contextNum, m < r.contextNum,
         X64Writing(parts, r, o, 1 + r.infoNum + 2 * m),
         NEW entry, entry = r.contexts[m + 1]
  PROVE  X64Writing(parts, r,
                    Put(Put(o, "context", X64ContextSize,
                            X64!ContextWritten(entry)),
                        "registers", 0, [of |-> "null"]),
                    1 + r.infoNum + 2 * (m + 1))
<1>1. PICK header : header = X64!ContextWritten(entry)
  OBVIOUS
<1>2. X64Faithful(parts, r) => header = ContextAt(parts, m + 1).body
  BY <1>1, X64EntryOfContext
<1>3. [of |-> "null"].of = "null"
  OBVIOUS
<1>4. X64Writing(parts, r,
                 Put(Put(o, "context", X64ContextSize, header), "registers", 0, [of |-> "null"]),
                 1 + r.infoNum + 2 * (m + 1))
  BY <1>2, <1>3, X64PairIsWritten
<1> QED
  BY <1>1, <1>4

(* With as many structures as the section has, what was written is it.     *)
LEMMA X64AllIsWritten ==
  ASSUME NEW parts, X64!IsX64Section(parts), NEW r, X64Read(parts, r), NEW o,
         X64Writing(parts, r, o, 1 + r.infoNum + 2 * r.contextNum),
         X64Faithful(parts, r), NothingNull(o)
  PROVE  o = parts
<1>1. /\ r.infoNum \in Nat /\ r.contextNum \in Nat
      /\ SectionCounts(parts, X64HeaderSize, X64InfoSize, X64ContextSize,
                       r.infoNum, r.contextNum)
  BY X64Counted DEF X64Read, X64Faithful
<1>2. PICK rest : rest = 2 + r.infoNum + 2 * r.contextNum
  OBVIOUS
<1>3. Len(parts) = rest - 1
  <2>1. WalkEnds(parts, rest) /\ parts[Len(parts)].kind # "vendor"
    BY <1>1, <1>2, WalkEnd, X64NoVendor
  <2> QED
    BY <2>1 DEF WalkEnds
<1>4. Len(o) = Len(parts) /\ Len(parts) \in Nat
  <2>1. Len(o) = 1 + r.infoNum + 2 * r.contextNum
    BY DEF X64Writing
  <2> QED
    BY <1>1, <1>2, <1>3, <2>1
<1>5. \A k \in 1..Len(parts) : o[k] = parts[k]
  BY <1>4 DEF X64Writing, Beginning
<1>6. o = [k \in 1..Len(o) |-> o[k]]
  <2>1. PICK S : o \in Seq(S)
    BY DEF X64Writing
  <2> QED
    BY <2>1
<1>7. parts = [k \in 1..Len(parts) |-> parts[k]]
  <2>1. PICK f : parts = [k \in 1..Len(parts) |-> f[k]]
    <3>1. parts = [k \in 1..Len(parts) |->
                     [kind |-> parts[k].kind, start |-> parts[k].start,
                      size |-> parts[k].size, body |-> parts[k].body]]
      BY X64Counts
    <3>2. PICK f : f = [k \in 1..Len(parts) |->
                     [kind |-> parts[k].kind, start |-> parts[k].start,
                      size |-> parts[k].size, body |-> parts[k].body]]
      OBVIOUS
    <3>3. f = [k \in 1..Len(parts) |-> f[k]]
      BY <3>2
    <3> QED
      BY <3>1, <3>2, <3>3
  <2> QED
    BY <2>1
<1> QED
  BY <1>4, <1>5, <1>6, <1>7
----------------------------------------------------------------------------
(* A section made of what was drawn.                                       *)
X64Drawn(parts) == X64!IsX64Section(parts) /\ X64!WellFormed(parts) /\ X64!AllNamed(parts)

(* The masks of an error information structure leave only bits that the    *)
(* converter has a place for (gen-section-ia32x64.c:79-133,                *)
(* cper-section-ia32x64.c:163-337).                                        *)
LEMMA X64MasksFit ==
  ASSUME NEW random \in X64!EFI_IA32_X64_PROCESS_ERROR_INFO, random.type \in X64!CheckTypes
  PROVE  LET info == X64Gen!generate_ia32x64_error_structure(random)
         IN  info \in X64!EFI_IA32_X64_PROCESS_ERROR_INFO /\ X64!Named(info)
<1> DEFINE info == X64Gen!generate_ia32x64_error_structure(random)
<1>1. random.type \in STRING /\ random.valid \subseteq 0..63 /\ random.check \subseteq 0..63
  BY DEF X64!EFI_IA32_X64_PROCESS_ERROR_INFO
<1>2. PICK masked : masked = X64Gen!MaskedBits(random.type)
  OBVIOUS
<1>3. info = [type |-> random.type, valid |-> random.valid \intersect 0..4,
              check |-> random.check \intersect masked]
  BY <1>2 DEF X64Gen!generate_ia32x64_error_structure
<1>4. masked \subseteq X64!CheckBits(random.type)
  <2>1. CASE random.type \in {"cache", "tlb"}
    BY <1>2, <2>1 DEF X64Gen!MaskedBits, X64!CheckBits
  <2>2. CASE random.type = "bus"
    BY <1>2, <2>2 DEF X64Gen!MaskedBits, X64!CheckBits
  <2>3. CASE random.type = "ms"
    BY <1>2, <2>3 DEF X64Gen!MaskedBits, X64!CheckBits
  <2> QED
    BY <2>1, <2>2, <2>3 DEF X64!CheckTypes
<1>5. info.type = random.type /\ info.valid \subseteq 0..4
      /\ info.check \subseteq X64!CheckBits(random.type) /\ info.check \subseteq 0..63
      /\ info.valid \subseteq 0..63
  BY <1>1, <1>3, <1>4
<1>6. X64!Named(info)
  BY <1>5 DEF X64!Named
<1>7. info \in X64!EFI_IA32_X64_PROCESS_ERROR_INFO
  BY <1>1, <1>3, <1>5 DEF X64!EFI_IA32_X64_PROCESS_ERROR_INFO
<1> QED
  BY <1>6, <1>7

(* A context has the size of its registers' structure, if there is one, and*)
(* its reserved register is cleared (gen-section-ia32x64.c:136-170).       *)
LEMMA X64ContextFits ==
  ASSUME NEW random \in X64!EFI_IA32_X64_PROCESSOR_CONTEXT_INFO
  PROVE  LET context == X64Gen!generate_ia32x64_context_structure(random)
         IN  /\ context \in X64!EFI_IA32_X64_PROCESSOR_CONTEXT_INFO
             /\ X64!Fitting(context) /\ context.resv1 = FALSE
<1> DEFINE context == X64Gen!generate_ia32x64_context_structure(random)
<1>1. random.type \in Nat /\ random.size \in Nat
  BY DEF X64!EFI_IA32_X64_PROCESSOR_CONTEXT_INFO
<1>2. DOMAIN X64RegisterSize = {X64!IA32, X64!X64}
      /\ \A t \in {X64!IA32, X64!X64} : X64RegisterSize[t] \in Nat
  BY StructuresAssumption
<1>3. PICK size : size = IF random.type \in DOMAIN X64RegisterSize
                           THEN X64RegisterSize[random.type] ELSE random.size
  OBVIOUS
<1>4. size \in Nat
  BY <1>1, <1>2, <1>3
<1>5. context = [type |-> random.type, size |-> size, resv1 |-> FALSE]
  BY <1>3 DEF X64Gen!generate_ia32x64_context_structure
<1>6. context \in [type : Nat, size : Nat, resv1 : BOOLEAN] /\ context.resv1 = FALSE
  BY <1>1, <1>4, <1>5
<1>7. context \in X64!EFI_IA32_X64_PROCESSOR_CONTEXT_INFO
  BY <1>6 DEF X64!EFI_IA32_X64_PROCESSOR_CONTEXT_INFO
<1>8. X64!Fitting(context)
  BY <1>2, <1>3, <1>5 DEF X64!Fitting, X64!HasStructure
<1> QED
  BY <1>6, <1>7, <1>8

(* What the generator makes of the random bytes of the structures.         *)
LEMMA X64StructuresMade ==
  ASSUME NEW d \in X64Draws
  PROVE  LET infos == X64Gen!Infos(d)
             contexts == X64Gen!Contexts(d)
         IN  /\ infos \in Seq(X64!EFI_IA32_X64_PROCESS_ERROR_INFO)
             /\ contexts \in Seq(X64!EFI_IA32_X64_PROCESSOR_CONTEXT_INFO)
             /\ Len(infos) = Len(d.infos) /\ Len(contexts) = Len(d.contexts)
             /\ \A k \in 1..Len(infos) : X64!Named(infos[k])
             /\ \A k \in 1..Len(contexts) :
                  X64!Fitting(contexts[k]) /\ contexts[k].resv1 = FALSE
<1>1. /\ d.infos \in Seq(X64!EFI_IA32_X64_PROCESS_ERROR_INFO)
      /\ d.contexts \in Seq(X64!EFI_IA32_X64_PROCESSOR_CONTEXT_INFO)
      /\ \A k \in 1..Len(d.infos) : d.infos[k].type \in X64!CheckTypes
  BY DEF X64Draws
<1>2. PICK i \in Nat, c \in Nat : i = Len(d.infos) /\ c = Len(d.contexts)
  BY <1>1
<1>3. \A k \in 1..i :
        LET info == X64Gen!generate_ia32x64_error_structure(d.infos[k])
        IN  info \in X64!EFI_IA32_X64_PROCESS_ERROR_INFO /\ X64!Named(info)
  <2>1. \A k \in 1..i : d.infos[k] \in X64!EFI_IA32_X64_PROCESS_ERROR_INFO
                         /\ d.infos[k].type \in X64!CheckTypes
    BY <1>1, <1>2
  <2> QED
    BY <2>1, X64MasksFit
<1>4. \A k \in 1..c :
        LET context == X64Gen!generate_ia32x64_context_structure(d.contexts[k])
        IN  /\ context \in X64!EFI_IA32_X64_PROCESSOR_CONTEXT_INFO
            /\ X64!Fitting(context) /\ context.resv1 = FALSE
  <2>1. \A k \in 1..c : d.contexts[k] \in X64!EFI_IA32_X64_PROCESSOR_CONTEXT_INFO
    BY <1>1, <1>2
  <2> QED
    BY <2>1, X64ContextFits
<1>5. /\ X64Gen!Infos(d) = [k \in 1..i |-> X64Gen!generate_ia32x64_error_structure(d.infos[k])]
      /\ X64Gen!Contexts(d)
           = [k \in 1..c |-> X64Gen!generate_ia32x64_context_structure(d.contexts[k])]
  BY <1>2 DEF X64Gen!Infos, X64Gen!Contexts
<1>6. /\ X64Gen!Infos(d) \in Seq(X64!EFI_IA32_X64_PROCESS_ERROR_INFO)
      /\ Len(X64Gen!Infos(d)) = i
      /\ \A k \in 1..i : X64!Named(X64Gen!Infos(d)[k])
  BY <1>3, <1>5
<1>7. /\ X64Gen!Contexts(d) \in Seq(X64!EFI_IA32_X64_PROCESSOR_CONTEXT_INFO)
      /\ Len(X64Gen!Contexts(d)) = c
      /\ \A k \in 1..c : /\ X64!Fitting(X64Gen!Contexts(d)[k])
                          /\ X64Gen!Contexts(d)[k].resv1 = FALSE
  BY <1>4, <1>5
<1> QED
  BY <1>2, <1>6, <1>7

(* It is laid behind the header, which counts it.                          *)
LEMMA X64IsDrawn ==
  ASSUME NEW d \in X64Draws, NEW h \in X64!EFI_IA32_X64_PROCESSOR_ERROR_RECORD,
         h.valid \subseteq 0..1, ~h.reserved, h.infoNum = Len(d.infos), h.contextNum = Len(d.contexts),
         NEW first, first.kind = "header", first.size = X64HeaderSize, first.body = h
  PROVE  X64Drawn(X64Gen!Laid(<<first>> \o X64Gen!Structures(d)))
<1>1. PICK infos \in Seq(X64!EFI_IA32_X64_PROCESS_ERROR_INFO),
           contexts \in Seq(X64!EFI_IA32_X64_PROCESSOR_CONTEXT_INFO) :
        /\ infos = X64Gen!Infos(d) /\ contexts = X64Gen!Contexts(d)
        /\ Len(infos) = Len(d.infos) /\ Len(contexts) = Len(d.contexts)
        /\ \A k \in 1..Len(infos) : X64!Named(infos[k])
        /\ \A k \in 1..Len(contexts) :
             X64!Fitting(contexts[k]) /\ contexts[k].resv1 = FALSE
  BY X64StructuresMade
<1>2. /\ X64HeaderSize \in Nat \ {0} /\ X64InfoSize \in Nat \ {0} /\ X64ContextSize \in Nat \ {0}
  BY StructuresAssumption
<1>3. \A x \in X64!EFI_IA32_X64_PROCESSOR_CONTEXT_INFO : x.size \in Nat
  BY DEF X64!EFI_IA32_X64_PROCESSOR_CONTEXT_INFO
<1>4. PICK b : b = Behind(infos, contexts, X64InfoSize, X64ContextSize, 0)
  OBVIOUS
<1>5. X64Gen!Structures(d) = b
  BY <1>1, <1>4, X64GenCopies DEF X64Gen!Structures
<1>6. PICK parts : parts = Laid(<<first>> \o b)
  OBVIOUS
<1>7. PICK i \in Nat, c \in Nat : i = Len(infos) /\ c = Len(contexts)
  BY <1>1
<1>8. PICK v : v = IF 0 = 0 THEN 0 ELSE 1
  OBVIOUS
<1>9. DrawnSection(parts, infos, contexts, X64HeaderSize, X64InfoSize, X64ContextSize,
                   0, first.body, Ends(b)[Len(b)], i, c, v)
  <2>1. 0 \in Nat /\ v = IF 0 = 0 THEN 0 ELSE 1
    BY <1>8
  <2>2. DrawnSection(Laid(<<first>> \o b), infos, contexts, X64HeaderSize, X64InfoSize,
                     X64ContextSize, 0, first.body, Ends(b)[Len(b)],
                     Len(infos), Len(contexts), v)
    BY <2>1, <1>1, <1>2, <1>3, <1>4, DrawnSectionShape
  <2> QED
    BY <2>2, <1>6, <1>7
<1>10. /\ IsProcessorSection(parts, X64HeaderSize, X64InfoSize, X64ContextSize)
       /\ parts[1].body = h
       /\ Len(parts) = 1 + i + 2 * c + v
       /\ \A k \in 1..i : parts[1 + k].kind = "info"
       /\ \A k \in 1..c : parts[i + 2 * k].kind = "context"
                          /\ parts[i + 2 * k + 1].kind = "registers"
       /\ \A k \in 2..Len(parts) :
            /\ parts[k].kind = "info" => \E j \in 1..i : parts[k].body = infos[j]
            /\ parts[k].kind = "context" => \E j \in 1..c : parts[k].body = contexts[j]
            /\ parts[k].kind # "vendor"
  BY <1>9 DEF DrawnSection
<1>11. \A j \in 1..i : infos[j] \in X64!EFI_IA32_X64_PROCESS_ERROR_INFO /\ X64!Named(infos[j])
  BY <1>1, <1>7
<1>12. \A j \in 1..c : contexts[j] \in X64!EFI_IA32_X64_PROCESSOR_CONTEXT_INFO
                       /\ X64!Fitting(contexts[j]) /\ ~contexts[j].resv1
  BY <1>1, <1>7
<1>13. X64!IsX64Section(parts)
  BY <1>10, <1>11, <1>12, X64Copies DEF X64!IsX64Section
<1>14. Len(parts) \in Nat /\ parts[1].kind = "header"
  BY <1>10 DEF IsProcessorSection
<1>15. \A k \in 1..Len(parts) : k = 1 \/ k \in 2..Len(parts)
  BY <1>14
<1>16. X64!WellFormed(parts)
  <2>1. Counted(parts)
    <3>1. PICK N : N = Len(parts)
      OBVIOUS
    <3>2. N = 1 + i + 2 * c /\ parts[1].body.infoNum = i /\ parts[1].body.contextNum = c
      BY <1>1, <1>7, <1>8, <1>10, <3>1
    <3>3. 1 + i + 2 * c <= N /\ \A k \in 1 + i + 2 * c + 1..N : FALSE
      BY <3>2
    <3> QED
      BY <1>10, <3>1, <3>2, <3>3 DEF Counted
  <2>2. \A k \in 1..Len(parts) : parts[k].kind = "context" => X64!Fitting(parts[k].body)
    BY <1>10, <1>12, <1>14, <1>15
  <2> QED
    BY <2>1, <2>2, X64Copies DEF X64!WellFormed
<1>17. X64!AllNamed(parts)
  BY <1>10, <1>11, <1>12, <1>14, <1>15 DEF X64!AllNamed
<1>18. X64Gen!Laid(<<first>> \o X64Gen!Structures(d)) = parts
  BY <1>5, <1>6, X64GenCopies
<1> QED
  BY <1>13, <1>16, <1>17, <1>18 DEF X64Drawn

(* or'ing a count into cleared bits gives the count.                       *)
LEMMA X64CountSet ==
  ASSUME NEW m \in 0..63
  PROVE  X64Gen!OrCount(0, m) = m
BY DEF X64Gen!OrCount

X64HeaderSet(h, i, c) ==
  [h EXCEPT !.reserved = FALSE, !.valid = @ \intersect 0..1,
            !.infoNum = i, !.contextNum = c]

X64CountedHeader(x, i, c) ==
  /\ x \in X64!EFI_IA32_X64_PROCESSOR_ERROR_RECORD
  /\ x.valid \subseteq 0..1 /\ ~x.reserved /\ x.infoNum = i /\ x.contextNum = c

LEMMA X64HeaderIsSet ==
  ASSUME NEW h \in X64!EFI_IA32_X64_PROCESSOR_ERROR_RECORD, NEW i \in 0..63, NEW c \in 0..63
  PROVE  X64CountedHeader(X64HeaderSet(h, i, c), i, c)
BY DEF X64!EFI_IA32_X64_PROCESSOR_ERROR_RECORD, X64HeaderSet, X64CountedHeader

X64Drawing == {"random", "setHeader", "copy"}

X64HeaderDrawn ==
  \E h \in X64!EFI_IA32_X64_PROCESSOR_ERROR_RECORD :
    /\ section = Put(<<>>, "header", X64HeaderSize, h)
    /\ phase = "copy" =>
         /\ h.valid \subseteq 0..1 /\ ~h.reserved
         /\ h.infoNum = Len(drawn.infos) /\ h.contextNum = Len(drawn.contexts)

(***************************************************************************)
(* The inductive invariant of an IA32/x64 section, as ArmInv; one that was *)
(* drawn is well formed, and the position of a well formed one is known.   *)
(***************************************************************************)
X64Inv ==
  kind = "ia32x64" =>
    /\ phase \in X64Drawing \union {"header", "infos", "contexts", "writeHeader", "writeInfos",
                                    "writeContexts", "done"}
    /\ phase \in X64Drawing => drawn \in X64Draws
    /\ phase = "random" => section = <<>>
    /\ phase \in {"setHeader", "copy"} => X64HeaderDrawn
    /\ phase \notin X64Drawing => X64!IsX64Section(section)
    /\ phase = "header" /\ drawn # <<>> => X64Drawn(section)
    /\ phase \in X64Drawing \union {"header", "infos", "contexts", "writeHeader"} => out = <<>>
    /\ phase = "infos" => X64InfosSoFar(section, ir, n, pos)
    /\ phase = "contexts" => X64ContextsSoFar(section, ir, n, pos)
    /\ phase = "writeHeader" => (X64!WellFormed(section) => pos = End(section))
    /\ phase \in {"writeHeader", "writeInfos", "writeContexts", "done"} => X64Read(section, ir)
    /\ phase = "writeInfos" => n \in 0..ir.infoNum /\ X64Writing(section, ir, out, 1 + n)
    /\ phase = "writeContexts" =>
         n \in 0..ir.contextNum /\ X64Writing(section, ir, out, 1 + ir.infoNum + 2 * n)
    /\ phase = "done" => X64Writing(section, ir, out, 1 + ir.infoNum + 2 * ir.contextNum)

(* A step of an IA32/x64 section is one of its generator or its converter. *)
LEMMA X64Step ==
  ASSUME [Next]_vars, kind = "ia32x64"
  PROVE  /\ kind' = kind
         /\ \/ X64Gen!Step /\ UNCHANGED <<n, pos, ir, out>>
            \/ X64!Step /\ UNCHANGED drawn
            \/ UNCHANGED vars
BY DEF Next, vars, converter, GenerateArm, GenerateX64, ConvertArm, ConvertX64,
       ConvertHeader, ConvertDescriptor, ConvertSection, Converted, SectionKinds,
       SectionStep, Generate, ToIR, CrashOnNull, ToCper

(* What is given or drawn satisfies the invariant.                         *)
LEMMA X64InvInit == Init => X64Inv
<1> SUFFICES ASSUME Init, kind = "ia32x64" PROVE X64Inv
  BY DEF X64Inv
<1>1. PICK start \in Starts :
        /\ kind = start.kind /\ drawn = start.drawn /\ section = start.section
        /\ phase = IF start.section = <<>> THEN "random"
                   ELSE IF start.kind \in {"arm", "ia32x64"} THEN "header"
                   ELSE "toIR"
  BY DEF Init
<1>2. \/ drawn = <<>> /\ X64!IsX64Section(section)
      \/ section = <<>> /\ drawn \in X64Draws
  BY <1>1, StartsAssumption
<1>3. X64!IsX64Section(section) => section # <<>>
  BY X64Counts
<1>4. out = <<>>
  BY DEF Init
<1>5. CASE section = <<>>
  BY <1>1, <1>2, <1>3, <1>4, <1>5 DEF X64Inv, X64Drawing
<1>6. CASE section # <<>>
  BY <1>1, <1>2, <1>3, <1>4, <1>6 DEF X64Inv, X64Drawing
<1> QED
  BY <1>5, <1>6

(* So does every step of the generator,                                    *)
LEMMA X64GenKeeps ==
  ASSUME X64Inv, kind = "ia32x64", kind' = kind, X64Gen!Step, UNCHANGED <<n, pos, ir, out>>
  PROVE  X64Inv'
<1>1. CASE X64Gen!RandomBytes
  <2>1. PICK h \in X64!EFI_IA32_X64_PROCESSOR_ERROR_RECORD :
          section' = Put(<<>>, "header", X64HeaderSize, h)
    BY <1>1, X64GenCopies, StructuresAssumption DEF X64Gen!RandomBytes
  <2>2. X64HeaderDrawn'
    BY <1>1, <2>1 DEF X64HeaderDrawn, X64Gen!RandomBytes
  <2> QED
    BY <1>1, <2>2 DEF X64Inv, X64Drawing, X64Gen!RandomBytes
<1>2. CASE X64Gen!SetHeader
  <2>1. PICK h \in X64!EFI_IA32_X64_PROCESSOR_ERROR_RECORD :
          section = Put(<<>>, "header", X64HeaderSize, h)
    BY <1>2 DEF X64Inv, X64HeaderDrawn, X64Gen!SetHeader
  <2>2. drawn \in X64Draws /\ Len(drawn.infos) \in 0..63 /\ Len(drawn.contexts) \in 0..63
    <3>1. drawn \in X64Draws
      BY <1>2 DEF X64Inv, X64Drawing, X64Gen!SetHeader
    <3>2. /\ drawn.infos \in Seq(X64!EFI_IA32_X64_PROCESS_ERROR_INFO)
          /\ drawn.contexts \in Seq(X64!EFI_IA32_X64_PROCESSOR_CONTEXT_INFO)
          /\ Len(drawn.infos) <= 63 /\ Len(drawn.contexts) <= 63
      BY <3>1 DEF X64Draws
    <3>3. PICK a \in Nat, b \in Nat : a = Len(drawn.infos) /\ b = Len(drawn.contexts)
      BY <3>2
    <3>4. a <= 63 /\ b <= 63
      <4>1. Len(drawn.infos) <= 63 /\ Len(drawn.contexts) <= 63
        BY <3>2
      <4> QED
        BY <3>3, <4>1
    <3>5. a \in 0..63 /\ b \in 0..63
      BY <3>4, SMTT(30)
    <3> QED
      BY <3>1, <3>3, <3>5
  <2>3. PICK i \in 0..63, c \in 0..63 : i = Len(drawn.infos) /\ c = Len(drawn.contexts)
    BY <2>2, ZenonT(60)
  <2>4. X64Gen!OrCount(0, Len(drawn.infos)) = i /\ X64Gen!OrCount(0, Len(drawn.contexts)) = c
    BY <2>3, X64CountSet
  <2>5. PICK x \in X64!EFI_IA32_X64_PROCESSOR_ERROR_RECORD :
          /\ x = X64HeaderSet(h, i, c) /\ x.valid \subseteq 0..1 /\ ~x.reserved
          /\ x.infoNum = i /\ x.contextNum = c
    <3>1. PICK x : x = X64HeaderSet(h, i, c) /\ X64CountedHeader(x, i, c)
      BY X64HeaderIsSet
    <3> QED
      BY <3>1 DEF X64CountedHeader
  <2>6. section' = Put(<<>>, "header", X64HeaderSize, x)
    <3>1. section' = [section EXCEPT ![1].body =
                        X64HeaderSet(section[1].body, X64Gen!OrCount(0, Len(drawn.infos)),
                                     X64Gen!OrCount(0, Len(drawn.contexts)))]
      BY <1>2 DEF X64Gen!SetHeader, X64HeaderSet
    <3>2. section[1].body = h
      BY <2>1, PutFirstExcept
    <3>3. section' = [section EXCEPT ![1].body = x]
      BY <3>1, <3>2, <2>4, <2>5
    <3>4. [Put(<<>>, "header", X64HeaderSize, h) EXCEPT ![1].body = x]
            = Put(<<>>, "header", X64HeaderSize, x)
      BY PutFirstExcept
    <3> QED
      BY <3>3, <3>4, <2>1
  <2>7. X64HeaderDrawn'
    BY <1>2, <2>3, <2>5, <2>6 DEF X64HeaderDrawn, X64Gen!SetHeader
  <2> QED
    BY <1>2, <2>2, <2>7 DEF X64Inv, X64Drawing, X64Gen!SetHeader
<1>3. CASE X64Gen!CopyStructures
  <2>1. PICK h \in X64!EFI_IA32_X64_PROCESSOR_ERROR_RECORD :
          /\ section = Put(<<>>, "header", X64HeaderSize, h)
          /\ h.valid \subseteq 0..1 /\ ~h.reserved
          /\ h.infoNum = Len(drawn.infos) /\ h.contextNum = Len(drawn.contexts)
    BY <1>3 DEF X64Inv, X64HeaderDrawn, X64Gen!CopyStructures
  <2>2. drawn \in X64Draws
    BY <1>3 DEF X64Inv, X64Drawing, X64Gen!CopyStructures
  <2>3. PICK first : /\ section = <<first>> /\ first.kind = "header"
                     /\ first.size = X64HeaderSize /\ first.body = h
    BY <2>1, PutFirstIs
  <2>4. X64Drawn(X64Gen!Laid(<<first>> \o X64Gen!Structures(drawn)))
    BY <2>1, <2>2, <2>3, X64IsDrawn
  <2>5. X64Drawn(section') /\ X64!IsX64Section(section')
    BY <1>3, <2>3, <2>4 DEF X64Gen!CopyStructures, X64Drawn
  <2> QED
    BY <1>3, <2>5 DEF X64Inv, X64Drawing, X64Gen!CopyStructures
<1> QED
  BY <1>1, <1>2, <1>3 DEF X64Gen!Step

(* every step to the IR,                                                   *)
LEMMA X64ReadKeeps ==
  ASSUME X64Inv, kind = "ia32x64", kind' = kind, X64!Step, UNCHANGED drawn,
         phase \in {"header", "infos", "contexts"}
  PROVE  X64Inv'
<1>1. X64!IsX64Section(section) /\ section' = section /\ X64!IsX64Section(section')
  BY DEF X64Inv, X64Drawing, X64!Step, X64!ReadHeader, X64!ReadInfo, X64!InfosRead,
         X64!ReadContext, X64!ContextsRead, X64!WriteHeader, X64!WriteInfo, X64!InfosWritten,
         X64!WriteContext, X64!ContextNotDecoded, X64!ContextsWritten
<1>2. CASE X64!ReadHeader
  <2>1. ir' = X64IRWith(section, <<>>, <<>>)
    BY <1>2 DEF X64!ReadHeader, X64IRWith, X64IROf
  <2>2. X64InfosSoFar(section, ir', 0, X64HeaderSize)
    BY <1>1, <2>1, X64HeaderIsRead
  <2>3. X64InfosSoFar(section', ir', n', pos')
    BY <1>1, <1>2, <2>2 DEF X64!ReadHeader
  <2> QED
    BY <1>1, <1>2, <2>3 DEF X64Inv, X64Drawing, X64!ReadHeader
<1>3. CASE X64!ReadInfo
  <2>1. X64InfosSoFar(section, ir, n, pos) /\ n < ir.infoNum
    BY <1>3 DEF X64Inv, X64!ReadInfo
  <2>2. PICK info \in ReadAt(section, "info", pos, {}) :
          ir' = WithInfos(ir, Append(ir.infos, X64!InfoIR(info)))
    BY <1>3, X64Copies DEF X64!ReadInfo, WithInfos
  <2>3. X64InfosSoFar(section, ir', n + 1, pos + X64InfoSize)
    BY <1>1, <2>1, <2>2, X64InfoIsRead
  <2>4. X64InfosSoFar(section', ir', n', pos')
    BY <1>1, <1>3, <2>3 DEF X64!ReadInfo
  <2> QED
    BY <1>1, <1>3, <2>4 DEF X64Inv, X64Drawing, X64!ReadInfo
<1>4. CASE X64!InfosRead
  <2>1. X64ContextsSoFar(section, ir, 0, pos)
    BY <1>1, <1>4, X64InfosAreRead DEF X64Inv, X64!InfosRead
  <2>2. X64ContextsSoFar(section', ir', n', pos')
    BY <1>1, <1>4, <2>1 DEF X64!InfosRead
  <2> QED
    BY <1>1, <1>4, <2>2 DEF X64Inv, X64Drawing, X64!InfosRead
<1>5. CASE X64!ReadContext
  <2>1. X64ContextsSoFar(section, ir, n, pos) /\ n < ir.contextNum
    BY <1>5 DEF X64Inv, X64!ReadContext
  <2>2. PICK context \in ReadAt(section, "context", pos, X64ContextResidue), encoded \in BOOLEAN :
          /\ ir' = WithContexts(ir, Append(ir.contexts,
                     X64!ContextIR(context, IF encoded THEN "section" ELSE "null")))
          /\ pos' = pos + X64ContextSize + X64!ArrayRead(context)
    BY <1>5, X64Copies DEF X64!ReadContext, WithContexts
  <2>3. PICK entry : entry = X64!ContextIR(context, IF encoded THEN "section" ELSE "null")
    OBVIOUS
  <2>4. X64EntryOf(entry, context)
    BY <2>3 DEF X64EntryOf
  <2>5. ir' = WithContexts(ir, Append(ir.contexts, entry))
    BY <2>2, <2>3
  <2>6. X64ContextsSoFar(section, ir', n + 1, pos + X64ContextSize + X64!ArrayRead(context))
    BY <1>1, <2>1, <2>4, <2>5, X64ContextIsRead
  <2>7. X64ContextsSoFar(section', ir', n', pos')
    BY <1>1, <1>5, <2>2, <2>6 DEF X64!ReadContext
  <2> QED
    BY <1>1, <1>5, <2>7 DEF X64Inv, X64Drawing, X64!ReadContext
<1>6. CASE X64!ContextsRead
  <2>1. X64ContextsSoFar(section, ir, n, pos) /\ n = ir.contextNum
    BY <1>6 DEF X64Inv, X64!ContextsRead
  <2>2. X64Read(section, ir) /\ (X64!WellFormed(section) => pos = End(section))
    BY <1>1, <2>1, X64ContextsAreRead
  <2>3. X64Read(section', ir') /\ (X64!WellFormed(section') => pos' = End(section'))
    BY <1>1, <1>6, <2>2 DEF X64!ContextsRead
  <2> QED
    BY <1>1, <1>6, <2>3 DEF X64Inv, X64Drawing, X64!ContextsRead
<1> QED
  BY <1>2, <1>3, <1>4, <1>5, <1>6
  DEF X64!Step, X64!WriteHeader, X64!WriteInfo, X64!InfosWritten, X64!WriteContext,
      X64!ContextNotDecoded, X64!ContextsWritten

(* and every step back.                                                    *)
LEMMA X64WriteKeeps ==
  ASSUME X64Inv, kind = "ia32x64", kind' = kind, X64!Step, UNCHANGED drawn,
         phase \in {"writeHeader", "writeInfos", "writeContexts"}
  PROVE  X64Inv'
<1>1. /\ X64!IsX64Section(section) /\ section' = section /\ X64!IsX64Section(section')
      /\ ir' = ir /\ X64Read(section, ir) /\ X64Read(section', ir')
  BY DEF X64Inv, X64Drawing, X64!Step, X64!ReadHeader, X64!ReadInfo, X64!InfosRead,
         X64!ReadContext, X64!ContextsRead, X64!WriteHeader, X64!WriteInfo, X64!InfosWritten,
         X64!WriteContext, X64!ContextNotDecoded, X64!ContextsWritten
<1>2. ir.infoNum \in Nat /\ ir.contextNum \in Nat
  BY <1>1, X64Counted DEF X64Read
<1>3. CASE X64!WriteHeader
  <2>1. out' = Put(<<>>, "header", X64HeaderSize, X64HeaderOf(ir))
    BY <1>3, X64Copies DEF X64Inv, X64!WriteHeader, X64HeaderOf
  <2>2. X64IR(section, ir)
    BY <1>1 DEF X64Read
  <2>3. X64Writing(section, ir, out', 1)
    BY <1>1, <2>1, <2>2, X64HeaderIsWritten
  <2>4. X64Writing(section', ir', out', 1 + n') /\ n' \in 0..ir'.infoNum
    BY <1>1, <1>2, <1>3, <2>3 DEF X64!WriteHeader
  <2> QED
    BY <1>1, <1>3, <2>4 DEF X64Inv, X64Drawing, X64!WriteHeader
<1>4. CASE X64!WriteInfo
  <2>1. n \in 0..ir.infoNum /\ n < ir.infoNum /\ X64Writing(section, ir, out, 1 + n)
    BY <1>4 DEF X64Inv, X64!WriteInfo
  <2>2. out' = Put(out, "info", X64InfoSize, X64!WrittenInfo(ir.infos[n + 1]))
    BY <1>4, X64Copies DEF X64!WriteInfo
  <2>3. X64Writing(section, ir, out', 1 + (n + 1))
    BY <1>1, <2>1, <2>2, X64InfoIsWritten
  <2>4. X64Writing(section', ir', out', 1 + n') /\ n' \in 0..ir'.infoNum
    BY <1>1, <1>2, <1>4, <2>1, <2>3 DEF X64!WriteInfo
  <2> QED
    BY <1>1, <1>4, <2>4 DEF X64Inv, X64Drawing, X64!WriteInfo
<1>5. CASE X64!InfosWritten
  <2>1. X64Writing(section, ir, out, 1 + ir.infoNum)
    BY <1>5 DEF X64Inv, X64!InfosWritten
  <2>2. 1 + ir.infoNum = 1 + ir.infoNum + 2 * 0
    BY <1>2
  <2>3. X64Writing(section', ir', out', 1 + ir'.infoNum + 2 * n') /\ n' \in 0..ir'.contextNum
    BY <1>1, <1>2, <1>5, <2>1, <2>2 DEF X64!InfosWritten
  <2> QED
    BY <1>1, <1>5, <2>3 DEF X64Inv, X64Drawing, X64!InfosWritten
<1>6. ASSUME phase = "writeContexts", n < ir.contextNum, n' = n + 1, phase' = "writeContexts",
             X64Writing(section, ir, out', 1 + ir.infoNum + 2 * (n + 1))
      PROVE  X64Inv'
  <2>1. n \in 0..ir.contextNum
    BY <1>6 DEF X64Inv
  <2>2. /\ X64Writing(section', ir', out', 1 + ir'.infoNum + 2 * n')
        /\ n' \in 0..ir'.contextNum
    BY <1>1, <1>2, <1>6, <2>1
  <2> QED
    BY <1>1, <1>6, <2>2 DEF X64Inv, X64Drawing
<1>7. phase = "writeContexts" =>
        n \in 0..ir.contextNum /\ X64Writing(section, ir, out, 1 + ir.infoNum + 2 * n)
  BY DEF X64Inv
<1>8. CASE X64!WriteContext
  <2>1. PICK entry : entry = ir.contexts[n + 1]
    OBVIOUS
  <2>2. out' = Put(Put(out, "context", X64ContextSize,
                       X64!ContextWritten(entry)),
                   "registers", X64!ArrayWritten(entry), [of |-> entry.registers])
    BY <1>8, <2>1, X64Copies DEF X64!WriteContext
  <2>3. phase = "writeContexts" /\ n < ir.contextNum
        /\ n' = n + 1 /\ phase' = "writeContexts"
    BY <1>8 DEF X64!WriteContext
  <2>4. X64Writing(section, ir, out', 1 + ir.infoNum + 2 * (n + 1))
    BY <1>1, <1>7, <2>1, <2>2, <2>3, X64ContextIsWritten
  <2> QED
    BY <1>6, <2>3, <2>4
<1>9. CASE X64!ContextNotDecoded
  <2>1. PICK entry : entry = ir.contexts[n + 1]
    OBVIOUS
  <2>2. out' = Put(Put(out, "context", X64ContextSize,
                       X64!ContextWritten(entry)),
                   "registers", 0, [of |-> "null"])
    BY <1>9, <2>1, X64Copies DEF X64!ContextNotDecoded
  <2>3. phase = "writeContexts" /\ n < ir.contextNum
        /\ n' = n + 1 /\ phase' = "writeContexts"
    BY <1>9 DEF X64!ContextNotDecoded
  <2>4. X64Writing(section, ir, out', 1 + ir.infoNum + 2 * (n + 1))
    BY <1>1, <1>7, <2>1, <2>2, <2>3, X64ContextIsNotDecoded
  <2> QED
    BY <1>6, <2>3, <2>4
<1>10. CASE X64!ContextsWritten
  <2>1. X64Writing(section, ir, out, 1 + ir.infoNum + 2 * ir.contextNum)
    BY <1>7, <1>10 DEF X64!ContextsWritten
  <2>2. X64Writing(section', ir', out', 1 + ir'.infoNum + 2 * ir'.contextNum)
    BY <1>1, <1>10, <2>1 DEF X64!ContextsWritten
  <2> QED
    BY <1>1, <1>10, <2>2 DEF X64Inv, X64Drawing, X64!ContextsWritten
<1> QED
  BY <1>3, <1>4, <1>5, <1>8, <1>9, <1>10
  DEF X64!Step, X64!ReadHeader, X64!ReadInfo, X64!InfosRead, X64!ReadContext, X64!ContextsRead

(* No step breaks it.                                                      *)
LEMMA X64InvStep == X64Inv /\ [Next]_vars => X64Inv'
<1> SUFFICES ASSUME X64Inv, [Next]_vars, kind = "ia32x64" PROVE X64Inv'
  BY KindOfStep DEF X64Inv
<1>1. /\ kind' = kind
      /\ \/ X64Gen!Step /\ UNCHANGED <<n, pos, ir, out>>
         \/ X64!Step /\ UNCHANGED drawn
         \/ UNCHANGED vars
  BY X64Step
<1>2. CASE UNCHANGED vars
  BY <1>2 DEF X64Inv, X64Drawing, X64HeaderDrawn, vars, converter
<1>3. CASE X64!Step /\ UNCHANGED drawn
  <2>1. phase \in {"header", "infos", "contexts"}
        \/ phase \in {"writeHeader", "writeInfos", "writeContexts"}
    BY <1>3 DEF X64!Step, X64!ReadHeader, X64!ReadInfo, X64!InfosRead,
         X64!ReadContext, X64!ContextsRead, X64!WriteHeader, X64!WriteInfo, X64!InfosWritten,
         X64!WriteContext, X64!ContextNotDecoded, X64!ContextsWritten
  <2> QED
    BY <1>1, <1>3, <2>1, X64ReadKeeps, X64WriteKeeps
<1> QED
  BY <1>1, <1>2, <1>3, X64GenKeeps

(***************************************************************************)
(* Every state of an IA32/x64 section satisfies the invariant, whatever    *)
(* the sizes and residues are.                                             *)
(***************************************************************************)
THEOREM X64Invariant == Spec => []X64Inv
BY X64InvInit, X64InvStep, PTL DEF Spec

(***************************************************************************)
(* cper_log_section_binary_test() for a section type whose converters walk *)
(* any number of structures: a well formed section comes back as it was,   *)
(* structure by structure, if nothing was left out and nothing is set that *)
(* the converter drops: unnamed bits, the end of CpuIdInfo, Resv1          *)
(* (cper-section-ia32x64.c:46-117, :565-630, :954).                        *)
(***************************************************************************)
THEOREM KeepsX64Sections == Spec => []X64BinaryEqual
<1>1. X64Inv => X64BinaryEqual
  <2> SUFFICES ASSUME X64Inv, kind = "ia32x64", phase = "done", X64!WellFormed(section),
                      X64!Whole, X64!AllNamed(section)
               PROVE  out = section
    BY DEF X64BinaryEqual, X64!BinaryEqual
  <2>1. NoArrayNull(ir) /\ NothingNull(out)
    BY DEF X64!Whole, NoArrayNull, NothingNull
  <2>2. /\ X64!IsX64Section(section) /\ X64Read(section, ir)
        /\ X64Writing(section, ir, out, 1 + ir.infoNum + 2 * ir.contextNum)
    BY DEF X64Inv, X64Drawing
  <2>3. X64Faithful(section, ir)
    BY <2>1 DEF X64Faithful
  <2> QED
    BY <2>1, <2>2, <2>3, X64AllIsWritten
<1> QED
  BY <1>1, X64Invariant, PTL

(***************************************************************************)
(* The contexts read are those of the section and the walk ends at its     *)
(* end, although registers with a structure of their own are skipped by    *)
(* its size and others by the size the context states                      *)
(* (cper-section-ia32x64.c:352-415).                                       *)
(***************************************************************************)
THEOREM ReachesX64End == Spec => []X64EndReached
<1>1. X64Inv => X64EndReached
  <2> SUFFICES ASSUME X64Inv, kind = "ia32x64", phase = "writeHeader", X64!WellFormed(section)
               PROVE  /\ pos = X64!End(section)
                      /\ \A k \in 1..Len(ir.contexts) :
                           LET context == X64!ContextAt(section, k).body
                           IN  /\ ir.contexts[k].type = context.type
                               /\ ir.contexts[k].size = context.size
    BY DEF X64EndReached, X64!EndReached
  <2>1. pos = End(section) /\ X64Read(section, ir)
    BY DEF X64Inv
  <2>2. ASSUME NEW k \in 1..Len(ir.contexts)
        PROVE  /\ ir.contexts[k].type = X64!ContextAt(section, k).body.type
               /\ ir.contexts[k].size = X64!ContextAt(section, k).body.size
    <3>1. PICK context, entry : context = ContextAt(section, k).body /\ entry = ir.contexts[k]
      OBVIOUS
    <3>2. X64EntryOf(entry, context)
      BY <2>1, <3>1 DEF X64Read, X64ContextsRead
    <3>3. entry.type = context.type /\ entry.size = context.size
      BY <3>2 DEF X64EntryOf, X64!ContextIR
    <3> QED
      BY <3>1, <3>3, X64Copies
  <2> QED
    BY <2>1, <2>2, X64Copies
<1> QED
  BY <1>1, X64Invariant, PTL

(***************************************************************************)
(* Whatever the random bytes of the header and the structures were, the    *)
(* generator or's its counts into cleared bits, clears what the converter  *)
(* has no place for and gives register arrays the size of their structure: *)
(* the section is well formed and comes back (gen-section-ia32x64.c:19-170)*)
(***************************************************************************)
THEOREM DrawsWellFormedX64Sections == Spec => []X64GeneratedWellFormed
<1>1. X64Inv => X64GeneratedWellFormed
  BY DEF X64Inv, X64GeneratedWellFormed, X64Drawn
<1> QED
  BY <1>1, X64Invariant, PTL
=============================================================================
