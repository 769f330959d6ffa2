------------------------------ MODULE MCCodecs ------------------------------
(***************************************************************************)
(* Codecs on record headers and descriptors with every combination of      *)
(* validation bits, and on sections of up to two error information         *)
(* structures and two contexts, with sizes scaled down so that each        *)
(* structure has another size than the ones it may be mistaken for; and on *)
(* the other sections with every field zero or a value of its own, with    *)
(* and without reserved bits, and with up to two words or bytes of data    *)
(* behind them.                                                            *)
(***************************************************************************)
EXTENDS Codecs

(* Context types: EFI_ARM_CONTEXT_TYPE_AARCH32_GPR and _MISC of ARM, those *)
(* with a structure of IA32/x64, and one without a structure of either.    *)
GPR == 0
MISC == 8
IA32Mode == 2
X64Mode == 3
Own == 9

MCArmRegisterSize == [t \in {GPR, MISC} |-> IF t = MISC THEN 3 ELSE 4]
MCX64RegisterSize == [t \in {IA32Mode, X64Mode} |-> IF t = X64Mode THEN 4 ELSE 3]

UpToTwo(S) == UNION {[1..l -> S] : l \in 0..2}

(* Contexts other bytes decode to: a struct's, and one with its own size.  *)
MCArmResidue == {[type |-> GPR, size |-> 4], [type |-> Own, size |-> 0]}
MCX64Residue ==
  {[type |-> IA32Mode, size |-> 3, resv1 |-> FALSE],
   [type |-> Own, size |-> 0, resv1 |-> FALSE]}
----------------------------------------------------------------------------
MCArmRandomHeaders ==
  [valid : SUBSET {0, 5}, infoNum : {0, 3}, contextNum : {3}, length : {1},
   running : {TRUE}, top : BOOLEAN, psci : {1}]

MCX64RandomHeaders ==
  [valid : SUBSET {0, 14}, infoNum : {0, 5}, contextNum : {0, 2}, reserved : BOOLEAN]

ArmInfo(type, holds) == [type |-> type, holds |-> holds]
ArmInfos ==
  {ArmInfo(Arm!CACHE, Arm!InfoGroups), ArmInfo(Arm!TLB, {"entry"}),
   ArmInfo(Arm!BUS, Arm!InfoGroups), ArmInfo(Arm!BUS, {"common"}),
   ArmInfo(3, {"entry", "reserved"})}

(* The register array of a context as large as its structure, or smaller.  *)
ArmContexts ==
  {[type |-> GPR, size |-> 4], [type |-> MISC, size |-> 3],
   [type |-> MISC, size |-> 2], [type |-> Own, size |-> 1]}

(* All bits with a place in the IR, reserved ones, an unknown type.        *)
X64Infos ==
  {[type |-> t, valid |-> 0..4, check |-> X64!CheckBits(t)] : t \in X64!CheckTypes}
  \union {[type |-> "bus", valid |-> {5}, check |-> {11, 16, 35}],
          [type |-> "unknown", valid |-> {0}, check |-> {16}]}

X64Context(type, size, resv1) == [type |-> type, size |-> size, resv1 |-> resv1]
X64Contexts ==
  {X64Context(IA32Mode, 3, FALSE), X64Context(X64Mode, 4, FALSE),
   X64Context(X64Mode, 4, TRUE), X64Context(Own, 2, FALSE),
   X64Context(IA32Mode, 1, FALSE)}

ArmStructures(infos, contexts, vendors) ==
  [infos : UpToTwo(infos), contexts : UpToTwo(contexts), vendor : vendors]
X64Structures(infos, contexts) ==
  [infos : UpToTwo(infos), contexts : UpToTwo(contexts)]

(* What the generators draw, at least one of each.  The random bytes of    *)
(* IA32/x64 structures have all bits set, of one type also none.           *)
ArmGenerated ==
  {d \in ArmStructures(ArmInfos, {c \in ArmContexts : c.type # Own /\ (c.type = MISC => c.size = 2)},
                  {0, 2}) : d.infos # <<>> /\ d.contexts # <<>>}
X64Generated ==
  {d \in X64Structures([type : X64!CheckTypes, valid : {0..63}, check : {0..63}]
                    \union {[type |-> "ms", valid |-> {}, check |-> {}]},
                  {X64Context(IA32Mode, 1, FALSE), X64Context(X64Mode, 1, TRUE),
                   X64Context(Own, 2, FALSE)}) :
     d.infos # <<>> /\ d.contexts # <<>>}

(* A section given as it is, with the counts and the length it has.        *)
ArmGiven(d, top) ==
  Laid(Put(<<>>, "header", ArmHeaderSize,
           [valid |-> {0, 3}, infoNum |-> Len(d.infos),
            contextNum |-> Len(d.contexts), length |-> ArmGen!TotalLength(d),
            running |-> ~top, top |-> top, psci |-> 1])
       \o ArmGen!Structures(d))
X64Given(d, valid, reserved) ==
  Laid(Put(<<>>, "header", X64HeaderSize,
           [valid |-> valid, infoNum |-> Len(d.infos), contextNum |-> Len(d.contexts),
            reserved |-> reserved])
       \o Behind(d.infos, d.contexts, X64InfoSize, X64ContextSize, 0))

GeneratedArm ==
  {[kind |-> "arm", drawn |-> d, section |-> <<>>] : d \in ArmGenerated}
GeneratedX64 ==
  {[kind |-> "ia32x64", drawn |-> d, section |-> <<>>] : d \in X64Generated}
GivenArm ==
  {[kind |-> "arm", drawn |-> <<>>, section |-> ArmGiven(d, top)] :
     d \in ArmStructures(ArmInfos, ArmContexts, {0, 2}), top \in BOOLEAN}
GivenX64 ==
  {[kind |-> "ia32x64", drawn |-> <<>>, section |-> X64Given(d, valid, reserved)] :
     d \in X64Structures(X64Infos, X64Contexts), valid \in {{0}, {1, 14}},
     reserved \in BOOLEAN}

(* A field holds zeros or a value that no other field has.                 *)
PlainValue(f, zeros) == IF zeros THEN Zero ELSE f

(* BCD bytes: 0, 19 and 99, one with a digit above 9, one of three digits. *)
Digits == {0, 16 + 9, 9 * 16 + 9, 16 + 15, 9 * 16 + 15}
Times ==
  {[Fields!NoTime EXCEPT !["Century"] = c, !["Seconds"] = s] : c, s \in Digits}

Headers ==
  {[SignatureEnd     |-> IF reserved THEN "other" ELSE "0xFFFFFFFF",
    Revision         |-> PlainValue("Revision", zeros),
    SectionCount     |-> PlainValue("SectionCount", zeros),
    ErrorSeverity    |-> PlainValue("ErrorSeverity", zeros),
    ValidationBits   |-> bits \union (IF reserved THEN {3} ELSE {}),
    RecordLength     |-> PlainValue("RecordLength", zeros),
    TimeStamp        |-> time,
    TimeStampFlag    |-> flag,
    PlatformID       |-> PlainValue("PlatformID", 0 \notin bits \/ zeros),
    PartitionID      |-> PlainValue("PartitionID", 2 \notin bits /\ ~reserved),
    CreatorID        |-> PlainValue("CreatorID", zeros),
    NotificationType |-> PlainValue("NotificationType", zeros),
    RecordID         |-> PlainValue("RecordID", zeros),
    PersistenceInfo  |-> PlainValue("PersistenceInfo", zeros),
    Flags            |-> PlainValue("Flags", zeros),
    Reserved         |-> PlainValue("Reserved", ~reserved)] :
     bits \in SUBSET (0..2), reserved, zeros \in BOOLEAN,
     time \in Times, flag \in {0, 1, 3}}

Descriptors ==
  {[SectionOffset |-> PlainValue("SectionOffset", zeros),
    SectionLength |-> PlainValue("SectionLength", zeros),
    Revision      |-> PlainValue("Revision", zeros),
    SecValidMask  |-> bits,
    Reserved      |-> PlainValue("Reserved", 2 \notin bits),
    SectionFlags  |-> flags,
    SectionType   |-> PlainValue("SectionType", zeros),
    FruId         |-> PlainValue("FruId", zeros),
    Severity      |-> PlainValue("Severity", zeros),
    FruString     |-> text] :
     bits \in SUBSET (0..2), zeros \in BOOLEAN, flags \in SUBSET {0, 7, 8},
     text \in 0..FruTextSize}

GivenFields ==
  {[kind |-> "record", drawn |-> <<>>,
    section |-> Put(<<>>, "header", RecordHeaderSize, h)] : h \in Headers}
  \union
  {[kind |-> "descriptor", drawn |-> <<>>,
    section |-> Put(<<>>, "descriptor", SlotSize, d)] : d \in Descriptors}

(* The fields of a structure that are passed on, and its reserved ones.    *)
Values(names, zeros) == [f \in names |-> PlainValue(f, zeros)]
Reserved(names, zeros) == Values(names, zeros)

Status(zeros, clear) ==
  Values({"Type", "AddressSignal", "ControlSignal", "DataSignal",
          "DetectedByResponder", "DetectedByRequester", "FirstError",
          "OverflowNotLogged"}, zeros)
  @@ Reserved({"Resv1", "Resv2"}, clear)

(* Named bits at both ends, and one without a name.                        *)
Bits(names) == SUBSET {0, names - 1, names}

Words(number) == [i \in 1..number |-> <<"word", i>>]

MemoryNames ==
  {"PhysicalAddress", "PhysicalAddressMask", "Node", "Card", "Device", "Row",
   "Column", "BitPosition", "RequestorId", "ResponderId", "TargetId",
   "CardHandle", "ModuleHandle"}

(* Bits 5 and 6 are moduleValid and bankValid, the generators clear bit 20.*)
Memories ==
  {Values(MemoryNames \union {"ModuleRank", "ErrorType", "RankNum"}, zeros)
   @@ [ValidFields |-> bits, ErrorStatus |-> Status(zeros, clear),
       Bank |-> <<"low", "high">>, Extended |-> extended] :
     zeros, clear \in BOOLEAN, bits \in SUBSET {5, 6, 20, 21, 22},
     extended \in SUBSET {0, 1, 3, 7}}

Memories2 ==
  {Values(MemoryNames \union {"Module", "Rank", "ChipId", "MemErrorType", "Status"}, zeros)
   @@ Reserved({"Reserved"}, clear)
   @@ [ValidFields |-> bits, ErrorStatus |-> Status(zeros, clear),
       Bank |-> <<"low", "high">>] :
     zeros, clear \in BOOLEAN, bits \in SUBSET {5, 6, 20, 21, 22}}

Generics ==
  {Values({"Type", "Isa", "ErrorType", "Operation", "Level", "VersionInfo", "ApicId",
           "TargetAddr", "RequestorId", "ResponderId", "InstructionIP"}, zeros)
   @@ Reserved({"Resv1"}, clear)
   @@ [ValidFields |-> bits, Flags |-> flags, BrandString |-> text] :
     zeros, clear \in BOOLEAN, bits \in Bits(13), flags \in Bits(4),
     text \in 0..BrandStringSize}

Firmwares ==
  {Values({"ErrorType", "Revision", "RecordId", "RecordIdGuid"}, zeros)
   @@ Reserved({"Resv1"}, clear) : zeros, clear \in BOOLEAN}

(* One register is announced and there may be none, or two.                *)
Nvidias ==
  {Values({"ErrorType", "ErrorInstance", "Severity", "Socket", "InstanceBase"}, zeros)
   @@ Reserved({"Reserved"}, clear)
   @@ [Signature |-> text, NumberRegs |-> number] :
     zeros, clear \in BOOLEAN, text \in 0..SignatureSize, number \in 0..2}

Pcies ==
  {Values({"PortType", "VendorId", "DeviceId", "Function", "Device", "Segment",
           "PrimaryOrDeviceBus", "SecondaryBus", "SlotNumber", "SerialNo",
           "PcieCap", "PcieAer"}, zeros)
   @@ Reserved({"Resv2", "SlotResv1", "DevBridgeResv1"}, clear)
   @@ [ValidFields |-> bits, Version |-> <<minor, major, PlainValue("top", clear)>>,
       CommandStatus |-> <<"command", "status">>,
       BridgeControlStatus |-> <<"status", "control">>,
       ClassCode |-> <<"class", "subclass", "interface">>] :
     zeros, clear \in BOOLEAN, bits \in Bits(8), minor, major \in Digits}

PciBuses ==
  {Values({"Type", "BusAddress", "BusData", "RequestorId", "ResponderId", "TargetId"}, zeros)
   @@ Reserved({"Resv2"}, clear)
   @@ [ValidFields |-> bits, ErrorStatus |-> Status(zeros, clear),
       BusId |-> <<"bus", "segment">>, BusCommand |-> command] :
     zeros, clear \in BOOLEAN, bits \in Bits(9), command \in SUBSET {0, 56, 57}}

(* Numbers of pairs whose sum is an int, is negative and wraps to zero.    *)
PciDevs ==
  {Values({"VendorId", "DeviceId", "ClassCode", "FunctionNumber", "DeviceNumber",
           "BusNumber", "SegmentNumber"}, zeros)
   @@ Reserved({"Reserved"}, clear)
   @@ [ValidFields |-> bits, ErrorStatus |-> Status(zeros, clear),
       MemoryNumber |-> number, IoNumber |-> 1] :
     zeros, clear \in BOOLEAN, bits \in Bits(5), number \in {0, 1, 2^IntBits - 1}}
  \union
  {Values({"VendorId", "DeviceId", "ClassCode", "FunctionNumber", "DeviceNumber",
           "BusNumber", "SegmentNumber"}, FALSE)
   @@ Reserved({"Reserved"}, TRUE)
   @@ [ValidFields |-> {}, ErrorStatus |-> Status(FALSE, TRUE),
       MemoryNumber |-> 2^(IntBits - 1), IoNumber |-> 0]}

DmarGenerics ==
  {Values({"RequesterId", "SegmentNumber", "FaultReason", "AccessType", "AddressType",
           "ArchType", "DeviceAddr"}, zeros)
   @@ Reserved({"Resv1"}, clear) : zeros, clear \in BOOLEAN}

Vtds ==
  {Values({"Version", "Revision", "OemId", "Capability", "CapabilityEx",
           "GlobalCommand", "GlobalStatus", "FaultStatus", "RootEntry",
           "ContextEntry"} \union PageTable, zeros)
   @@ Reserved({"Resv1"}, clear)
   @@ [FaultRecord |->
         Values({"FaultInformation", "SourceIdentifier", "PrivelegeModeRequested",
                 "ExecutePermissionRequested", "PasidPresent", "FaultReason",
                 "PasidValue", "AddressType", "Type"}, zeros)
         @@ Reserved({"Resv1", "Resv2", "Resv3"}, clear)] : zeros, clear \in BOOLEAN}

Iommus ==
  {Values({"Revision", "Control", "Status", "EventLogEntry", "DeviceTableEntry"}
            \union PageTable, zeros)
   @@ Reserved({"Resv1", "Resv2", "Resv3"}, clear) : zeros, clear \in BOOLEAN}

(* A length below the structure's, of it, and of one and two bytes more.   *)
Ccixes ==
  {Values({"CcixSourceId", "CcixPortId"}, zeros)
   @@ Reserved({"Reserved"}, clear)
   @@ [Length |-> CcixHeaderSize + more, ValidBits |-> bits] :
     zeros, clear \in BOOLEAN, bits \in Bits(3), more \in {-1, 0, 1, 2}}

CxlComponents ==
  {Values({"VendorId", "DeviceId", "FunctionNumber", "DeviceNumber", "BusNumber",
           "SegmentNumber", "SlotNumber", "DeviceSerial"}, zeros)
   @@ Reserved({"Resv1", "Resv2"}, clear)
   @@ [Length |-> CxlHeaderSize + more, ValidBits |-> bits] :
     zeros, clear \in BOOLEAN, bits \in Bits(3), more \in {-1, 0, 1, 2}}

(* Both agents and one of no known type.                                   *)
CxlProtocols ==
  {Values({"VendorId", "DeviceId", "SubsystemVendorId", "SubsystemDeviceId",
           "ClassCode", "SlotNumber", "DeviceSerial", "CapabilityStructure"}, zeros)
   @@ Reserved({"Reserved1", "Reserved2", "Reserved"}, clear)
   @@ [ValidBits |-> bits, CxlAgentType |-> agent, CxlDvsecLength |-> dvsec,
       CxlErrorLogLength |-> log,
       CxlAgentAddress |-> IF zeros THEN <<Zero, Zero, Zero,
                                           Zero, Zero>>
                           ELSE <<"function", "device", "bus", "segment",
                                  PlainValue("reserved", clear)>>] :
     zeros, clear \in BOOLEAN, bits \in {{}, {0, 6}, {5, 7}}, agent \in 0..2,
     dvsec, log \in 0..1}

Alone(structures) == {Structure(d) : d \in structures}
WithData(structures) ==
  {Tailed(d, Words(number)) : d \in structures, number \in 0..2}

(* Given sections of each kind; the same bytes are the random ones that    *)
(* its generator starts from.                                              *)
SectionsOfKind ==
  [generic     |-> Alone(Generics),     memory    |-> Alone(Memories),
   memory2     |-> Alone(Memories2),    pcie      |-> Alone(Pcies),
   firmware    |-> Alone(Firmwares),    pcibus    |-> Alone(PciBuses),
   pcidev      |-> WithData(PciDevs),   dmarvtd   |-> Alone(Vtds),
   dmargeneric |-> Alone(DmarGenerics), dmariommu |-> Alone(Iommus),
   ccixper     |-> WithData(Ccixes),    nvidia    |-> WithData(Nvidias),
   cxlprotocol |-> WithData(CxlProtocols)]
  @@ ("cxlcomponent-media" :> WithData(CxlComponents))

(* The generators draw the numbers of pairs and the lengths themselves.    *)
DrawnNumbers(k, parts) ==
  k = "pcidev" => parts[1].body.MemoryNumber <= 3

GivenSections ==
  UNION {{[kind |-> k, drawn |-> <<>>, section |-> parts] :
            parts \in SectionsOfKind[k]} : k \in DOMAIN SectionsOfKind}
GeneratedSections ==
  UNION {{[kind |-> k, drawn |-> parts, section |-> <<>>] :
            parts \in {p \in SectionsOfKind[k] : DrawnNumbers(k, p)}} :
         k \in DOMAIN SectionsOfKind}

AllStarts ==
  GeneratedArm \union GeneratedX64 \union GivenArm \union GivenX64
    \union GivenFields \union GivenSections \union GeneratedSections
=============================================================================
