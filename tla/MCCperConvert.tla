--------------------------- MODULE MCCperConvert ---------------------------
(***************************************************************************)
(* CperConvert on streams of at most 14 bytes -- a header of 3,            *)
(* descriptors of 2, sections of 1 to 3 -- and on IRs of up to two         *)
(* sections: of every type, read, unread or with base64 data, with         *)
(* matching offsets and without, with as many sections as descriptors and  *)
(* with fewer or more.                                                     *)
(***************************************************************************)
EXTENDS CperConvert

CONSTANTS Pcie, PciBus, Other   (* two GUIDs with converters, one without  *)

MCTypes == {Pcie, PciBus, Other}
MCTable == <<[guid |-> Pcie, converts |-> TRUE],
             [guid |-> PciBus, converts |-> TRUE]>>
MCCodecSize == [t \in MCTypes |-> IF t = Pcie THEN 3 ELSE 2]
MCResidue == [offset |-> 0, length |-> 1, type |-> Other]
----------------------------------------------------------------------------
(* A stream with table ds, at offset base of a file or a buffer.           *)
Stream(api, backing, base, end, ds) ==
  [api |-> api, backing |-> backing, size |-> end, base |-> base,
   magic |-> TRUE, count |-> IF api = "record" THEN Len(ds) ELSE 0,
   at |-> [p \in 0..MaxStream |->
            LET table == IF api = "record" THEN base + HeaderSize ELSE base
                slots == {k \in 1..Len(ds) : SlotIn(table, k) = p}
            IN  IF slots = {} THEN MCResidue ELSE ds[CHOOSE k \in slots : TRUE]]]

Extent(t, l) == [type |-> t, length |-> l]
Extents ==
  {Extent(Pcie, 3), Extent(PciBus, 2), Extent(Other, 1), Extent(Other, 2)}

(* The contiguous table of sections es, as the generator lays it out.      *)
Laid(api, es) ==
  [k \in 1..Len(es) |->
     [offset |-> (IF api = "record" THEN FirstSection(Len(es)) ELSE DescriptorSize)
                   + (IF k = 2 THEN es[1].length ELSE 0),
      length |-> es[k].length,
      type   |-> es[k].type]]

(***************************************************************************)
(* Contiguous streams, whole or cut off anywhere, on their own or behind   *)
(* other bytes, from files and from buffers.                               *)
(***************************************************************************)
ContiguousInputs ==
  {Stream("record", b, o, s, Laid("record", es)) :
     b \in Backings, o \in {0, 1}, s \in {2, 10, 12, 14},
     es \in [1..1 -> Extents] \union [1..2 -> Extents]}
  \union
  {Stream("section", b, o, s, Laid("section", es)) :
     b \in Backings, o \in {0, 1}, s \in {3, 4, 6}, es \in [1..1 -> Extents]}
----------------------------------------------------------------------------
(* A header of 3 bytes and two descriptors of 2 end at 7.                  *)
MCDescriptor ==
  {d \in [offset : {2, 5, 7, 8, 9, 10}, length : {1, 2, 3}, type : MCTypes] :
     d.type # Other => d.length \in {2, MCCodecSize[d.type]}}

MCSection ==
  {Null, [conv |-> "codec", from |-> 0, length |-> 2],
   [conv |-> "nodata", from |-> 0, length |-> 1]}
    \union [conv : {"base64"}, from : {0}, length : {1, 2, 3}]

MCIRs ==
  [api : {"record"}, count : {2},
   descriptors : UNION {[1..l -> MCDescriptor] : l \in 1..2},
   sections    : UNION {[1..l -> MCSection] : l \in 0..2}]
  \union
  [api : {"record"}, count : {0}, descriptors : {<<>>}, sections : {<<>>}]
  \union
  [api : {"section"}, count : {0},
   descriptors : [1..1 -> MCDescriptor], sections : [1..1 -> MCSection]]
----------------------------------------------------------------------------
(* These are streams that a round trip is claimed for.                     *)
ASSUME MCInputsLaidOut == InputsLaidOut
============================================================================
