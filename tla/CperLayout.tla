----------------------------- MODULE CperLayout -----------------------------
(***************************************************************************)
(* The shape of a CPER record (edk/Cper.h): a header, a table of section   *)
(* descriptors, and the sections the descriptors point to.                 *)
(***************************************************************************)
EXTENDS Integers, Sequences

CONSTANTS
  HeaderSize,      (* sizeof(EFI_COMMON_ERROR_RECORD_HEADER), 128 bytes    *)
  DescriptorSize,  (* sizeof(EFI_ERROR_SECTION_DESCRIPTOR), 72 bytes       *)
  Types            (* the section type GUIDs                               *)

ASSUME LayoutAssumption ==
  /\ HeaderSize \in Nat \ {0}
  /\ DescriptorSize \in Nat \ {0}

(* The fields of a descriptor that steer the reader and the writer.        *)
Descriptor == [offset : Nat, length : Nat, type : Types]

(* Where the k-th descriptor of a table starting at "table" lies.          *)
SlotIn(table, k) == table + (k - 1) * DescriptorSize

(***************************************************************************)
(* The layout in which the sections follow the table one after another in  *)
(* the order of their descriptors, with nothing in between.                *)
(***************************************************************************)
FirstSection(n) == HeaderSize + n * DescriptorSize

Contiguous(descriptors) ==
  \A k \in 1..Len(descriptors) :
    descriptors[k].offset =
      IF k = 1 THEN FirstSection(Len(descriptors))
               ELSE descriptors[k - 1].offset + descriptors[k - 1].length
============================================================================
