----------------------------- MODULE FieldCodecs -----------------------------
(***************************************************************************)
(* What the converters of structures of fixed size have in common: the     *)
(* helpers of cper-utils.c and common-utils.c, and of gen-utils.c for the  *)
(* generators.                                                             *)
(*                                                                         *)
(* A structure is a record of its fields, with the names of the source.  A *)
(* number, a GUID or an array that is passed on as it is may be any value, *)
(* in the IR the same one; bit fields are the sets of their bits; texts    *)
(* the number of characters before their terminating zero; numbers and     *)
(* arrays the code takes apart are the sequences of their parts, in the    *)
(* order of the bytes.  A base64 text stands for the bytes it encodes.     *)
(***************************************************************************)
EXTENDS SectionParts

CONSTANT IntBits   (* of an int, 32                                        *)

Zero == "0"   (* a number, a GUID or an array of zeros                     *)
----------------------------------------------------------------------------
(* Mutants: the digits are taken for a number of base 16.                  *)
BcdAsBinary(bcd) == bcd
BinaryAsBcd(value) == value % 256

(* Two digits of a BCD byte, and back; a third digit is lost in the byte.  *)
bcd_to_int(bcd) == (bcd \div 16) * 10 + (bcd % 16)

int_to_bcd(value) == ((value \div 10) % 10) * 16 + (value % 10)

(* Both digits of a byte are decimal.                                      *)
DecimalByte(bcd) == bcd \div 16 <= 9 /\ bcd % 16 <= 9
----------------------------------------------------------------------------
(* A mutant: the validation bits are counted from 1.                       *)
IfNextBit(bits, b, fields) == IF b + 1 \in bits THEN fields ELSE <<>>

(* An object with the keys of two, those of the first as they are there.   *)
f ++ g ==
  [k \in DOMAIN f \union DOMAIN g |-> IF k \in DOMAIN f THEN f[k] ELSE g[k]]

(* Fields that are there if a bit of the validation bits is set.           *)
If(bits, b, fields) == IF b \in bits THEN fields ELSE <<>>

(* What a key of the IR holds, or what calloc() left in the structure.     *)
Get(object, key, default) ==
  IF key \in DOMAIN object THEN object[key] ELSE default

(* The bits of a bit field that have a name, from the lowest on.           *)
Named(bits, names) == bits \intersect 0..(names - 1)
----------------------------------------------------------------------------
(* A text is read up to a zero byte.  Without one in the array it goes on  *)
(* into the bytes behind it, for nobody knows how long.                    *)
TextsRead(text, size) == IF text < size THEN {text} ELSE {size, size + 1}

(* strncpy() of all but the last byte, which is zero.                      *)
TextWritten(text, size) == IF text < size THEN text ELSE size - 1
----------------------------------------------------------------------------
(* An array as base64, unless it could not be allocated; it is read back   *)
(* as Zero if its key is missing.                                          *)
Encode(failed, key, fields) == IF key \in failed THEN <<>> ELSE fields

(* A mutant: the array holds what was in the memory before.                *)
DecodeUncleared(failed, key, bytes) == IF key \in failed THEN "random" ELSE bytes

(* The same for an array to write: nothing is copied over the zeros then.  *)
Decode(failed, key, bytes) == IF key \in failed THEN Zero ELSE bytes
----------------------------------------------------------------------------
(* A value of a C type that has these members, the two numbers that a      *)
(* larger one is taken apart into, and an array of any values.             *)
HasMembers(d, members) == DOMAIN d = members /\ d = [f \in members |-> d[f]]
Pair(number) == number = <<number[1], number[2]>>
Array(a) == Len(a) \in Nat /\ a = [i \in 1..Len(a) |-> a[i]]

(* A structure, and one with data of a variable length behind it.          *)
Structure(d) == Put(<<>>, "structure", 1, d)
Tailed(d, tail) == Put(Structure(d), "tail", Len(tail), tail)

DataOf(section) == IF Len(section) > 1 THEN section[2].body ELSE <<>>

(* Some of the data from an offset on, or what happens to follow it.       *)
Beyond == <<"beyond", 0>>
Bytes(tail, offset, number) ==
  [i \in 1..number |->
     IF offset + i <= Len(tail) THEN tail[offset + i] ELSE Beyond]

(* The two members of each of an array of objects, one after the other.    *)
Halves(objects, first, second) ==
  [i \in 1..2 * Len(objects) |->
     IF i % 2 = 1 THEN objects[(i + 1) \div 2][first] ELSE objects[i \div 2][second]]

(* A number kept in an int that a loop or a test compares with zero: what  *)
(* does not fit is negative, and counts nothing.                           *)
Count(number) ==
  LET int == number % 2^IntBits IN IF int < 2^(IntBits - 1) THEN int ELSE 0
----------------------------------------------------------------------------
EFI_GENERIC_ERROR_STATUS(s) ==
  HasMembers(s, {"Resv1", "Type", "AddressSignal", "ControlSignal", "DataSignal",
                 "DetectedByResponder", "DetectedByRequester", "FirstError",
                 "OverflowNotLogged", "Resv2"})

cper_generic_error_status_to_ir(s) ==
  [errorType           |-> s.Type,
   addressSignal       |-> s.AddressSignal,
   controlSignal       |-> s.ControlSignal,
   dataSignal          |-> s.DataSignal,
   detectedByResponder |-> s.DetectedByResponder,
   detectedByRequester |-> s.DetectedByRequester,
   firstError          |-> s.FirstError,
   overflowDroppedLogs |-> s.OverflowNotLogged]

ir_generic_error_status_to_cper(r) ==
  [Resv1               |-> Zero,
   Type                |-> r.errorType,
   AddressSignal       |-> r.addressSignal,
   ControlSignal       |-> r.controlSignal,
   DataSignal          |-> r.dataSignal,
   DetectedByResponder |-> r.detectedByResponder,
   DetectedByRequester |-> r.detectedByRequester,
   FirstError          |-> r.firstError,
   OverflowNotLogged   |-> r.overflowDroppedLogs,
   Resv2               |-> Zero]

(* The reserved bits below and above are cleared.                          *)
create_valid_error_section(s) == [s EXCEPT !.Resv1 = Zero, !.Resv2 = Zero]

PlainStatus(s) == s.Resv1 = Zero /\ s.Resv2 = Zero
=============================================================================
