-------------------------- MODULE Ia32x64Generator --------------------------
(***************************************************************************)
(* generator/sections/gen-section-ia32x64.c: a pseudo-random IA32/x64      *)
(* processor section, made like ArmGenerator's.                            *)
(***************************************************************************)
EXTENDS SectionParts

CONSTANTS
  X64HeaderSize, X64InfoSize, X64ContextSize, X64RegisterSize,
                     (* as in Ia32x64Section                               *)
  X64RandomHeaders   (* what the random bytes of the header may decode to  *)

VARIABLES
  drawn,            (* the random bytes of the structures                  *)
  section, phase    (* as in ArmGenerator                                  *)

vars == <<drawn, section, phase>>

(***************************************************************************)
(* The bits of check_info that the two masks of its type leave:            *)
(* ~0x20FF00 and 0x3FFFFFFF, ~0x20F800 and 0x7FFFFFFFF, ~0xFFE0 and        *)
(* 0xFFFFFF.                                                               *)
(***************************************************************************)
MaskedBits(type) ==
  CASE type \in {"cache", "tlb"} -> (0..29) \ (8..15 \union {21})
    [] type = "bus"              -> (0..34) \ (11..15 \union {21})
    [] type = "ms"               -> (0..23) \ (5..15)

(* A mutant: the upper bits of check_info are not cleared for one type.    *)
StructureUnmasked(random) ==
  [type  |-> random.type,
   valid |-> random.valid \intersect 0..4,
   check |-> random.check \intersect
               (MaskedBits(random.type) \union IF random.type = "ms" THEN 24..63 ELSE {})]

generate_ia32x64_error_structure(random) ==
  [type  |-> random.type,
   valid |-> random.valid \intersect 0..4,
   check |-> random.check \intersect MaskedBits(random.type)]

(* Register arrays with a structure of their own have its size, and the    *)
(* reserved one of the X64 registers is cleared.                           *)
generate_ia32x64_context_structure(random) ==
  [type  |-> random.type,
   size  |-> IF random.type \in DOMAIN X64RegisterSize
               THEN X64RegisterSize[random.type] ELSE random.size,
   resv1 |-> FALSE]

Infos(d) ==
  [k \in 1..Len(d.infos) |-> generate_ia32x64_error_structure(d.infos[k])]
Contexts(d) ==
  [k \in 1..Len(d.contexts) |-> generate_ia32x64_context_structure(d.contexts[k])]

Structures(d) == Behind(Infos(d), Contexts(d), X64InfoSize, X64ContextSize, 0)

RandomBytes ==
  /\ phase = "random"
  /\ \E header \in X64RandomHeaders :
       section' = Put(<<>>, "header", X64HeaderSize, header)
  /\ phase' = "setHeader"
  /\ UNCHANGED drawn

(* Six bits of the number n, or'ed with what the field holds.              *)
OrCount(field, n) ==
  LET set(x, bit) == (x \div bit) % 2 = 1
      or(bit) == IF set(field, bit) \/ set(n, bit) THEN bit ELSE 0
  IN  or(1) + or(2) + or(4) + or(8) + or(16) + or(32)

(* The last 16 bytes are cleared; *validation &= 0x3, then the counts are  *)
(* or'ed into bits 2 to 7 and 8 to 13, in this order.                      *)
SetHeader ==
  LET header == section[1].body IN
    /\ phase = "setHeader"
    /\ section' = [section EXCEPT ![1].body =
                     [header EXCEPT !.reserved = FALSE,
                                    !.valid = @ \intersect 0..1,
                                    !.infoNum = OrCount(0, Len(drawn.infos)),
                                    !.contextNum = OrCount(0, Len(drawn.contexts))]]
    /\ phase' = "copy"
    /\ UNCHANGED drawn

CopyStructures ==
  /\ phase = "copy"
  /\ section' = Laid(section \o Structures(drawn))
  /\ phase' = "header"
  /\ UNCHANGED drawn

Step == RandomBytes \/ SetHeader \/ CopyStructures
============================================================================
