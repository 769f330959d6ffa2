---------------------------- MODULE ArmGenerator ----------------------------
(***************************************************************************)
(* generator/sections/gen-section-arm.c: a pseudo-random ARM processor     *)
(* section.  The structures are drawn first; then the section is filled    *)
(* with random bytes, its header is set field by field and the structures  *)
(* are copied behind it.                                                   *)
(***************************************************************************)
EXTENDS SectionParts

CONSTANTS
  ArmHeaderSize, ArmInfoSize, ArmContextSize,   (* as in ArmSection        *)
  ArmRandomHeaders   (* what the random bytes of the header may decode to  *)

VARIABLES
  drawn,     (* the structures drawn: infos, contexts, and the number of   *)
             (* vendor specific bytes                                      *)
  section,   (* the structures of the section generated                    *)
  phase      (* where the generator is                                     *)

vars == <<drawn, section, phase>>

Structures(d) == Behind(d.infos, d.contexts, ArmInfoSize, ArmContextSize, d.vendor)

TotalLength(d) == ArmHeaderSize + Ends(Structures(d))[Len(Structures(d))]

RandomBytes ==
  /\ phase = "random"
  /\ \E header \in ArmRandomHeaders :
       section' = Put(<<>>, "header", ArmHeaderSize, header)
  /\ phase' = "setHeader"
  /\ UNCHANGED drawn

SetHeader ==
  /\ phase = "setHeader"
  /\ section' = [section EXCEPT ![1].body =
                   [@ EXCEPT !.infoNum = Len(drawn.infos),
                             !.contextNum = Len(drawn.contexts),
                             !.length = TotalLength(drawn)]]
  /\ phase' = "clear"
  /\ UNCHANGED drawn

(***************************************************************************)
(* A mask on the 64 bits at the start of the section: ValidFields in bits  *)
(* 0 to 31, ErrInfoNum in 32 to 47, ContextInfoNum in 48 to 63.            *)
(***************************************************************************)
Masked(header, bits) ==
  [header EXCEPT !.valid = @ \intersect bits,
                 !.infoNum = IF 32..47 \subseteq bits THEN @ ELSE 0,
                 !.contextNum = IF 48..63 \subseteq bits THEN @ ELSE 0]

(* *validation &= 0x7 as a UINT64, and *running_state &= 0x1.              *)
ClearReserved ==
  /\ phase = "clear"
  /\ section' = [section EXCEPT ![1].body = [Masked(@, 0..2) EXCEPT !.top = FALSE]]
  /\ phase' = "copy"
  /\ UNCHANGED drawn

CopyStructures ==
  /\ phase = "copy"
  /\ section' = Laid(section \o Structures(drawn))
  /\ phase' = "header"
  /\ UNCHANGED drawn

Step == RandomBytes \/ SetHeader \/ ClearReserved \/ CopyStructures
----------------------------------------------------------------------------
(***************************************************************************)
(* "Must be at least 1." (gen-section-arm.c, of the number of error        *)
(* information structures): the header of a generated section says so.     *)
(***************************************************************************)
InfosAnnounced == phase = "header" => section[1].body.infoNum >= 1
============================================================================
