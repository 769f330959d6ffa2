---------------------------- MODULE SectionParts ----------------------------
(***************************************************************************)
(* Sections of variable length as the processor converters walk them: one  *)
(* structure after another, each with a kind, a start, a size and what it  *)
(* holds.  A converter knows only the position it has reached.             *)
(***************************************************************************)
EXTENDS Integers, Sequences, SequencesExt

End(parts) ==
  IF parts = <<>> THEN 0 ELSE parts[Len(parts)].start + parts[Len(parts)].size

(* fwrite() of one structure at the end of the output.                     *)
Put(parts, kind, size, body) ==
  Append(parts, [kind |-> kind, start |-> End(parts), size |-> size, body |-> body])

(* Where each of a sequence of [kind, size, body] ends, one after another. *)
Ends(structures) ==
  LET end[k \in 0..Len(structures)] ==
        IF k = 0 THEN 0 ELSE end[k - 1] + structures[k].size
  IN  end

Laid(structures) ==
  LET end == Ends(structures)
  IN  [k \in 1..Len(structures) |->
         [kind |-> structures[k].kind, start |-> end[k - 1],
          size |-> structures[k].size, body |-> structures[k].body]]

(* Nothing between the structures, and nothing before them.                *)
Contiguous(parts) ==
  \A k \in 1..Len(parts) :
    parts[k].start = IF k = 1 THEN 0 ELSE parts[k - 1].start + parts[k - 1].size

(***************************************************************************)
(* What follows the header of a processor's section: error information     *)
(* structures, contexts each with a register array, vendor specific bytes. *)
(***************************************************************************)
Behind(infos, contexts, infoSize, contextSize, vendor) ==
  [k \in 1..Len(infos) |-> [kind |-> "info", size |-> infoSize, body |-> infos[k]]]
  \o [k \in 1..2 * Len(contexts) |->
        LET context == contexts[(k + 1) \div 2] IN
          IF k % 2 = 1
            THEN [kind |-> "context", size |-> contextSize, body |-> context]
            ELSE [kind |-> "registers", size |-> context.size,
                  body |-> [of |-> "section"]]]
  \o (IF vendor = 0 THEN <<>>
      ELSE <<[kind |-> "vendor", size |-> vendor, body |-> [of |-> "section"]]>>)

(***************************************************************************)
(* A section as its structures lie in it: each of the size of its kind, a  *)
(* register array behind every context, as long as the context says.       *)
(***************************************************************************)
IsProcessorSection(parts, headerSize, infoSize, contextSize) ==
  /\ Len(parts) \in Nat \ {0}
  /\ parts = [k \in 1..Len(parts) |->
                [kind |-> parts[k].kind, start |-> parts[k].start,
                 size |-> parts[k].size, body |-> parts[k].body]]
  /\ Contiguous(parts)
  /\ parts[1].kind = "header" /\ parts[1].size = headerSize
  /\ \A k \in 2..Len(parts) :
       \/ parts[k].kind = "info" /\ parts[k].size = infoSize
       \/ /\ parts[k].kind = "context" /\ parts[k].size = contextSize
          /\ k < Len(parts) /\ parts[k + 1].kind = "registers"
       \/ /\ parts[k].kind = "registers" /\ parts[k].body = [of |-> "section"]
          /\ parts[k - 1].kind = "context" /\ parts[k].size = parts[k - 1].body.size
       \/ parts[k].kind = "vendor" /\ k = Len(parts) /\ parts[k].size \in Nat \ {0}

(* A header's counts are those of the structures that follow it.           *)
Counted(parts) ==
  LET infos    == parts[1].body.infoNum
      contexts == parts[1].body.contextNum
      rest     == 1 + infos + 2 * contexts IN
    /\ rest <= Len(parts)
    /\ \A k \in 1..infos : parts[1 + k].kind = "info"
    /\ \A k \in 1..contexts : /\ parts[infos + 2 * k].kind = "context"
                              /\ parts[infos + 2 * k + 1].kind = "registers"
    /\ \A k \in rest + 1..Len(parts) : parts[k].kind = "vendor"

InfoAt(parts, k) == parts[1 + k]
ContextAt(parts, k) == parts[parts[1].body.infoNum + 2 * k]

(* What a structure of that kind read at position p may hold: the one that *)
(* starts there, or whatever its bytes decode to.                          *)
ReadAt(parts, kind, p, residues) ==
  LET there == {k \in 1..Len(parts) : parts[k].kind = kind /\ parts[k].start = p}
  IN  IF there = {} THEN residues ELSE {parts[k].body : k \in there}

(* The same structures in the same places, whatever they hold.             *)
SameLayout(parts, others) ==
  /\ Len(parts) = Len(others)
  /\ \A k \in 1..Len(parts) :
       /\ parts[k].kind = others[k].kind
       /\ parts[k].start = others[k].start
       /\ parts[k].size = others[k].size
============================================================================
