------------------------------- MODULE Base64 -------------------------------
(***************************************************************************)
(* base64.c: what a section of unknown type is kept as in the IR.          *)
(*                                                                         *)
(* A behaviour is base64_encode() on some data followed by base64_decode() *)
(* on the text it returned (the way of such a section into the IR and back *)
(* to CPER), or base64_decode() on a text from elsewhere, such as an IR    *)
(* that was edited.  A step is one trip round a loop.                      *)
(*                                                                         *)
(* A character is the number of its digit: encode_table[c] is c, and       *)
(* decode_table takes it back.                                             *)
(***************************************************************************)
EXTENDS Integers, Sequences

CONSTANTS
  Datas,   (* the data encode may be called on                             *)
  Texts    (* the texts decode may be called on directly                   *)

Byte == 0..255
Digit == 0..63
Pad == 64                     (* '='                                       *)
Invalid == 65                 (* any character that decodes to 0x80        *)
Char == Digit \union {Pad, Invalid}

ASSUME Base64Assumption == Datas \subseteq Seq(Byte) /\ Texts \subseteq Seq(Char)

VARIABLES
  origin,     (* "data" or "text": what the behaviour started from         *)
  pc,         (* where the call is, or how the last one ended              *)
  src,        (* encode: the data                                          *)
  text,       (* encode: what is written; decode: what is read             *)
  allocated,  (* the bytes allocated for the output; in encode also what   *)
              (* *out_len is, whatever gets written                        *)
  blocks,     (* whole blocks done: in_pos - src = 3 * blocks in encode,   *)
              (* src_index - block_index = 4 * blocks in decode            *)
  block,      (* decode: block[0 .. block_index - 1]                       *)
  padCount,   (* decode: pad_count                                         *)
  decoded,    (* decode: the output up to pos                              *)
  reach       (* decode: the furthest byte of the output ever written      *)

decoder == <<block, padCount, decoded, reach>>
vars == <<origin, pc, src, text, allocated, blocks, decoder>>

(***************************************************************************)
(* The digits of three bytes, and the bytes of four digits.  The operands  *)
(* of every "|" have no bit in common, so that "+" adds them up; a byte    *)
(* keeps the low eight bits of what is assigned to it.                     *)
(***************************************************************************)
Digit1(a)    == a \div 4
Digit2(a, b) == (a % 4) * 16 + (b \div 16)
Digit3Shifted(b, c) == (b % 16) * 4 + (c \div 16)     (* mutant: c >> 4     *)
Digit3(b, c) == (b % 16) * 4 + (c \div 64)
Digit4(c)    == c % 64

Byte1(p, q) == ((p * 4) % 256) + (q \div 16)
Byte2Unmasked(q, r) == q * 16 + (r \div 4)     (* mutant: no truncation    *)
Byte2(q, r) == ((q * 16) % 256) + (r \div 4)
Byte3(r, s) == ((r * 64) % 256) + s

Value(c) == IF c = Pad THEN 0 ELSE c         (* decode_table               *)

Init ==
  /\ \/ origin = "data" /\ pc = "start" /\ src \in Datas /\ text = <<>>
     \/ origin = "text" /\ pc = "encoded" /\ src = <<>> /\ text \in Texts
  /\ allocated = 0
  /\ blocks = 0
  /\ block = <<>> /\ padCount = 0
  /\ decoded = <<>> /\ reach = 0
----------------------------------------------------------------------------
(* base64_encode()                                                         *)

(* Mutant: no block for the bytes left over.                               *)
EncodedLengthTruncated(len) == 4 * (len \div 3)

EncodedLength(len) == 4 * ((len + 2) \div 3)

Left == Len(src) - 3 * blocks       (* src_end - in_pos                    *)
In(k) == src[3 * blocks + k + 1]    (* in_pos[k]                           *)

StartEncoding ==
  /\ pc = "start"
  /\ allocated' = EncodedLength(Len(src))
  /\ pc' \in {"encoding", "null"}   \* malloc() may fail
  /\ UNCHANGED <<origin, src, text, blocks, decoder>>

EncodeBlock ==
  /\ pc = "encoding"
  /\ Left >= 3
  /\ text' = text \o <<Digit1(In(0)), Digit2(In(0), In(1)),
                       Digit3(In(1), In(2)), Digit4(In(2))>>
  /\ blocks' = blocks + 1
  /\ UNCHANGED <<origin, pc, src, allocated, decoder>>

EncodeLastTwo ==
  /\ pc = "encoding"
  /\ Left = 2
  /\ text' = text \o <<Digit1(In(0)), Digit2(In(0), In(1)), Digit3(In(1), 0), Pad>>
  /\ pc' = "encoded"
  /\ UNCHANGED <<origin, src, allocated, blocks, decoder>>

(* Mutant: one padding character instead of two.                           *)
EncodeLastOnePadded ==
  /\ pc = "encoding"
  /\ Left = 1
  /\ text' = text \o <<Digit1(In(0)), Digit2(In(0), 0), 0, Pad>>
  /\ pc' = "encoded"
  /\ UNCHANGED <<origin, src, allocated, blocks, decoder>>

EncodeLastOne ==
  /\ pc = "encoding"
  /\ Left = 1
  /\ text' = text \o <<Digit1(In(0)), Digit2(In(0), 0), Pad, Pad>>
  /\ pc' = "encoded"
  /\ UNCHANGED <<origin, src, allocated, blocks, decoder>>

EncodeEnd ==
  /\ pc = "encoding"
  /\ Left = 0
  /\ pc' = "encoded"
  /\ UNCHANGED <<origin, src, text, allocated, blocks, decoder>>
----------------------------------------------------------------------------
(* base64_decode()                                                         *)

(* "Malloc might be up to 2 larger dependent on padding"                   *)
DecodedLength(len) == (len \div 4) * 3

StartDecoding ==
  /\ pc = "encoded"
  /\ allocated' = DecodedLength(Len(text))
  /\ blocks' = 0
  /\ pc' \in {"decoding", "null"}   \* malloc() may fail
  /\ UNCHANGED <<origin, src, text, decoder>>

SrcIndex == 4 * blocks + Len(block)
More == SrcIndex < Len(text)
Next4th == Len(block) = 3

(* src[src_index], and the pads seen so far with it.                       *)
Current == text[SrcIndex + 1]
PadsNow == padCount + (IF Current = Pad THEN 1 ELSE 0)

DecodeInvalid ==
  /\ pc = "decoding"
  /\ More
  /\ Current = Invalid
  /\ pc' = "null"
  /\ UNCHANGED <<origin, src, text, allocated, blocks, decoder>>

DecodeChar ==
  /\ pc = "decoding"
  /\ More
  /\ Current # Invalid
  /\ ~Next4th
  /\ block' = Append(block, Value(Current))
  /\ padCount' = PadsNow
  /\ UNCHANGED <<origin, pc, src, text, allocated, blocks, decoded, reach>>

(* The three bytes of the block that the current character fills.          *)
BlockBytes ==
  <<Byte1(block[1], block[2]), Byte2(block[2], block[3]), Byte3(block[3], Value(Current))>>

DecodeBlock ==
  /\ pc = "decoding"
  /\ More
  /\ Current # Invalid
  /\ Next4th
  /\ PadsNow = 0
  /\ decoded' = decoded \o BlockBytes
  /\ reach' = Len(decoded) + 3
  /\ block' = <<>>
  /\ blocks' = blocks + 1
  /\ UNCHANGED <<origin, pc, src, text, allocated, padCount>>

(* Mutant: pos goes back by one whatever the padding.                      *)
DecodePaddedByOne ==
  /\ pc = "decoding"
  /\ More
  /\ Current # Invalid
  /\ Next4th
  /\ PadsNow \in {1, 2}
  /\ decoded' = decoded \o <<BlockBytes[1], BlockBytes[2]>>
  /\ reach' = Len(decoded) + 3
  /\ padCount' = PadsNow
  /\ pc' = "decoded"
  /\ UNCHANGED <<origin, src, text, allocated, blocks, block>>

(* pos goes back by the padding, and the loop is left.                     *)
DecodePadded ==
  /\ pc = "decoding"
  /\ More
  /\ Current # Invalid
  /\ Next4th
  /\ PadsNow \in {1, 2}
  /\ decoded' = decoded \o IF PadsNow = 1 THEN <<BlockBytes[1], BlockBytes[2]>>
                                          ELSE <<BlockBytes[1]>>
  /\ reach' = Len(decoded) + 3
  /\ padCount' = PadsNow
  /\ pc' = "decoded"
  /\ UNCHANGED <<origin, src, text, allocated, blocks, block>>

(* Invalid pad_counting                                                    *)
DecodeOverpadded ==
  /\ pc = "decoding"
  /\ More
  /\ Current # Invalid
  /\ Next4th
  /\ PadsNow > 2
  /\ reach' = Len(decoded) + 3
  /\ padCount' = PadsNow
  /\ pc' = "null"
  /\ UNCHANGED <<origin, src, text, allocated, blocks, block, decoded>>

(* A block that was not filled is left out.                                *)
DecodeEnd ==
  /\ pc = "decoding"
  /\ ~More
  /\ pc' = "decoded"
  /\ UNCHANGED <<origin, src, text, allocated, blocks, decoder>>
----------------------------------------------------------------------------
Ended == pc \in {"decoded", "null"} /\ UNCHANGED vars

Encode ==
  \/ StartEncoding \/ EncodeBlock
  \/ EncodeLastTwo \/ EncodeLastOne \/ EncodeEnd

Decode ==
  \/ StartDecoding \/ DecodeInvalid \/ DecodeChar
  \/ DecodeBlock \/ DecodePadded \/ DecodeOverpadded \/ DecodeEnd

Next == Encode \/ Decode \/ Ended

Spec == Init /\ [][Next]_vars /\ WF_vars(Encode \/ Decode)
----------------------------------------------------------------------------
(* Types of the state: what is written are digits, pads and bytes.         *)
TypeOK ==
  /\ origin \in {"data", "text"}
  /\ pc \in {"start", "encoding", "encoded", "decoding", "decoded", "null"}
  /\ src \in Seq(Byte)
  /\ text \in Seq(Char)
  /\ allocated \in Nat
  /\ blocks \in Nat
  /\ block \in Seq(Digit) /\ Len(block) <= 3
  /\ padCount \in Nat
  /\ decoded \in Seq(Byte)
  /\ reach \in Nat

(***************************************************************************)
(* Neither loop writes past the buffer it allocated, the decoder also not  *)
(* with the bytes it takes back, and the encoder fills its buffer: the     *)
(* length it returns was fixed before the first character.                 *)
(***************************************************************************)
WithinBuffers ==
  /\ pc = "encoding" => Len(text) <= allocated
  /\ pc = "encoded" /\ origin = "data" => Len(text) = allocated
  /\ pc \in {"decoding", "decoded"} => Len(decoded) <= reach /\ reach <= allocated

(* No character of the text was looked at.                                 *)
Untouched == reach = 0 /\ block = <<>>

(***************************************************************************)
(* What decode makes of the text of some data is the data: a section of    *)
(* unknown type comes back from the IR as it was.  Only an allocation that *)
(* fails can prevent it.                                                   *)
(***************************************************************************)
DecodeInvertsEncode ==
  origin = "data" =>
    /\ pc = "decoded" => decoded = src
    /\ pc = "null" => Untouched

(***************************************************************************)
(* The reference (RFC 4648): the bits of the bytes in order, six to a      *)
(* digit, padded with zero bits to a whole digit and with '=' to a whole   *)
(* block.                                                                  *)
(***************************************************************************)
Weight == <<1, 2, 4, 8, 16, 32, 64, 128>>     (* of a bit, the lowest first *)

Bits(s, width) ==
  [n \in 1..width * Len(s) |->
     (s[((n - 1) \div width) + 1] \div Weight[width - ((n - 1) % width)]) % 2]

BitAt(bits, n) == IF n <= Len(bits) THEN bits[n] ELSE 0

RefChar(bits, k) ==
  LET b(j) == BitAt(bits, 6 * (k - 1) + j) IN
    IF 6 * (k - 1) >= Len(bits) THEN Pad
    ELSE 32 * b(1) + 16 * b(2) + 8 * b(3) + 4 * b(4) + 2 * b(5) + b(6)

RefText(data) ==
  [k \in 1..4 * ((Len(data) + 2) \div 3) |-> RefChar(Bits(data, 8), k)]

(* Texts of whole blocks in which only the last one is padded, by 1 or 2.  *)
Pads(t) ==
  IF t = <<>> \/ t[Len(t)] # Pad THEN 0
  ELSE IF Len(t) > 1 /\ t[Len(t) - 1] = Pad THEN 2 ELSE 1

WellFormed(t) ==
  /\ Len(t) % 4 = 0
  /\ \A k \in 1..Len(t) : t[k] # Invalid /\ (t[k] = Pad => k > Len(t) - Pads(t))

RefByte(bits, k) ==
  LET b(j) == bits[8 * (k - 1) + j] IN
    128 * b(1) + 64 * b(2) + 32 * b(3) + 16 * b(4) + 8 * b(5) + 4 * b(6) + 2 * b(7) + b(8)

RefData(t) ==
  LET digits == SubSeq(t, 1, Len(t) - Pads(t))
  IN  [k \in 1..3 * (Len(t) \div 4) - Pads(t) |-> RefByte(Bits(digits, 6), k)]

(* The encoder writes the reference's text for every data.                 *)
EncodesAsReference ==
  origin = "data" /\ pc = "encoded" => text = RefText(src)

(* A well-formed text is decoded to the reference's bytes.                 *)
DecodesAsReference ==
  /\ pc = "decoded" /\ WellFormed(text) => decoded = RefData(text)
  /\ pc = "null" /\ WellFormed(text) => Untouched
============================================================================
