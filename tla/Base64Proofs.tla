---------------------------- MODULE Base64Proofs ----------------------------
(***************************************************************************)
(* Base64 for data and texts of any length: types, the bounds of both      *)
(* buffers, that decoding inverts encoding, and that both agree with the   *)
(* reference bit by bit.                                                   *)
(***************************************************************************)
EXTENDS Base64, TLAPS

(***************************************************************************)
(* Four digits made of three bytes give the three bytes back.              *)
(***************************************************************************)
LEMMA FirstByte ==
  ASSUME NEW a \in Byte, NEW b \in Byte
  PROVE  /\ Digit1(a) \in Digit
         /\ Digit2(a, b) \in Digit
         /\ Byte1(Digit1(a), Digit2(a, b)) = a
BY DEF Byte, Digit, Digit1, Digit2, Byte1

LEMMA SecondByte ==
  ASSUME NEW a \in Byte, NEW b \in Byte, NEW c \in Byte
  PROVE  /\ Digit3(b, c) \in Digit
         /\ Byte2(Digit2(a, b), Digit3(b, c)) = b
BY DEF Byte, Digit, Digit2, Digit3, Byte2

LEMMA ThirdByte ==
  ASSUME NEW b \in Byte, NEW c \in Byte
  PROVE  /\ Digit4(c) \in Digit
         /\ Byte3(Digit3(b, c), Digit4(c)) = c
BY DEF Byte, Digit, Digit3, Digit4, Byte3

(* Whatever the digits are, the bytes made of them are bytes.              *)
LEMMA BytesOfDigits ==
  ASSUME NEW p \in Digit, NEW q \in Digit
  PROVE  Byte1(p, q) \in Byte /\ Byte2(p, q) \in Byte /\ Byte3(p, q) \in Byte
BY DEF Byte, Digit, Byte1, Byte2, Byte3

LEMMA ValueIsDigit ==
  ASSUME NEW c \in Char, c # Invalid
  PROVE  Value(c) \in Digit
BY DEF Char, Digit, Pad, Invalid, Value

(* Writing one block or part of one.                                       *)
LEMMA FourMore ==
  ASSUME NEW S, NEW s \in Seq(S), NEW a \in S, NEW b \in S, NEW c \in S, NEW d \in S
  PROVE  LET t == s \o <<a, b, c, d>> IN
           /\ t \in Seq(S)
           /\ Len(t) = Len(s) + 4
           /\ \A k \in 1..Len(s) : t[k] = s[k]
           /\ t[Len(s) + 1] = a /\ t[Len(s) + 2] = b
           /\ t[Len(s) + 3] = c /\ t[Len(s) + 4] = d
OBVIOUS

LEMMA ThreeMore ==
  ASSUME NEW S, NEW s \in Seq(S), NEW a \in S, NEW b \in S, NEW c \in S
  PROVE  LET t == s \o <<a, b, c>> IN
           /\ t \in Seq(S)
           /\ Len(t) = Len(s) + 3
           /\ \A k \in 1..Len(s) : t[k] = s[k]
           /\ t[Len(s) + 1] = a /\ t[Len(s) + 2] = b /\ t[Len(s) + 3] = c
OBVIOUS

LEMMA TwoMore ==
  ASSUME NEW S, NEW s \in Seq(S), NEW a \in S, NEW b \in S
  PROVE  LET t == s \o <<a, b>> IN
           /\ t \in Seq(S)
           /\ Len(t) = Len(s) + 2
           /\ \A k \in 1..Len(s) : t[k] = s[k]
           /\ t[Len(s) + 1] = a /\ t[Len(s) + 2] = b
OBVIOUS

LEMMA OneMore ==
  ASSUME NEW S, NEW s \in Seq(S), NEW a \in S
  PROVE  LET t == s \o <<a>> IN
           /\ t \in Seq(S)
           /\ Len(t) = Len(s) + 1
           /\ \A k \in 1..Len(s) : t[k] = s[k]
           /\ t[Len(s) + 1] = a
OBVIOUS
----------------------------------------------------------------------------
(***************************************************************************)
(* The inductive invariant.  The text of some data is described block by   *)
(* block: block m is made of bytes 3m+1 to 3m+3, where there are any.      *)
(***************************************************************************)
At(s, k) == IF k <= Len(s) THEN s[k] ELSE 0

TextBlock(m) ==
  LET a == At(src, 3 * m + 1)
      b == At(src, 3 * m + 2)
      c == At(src, 3 * m + 3) IN
    /\ text[4 * m + 1] = Digit1(a)
    /\ text[4 * m + 2] = Digit2(a, b)
    /\ text[4 * m + 3] = IF 3 * m + 2 <= Len(src) THEN Digit3(b, c) ELSE Pad
    /\ text[4 * m + 4] = IF 3 * m + 3 <= Len(src) THEN Digit4(c) ELSE Pad

EncodedBlocks(n) ==
  /\ Len(text) = 4 * n
  /\ \A m \in 0..(n - 1) : TextBlock(m)

Total == (Len(src) + 2) \div 3      (* the blocks of the whole text        *)

DecoderFresh == block = <<>> /\ padCount = 0 /\ decoded = <<>> /\ reach = 0

EncodeInv ==
  /\ pc = "start" => origin = "data" /\ text = <<>> /\ blocks = 0 /\ DecoderFresh
  /\ pc = "encoding" =>
       /\ origin = "data"
       /\ 3 * blocks <= Len(src)
       /\ allocated = 4 * Total
       /\ EncodedBlocks(blocks)
       /\ DecoderFresh
  /\ pc = "encoded" =>
       /\ DecoderFresh
       /\ origin = "data" => EncodedBlocks(Total) /\ allocated = 4 * Total

(* The decoder has read whole blocks without padding, and a part of one.   *)
DecodeBounds ==
  pc = "decoding" =>
    /\ SrcIndex <= Len(text)
    /\ allocated = DecodedLength(Len(text))
    /\ Len(decoded) = 3 * blocks
    /\ reach = 3 * blocks

Tracks ==
  pc = "decoding" /\ origin = "data" =>
    /\ EncodedBlocks(Total)
    /\ Len(decoded) <= Len(src)
    /\ \A k \in 1..Len(decoded) : decoded[k] = src[k]
    /\ \A k \in 1..Len(block) : block[k] = Value(text[4 * blocks + k])
    /\ padCount = IF Len(block) = 3 /\ text[4 * blocks + 3] = Pad THEN 1 ELSE 0

Finished ==
  /\ pc = "decoded" => Len(decoded) <= reach /\ reach <= allocated
  /\ origin = "data" /\ pc = "decoded" => decoded = src
  /\ origin = "data" /\ pc = "null" => Untouched

Inv == TypeOK /\ EncodeInv /\ DecodeBounds /\ Tracks /\ Finished
----------------------------------------------------------------------------
LEMMA InitInv == Init => Inv
<1> SUFFICES ASSUME Init PROVE Inv
  OBVIOUS
<1>1. TypeOK
  <2>1. src \in Seq(Byte) /\ text \in Seq(Char)
    <3>1. CASE src \in Datas /\ text = <<>>
      BY <3>1, Base64Assumption
    <3>2. CASE src = <<>> /\ text \in Texts
      BY <3>2, Base64Assumption
    <3> QED
      BY <3>1, <3>2 DEF Init
  <2> QED
    BY <2>1 DEF Init, TypeOK
<1>2. EncodeInv
  BY DEF Init, EncodeInv, DecoderFresh
<1>3. DecodeBounds /\ Tracks /\ Finished
  BY DEF Init, DecodeBounds, Tracks, Finished
<1> QED
  BY <1>1, <1>2, <1>3 DEF Inv

(* The bytes of the current block are bytes.                               *)
LEMMA InBytes ==
  ASSUME TypeOK, NEW k \in 0..2, k < Left
  PROVE  In(k) \in Byte /\ In(k) = At(src, 3 * blocks + k + 1)
BY DEF TypeOK, Left, In, At

LEMMA AtBytes ==
  ASSUME TypeOK, NEW k \in Nat, k > 0
  PROVE  At(src, k) \in Byte
<1>1. 0 \in Byte
  BY DEF Byte
<1>2. CASE k <= Len(src)
  BY <1>2 DEF TypeOK, At
<1> QED
  BY <1>1, <1>2 DEF At

(* A block written at the end of the text makes one block more of it.      *)
LEMMA BlockAdded ==
  ASSUME TypeOK, EncodedBlocks(blocks), src' = src, text' \in Seq(Char),
         Len(text') = Len(text) + 4,
         \A k \in 1..Len(text) : text'[k] = text[k],
         LET a == At(src, 3 * blocks + 1)
             b == At(src, 3 * blocks + 2)
             c == At(src, 3 * blocks + 3) IN
           /\ text'[Len(text) + 1] = Digit1(a)
           /\ text'[Len(text) + 2] = Digit2(a, b)
           /\ text'[Len(text) + 3] =
                IF 3 * blocks + 2 <= Len(src) THEN Digit3(b, c) ELSE Pad
           /\ text'[Len(text) + 4] =
                IF 3 * blocks + 3 <= Len(src) THEN Digit4(c) ELSE Pad
  PROVE  /\ Len(text') = 4 * (blocks + 1)
         /\ \A m \in 0..blocks : TextBlock(m)'
<1>1. Len(text) = 4 * blocks /\ blocks \in Nat
  BY DEF TypeOK, EncodedBlocks
<1>2. Len(text') = 4 * (blocks + 1)
  BY <1>1
<1>3. ASSUME NEW m \in 0..blocks
      PROVE  TextBlock(m)'
  <2>1. CASE m = blocks
    BY <1>1, <2>1 DEF TextBlock, At
  <2>2. CASE m < blocks
    <3>1. TextBlock(m)
      BY <1>1, <2>2 DEF EncodedBlocks
    <3>2. \A k \in 1..4 : 4 * m + k \in 1..Len(text)
      BY <1>1, <2>2
    <3>3. \A k \in 1..4 : text'[4 * m + k] = text[4 * m + k]
      BY <3>2
    <3>4. /\ text'[4 * m + 1] = text[4 * m + 1]
          /\ text'[4 * m + 2] = text[4 * m + 2]
          /\ text'[4 * m + 3] = text[4 * m + 3]
          /\ text'[4 * m + 4] = text[4 * m + 4]
      BY <3>3
    <3> QED
      BY <3>1, <3>4 DEF TextBlock, At
  <2> QED
    BY <1>1, <2>1, <2>2
<1> QED
  BY <1>2, <1>3

LEMMA EncodingStep == Inv /\ Encode => Inv'
<1> SUFFICES ASSUME Inv, Encode PROVE Inv'
  OBVIOUS
<1> USE DEF Inv
<1>1. CASE StartEncoding
  <2>1. TypeOK'
    BY <1>1 DEF StartEncoding, TypeOK, decoder, EncodedLength
  <2>2. EncodeInv'
    BY <1>1 DEF StartEncoding, TypeOK, EncodeInv, decoder, EncodedLength, Total,
                DecoderFresh, EncodedBlocks
  <2>3. (DecodeBounds /\ Tracks /\ Finished)'
    BY <1>1 DEF StartEncoding, EncodeInv, DecodeBounds, Tracks, Finished, decoder,
                DecoderFresh, Untouched
  <2> QED
    BY <2>1, <2>2, <2>3
<1>2. CASE EncodeBlock
  <2>1. /\ In(0) \in Byte /\ In(0) = At(src, 3 * blocks + 1)
        /\ In(1) \in Byte /\ In(1) = At(src, 3 * blocks + 2)
        /\ In(2) \in Byte /\ In(2) = At(src, 3 * blocks + 3)
    BY <1>2, InBytes DEF EncodeBlock, Left, TypeOK
  <2>2. /\ Digit1(In(0)) \in Char /\ Digit2(In(0), In(1)) \in Char
        /\ Digit3(In(1), In(2)) \in Char /\ Digit4(In(2)) \in Char
    BY <2>1, FirstByte, SecondByte, ThirdByte DEF Char
  <2>3. /\ text' \in Seq(Char)
        /\ Len(text') = Len(text) + 4
        /\ \A k \in 1..Len(text) : text'[k] = text[k]
        /\ text'[Len(text) + 1] = Digit1(In(0))
        /\ text'[Len(text) + 2] = Digit2(In(0), In(1))
        /\ text'[Len(text) + 3] = Digit3(In(1), In(2))
        /\ text'[Len(text) + 4] = Digit4(In(2))
    BY <1>2, <2>2, FourMore DEF EncodeBlock, TypeOK
  <2>4. 3 * blocks + 3 <= Len(src) /\ blocks \in Nat /\ Len(src) \in Nat
    BY <1>2 DEF EncodeBlock, Left, TypeOK
  <2>5. EncodedBlocks(blocks)
    BY <1>2 DEF EncodeBlock, EncodeInv
  <2>6. EncodedBlocks(blocks)'
    <3>1. Len(text') = 4 * (blocks + 1) /\ \A m \in 0..blocks : TextBlock(m)'
      BY <1>2, <2>1, <2>3, <2>4, <2>5, BlockAdded DEF EncodeBlock
    <3>2. blocks' = blocks + 1
      BY <1>2 DEF EncodeBlock
    <3> QED
      BY <2>4, <3>1, <3>2 DEF EncodedBlocks
  <2>7. TypeOK'
    BY <1>2, <2>3 DEF EncodeBlock, TypeOK, decoder
  <2>8. EncodeInv'
    BY <1>2, <2>4, <2>6 DEF EncodeBlock, EncodeInv, decoder, DecoderFresh, Total
  <2>9. (DecodeBounds /\ Tracks /\ Finished)'
    BY <1>2 DEF EncodeBlock, DecodeBounds, Tracks, Finished
  <2> QED
    BY <2>7, <2>8, <2>9
<1>3. CASE EncodeLastTwo
  <2>1. 3 * blocks + 2 = Len(src) /\ blocks \in Nat /\ Total = blocks + 1
    <3>1. Left = 2 /\ blocks \in Nat /\ Len(src) \in Nat
      BY <1>3 DEF EncodeLastTwo, TypeOK
    <3>2. 3 * blocks + 2 = Len(src)
      BY <3>1 DEF Left
    <3> QED
      BY <3>1, <3>2 DEF Total
  <2>2. /\ In(0) \in Byte /\ In(0) = At(src, 3 * blocks + 1)
        /\ In(1) \in Byte /\ In(1) = At(src, 3 * blocks + 2)
        /\ At(src, 3 * blocks + 3) = 0 /\ 0 \in Byte
    <3>1. Left = 2
      BY <1>3 DEF EncodeLastTwo
    <3>2. At(src, 3 * blocks + 3) = 0 /\ 0 \in Byte
      BY <2>1 DEF At, Byte
    <3> QED
      BY <3>1, <3>2, <2>1, InBytes
  <2>3. /\ Digit1(In(0)) \in Char /\ Digit2(In(0), In(1)) \in Char
        /\ Digit3(In(1), 0) \in Char /\ Pad \in Char
    BY <2>2, FirstByte, SecondByte DEF Char
  <2>4. /\ text' \in Seq(Char)
        /\ Len(text') = Len(text) + 4
        /\ \A k \in 1..Len(text) : text'[k] = text[k]
        /\ text'[Len(text) + 1] = Digit1(In(0))
        /\ text'[Len(text) + 2] = Digit2(In(0), In(1))
        /\ text'[Len(text) + 3] = Digit3(In(1), 0)
        /\ text'[Len(text) + 4] = Pad
    BY <1>3, <2>3, FourMore DEF EncodeLastTwo, TypeOK
  <2>5. EncodedBlocks(blocks)
    BY <1>3 DEF EncodeLastTwo, EncodeInv
  <2>6. EncodedBlocks(Total)'
    <3>1. Len(text') = 4 * (blocks + 1) /\ \A m \in 0..blocks : TextBlock(m)'
      BY <1>3, <2>1, <2>2, <2>4, <2>5, BlockAdded DEF EncodeLastTwo
    <3>2. Total' = blocks + 1
      BY <1>3, <2>1 DEF EncodeLastTwo, Total
    <3> QED
      BY <2>1, <3>1, <3>2 DEF EncodedBlocks
  <2>7. TypeOK'
    BY <1>3, <2>4 DEF EncodeLastTwo, TypeOK, decoder
  <2>8. EncodeInv'
    BY <1>3, <2>6 DEF EncodeLastTwo, EncodeInv, decoder, DecoderFresh, Total
  <2>9. (DecodeBounds /\ Tracks /\ Finished)'
    BY <1>3 DEF EncodeLastTwo, DecodeBounds, Tracks, Finished
  <2> QED
    BY <2>7, <2>8, <2>9
<1>4. CASE EncodeLastOne
  <2>1. 3 * blocks + 1 = Len(src) /\ blocks \in Nat /\ Total = blocks + 1
    <3>1. Left = 1 /\ blocks \in Nat /\ Len(src) \in Nat
      BY <1>4 DEF EncodeLastOne, TypeOK
    <3>2. 3 * blocks + 1 = Len(src)
      BY <3>1 DEF Left
    <3> QED
      BY <3>1, <3>2 DEF Total
  <2>2. /\ In(0) \in Byte /\ In(0) = At(src, 3 * blocks + 1)
        /\ At(src, 3 * blocks + 2) = 0 /\ 0 \in Byte
    <3>1. Left = 1
      BY <1>4 DEF EncodeLastOne
    <3>2. At(src, 3 * blocks + 2) = 0 /\ 0 \in Byte
      BY <2>1 DEF At, Byte
    <3> QED
      BY <3>1, <3>2, <2>1, InBytes
  <2>3. Digit1(In(0)) \in Char /\ Digit2(In(0), 0) \in Char /\ Pad \in Char
    BY <2>2, FirstByte DEF Char
  <2>4. /\ text' \in Seq(Char)
        /\ Len(text') = Len(text) + 4
        /\ \A k \in 1..Len(text) : text'[k] = text[k]
        /\ text'[Len(text) + 1] = Digit1(In(0))
        /\ text'[Len(text) + 2] = Digit2(In(0), 0)
        /\ text'[Len(text) + 3] = Pad
        /\ text'[Len(text) + 4] = Pad
    BY <1>4, <2>3, FourMore DEF EncodeLastOne, TypeOK
  <2>5. EncodedBlocks(blocks)
    BY <1>4 DEF EncodeLastOne, EncodeInv
  <2>6. EncodedBlocks(Total)'
    <3>1. Len(text') = 4 * (blocks + 1) /\ \A m \in 0..blocks : TextBlock(m)'
      BY <1>4, <2>1, <2>2, <2>4, <2>5, BlockAdded DEF EncodeLastOne
    <3>2. Total' = blocks + 1
      BY <1>4, <2>1 DEF EncodeLastOne, Total
    <3> QED
      BY <2>1, <3>1, <3>2 DEF EncodedBlocks
  <2>7. TypeOK'
    BY <1>4, <2>4 DEF EncodeLastOne, TypeOK, decoder
  <2>8. EncodeInv'
    BY <1>4, <2>6 DEF EncodeLastOne, EncodeInv, decoder, DecoderFresh, Total
  <2>9. (DecodeBounds /\ Tracks /\ Finished)'
    BY <1>4 DEF EncodeLastOne, DecodeBounds, Tracks, Finished
  <2> QED
    BY <2>7, <2>8, <2>9
<1>5. CASE EncodeEnd
  <2>1. TypeOK'
    BY <1>5 DEF EncodeEnd, TypeOK, decoder
  <2>2. blocks = Total
    BY <1>5 DEF EncodeEnd, TypeOK, Left, Total
  <2>3. EncodeInv'
    BY <1>5, <2>2 DEF EncodeEnd, EncodeInv, decoder, DecoderFresh, Total,
                      EncodedBlocks, TextBlock, At
  <2>4. (DecodeBounds /\ Tracks /\ Finished)'
    BY <1>5 DEF EncodeEnd, DecodeBounds, Tracks, Finished
  <2> QED
    BY <2>1, <2>3, <2>4
<1> QED
  BY <1>1, <1>2, <1>3, <1>4, <1>5 DEF Encode
----------------------------------------------------------------------------
(* What a block of the text of some data consists of.                      *)
LEMMA CharsOfBlock ==
  ASSUME TypeOK, EncodedBlocks(Total), NEW m \in Nat, m < Total
  PROVE  LET a == At(src, 3 * m + 1)
             b == At(src, 3 * m + 2)
             c == At(src, 3 * m + 3) IN
           /\ a \in Byte /\ b \in Byte /\ c \in Byte
           /\ 3 * m + 1 <= Len(src)
           /\ text[4 * m + 1] = Digit1(a) /\ text[4 * m + 1] \in Digit
           /\ text[4 * m + 2] = Digit2(a, b) /\ text[4 * m + 2] \in Digit
           /\ IF 3 * m + 2 <= Len(src)
                THEN text[4 * m + 3] = Digit3(b, c) /\ text[4 * m + 3] \in Digit
                ELSE text[4 * m + 3] = Pad
           /\ IF 3 * m + 3 <= Len(src)
                THEN text[4 * m + 4] = Digit4(c) /\ text[4 * m + 4] \in Digit
                ELSE text[4 * m + 4] = Pad
<1> DEFINE a == At(src, 3 * m + 1)
           b == At(src, 3 * m + 2)
           c == At(src, 3 * m + 3)
<1>1. a \in Byte /\ b \in Byte /\ c \in Byte
  BY AtBytes
<1>2. Total \in Nat /\ 3 * m + 1 <= Len(src)
  <2>1. Len(src) \in Nat
    BY DEF TypeOK
  <2> QED
    BY <2>1 DEF Total
<1>3. TextBlock(m)
  BY <1>2 DEF EncodedBlocks
<1>4. Digit1(a) \in Digit /\ Digit2(a, b) \in Digit
  BY <1>1, FirstByte
<1>5. Digit3(b, c) \in Digit /\ Digit4(c) \in Digit
  BY <1>1, SecondByte, ThirdByte
<1> QED
  BY <1>1, <1>2, <1>3, <1>4, <1>5 DEF TextBlock

(* A digit is neither a pad nor invalid, and decodes to itself.            *)
LEMMA DigitValue ==
  ASSUME NEW c \in Digit
  PROVE  c # Pad /\ c # Invalid /\ Value(c) = c
BY DEF Digit, Pad, Invalid, Value

LEMMA PadValue == Pad # Invalid /\ Value(Pad) = 0
BY DEF Pad, Invalid, Value

LEMMA CurrentTyped ==
  ASSUME TypeOK, More
  PROVE  /\ SrcIndex \in Nat
         /\ Current \in Char
         /\ blocks \in Nat /\ Len(block) \in 0..3
         /\ 4 * blocks < Len(text)
<1>1. blocks \in Nat /\ Len(block) \in 0..3
  <2>1. block \in Seq(Digit)
    BY DEF TypeOK
  <2>2. Len(block) \in Nat
    BY <2>1
  <2>3. blocks \in Nat /\ Len(block) <= 3
    BY DEF TypeOK
  <2>4. \A n \in Nat : n <= 3 => n \in 0..3
    OBVIOUS
  <2> QED
    BY <2>2, <2>3, <2>4
<1>2. SrcIndex \in Nat /\ 4 * blocks < Len(text)
  BY <1>1 DEF More, SrcIndex, TypeOK
<1>3. SrcIndex + 1 \in 1..Len(text)
  BY <1>2 DEF More, TypeOK
<1> QED
  BY <1>1, <1>2, <1>3 DEF Current, TypeOK

(* While the text of some data is read, a block is in reach.               *)
LEMMA BlockInText ==
  ASSUME TypeOK, More, EncodedBlocks(Total)
  PROVE  blocks < Total
<1>1. Total \in Nat
  BY DEF TypeOK, Total
<1> QED
  BY <1>1, CurrentTyped DEF EncodedBlocks

(***************************************************************************)
(* The block that the current character fills, in the text of some data:   *)
(* its bytes are the data's, and its padding stands for the missing ones.  *)
(***************************************************************************)
LEMMA FilledBlock ==
  ASSUME TypeOK, Tracks, pc = "decoding", origin = "data", More, Next4th
  PROVE  /\ 3 * blocks + 1 <= Len(src)
         /\ BlockBytes[1] = src[3 * blocks + 1]
         /\ PadsNow = 0 => /\ 3 * blocks + 3 <= Len(src)
                           /\ BlockBytes[2] = src[3 * blocks + 2]
                           /\ BlockBytes[3] = src[3 * blocks + 3]
         /\ PadsNow = 1 => /\ 3 * blocks + 2 = Len(src)
                           /\ BlockBytes[2] = src[3 * blocks + 2]
         /\ PadsNow = 2 => 3 * blocks + 1 = Len(src)
         /\ PadsNow \in 0..2
<1> DEFINE a == At(src, 3 * blocks + 1)
           b == At(src, 3 * blocks + 2)
           c == At(src, 3 * blocks + 3)
           t1 == text[4 * blocks + 1]
           t2 == text[4 * blocks + 2]
           t3 == text[4 * blocks + 3]
           t4 == text[4 * blocks + 4]
<1>1. Len(block) = 3 /\ blocks \in Nat /\ Len(src) \in Nat
  BY DEF Next4th, TypeOK
<1>2. EncodedBlocks(Total) /\ blocks < Total
  BY BlockInText DEF Tracks
<1>3. Current = t4
  BY <1>1 DEF Current, SrcIndex
<1>4. block[1] = Value(t1) /\ block[2] = Value(t2) /\ block[3] = Value(t3)
  BY <1>1 DEF Tracks
<1>5. PadsNow = (IF t3 = Pad THEN 1 ELSE 0) + (IF t4 = Pad THEN 1 ELSE 0)
  BY <1>1, <1>3 DEF PadsNow, Tracks
<1>6. BlockBytes[1] = Byte1(Value(t1), Value(t2))
  BY <1>4 DEF BlockBytes
<1>7. BlockBytes[2] = Byte2(Value(t2), Value(t3))
  BY <1>4 DEF BlockBytes
<1>8. BlockBytes[3] = Byte3(Value(t3), Value(t4))
  BY <1>3, <1>4 DEF BlockBytes
<1>9. /\ a \in Byte /\ b \in Byte /\ c \in Byte
      /\ 3 * blocks + 1 <= Len(src)
      /\ t1 = Digit1(a) /\ t1 \in Digit
      /\ t2 = Digit2(a, b) /\ t2 \in Digit
      /\ IF 3 * blocks + 2 <= Len(src) THEN t3 = Digit3(b, c) /\ t3 \in Digit
                                       ELSE t3 = Pad
      /\ IF 3 * blocks + 3 <= Len(src) THEN t4 = Digit4(c) /\ t4 \in Digit
                                       ELSE t4 = Pad
  BY <1>1, <1>2, CharsOfBlock
<1> HIDE DEF a, b, c, t1, t2, t3, t4
<1>10. BlockBytes[1] = a
  BY <1>6, <1>9, FirstByte, DigitValue
<1>11. ASSUME 3 * blocks + 2 <= Len(src)
       PROVE  t3 # Pad /\ BlockBytes[2] = b
  BY <1>7, <1>9, <1>11, SecondByte, DigitValue
<1>12. ASSUME 3 * blocks + 3 <= Len(src)
       PROVE  t3 # Pad /\ t4 # Pad /\ BlockBytes[3] = c
  <2>1. t3 = Digit3(b, c) /\ t3 \in Digit /\ t4 = Digit4(c) /\ t4 \in Digit
    BY <1>1, <1>9, <1>12
  <2> QED
    BY <1>8, <1>9, <2>1, ThirdByte, DigitValue
<1>13. /\ 3 * blocks + 2 <= Len(src) => b = src[3 * blocks + 2]
       /\ 3 * blocks + 3 <= Len(src) => c = src[3 * blocks + 3]
       /\ a = src[3 * blocks + 1]
  BY <1>1, <1>9 DEF a, b, c, At
<1>14. /\ 3 * blocks + 2 > Len(src) => t3 = Pad
       /\ 3 * blocks + 3 > Len(src) => t4 = Pad
  BY <1>1, <1>9
<1> QED
  BY <1>1, <1>5, <1>9, <1>10, <1>11, <1>12, <1>13, <1>14

(* The bytes of a filled block are bytes, whatever the text is.            *)
LEMMA BlockBytesTyped ==
  ASSUME TypeOK, More, Next4th, Current # Invalid
  PROVE  /\ BlockBytes = <<BlockBytes[1], BlockBytes[2], BlockBytes[3]>>
         /\ BlockBytes[1] \in Byte /\ BlockBytes[2] \in Byte /\ BlockBytes[3] \in Byte
<1>1. Value(Current) \in Digit
  BY CurrentTyped, ValueIsDigit
<1>2. block[1] \in Digit /\ block[2] \in Digit /\ block[3] \in Digit
  <2>1. block \in Seq(Digit) /\ Len(block) = 3
    BY DEF TypeOK, Next4th
  <2>2. \A k \in 1..Len(block) : block[k] \in Digit
    BY <2>1
  <2>3. 1 \in 1..Len(block) /\ 2 \in 1..Len(block) /\ 3 \in 1..Len(block)
    BY <2>1
  <2> QED
    BY <2>2, <2>3
<1> QED
  BY <1>1, <1>2, BytesOfDigits DEF BlockBytes
----------------------------------------------------------------------------
LEMMA StartDecodingStep == Inv /\ StartDecoding => Inv'
<1> SUFFICES ASSUME Inv, StartDecoding PROVE Inv'
  OBVIOUS
<1> USE DEF Inv
<1>1. Len(text) \in Nat /\ DecodedLength(Len(text)) \in Nat
  BY DEF TypeOK, DecodedLength
<1>2. TypeOK'
  BY <1>1 DEF StartDecoding, TypeOK, decoder
<1>3. EncodeInv' /\ Finished'
  BY DEF StartDecoding, EncodeInv, DecoderFresh, Finished, Untouched, decoder
<1>4. DecodeBounds'
  BY <1>1 DEF StartDecoding, EncodeInv, DecoderFresh, DecodeBounds, SrcIndex, decoder
<1>5. Tracks'
  BY DEF StartDecoding, EncodeInv, DecoderFresh, Tracks, decoder, TypeOK,
         EncodedBlocks, TextBlock, Total
<1> QED
  BY <1>2, <1>3, <1>4, <1>5

LEMMA DecodeInvalidStep == Inv /\ DecodeInvalid => Inv'
<1> SUFFICES ASSUME Inv, DecodeInvalid PROVE Inv'
  OBVIOUS
<1> USE DEF Inv
<1>1. TypeOK' /\ EncodeInv' /\ DecodeBounds' /\ Tracks'
  <2>1. TypeOK'
    BY DEF DecodeInvalid, TypeOK, decoder
  <2>2. EncodeInv' /\ DecodeBounds'
    BY DEF DecodeInvalid, EncodeInv, DecodeBounds, decoder
  <2>3. Tracks'
    BY DEF DecodeInvalid, Tracks, decoder
  <2> QED
    BY <2>1, <2>2, <2>3
<1>2. ASSUME origin = "data" PROVE FALSE
  <2>1. EncodedBlocks(Total) /\ blocks < Total /\ blocks \in Nat /\ Len(block) \in 0..3
    BY <1>2, BlockInText, CurrentTyped DEF DecodeInvalid, Tracks
  <2>2. Current \in {text[4 * blocks + 1], text[4 * blocks + 2],
                     text[4 * blocks + 3], text[4 * blocks + 4]}
    <3>1. CASE Len(block) = 0
      BY <2>1, <3>1 DEF Current, SrcIndex
    <3>2. CASE Len(block) = 1
      BY <2>1, <3>2 DEF Current, SrcIndex
    <3>3. CASE Len(block) = 2
      BY <2>1, <3>3 DEF Current, SrcIndex
    <3>4. CASE Len(block) = 3
      BY <2>1, <3>4 DEF Current, SrcIndex
    <3> QED
      BY <2>1, <3>1, <3>2, <3>3, <3>4
  <2>3. Current \in Digit \union {Pad}
    BY <2>1, <2>2, CharsOfBlock
  <2> QED
    BY <2>3, DigitValue, PadValue DEF DecodeInvalid
<1>3. Finished'
  BY <1>2 DEF DecodeInvalid, Finished
<1> QED
  BY <1>1, <1>3

LEMMA DecodeCharStep == Inv /\ DecodeChar => Inv'
<1> SUFFICES ASSUME Inv, DecodeChar PROVE Inv'
  OBVIOUS
<1> USE DEF Inv
<1>1. /\ blocks \in Nat /\ Len(block) \in 0..2 /\ Len(text) \in Nat
      /\ block \in Seq(Digit) /\ padCount \in Nat
  BY CurrentTyped DEF DecodeChar, Next4th, TypeOK
<1>2. Value(Current) \in Digit
  BY CurrentTyped, ValueIsDigit DEF DecodeChar
<1>3. /\ block' \in Seq(Digit) /\ Len(block') = Len(block) + 1
      /\ \A k \in 1..Len(block) : block'[k] = block[k]
      /\ block'[Len(block) + 1] = Value(Current)
  BY <1>1, <1>2 DEF DecodeChar
<1>4. PadsNow \in Nat
  BY <1>1 DEF PadsNow
<1>5. TypeOK'
  <2>1. Len(block') <= 3
    BY <1>1, <1>3
  <2>2. padCount' \in Nat
    BY <1>4 DEF DecodeChar
  <2> QED
    BY <1>3, <2>1, <2>2 DEF DecodeChar, TypeOK
<1>6. EncodeInv' /\ Finished'
  BY DEF DecodeChar, EncodeInv, Finished
<1>7. DecodeBounds'
  BY <1>1, <1>3 DEF DecodeChar, DecodeBounds, SrcIndex, More
<1>8. ASSUME origin = "data"
      PROVE  Tracks'
  <2>1. EncodedBlocks(Total) /\ blocks < Total
    BY <1>8, BlockInText DEF DecodeChar, Tracks
  <2>2. text[4 * blocks + 1] # Pad /\ text[4 * blocks + 2] # Pad
    BY <1>1, <2>1, CharsOfBlock, DigitValue
  <2>3. Current = text[4 * blocks + (Len(block) + 1)]
    BY <1>1 DEF Current, SrcIndex
  <2>4. padCount = 0
    <3>1. pc = "decoding" /\ Len(block) # 3
      BY <1>1 DEF DecodeChar
    <3> QED
      BY <1>8, <3>1 DEF Tracks
  <2>5. padCount' = IF Len(block') = 3 /\ text[4 * blocks + 3] = Pad THEN 1 ELSE 0
    <3>1. CASE Len(block) = 2
      BY <1>3, <2>3, <2>4, <3>1 DEF DecodeChar, PadsNow
    <3>2. CASE Len(block) \in {0, 1}
      <4>1. Current # Pad
        <5>1. CASE Len(block) = 0
          BY <1>1, <2>2, <5>1 DEF Current, SrcIndex
        <5>2. CASE Len(block) = 1
          BY <1>1, <2>2, <5>2 DEF Current, SrcIndex
        <5> QED
          BY <3>2, <5>1, <5>2
      <4> QED
        BY <1>3, <2>4, <3>2, <4>1 DEF DecodeChar, PadsNow
    <3> QED
      BY <1>1, <3>1, <3>2
  <2>6. \A k \in 1..Len(block') : block'[k] = Value(text[4 * blocks + k])
    <3>1. \A k \in 1..Len(block) : block[k] = Value(text[4 * blocks + k])
      BY <1>8 DEF DecodeChar, Tracks
    <3>2. blocks' = blocks /\ text' = text
      BY DEF DecodeChar
    <3>3. ASSUME NEW k \in 1..Len(block')
          PROVE  block'[k] = Value(text[4 * blocks + k])
      <4>1. CASE k = Len(block) + 1
        BY <1>3, <2>3, <4>1
      <4>2. CASE k \in 1..Len(block)
        BY <1>3, <3>1, <4>2
      <4> QED
        BY <1>1, <1>3, <3>3, <4>1, <4>2
    <3> QED
      BY <3>3
  <2>7. EncodedBlocks(Total)'
    BY <2>1 DEF DecodeChar, EncodedBlocks, TextBlock, Total
  <2> QED
    <3>1. /\ decoded' = decoded /\ src' = src /\ blocks' = blocks /\ text' = text
          /\ Len(decoded) <= Len(src)
          /\ \A k \in 1..Len(decoded) : decoded[k] = src[k]
      BY <1>8 DEF DecodeChar, Tracks
    <3> QED
      BY <2>5, <2>6, <2>7, <3>1 DEF Tracks
<1>9. origin' = origin /\ (origin # "data" => Tracks')
  BY DEF DecodeChar, Tracks
<1> QED
  BY <1>5, <1>6, <1>7, <1>8, <1>9

LEMMA DecodeBlockStep == Inv /\ DecodeBlock => Inv'
<1> SUFFICES ASSUME Inv, DecodeBlock PROVE Inv'
  OBVIOUS
<1> USE DEF Inv
<1>1. /\ blocks \in Nat /\ Len(block) = 3 /\ Len(text) \in Nat /\ Len(src) \in Nat
      /\ decoded \in Seq(Byte) /\ padCount = 0 /\ PadsNow = 0
  <2>1. blocks \in Nat /\ Len(block) = 3 /\ padCount \in Nat
    BY DEF DecodeBlock, Next4th, TypeOK
  <2>2. padCount = 0
    BY <2>1 DEF DecodeBlock, PadsNow
  <2> QED
    BY <2>1, <2>2 DEF DecodeBlock, TypeOK
<1>2. /\ BlockBytes = <<BlockBytes[1], BlockBytes[2], BlockBytes[3]>>
      /\ BlockBytes[1] \in Byte /\ BlockBytes[2] \in Byte /\ BlockBytes[3] \in Byte
  BY BlockBytesTyped DEF DecodeBlock
<1>3. /\ decoded' \in Seq(Byte)
      /\ Len(decoded') = Len(decoded) + 3
      /\ \A k \in 1..Len(decoded) : decoded'[k] = decoded[k]
      /\ decoded'[Len(decoded) + 1] = BlockBytes[1]
      /\ decoded'[Len(decoded) + 2] = BlockBytes[2]
      /\ decoded'[Len(decoded) + 3] = BlockBytes[3]
  <2>1. decoded' = decoded \o <<BlockBytes[1], BlockBytes[2], BlockBytes[3]>>
    BY <1>2 DEF DecodeBlock
  <2> QED
    BY <1>1, <1>2, <2>1, ThreeMore
<1>4. TypeOK'
  BY <1>1, <1>3 DEF DecodeBlock, TypeOK
<1>5. EncodeInv' /\ Finished'
  BY DEF DecodeBlock, EncodeInv, Finished
<1>6. DecodeBounds'
  <2>1. /\ allocated = DecodedLength(Len(text))
        /\ Len(decoded) = 3 * blocks
        /\ 4 * blocks + 3 < Len(text)
    BY <1>1 DEF DecodeBlock, DecodeBounds, SrcIndex, More
  <2>2. /\ Len(decoded') = 3 * (blocks + 1)
        /\ Len(decoded) + 3 = 3 * (blocks + 1)
        /\ 4 * (blocks + 1) <= Len(text)
    BY <1>1, <1>3, <2>1
  <2>3. /\ blocks' = blocks + 1 /\ reach' = Len(decoded) + 3 /\ block' = <<>>
        /\ allocated' = allocated /\ text' = text
    BY DEF DecodeBlock
  <2>4. SrcIndex' = 4 * (blocks + 1)
    BY <1>1, <2>3 DEF SrcIndex
  <2> QED
    BY <2>1, <2>2, <2>3, <2>4 DEF DecodeBounds
<1>7. ASSUME origin = "data"
      PROVE  Tracks'
  <2>1. /\ 3 * blocks + 1 <= Len(src) /\ 3 * blocks + 3 <= Len(src)
        /\ BlockBytes[1] = src[3 * blocks + 1]
        /\ BlockBytes[2] = src[3 * blocks + 2]
        /\ BlockBytes[3] = src[3 * blocks + 3]
    BY <1>1, <1>7, FilledBlock DEF DecodeBlock
  <2>2. Len(decoded) = 3 * blocks /\ \A k \in 1..Len(decoded) : decoded[k] = src[k]
    BY <1>7 DEF DecodeBlock, DecodeBounds, Tracks
  <2>3. Len(decoded') <= Len(src) /\ \A k \in 1..Len(decoded') : decoded'[k] = src[k]
    BY <1>1, <1>3, <2>1, <2>2
  <2>4. EncodedBlocks(Total)'
    BY <1>7 DEF DecodeBlock, Tracks, EncodedBlocks, TextBlock, Total
  <2> QED
    BY <1>1, <1>7, <2>3, <2>4 DEF DecodeBlock, Tracks
<1>8. origin' = origin /\ (origin # "data" => Tracks')
  BY DEF DecodeBlock, Tracks
<1> QED
  BY <1>4, <1>5, <1>6, <1>7, <1>8

(* What is left of the text when the last block is padded.                 *)
LEMMA RoomForBlock ==
  ASSUME TypeOK, DecodeBounds, pc = "decoding", More, Next4th
  PROVE  /\ Len(decoded) \in Nat
         /\ Len(decoded) = 3 * blocks
         /\ Len(decoded) + 3 <= allocated
<1>1. blocks \in Nat /\ Len(text) \in Nat /\ Len(block) = 3
  BY DEF TypeOK, Next4th
<1>2. 4 * blocks + 3 < Len(text)
  BY <1>1 DEF More, SrcIndex
<1>3. Len(decoded) = 3 * blocks /\ allocated = (Len(text) \div 4) * 3
  BY DEF DecodeBounds, DecodedLength
<1>4. blocks + 1 <= Len(text) \div 4
  BY <1>1, <1>2
<1> QED
  BY <1>1, <1>3, <1>4

LEMMA DecodePaddedStep == Inv /\ DecodePadded => Inv'
<1> SUFFICES ASSUME Inv, DecodePadded PROVE Inv'
  OBVIOUS
<1> USE DEF Inv
<1>1. /\ pc = "decoding" /\ More /\ Next4th /\ Current # Invalid
      /\ PadsNow \in {1, 2} /\ padCount' = PadsNow
      /\ reach' = Len(decoded) + 3 /\ pc' = "decoded"
      /\ UNCHANGED <<origin, src, text, allocated, blocks, block>>
  BY DEF DecodePadded
<1>2. /\ Len(decoded) \in Nat /\ Len(decoded) = 3 * blocks
      /\ Len(decoded) + 3 <= allocated
      /\ decoded \in Seq(Byte) /\ src \in Seq(Byte) /\ blocks \in Nat
  BY <1>1, RoomForBlock DEF TypeOK
<1>3. BlockBytes[1] \in Byte /\ BlockBytes[2] \in Byte
  BY <1>1, BlockBytesTyped
<1>4. decoded \in Seq(Byte)
  BY DEF TypeOK
<1>5. /\ decoded' \in Seq(Byte)
      /\ Len(decoded') = Len(decoded) + (3 - PadsNow)
      /\ \A k \in 1..Len(decoded) : decoded'[k] = decoded[k]
      /\ decoded'[Len(decoded) + 1] = BlockBytes[1]
      /\ PadsNow = 1 => decoded'[Len(decoded) + 2] = BlockBytes[2]
  <2>1. CASE PadsNow = 1
    <3>1. decoded' = decoded \o <<BlockBytes[1], BlockBytes[2]>>
      BY <2>1 DEF DecodePadded
    <3>2. /\ decoded' \in Seq(Byte)
          /\ Len(decoded') = Len(decoded) + 2
          /\ \A k \in 1..Len(decoded) : decoded'[k] = decoded[k]
          /\ decoded'[Len(decoded) + 1] = BlockBytes[1]
          /\ decoded'[Len(decoded) + 2] = BlockBytes[2]
      BY <1>3, <1>4, <3>1, TwoMore
    <3> QED
      BY <2>1, <3>2
  <2>2. CASE PadsNow = 2
    <3>1. decoded' = decoded \o <<BlockBytes[1]>>
      BY <2>2 DEF DecodePadded
    <3>2. /\ decoded' \in Seq(Byte)
          /\ Len(decoded') = Len(decoded) + 1
          /\ \A k \in 1..Len(decoded) : decoded'[k] = decoded[k]
          /\ decoded'[Len(decoded) + 1] = BlockBytes[1]
      BY <1>3, <1>4, <3>1, OneMore
    <3> QED
      BY <2>2, <3>2
  <2> QED
    BY <1>1, <2>1, <2>2
<1>6. TypeOK'
  <2>1. reach' \in Nat /\ padCount' \in Nat
    BY <1>1, <1>2
  <2> QED
    BY <1>1, <1>5, <2>1 DEF TypeOK
<1>7. EncodeInv' /\ DecodeBounds' /\ Tracks'
  BY <1>1 DEF EncodeInv, DecodeBounds, Tracks
<1>8. Len(decoded') <= reach' /\ reach' <= allocated'
  BY <1>1, <1>2, <1>5
<1>9. ASSUME origin = "data"
      PROVE  decoded' = src
  <2>1. /\ 3 * blocks + 1 <= Len(src)
        /\ BlockBytes[1] = src[3 * blocks + 1]
        /\ PadsNow = 1 => /\ 3 * blocks + 2 = Len(src)
                          /\ BlockBytes[2] = src[3 * blocks + 2]
        /\ PadsNow = 2 => 3 * blocks + 1 = Len(src)
    BY <1>1, <1>9, FilledBlock
  <2>2. \A k \in 1..Len(decoded) : decoded[k] = src[k]
    BY <1>1, <1>9 DEF Tracks
  <2>3. Len(src) \in Nat
    BY <1>2
  <2>4. Len(decoded') = Len(src) /\ \A k \in 1..Len(src) : decoded'[k] = src[k]
    <3>1. CASE PadsNow = 1
      <4>1. Len(src) = Len(decoded) + 2 /\ Len(decoded') = Len(src)
        BY <1>2, <1>5, <2>1, <2>3, <3>1
      <4>2. /\ decoded'[Len(decoded) + 1] = src[Len(decoded) + 1]
            /\ decoded'[Len(decoded) + 2] = src[Len(decoded) + 2]
        BY <1>2, <1>5, <2>1, <3>1
      <4> QED
        BY <1>2, <1>5, <2>2, <4>1, <4>2
    <3>2. CASE PadsNow = 2
      <4>1. Len(src) = Len(decoded) + 1 /\ Len(decoded') = Len(src)
        BY <1>2, <1>5, <2>1, <2>3, <3>2
      <4>2. decoded'[Len(decoded) + 1] = src[Len(decoded) + 1]
        BY <1>2, <1>5, <2>1
      <4> QED
        BY <1>2, <1>5, <2>2, <4>1, <4>2
    <3> QED
      BY <1>1, <3>1, <3>2
  <2> QED
    BY <1>2, <1>5, <2>4
<1>10. Finished'
  BY <1>1, <1>8, <1>9 DEF Finished
<1> QED
  BY <1>6, <1>7, <1>10

LEMMA DecodeOverpaddedStep == Inv /\ DecodeOverpadded => Inv'
<1> SUFFICES ASSUME Inv, DecodeOverpadded PROVE Inv'
  OBVIOUS
<1> USE DEF Inv
<1>1. /\ pc = "decoding" /\ More /\ Next4th /\ PadsNow > 2 /\ padCount' = PadsNow
      /\ reach' = Len(decoded) + 3 /\ pc' = "null"
      /\ UNCHANGED <<origin, src, text, allocated, blocks, block, decoded>>
  BY DEF DecodeOverpadded
<1>2. TypeOK'
  <2>1. padCount \in Nat /\ decoded \in Seq(Byte)
    BY DEF TypeOK
  <2>2. padCount' \in Nat /\ reach' \in Nat
    BY <1>1, <2>1 DEF PadsNow
  <2> QED
    BY <1>1, <2>2 DEF TypeOK
<1>3. EncodeInv' /\ DecodeBounds' /\ Tracks'
  BY <1>1 DEF EncodeInv, DecodeBounds, Tracks
<1>4. origin # "data"
  <2>1. ASSUME origin = "data" PROVE PadsNow \in 0..2
    BY <1>1, <2>1, FilledBlock
  <2> QED
    BY <1>1, <2>1
<1>5. Finished'
  BY <1>1, <1>4 DEF Finished
<1> QED
  BY <1>2, <1>3, <1>5

LEMMA DecodeEndStep == Inv /\ DecodeEnd => Inv'
<1> SUFFICES ASSUME Inv, DecodeEnd PROVE Inv'
  OBVIOUS
<1> USE DEF Inv
<1>1. /\ pc = "decoding" /\ ~More /\ pc' = "decoded"
      /\ UNCHANGED <<origin, src, text, allocated, blocks, block, padCount, decoded, reach>>
  BY DEF DecodeEnd, decoder
<1>2. TypeOK'
  BY <1>1 DEF TypeOK
<1>3. EncodeInv' /\ DecodeBounds' /\ Tracks'
  BY <1>1 DEF EncodeInv, DecodeBounds, Tracks
<1>4. /\ blocks \in Nat /\ Len(text) \in Nat /\ Len(src) \in Nat
      /\ decoded \in Seq(Byte) /\ src \in Seq(Byte)
      /\ block \in Seq(Digit) /\ Len(block) <= 3
  BY DEF TypeOK
<1>5. /\ 4 * blocks + Len(block) = Len(text)
      /\ allocated = (Len(text) \div 4) * 3
      /\ Len(decoded) = 3 * blocks /\ reach = 3 * blocks
  <2>1. Len(block) \in Nat
    BY <1>4
  <2> QED
    BY <1>1, <1>4, <2>1 DEF DecodeBounds, More, SrcIndex, DecodedLength
<1>6. blocks <= Len(text) \div 4
  BY <1>4, <1>5
<1>7. Len(decoded') <= reach' /\ reach' <= allocated'
  BY <1>1, <1>4, <1>5, <1>6
<1>8. ASSUME origin = "data"
      PROVE  decoded = src
  <2>1. /\ Len(text) = 4 * Total /\ Len(decoded) <= Len(src)
        /\ \A k \in 1..Len(decoded) : decoded[k] = src[k]
    BY <1>1, <1>8 DEF Tracks, EncodedBlocks
  <2>2. Total \in Nat /\ Len(src) <= 3 * Total
    BY <1>4 DEF Total
  <2>3. blocks = Total
    BY <1>4, <1>5, <2>1, <2>2
  <2>4. Len(decoded) = Len(src)
    BY <1>4, <1>5, <2>1, <2>2, <2>3
  <2> QED
    BY <1>4, <2>1, <2>4
<1>9. Finished'
  BY <1>1, <1>7, <1>8 DEF Finished
<1> QED
  BY <1>2, <1>3, <1>9
----------------------------------------------------------------------------
LEMMA UnchangedStep == Inv /\ UNCHANGED vars => Inv'
<1> SUFFICES ASSUME Inv, UNCHANGED vars PROVE Inv'
  OBVIOUS
<1>1. TypeOK' /\ EncodeInv'
  BY DEF Inv, vars, decoder, TypeOK, EncodeInv, DecoderFresh, EncodedBlocks,
         TextBlock, At, Total
<1>2. DecodeBounds' /\ Finished'
  BY DEF Inv, vars, decoder, DecodeBounds, SrcIndex, Finished, Untouched
<1>3. Tracks'
  BY DEF Inv, vars, decoder, Tracks, EncodedBlocks, TextBlock, At, Total
<1> QED
  BY <1>1, <1>2, <1>3 DEF Inv

(* Every state of the two functions satisfies the invariant.               *)
THEOREM Base64Invariant == Spec => []Inv
<1>1. Inv /\ [Next]_vars => Inv'
  BY EncodingStep, StartDecodingStep, DecodeInvalidStep, DecodeCharStep,
     DecodeBlockStep, DecodePaddedStep, DecodeOverpaddedStep, DecodeEndStep,
     UnchangedStep DEF Next, Decode, Ended
<1> QED
  BY InitInv, <1>1, PTL DEF Spec

(* Digits, pads and bytes are all that base64.c writes.                    *)
THEOREM TypeCorrect == Spec => []TypeOK
<1>1. Inv => TypeOK
  BY DEF Inv
<1> QED
  BY <1>1, Base64Invariant, PTL

(***************************************************************************)
(* The stores of both loops, *pos++ = ... at base64.c:36-58 and :121-123,  *)
(* stay within what was allocated for them, for data and texts of every    *)
(* length.                                                                 *)
(***************************************************************************)
THEOREM BuffersHold == Spec => []WithinBuffers
<1>1. Inv => WithinBuffers
  <2> SUFFICES ASSUME Inv PROVE WithinBuffers
    OBVIOUS
  <2>1. TypeOK /\ EncodeInv /\ DecodeBounds /\ Finished
    BY DEF Inv
  <2>2. blocks \in Nat /\ Len(text) \in Nat /\ Len(src) \in Nat
        /\ block \in Seq(Digit)
    BY <2>1 DEF TypeOK
  <2>3. pc = "encoding" => Len(text) <= allocated
    <3> SUFFICES ASSUME pc = "encoding" PROVE Len(text) <= allocated
      OBVIOUS
    <3>1. Len(text) = 4 * blocks /\ allocated = 4 * Total /\ 3 * blocks <= Len(src)
      BY <2>1 DEF EncodeInv, EncodedBlocks
    <3>2. Total \in Nat /\ blocks <= Total
      BY <2>2, <3>1 DEF Total
    <3> QED
      BY <2>2, <3>1, <3>2
  <2>4. pc = "encoded" /\ origin = "data" => Len(text) = allocated
    BY <2>1 DEF EncodeInv, EncodedBlocks
  <2>5. pc = "decoding" => Len(decoded) <= reach /\ reach <= allocated
    <3> SUFFICES ASSUME pc = "decoding" PROVE Len(decoded) <= reach /\ reach <= allocated
      OBVIOUS
    <3>1. /\ 4 * blocks + Len(block) <= Len(text)
          /\ allocated = (Len(text) \div 4) * 3
          /\ Len(decoded) = 3 * blocks /\ reach = 3 * blocks
      BY <2>1 DEF DecodeBounds, SrcIndex, DecodedLength
    <3>2. Len(block) \in Nat
      BY <2>2
    <3>3. blocks <= Len(text) \div 4
      BY <2>2, <3>1, <3>2
    <3> QED
      BY <2>2, <3>1, <3>3
  <2> QED
    BY <2>1, <2>3, <2>4, <2>5 DEF WithinBuffers, Finished
<1> QED
  BY <1>1, Base64Invariant, PTL

(***************************************************************************)
(* A section kept as base64 (cper-parse.c:357-372) is what comes back      *)
(* (ir-parse.c:163-178), for every section.                                *)
(***************************************************************************)
THEOREM DecodeInverts == Spec => []DecodeInvertsEncode
<1>1. Inv => DecodeInvertsEncode
  BY DEF Inv, Finished, DecodeInvertsEncode
<1> QED
  BY <1>1, Base64Invariant, PTL
----------------------------------------------------------------------------
(***************************************************************************)
(* The reference.  Eight bits of a byte against six of a digit: both sides *)
(* are taken apart into the same bits of one block.                        *)
(***************************************************************************)
(* The bits of some bytes or digits, by their numbers.                     *)
LEMMA BitsTyped ==
  ASSUME NEW S, NEW s \in Seq(S), NEW width \in {6, 8}
  PROVE  /\ Len(Bits(s, width)) = width * Len(s)
         /\ \A n \in 1..width * Len(s) :
              Bits(s, width)[n] =
                (s[((n - 1) \div width) + 1] \div Weight[width - ((n - 1) % width)]) % 2
<1> DEFINE bits == Bits(s, width)
           bit(n) == (s[((n - 1) \div width) + 1] \div Weight[width - ((n - 1) % width)]) % 2
<1>1. Len(s) \in Nat /\ width * Len(s) \in Nat
  BY Z3
<1>2. bits = [n \in 1..width * Len(s) |-> bit(n)]
  BY DEF Bits
<1> HIDE DEF bits, bit
<1>3. \A n \in 1..width * Len(s) : bits[n] = bit(n)
  BY <1>2
<1>4. Len(bits) = width * Len(s)
  BY <1>1, <1>2
<1> QED
  BY <1>3, <1>4 DEF bits, bit

(* The eight bits that byte m + 1 contributes, zeros after the last byte.  *)
LEMMA BitsOfByte ==
  ASSUME NEW s \in Seq(Byte), NEW m \in Nat
  PROVE  LET bits == Bits(s, 8)
             x    == At(s, m + 1)
         IN  /\ BitAt(bits, 8 * m + 1) = (x \div 128) % 2
             /\ BitAt(bits, 8 * m + 2) = (x \div 64) % 2
             /\ BitAt(bits, 8 * m + 3) = (x \div 32) % 2
             /\ BitAt(bits, 8 * m + 4) = (x \div 16) % 2
             /\ BitAt(bits, 8 * m + 5) = (x \div 8) % 2
             /\ BitAt(bits, 8 * m + 6) = (x \div 4) % 2
             /\ BitAt(bits, 8 * m + 7) = (x \div 2) % 2
             /\ BitAt(bits, 8 * m + 8) = x % 2
<1> DEFINE bits == Bits(s, 8)
           x == At(s, m + 1)
<1>1. /\ Len(bits) = 8 * Len(s) /\ Len(s) \in Nat
      /\ \A n \in 1..8 * Len(s) :
           bits[n] = (s[((n - 1) \div 8) + 1] \div Weight[8 - ((n - 1) % 8)]) % 2
  BY BitsTyped
<1> HIDE DEF bits
<1>2. CASE m + 1 <= Len(s)
  <2>1. ASSUME NEW j \in 1..8
        PROVE  BitAt(bits, 8 * m + j) = (x \div Weight[9 - j]) % 2
    <3>1. 8 * m + j \in 1..8 * Len(s)
      BY <1>1, <1>2
    <3>2. ((8 * m + j) - 1) \div 8 = m /\ ((8 * m + j) - 1) % 8 = j - 1
      OBVIOUS
    <3>3. bits[8 * m + j] = (s[m + 1] \div Weight[8 - (j - 1)]) % 2
      BY <1>1, <3>1, <3>2
    <3>4. 8 - (j - 1) = 9 - j
      OBVIOUS
    <3> QED
      BY <1>1, <1>2, <3>1, <3>3, <3>4 DEF BitAt, At
  <2>2. x \div 1 = x
    <3>1. x \in Byte
      BY <1>1, <1>2 DEF At
    <3>2. \A y \in Byte : y \div 1 = y
      BY DEF Byte
    <3> QED
      BY <3>1, <3>2
  <2> QED
    BY <2>1, <2>2 DEF Weight, bits
<1>3. CASE m + 1 > Len(s)
  <2>1. x = 0
    BY <1>1, <1>3 DEF At
  <2>2. ASSUME NEW j \in 1..8 PROVE BitAt(bits, 8 * m + j) = 0
    BY <1>1, <1>3 DEF BitAt
  <2> QED
    BY <2>1, <2>2 DEF bits
<1> QED
  BY <1>1, <1>2, <1>3

(* A number is twice its half and its lowest bit, again and again.         *)
LEMMA Halving ==
  ASSUME NEW x \in Nat
  PROVE  /\ x = 2 * (x \div 2) + (x % 2)
         /\ x \div 2 = 2 * (x \div 4) + ((x \div 2) % 2)
         /\ x \div 4 = 2 * (x \div 8) + ((x \div 4) % 2)
         /\ x \div 8 = 2 * (x \div 16) + ((x \div 8) % 2)
         /\ x \div 16 = 2 * (x \div 32) + ((x \div 16) % 2)
         /\ x \div 32 = 2 * (x \div 64) + ((x \div 32) % 2)
         /\ x \div 64 = 2 * (x \div 128) + ((x \div 64) % 2)
<1>1. x = 2 * (x \div 2) + (x % 2)
  OBVIOUS
<1>2. x \div 2 = 2 * (x \div 4) + ((x \div 2) % 2)
  OBVIOUS
<1>3. x \div 4 = 2 * (x \div 8) + ((x \div 4) % 2)
  OBVIOUS
<1>4. x \div 8 = 2 * (x \div 16) + ((x \div 8) % 2)
  OBVIOUS
<1>5. x \div 16 = 2 * (x \div 32) + ((x \div 16) % 2)
  OBVIOUS
<1>6. x \div 32 = 2 * (x \div 64) + ((x \div 32) % 2)
  OBVIOUS
<1>7. x \div 64 = 2 * (x \div 128) + ((x \div 64) % 2)
  OBVIOUS
<1> QED
  BY <1>1, <1>2, <1>3, <1>4, <1>5, <1>6, <1>7

(* What the low bits of a byte are, and that there are eight of them.      *)
LEMMA Remainders ==
  ASSUME NEW x \in Byte
  PROVE  /\ x % 4 = x - 4 * (x \div 4) /\ x % 16 = x - 16 * (x \div 16)
         /\ x % 64 = x - 64 * (x \div 64)
         /\ x \div 128 = (x \div 128) % 2
         /\ \A w \in {2, 4, 8, 16, 32, 64, 128} :
              x \div w \in Nat /\ (x \div w) % 2 \in 0..1
BY DEF Byte

(* The encoder's shifts and masks, bit by bit.                             *)
LEMMA DigitsOfBits ==
  ASSUME NEW a \in Byte, NEW b \in Byte, NEW c \in Byte
  PROVE  /\ Digit1(a) =
              32 * ((a \div 128) % 2) + 16 * ((a \div 64) % 2) + 8 * ((a \div 32) % 2)
                + 4 * ((a \div 16) % 2) + 2 * ((a \div 8) % 2) + ((a \div 4) % 2)
         /\ Digit2(a, b) =
              32 * ((a \div 2) % 2) + 16 * (a % 2) + 8 * ((b \div 128) % 2)
                + 4 * ((b \div 64) % 2) + 2 * ((b \div 32) % 2) + ((b \div 16) % 2)
         /\ Digit3(b, c) =
              32 * ((b \div 8) % 2) + 16 * ((b \div 4) % 2) + 8 * ((b \div 2) % 2)
                + 4 * (b % 2) + 2 * ((c \div 128) % 2) + ((c \div 64) % 2)
         /\ Digit4(c) =
              32 * ((c \div 32) % 2) + 16 * ((c \div 16) % 2) + 8 * ((c \div 8) % 2)
                + 4 * ((c \div 4) % 2) + 2 * ((c \div 2) % 2) + (c % 2)
<1>1. a \in Nat /\ b \in Nat /\ c \in Nat
  BY DEF Byte
<1>2. a \div 4 =
        32 * ((a \div 128) % 2) + 16 * ((a \div 64) % 2) + 8 * ((a \div 32) % 2)
          + 4 * ((a \div 16) % 2) + 2 * ((a \div 8) % 2) + ((a \div 4) % 2)
  BY <1>1, Halving, Remainders
<1>3. a % 4 = 2 * ((a \div 2) % 2) + (a % 2)
  BY <1>1, Halving, Remainders
<1>4. b \div 16 = 8 * ((b \div 128) % 2) + 4 * ((b \div 64) % 2)
                    + 2 * ((b \div 32) % 2) + ((b \div 16) % 2)
  BY <1>1, Halving, Remainders
<1>5. b % 16 = 8 * ((b \div 8) % 2) + 4 * ((b \div 4) % 2)
                + 2 * ((b \div 2) % 2) + (b % 2)
  BY <1>1, Halving, Remainders
<1>6. c \div 64 = 2 * ((c \div 128) % 2) + ((c \div 64) % 2)
  BY <1>1, Halving, Remainders
<1>7. c % 64 = 32 * ((c \div 32) % 2) + 16 * ((c \div 16) % 2) + 8 * ((c \div 8) % 2)
                + 4 * ((c \div 4) % 2) + 2 * ((c \div 2) % 2) + (c % 2)
  BY <1>1, Halving, Remainders
<1> QED
  BY <1>1, <1>2, <1>3, <1>4, <1>5, <1>6, <1>7 DEF Digit1, Digit2, Digit3, Digit4

(* The four reference characters of the block that starts at byte 3m + 1.  *)
LEMMA RefChars ==
  ASSUME NEW s \in Seq(Byte), NEW m \in Nat, 3 * m + 1 <= Len(s)
  PROVE  LET bits == Bits(s, 8)
             a == At(s, 3 * m + 1)
             b == At(s, 3 * m + 2)
             c == At(s, 3 * m + 3)
         IN  /\ RefChar(bits, 4 * m + 1) = Digit1(a)
             /\ RefChar(bits, 4 * m + 2) = Digit2(a, b)
             /\ RefChar(bits, 4 * m + 3) =
                  IF 3 * m + 2 <= Len(s) THEN Digit3(b, c) ELSE Pad
             /\ RefChar(bits, 4 * m + 4) =
                  IF 3 * m + 3 <= Len(s) THEN Digit4(c) ELSE Pad
<1> DEFINE bits == Bits(s, 8)
           a == At(s, 3 * m + 1)
           b == At(s, 3 * m + 2)
           c == At(s, 3 * m + 3)
           bit(n) == BitAt(bits, n)
<1>1. Len(bits) = 8 * Len(s) /\ Len(s) \in Nat
  BY BitsTyped
<1>2. a \in Byte /\ b \in Byte /\ c \in Byte
  <2>1. ASSUME NEW k \in Nat, k > 0 PROVE At(s, k) \in Byte
    <3>1. 0 \in Byte
      BY DEF Byte
    <3>2. CASE k <= Len(s)
      <4>1. k \in 1..Len(s)
        BY <1>1, <2>1, <3>2
      <4> QED
        BY <3>2, <4>1 DEF At
    <3>3. CASE ~(k <= Len(s))
      BY <3>1, <3>3 DEF At
    <3> QED
      BY <3>2, <3>3
  <2> QED
    BY <2>1
<1>3. /\ bit(24 * m + 1) = (a \div 128) % 2 /\ bit(24 * m + 2) = (a \div 64) % 2
      /\ bit(24 * m + 3) = (a \div 32) % 2  /\ bit(24 * m + 4) = (a \div 16) % 2
      /\ bit(24 * m + 5) = (a \div 8) % 2   /\ bit(24 * m + 6) = (a \div 4) % 2
      /\ bit(24 * m + 7) = (a \div 2) % 2   /\ bit(24 * m + 8) = a % 2
  <2>1. 3 * m \in Nat /\ 8 * (3 * m) = 24 * m
    OBVIOUS
  <2> QED
    BY <2>1, BitsOfByte
<1>4. /\ bit(24 * m + 9) = (b \div 128) % 2 /\ bit(24 * m + 10) = (b \div 64) % 2
      /\ bit(24 * m + 11) = (b \div 32) % 2 /\ bit(24 * m + 12) = (b \div 16) % 2
      /\ bit(24 * m + 13) = (b \div 8) % 2  /\ bit(24 * m + 14) = (b \div 4) % 2
      /\ bit(24 * m + 15) = (b \div 2) % 2  /\ bit(24 * m + 16) = b % 2
  <2>1. /\ 3 * m + 1 \in Nat /\ (3 * m + 1) + 1 = 3 * m + 2
        /\ \A j \in 1..8 : 8 * (3 * m + 1) + j = 24 * m + (8 + j)
    OBVIOUS
  <2>2. /\ bit(8 * (3 * m + 1) + 1) = (b \div 128) % 2
        /\ bit(8 * (3 * m + 1) + 2) = (b \div 64) % 2
        /\ bit(8 * (3 * m + 1) + 3) = (b \div 32) % 2
        /\ bit(8 * (3 * m + 1) + 4) = (b \div 16) % 2
        /\ bit(8 * (3 * m + 1) + 5) = (b \div 8) % 2
        /\ bit(8 * (3 * m + 1) + 6) = (b \div 4) % 2
        /\ bit(8 * (3 * m + 1) + 7) = (b \div 2) % 2
        /\ bit(8 * (3 * m + 1) + 8) = b % 2
    <3> DEFINE k == 3 * m + 1
    <3>1. k \in Nat /\ b = At(s, k + 1)
      BY <2>1
    <3> HIDE DEF k, b
    <3>2. /\ bit(8 * k + 1) = (b \div 128) % 2 /\ bit(8 * k + 2) = (b \div 64) % 2
          /\ bit(8 * k + 3) = (b \div 32) % 2  /\ bit(8 * k + 4) = (b \div 16) % 2
          /\ bit(8 * k + 5) = (b \div 8) % 2   /\ bit(8 * k + 6) = (b \div 4) % 2
          /\ bit(8 * k + 7) = (b \div 2) % 2   /\ bit(8 * k + 8) = b % 2
      BY <3>1, BitsOfByte
    <3> QED
      BY <3>2 DEF k
  <2> HIDE DEF bit, b
  <2> QED
    BY <2>1, <2>2
<1>5. /\ bit(24 * m + 17) = (c \div 128) % 2 /\ bit(24 * m + 18) = (c \div 64) % 2
      /\ bit(24 * m + 19) = (c \div 32) % 2  /\ bit(24 * m + 20) = (c \div 16) % 2
      /\ bit(24 * m + 21) = (c \div 8) % 2   /\ bit(24 * m + 22) = (c \div 4) % 2
      /\ bit(24 * m + 23) = (c \div 2) % 2   /\ bit(24 * m + 24) = c % 2
  <2>1. /\ 3 * m + 2 \in Nat /\ (3 * m + 2) + 1 = 3 * m + 3
        /\ \A j \in 1..8 : 8 * (3 * m + 2) + j = 24 * m + (16 + j)
    OBVIOUS
  <2>2. /\ bit(8 * (3 * m + 2) + 1) = (c \div 128) % 2
        /\ bit(8 * (3 * m + 2) + 2) = (c \div 64) % 2
        /\ bit(8 * (3 * m + 2) + 3) = (c \div 32) % 2
        /\ bit(8 * (3 * m + 2) + 4) = (c \div 16) % 2
        /\ bit(8 * (3 * m + 2) + 5) = (c \div 8) % 2
        /\ bit(8 * (3 * m + 2) + 6) = (c \div 4) % 2
        /\ bit(8 * (3 * m + 2) + 7) = (c \div 2) % 2
        /\ bit(8 * (3 * m + 2) + 8) = c % 2
    <3> DEFINE k == 3 * m + 2
    <3>1. k \in Nat /\ c = At(s, k + 1)
      BY <2>1
    <3> HIDE DEF k, c
    <3>2. /\ bit(8 * k + 1) = (c \div 128) % 2 /\ bit(8 * k + 2) = (c \div 64) % 2
          /\ bit(8 * k + 3) = (c \div 32) % 2  /\ bit(8 * k + 4) = (c \div 16) % 2
          /\ bit(8 * k + 5) = (c \div 8) % 2   /\ bit(8 * k + 6) = (c \div 4) % 2
          /\ bit(8 * k + 7) = (c \div 2) % 2   /\ bit(8 * k + 8) = c % 2
      BY <3>1, BitsOfByte
    <3> QED
      BY <3>2 DEF k
  <2> HIDE DEF bit, c
  <2> QED
    BY <2>1, <2>2
<1>6. ASSUME NEW i \in 1..4
      PROVE  RefChar(bits, 4 * m + i) =
               IF 24 * m + 6 * (i - 1) >= 8 * Len(s) THEN Pad
               ELSE 32 * bit(24 * m + 6 * (i - 1) + 1) + 16 * bit(24 * m + 6 * (i - 1) + 2)
                      + 8 * bit(24 * m + 6 * (i - 1) + 3) + 4 * bit(24 * m + 6 * (i - 1) + 4)
                      + 2 * bit(24 * m + 6 * (i - 1) + 5) + bit(24 * m + 6 * (i - 1) + 6)
  <2>1. 6 * ((4 * m + i) - 1) = 24 * m + 6 * (i - 1)
    OBVIOUS
  <2> HIDE DEF bits
  <2> QED
    BY <1>1, <2>1, Zenon DEF RefChar
<1> HIDE DEF bits, a, b, c, bit
<1>7. RefChar(bits, 4 * m + 1) = Digit1(a)
  <2>1. 6 * (1 - 1) = 0 /\ ~(24 * m >= 8 * Len(s))
    BY <1>1
  <2>2. RefChar(bits, 4 * m + 1)
          = 32 * bit(24 * m + 1) + 16 * bit(24 * m + 2) + 8 * bit(24 * m + 3)
              + 4 * bit(24 * m + 4) + 2 * bit(24 * m + 5) + bit(24 * m + 6)
    BY <1>6, <2>1
  <2>3. Digit1(a) =
              32 * ((a \div 128) % 2) + 16 * ((a \div 64) % 2) + 8 * ((a \div 32) % 2)
                + 4 * ((a \div 16) % 2) + 2 * ((a \div 8) % 2) + ((a \div 4) % 2)
    BY <1>2, DigitsOfBits
  <2> QED
    BY <1>3, <2>2, <2>3
<1>8. RefChar(bits, 4 * m + 2) = Digit2(a, b)
  <2>1. ~(24 * m + 6 >= 8 * Len(s))
    BY <1>1
  <2>2. RefChar(bits, 4 * m + 2)
          = 32 * bit(24 * m + 7) + 16 * bit(24 * m + 8) + 8 * bit(24 * m + 9)
              + 4 * bit(24 * m + 10) + 2 * bit(24 * m + 11) + bit(24 * m + 12)
    BY <1>6, <2>1
  <2>3. Digit2(a, b) =
              32 * ((a \div 2) % 2) + 16 * (a % 2) + 8 * ((b \div 128) % 2)
                + 4 * ((b \div 64) % 2) + 2 * ((b \div 32) % 2) + ((b \div 16) % 2)
    BY <1>2, DigitsOfBits
  <2> QED
    BY <1>3, <1>4, <2>2, <2>3
<1>9. RefChar(bits, 4 * m + 3) = IF 3 * m + 2 <= Len(s) THEN Digit3(b, c) ELSE Pad
  <2>1. 24 * m + 12 >= 8 * Len(s) <=> ~(3 * m + 2 <= Len(s))
    BY <1>1
  <2>2. RefChar(bits, 4 * m + 3)
          = IF 24 * m + 12 >= 8 * Len(s) THEN Pad
            ELSE 32 * bit(24 * m + 13) + 16 * bit(24 * m + 14) + 8 * bit(24 * m + 15)
                   + 4 * bit(24 * m + 16) + 2 * bit(24 * m + 17) + bit(24 * m + 18)
    BY <1>6
  <2>3. Digit3(b, c) =
              32 * ((b \div 8) % 2) + 16 * ((b \div 4) % 2) + 8 * ((b \div 2) % 2)
                + 4 * (b % 2) + 2 * ((c \div 128) % 2) + ((c \div 64) % 2)
    BY <1>2, DigitsOfBits
  <2> QED
    BY <1>4, <1>5, <2>1, <2>2, <2>3
<1>10. RefChar(bits, 4 * m + 4) = IF 3 * m + 3 <= Len(s) THEN Digit4(c) ELSE Pad
  <2>1. 24 * m + 18 >= 8 * Len(s) <=> ~(3 * m + 3 <= Len(s))
    BY <1>1
  <2>2. RefChar(bits, 4 * m + 4)
          = IF 24 * m + 18 >= 8 * Len(s) THEN Pad
            ELSE 32 * bit(24 * m + 19) + 16 * bit(24 * m + 20) + 8 * bit(24 * m + 21)
                   + 4 * bit(24 * m + 22) + 2 * bit(24 * m + 23) + bit(24 * m + 24)
    BY <1>6
  <2>3. Digit4(c) =
              32 * ((c \div 32) % 2) + 16 * ((c \div 16) % 2) + 8 * ((c \div 8) % 2)
                + 4 * ((c \div 4) % 2) + 2 * ((c \div 2) % 2) + (c % 2)
    BY <1>2, DigitsOfBits
  <2> QED
    BY <1>5, <2>1, <2>2, <2>3
<1> QED
  BY <1>7, <1>8, <1>9, <1>10 DEF bits, a, b, c

(* A text of the encoder's blocks is the reference's.                      *)
LEMMA TextIsReference ==
  ASSUME TypeOK, EncodedBlocks(Total)
  PROVE  text = RefText(src)
<1>1. /\ src \in Seq(Byte) /\ Len(src) \in Nat /\ text \in Seq(Char)
      /\ Total \in Nat /\ Len(text) = 4 * Total
  BY DEF TypeOK, EncodedBlocks, Total
<1>2. ASSUME NEW k \in 1..4 * Total
      PROVE  text[k] = RefChar(Bits(src, 8), k)
  <2> DEFINE m == (k - 1) \div 4
  <2>1. /\ m \in Nat /\ m < Total
        /\ k = 4 * m + 1 \/ k = 4 * m + 2 \/ k = 4 * m + 3 \/ k = 4 * m + 4
    BY <1>1
  <2> HIDE DEF m
  <2>2. 3 * m + 1 <= Len(src)
    BY <1>1, <2>1 DEF Total
  <2>3. TextBlock(m)
    BY <1>1, <2>1 DEF EncodedBlocks
  <2> QED
    BY <1>1, <2>1, <2>2, <2>3, RefChars, Zenon DEF TextBlock
<1>3. RefText(src) = [k \in 1..4 * Total |-> RefChar(Bits(src, 8), k)]
  BY DEF RefText, Total
<1>4. text = [k \in 1..4 * Total |-> text[k]]
  BY <1>1
<1> QED
  BY <1>2, <1>3, <1>4

(* The six bits that digit m + 1 contributes.                              *)
LEMMA BitsOfDigit ==
  ASSUME NEW s \in Seq(Digit), NEW m \in Nat, m + 1 <= Len(s)
  PROVE  LET bits == Bits(s, 6)
             x    == s[m + 1]
         IN  /\ x \in Digit
             /\ bits[6 * m + 1] = (x \div 32) % 2
             /\ bits[6 * m + 2] = (x \div 16) % 2
             /\ bits[6 * m + 3] = (x \div 8) % 2
             /\ bits[6 * m + 4] = (x \div 4) % 2
             /\ bits[6 * m + 5] = (x \div 2) % 2
             /\ bits[6 * m + 6] = x % 2
<1> DEFINE bits == Bits(s, 6)
           x == s[m + 1]
<1>1. /\ Len(bits) = 6 * Len(s) /\ Len(s) \in Nat
      /\ \A n \in 1..6 * Len(s) :
           bits[n] = (s[((n - 1) \div 6) + 1] \div Weight[6 - ((n - 1) % 6)]) % 2
  BY BitsTyped
<1> HIDE DEF bits
<1>2. ASSUME NEW j \in 1..6
      PROVE  bits[6 * m + j] = (x \div Weight[7 - j]) % 2
  <2>1. 6 * m + j \in 1..6 * Len(s)
    BY <1>1
  <2>2. ((6 * m + j) - 1) \div 6 = m /\ ((6 * m + j) - 1) % 6 = j - 1
    OBVIOUS
  <2>3. bits[6 * m + j] = (s[m + 1] \div Weight[6 - (j - 1)]) % 2
    BY <1>1, <2>1, <2>2
  <2>4. 6 - (j - 1) = 7 - j
    OBVIOUS
  <2> QED
    BY <2>3, <2>4
<1>3. x \in Digit /\ x \div 1 = x
  <2>1. m + 1 \in 1..Len(s)
    BY <1>1
  <2>2. x \in Digit
    BY <2>1
  <2>3. \A y \in Digit : y \div 1 = y
    BY DEF Digit
  <2> QED
    BY <2>2, <2>3
<1> HIDE DEF x
<1> QED
  BY <1>2, <1>3 DEF Weight, bits, x

(* The low bits of a digit, and what a byte keeps of a shifted digit.      *)
LEMMA DigitRemainders ==
  ASSUME NEW x \in Digit
  PROVE  /\ x \in Nat
         /\ x % 4 = x - 4 * (x \div 4) /\ x % 16 = x - 16 * (x \div 16)
         /\ x \div 32 = (x \div 32) % 2
         /\ (x * 4) % 256 = 4 * x
         /\ (x * 16) % 256 = 16 * (x % 16)
         /\ (x * 64) % 256 = 64 * (x % 4)
         /\ x % 2 \in 0..1
         /\ \A w \in {2, 4, 8, 16, 32} :
              x \div w \in Nat /\ (x \div w) % 2 \in 0..1
<1>1. x \in 0..63
  BY DEF Digit
<1>2. x % 4 = x - 4 * (x \div 4) /\ x % 16 = x - 16 * (x \div 16)
  BY <1>1
<1>3. x \div 32 = (x \div 32) % 2
  BY <1>1
<1>4. (x * 4) % 256 = 4 * x
  BY <1>1
<1>5. (x * 16) % 256 = 16 * (x % 16)
  BY <1>1
<1>6. (x * 64) % 256 = 64 * (x % 4)
  BY <1>1
<1>7. x \in Nat /\ \A w \in {2, 4, 8, 16, 32} :
        x \div w \in Nat /\ (x \div w) % 2 \in 0..1
  BY <1>1
<1>8. x % 2 \in 0..1
  BY <1>1
<1> QED
  BY <1>2, <1>3, <1>4, <1>5, <1>6, <1>7, <1>8

(* The decoder's shifts and masks, bit by bit.                             *)
LEMMA BytesOfBits ==
  ASSUME NEW p \in Digit, NEW q \in Digit, NEW r \in Digit, NEW s \in Digit
  PROVE  /\ Byte1(p, q) =
              128 * ((p \div 32) % 2) + 64 * ((p \div 16) % 2) + 32 * ((p \div 8) % 2)
                + 16 * ((p \div 4) % 2) + 8 * ((p \div 2) % 2) + 4 * (p % 2)
                + 2 * ((q \div 32) % 2) + ((q \div 16) % 2)
         /\ Byte2(q, r) =
              128 * ((q \div 8) % 2) + 64 * ((q \div 4) % 2) + 32 * ((q \div 2) % 2)
                + 16 * (q % 2) + 8 * ((r \div 32) % 2) + 4 * ((r \div 16) % 2)
                + 2 * ((r \div 8) % 2) + ((r \div 4) % 2)
         /\ Byte3(r, s) =
              128 * ((r \div 2) % 2) + 64 * (r % 2) + 32 * ((s \div 32) % 2)
                + 16 * ((s \div 16) % 2) + 8 * ((s \div 8) % 2) + 4 * ((s \div 4) % 2)
                + 2 * ((s \div 2) % 2) + (s % 2)
<1>1. ASSUME NEW x \in Digit
      PROVE  /\ x = 32 * ((x \div 32) % 2) + 16 * ((x \div 16) % 2) + 8 * ((x \div 8) % 2)
                      + 4 * ((x \div 4) % 2) + 2 * ((x \div 2) % 2) + (x % 2)
             /\ x \div 4 = 8 * ((x \div 32) % 2) + 4 * ((x \div 16) % 2)
                             + 2 * ((x \div 8) % 2) + ((x \div 4) % 2)
             /\ x \div 16 = 2 * ((x \div 32) % 2) + ((x \div 16) % 2)
             /\ x % 4 = 2 * ((x \div 2) % 2) + (x % 2)
             /\ x % 16 = 8 * ((x \div 8) % 2) + 4 * ((x \div 4) % 2)
                           + 2 * ((x \div 2) % 2) + (x % 2)
  <2>1. x \in Nat
    BY DigitRemainders
  <2>2. /\ x = 2 * (x \div 2) + (x % 2)
        /\ x \div 2 = 2 * (x \div 4) + ((x \div 2) % 2)
        /\ x \div 4 = 2 * (x \div 8) + ((x \div 4) % 2)
        /\ x \div 8 = 2 * (x \div 16) + ((x \div 8) % 2)
        /\ x \div 16 = 2 * (x \div 32) + ((x \div 16) % 2)
    BY <2>1, Halving
  <2> QED
    BY <2>1, <2>2, DigitRemainders
<1>2. /\ Byte1(p, q) = 4 * p + (q \div 16)
      /\ Byte2(q, r) = 16 * (q % 16) + (r \div 4)
      /\ Byte3(r, s) = 64 * (r % 4) + s
  BY DigitRemainders DEF Byte1, Byte2, Byte3
<1>3. /\ \A w \in {2, 4, 8, 16, 32} : /\ (p \div w) % 2 \in 0..1 /\ (q \div w) % 2 \in 0..1
                                      /\ (r \div w) % 2 \in 0..1 /\ (s \div w) % 2 \in 0..1
      /\ p % 2 \in 0..1 /\ q % 2 \in 0..1 /\ r % 2 \in 0..1 /\ s % 2 \in 0..1
  BY DigitRemainders
<1>4. Byte1(p, q) =
        128 * ((p \div 32) % 2) + 64 * ((p \div 16) % 2) + 32 * ((p \div 8) % 2)
          + 16 * ((p \div 4) % 2) + 8 * ((p \div 2) % 2) + 4 * (p % 2)
          + 2 * ((q \div 32) % 2) + ((q \div 16) % 2)
  BY <1>1, <1>2, <1>3
<1>5. Byte2(q, r) =
        128 * ((q \div 8) % 2) + 64 * ((q \div 4) % 2) + 32 * ((q \div 2) % 2)
          + 16 * (q % 2) + 8 * ((r \div 32) % 2) + 4 * ((r \div 16) % 2)
          + 2 * ((r \div 8) % 2) + ((r \div 4) % 2)
  BY <1>1, <1>2, <1>3
<1>6. Byte3(r, s) =
        128 * ((r \div 2) % 2) + 64 * (r % 2) + 32 * ((s \div 32) % 2)
          + 16 * ((s \div 16) % 2) + 8 * ((s \div 8) % 2) + 4 * ((s \div 4) % 2)
          + 2 * ((s \div 2) % 2) + (s % 2)
  BY <1>1, <1>2, <1>3
<1> QED
  BY <1>4, <1>5, <1>6

(* In a well-formed text the pads are its last zero to two characters.     *)
LEMMA PadsWhere ==
  ASSUME NEW t \in Seq(Char), WellFormed(t)
  PROVE  /\ Len(t) \in Nat /\ Len(t) % 4 = 0
         /\ Pads(t) \in 0..2
         /\ Pads(t) <= Len(t)
         /\ \A k \in 1..Len(t) :
              /\ t[k] # Invalid
              /\ t[k] = Pad <=> k > Len(t) - Pads(t)
<1>1. Len(t) \in Nat /\ Len(t) % 4 = 0
  BY DEF WellFormed
<1>2. CASE t = <<>>
  <2>1. Len(t) = 0 /\ Pads(t) = 0
    BY <1>2 DEF Pads
  <2> QED
    BY <2>1
<1>3. CASE t # <<>>
  <2>1. Len(t) >= 4
    <3>1. Len(t) # 0
      BY <1>3
    <3> QED
      BY <1>1, <3>1
  <2>2. Len(t) \in 1..Len(t) /\ Len(t) - 1 \in 1..Len(t)
    BY <1>1, <2>1
  <2>3. /\ Pads(t) = 0 => t[Len(t)] # Pad
        /\ Pads(t) = 1 => t[Len(t)] = Pad
        /\ Pads(t) = 2 => t[Len(t)] = Pad /\ t[Len(t) - 1] = Pad
        /\ Pads(t) \in {0, 1, 2}
    BY <1>3, <2>1 DEF Pads
  <2>4. ASSUME NEW k \in 1..Len(t)
        PROVE  /\ t[k] # Invalid
               /\ t[k] = Pad <=> k > Len(t) - Pads(t)
    <3>1. t[k] # Invalid /\ (t[k] = Pad => k > Len(t) - Pads(t))
      BY DEF WellFormed
    <3>2. ASSUME k > Len(t) - Pads(t) PROVE t[k] = Pad
      <4>1. CASE Pads(t) = 0
        BY <1>1, <3>2, <4>1
      <4>2. CASE Pads(t) = 1
        <5>1. k = Len(t)
          BY <1>1, <3>2, <4>2
        <5> QED
          BY <2>3, <4>2, <5>1
      <4>3. CASE Pads(t) = 2
        <5>1. k = Len(t) \/ k = Len(t) - 1
          BY <1>1, <3>2, <4>3
        <5> QED
          BY <2>3, <4>3, <5>1
      <4> QED
        BY <2>3, <4>1, <4>2, <4>3
    <3> QED
      BY <3>1, <3>2
  <2>5. Pads(t) \in 0..2 /\ Pads(t) <= Len(t)
    BY <1>1, <2>1, <2>3
  <2> QED
    BY <1>1, <2>4, <2>5
<1> QED
  BY <1>2, <1>3

(* The bytes that the characters of block m stand for.                     *)
FirstOf(t, m)  == Byte1(Value(t[4 * m + 1]), Value(t[4 * m + 2]))
SecondOf(t, m) == Byte2(Value(t[4 * m + 2]), Value(t[4 * m + 3]))
ThirdOf(t, m)  == Byte3(Value(t[4 * m + 3]), Value(t[4 * m + 4]))

(* The rest of a well-formed text are digits, which stand for themselves.  *)
LEMMA DigitsOfText ==
  ASSUME NEW t \in Seq(Char), WellFormed(t)
  PROVE  LET digits == SubSeq(t, 1, Len(t) - Pads(t))
         IN  /\ digits \in Seq(Digit)
             /\ Len(digits) = Len(t) - Pads(t)
             /\ \A k \in 1..Len(t) - Pads(t) : digits[k] = t[k] /\ Value(t[k]) = t[k]
<1> DEFINE l == Len(t) - Pads(t)
           digits == SubSeq(t, 1, l)
<1>1. Len(t) \in Nat /\ l \in Nat /\ l <= Len(t)
  BY PadsWhere
<1>2. ASSUME NEW k \in 1..l
      PROVE  t[k] \in Digit /\ Value(t[k]) = t[k]
  <2>1. k \in 1..Len(t) /\ ~(k > l)
    BY <1>1
  <2>2. t[k] \in Char /\ t[k] # Pad /\ t[k] # Invalid
    BY <2>1, PadsWhere
  <2>3. t[k] \in Digit
    BY <2>2 DEF Char
  <2> QED
    BY <2>3, DigitValue
<1> HIDE DEF l
<1>3. Len(digits) = l /\ \A k \in 1..l : digits[k] = t[k]
  BY <1>1
<1>4. digits = [k \in 1..l |-> t[k]]
  BY <1>1
<1>5. digits \in Seq(Digit)
  BY <1>1, <1>2, <1>4
<1> QED
  BY <1>2, <1>3, <1>5 DEF l

(* The three reference bytes of block m, as far as the padding leaves them.*)
LEMMA RefBytes ==
  ASSUME NEW t \in Seq(Char), WellFormed(t), NEW m \in Nat
  PROVE  LET bits   == Bits(SubSeq(t, 1, Len(t) - Pads(t)), 6)
             length == 3 * (Len(t) \div 4) - Pads(t)
         IN  /\ 3 * m + 1 <= length => RefByte(bits, 3 * m + 1) = FirstOf(t, m)
             /\ 3 * m + 2 <= length => RefByte(bits, 3 * m + 2) = SecondOf(t, m)
             /\ 3 * m + 3 <= length => RefByte(bits, 3 * m + 3) = ThirdOf(t, m)
<1> DEFINE digits == SubSeq(t, 1, Len(t) - Pads(t))
           bits == Bits(digits, 6)
           length == 3 * (Len(t) \div 4) - Pads(t)
           bit(n) == bits[n]
           p == t[4 * m + 1]
           q == t[4 * m + 2]
           r == t[4 * m + 3]
           s == t[4 * m + 4]
<1>1. /\ digits \in Seq(Digit) /\ Len(digits) = Len(t) - Pads(t)
      /\ \A k \in 1..Len(t) - Pads(t) : digits[k] = t[k] /\ Value(t[k]) = t[k]
  BY DigitsOfText
<1>2. /\ Len(t) \in Nat /\ Len(t) = 4 * (Len(t) \div 4) /\ Pads(t) \in 0..2
  <2>1. Len(t) \in Nat /\ Len(t) % 4 = 0 /\ Pads(t) \in 0..2
    BY PadsWhere
  <2> QED
    BY <2>1
<1> HIDE DEF digits
<1>3. ASSUME NEW j \in Nat, j + 1 <= Len(t) - Pads(t)
      PROVE  LET x == t[j + 1]
             IN  /\ x \in Digit /\ Value(x) = x
                 /\ bits[6 * j + 1] = (x \div 32) % 2
                 /\ bits[6 * j + 2] = (x \div 16) % 2
                 /\ bits[6 * j + 3] = (x \div 8) % 2
                 /\ bits[6 * j + 4] = (x \div 4) % 2
                 /\ bits[6 * j + 5] = (x \div 2) % 2
                 /\ bits[6 * j + 6] = x % 2
  <2>1. j + 1 \in 1..Len(t) - Pads(t)
    BY <1>2, <1>3
  <2>2. digits[j + 1] = t[j + 1] /\ Value(t[j + 1]) = t[j + 1]
    BY <1>1, <2>1
  <2>3. digits \in Seq(Digit) /\ j + 1 <= Len(digits)
    BY <1>1, <1>3
  <2>4. LET x == digits[j + 1]
        IN  /\ x \in Digit
            /\ bits[6 * j + 1] = (x \div 32) % 2
            /\ bits[6 * j + 2] = (x \div 16) % 2
            /\ bits[6 * j + 3] = (x \div 8) % 2
            /\ bits[6 * j + 4] = (x \div 4) % 2
            /\ bits[6 * j + 5] = (x \div 2) % 2
            /\ bits[6 * j + 6] = x % 2
    BY <2>3, BitsOfDigit
  <2> HIDE DEF bits
  <2> QED
    BY <2>2, <2>4
<1>4. ASSUME 4 * m + 1 <= Len(t) - Pads(t)
      PROVE  /\ p \in Digit /\ Value(p) = p
             /\ bit(24 * m + 1) = (p \div 32) % 2 /\ bit(24 * m + 2) = (p \div 16) % 2
             /\ bit(24 * m + 3) = (p \div 8) % 2  /\ bit(24 * m + 4) = (p \div 4) % 2
             /\ bit(24 * m + 5) = (p \div 2) % 2  /\ bit(24 * m + 6) = p % 2
  <2>1. 4 * m \in Nat /\ 6 * (4 * m) = 24 * m
    OBVIOUS
  <2> QED
    BY <1>3, <1>4, <2>1
<1>5. ASSUME 4 * m + 2 <= Len(t) - Pads(t)
      PROVE  /\ q \in Digit /\ Value(q) = q
             /\ bit(24 * m + 7) = (q \div 32) % 2 /\ bit(24 * m + 8) = (q \div 16) % 2
             /\ bit(24 * m + 9) = (q \div 8) % 2  /\ bit(24 * m + 10) = (q \div 4) % 2
             /\ bit(24 * m + 11) = (q \div 2) % 2 /\ bit(24 * m + 12) = q % 2
  <2> DEFINE j == 4 * m + 1
  <2>1. /\ j \in Nat /\ j + 1 = 4 * m + 2 /\ j + 1 <= Len(t) - Pads(t)
        /\ \A i \in 1..6 : 6 * j + i = 24 * m + (6 + i)
    BY <1>5
  <2> HIDE DEF j
  <2>2. /\ q \in Digit /\ Value(q) = q
        /\ bit(6 * j + 1) = (q \div 32) % 2 /\ bit(6 * j + 2) = (q \div 16) % 2
        /\ bit(6 * j + 3) = (q \div 8) % 2  /\ bit(6 * j + 4) = (q \div 4) % 2
        /\ bit(6 * j + 5) = (q \div 2) % 2  /\ bit(6 * j + 6) = q % 2
    BY <1>3, <2>1
  <2> HIDE DEF bit, q
  <2> QED
    BY <2>1, <2>2
<1>6. ASSUME 4 * m + 3 <= Len(t) - Pads(t)
      PROVE  /\ r \in Digit /\ Value(r) = r
             /\ bit(24 * m + 13) = (r \div 32) % 2 /\ bit(24 * m + 14) = (r \div 16) % 2
             /\ bit(24 * m + 15) = (r \div 8) % 2  /\ bit(24 * m + 16) = (r \div 4) % 2
             /\ bit(24 * m + 17) = (r \div 2) % 2  /\ bit(24 * m + 18) = r % 2
  <2> DEFINE j == 4 * m + 2
  <2>1. /\ j \in Nat /\ j + 1 = 4 * m + 3 /\ j + 1 <= Len(t) - Pads(t)
        /\ \A i \in 1..6 : 6 * j + i = 24 * m + (12 + i)
    BY <1>6
  <2> HIDE DEF j
  <2>2. /\ r \in Digit /\ Value(r) = r
        /\ bit(6 * j + 1) = (r \div 32) % 2 /\ bit(6 * j + 2) = (r \div 16) % 2
        /\ bit(6 * j + 3) = (r \div 8) % 2  /\ bit(6 * j + 4) = (r \div 4) % 2
        /\ bit(6 * j + 5) = (r \div 2) % 2  /\ bit(6 * j + 6) = r % 2
    BY <1>3, <2>1
  <2> HIDE DEF bit, r
  <2> QED
    BY <2>1, <2>2
<1>7. ASSUME 4 * m + 4 <= Len(t) - Pads(t)
      PROVE  /\ s \in Digit /\ Value(s) = s
             /\ bit(24 * m + 19) = (s \div 32) % 2 /\ bit(24 * m + 20) = (s \div 16) % 2
             /\ bit(24 * m + 21) = (s \div 8) % 2  /\ bit(24 * m + 22) = (s \div 4) % 2
             /\ bit(24 * m + 23) = (s \div 2) % 2  /\ bit(24 * m + 24) = s % 2
  <2> DEFINE j == 4 * m + 3
  <2>1. /\ j \in Nat /\ j + 1 = 4 * m + 4 /\ j + 1 <= Len(t) - Pads(t)
        /\ \A i \in 1..6 : 6 * j + i = 24 * m + (18 + i)
    BY <1>7
  <2> HIDE DEF j
  <2>2. /\ s \in Digit /\ Value(s) = s
        /\ bit(6 * j + 1) = (s \div 32) % 2 /\ bit(6 * j + 2) = (s \div 16) % 2
        /\ bit(6 * j + 3) = (s \div 8) % 2  /\ bit(6 * j + 4) = (s \div 4) % 2
        /\ bit(6 * j + 5) = (s \div 2) % 2  /\ bit(6 * j + 6) = s % 2
    BY <1>3, <2>1
  <2> HIDE DEF bit, s
  <2> QED
    BY <2>1, <2>2
<1>8. ASSUME NEW i \in 1..3
      PROVE  RefByte(bits, 3 * m + i) =
               128 * bit(24 * m + 8 * (i - 1) + 1) + 64 * bit(24 * m + 8 * (i - 1) + 2)
                 + 32 * bit(24 * m + 8 * (i - 1) + 3) + 16 * bit(24 * m + 8 * (i - 1) + 4)
                 + 8 * bit(24 * m + 8 * (i - 1) + 5) + 4 * bit(24 * m + 8 * (i - 1) + 6)
                 + 2 * bit(24 * m + 8 * (i - 1) + 7) + bit(24 * m + 8 * (i - 1) + 8)
  <2>1. 8 * ((3 * m + i) - 1) = 24 * m + 8 * (i - 1)
    OBVIOUS
  <2> HIDE DEF bits
  <2> QED
    BY <2>1, Zenon DEF RefByte
<1>9. /\ FirstOf(t, m) = Byte1(Value(p), Value(q))
      /\ SecondOf(t, m) = Byte2(Value(q), Value(r))
      /\ ThirdOf(t, m) = Byte3(Value(r), Value(s))
  BY DEF FirstOf, SecondOf, ThirdOf
<1> HIDE DEF bits, bit, p, q, r, s
<1>10. ASSUME 3 * m + 1 <= length
       PROVE  RefByte(bits, 3 * m + 1) = FirstOf(t, m)
  <2>1. 4 * m + 1 <= Len(t) - Pads(t) /\ 4 * m + 2 <= Len(t) - Pads(t)
    BY <1>2, <1>10
  <2>2. RefByte(bits, 3 * m + 1)
          = 128 * bit(24 * m + 1) + 64 * bit(24 * m + 2) + 32 * bit(24 * m + 3)
              + 16 * bit(24 * m + 4) + 8 * bit(24 * m + 5) + 4 * bit(24 * m + 6)
              + 2 * bit(24 * m + 7) + bit(24 * m + 8)
    BY <1>8
  <2>3. Byte1(p, q) =
          128 * ((p \div 32) % 2) + 64 * ((p \div 16) % 2) + 32 * ((p \div 8) % 2)
            + 16 * ((p \div 4) % 2) + 8 * ((p \div 2) % 2) + 4 * (p % 2)
            + 2 * ((q \div 32) % 2) + ((q \div 16) % 2)
    BY <1>4, <1>5, <2>1, BytesOfBits, SMTT(40)
  <2> QED
    BY <1>4, <1>5, <1>9, <2>1, <2>2, <2>3
<1>11. ASSUME 3 * m + 2 <= length
       PROVE  RefByte(bits, 3 * m + 2) = SecondOf(t, m)
  <2>1. 4 * m + 2 <= Len(t) - Pads(t) /\ 4 * m + 3 <= Len(t) - Pads(t)
    BY <1>2, <1>11
  <2>2. RefByte(bits, 3 * m + 2)
          = 128 * bit(24 * m + 9) + 64 * bit(24 * m + 10) + 32 * bit(24 * m + 11)
              + 16 * bit(24 * m + 12) + 8 * bit(24 * m + 13) + 4 * bit(24 * m + 14)
              + 2 * bit(24 * m + 15) + bit(24 * m + 16)
    BY <1>8
  <2>3. Byte2(q, r) =
          128 * ((q \div 8) % 2) + 64 * ((q \div 4) % 2) + 32 * ((q \div 2) % 2)
            + 16 * (q % 2) + 8 * ((r \div 32) % 2) + 4 * ((r \div 16) % 2)
            + 2 * ((r \div 8) % 2) + ((r \div 4) % 2)
    BY <1>5, <1>6, <2>1, BytesOfBits, SMTT(40)
  <2> QED
    BY <1>5, <1>6, <1>9, <2>1, <2>2, <2>3
<1>12. ASSUME 3 * m + 3 <= length
       PROVE  RefByte(bits, 3 * m + 3) = ThirdOf(t, m)
  <2>1. 4 * m + 3 <= Len(t) - Pads(t) /\ 4 * m + 4 <= Len(t) - Pads(t)
    BY <1>2, <1>12
  <2>2. RefByte(bits, 3 * m + 3)
          = 128 * bit(24 * m + 17) + 64 * bit(24 * m + 18) + 32 * bit(24 * m + 19)
              + 16 * bit(24 * m + 20) + 8 * bit(24 * m + 21) + 4 * bit(24 * m + 22)
              + 2 * bit(24 * m + 23) + bit(24 * m + 24)
    BY <1>8
  <2>3. Byte3(r, s) =
          128 * ((r \div 2) % 2) + 64 * (r % 2) + 32 * ((s \div 32) % 2)
            + 16 * ((s \div 16) % 2) + 8 * ((s \div 8) % 2) + 4 * ((s \div 4) % 2)
            + 2 * ((s \div 2) % 2) + (s % 2)
    BY <1>6, <1>7, <2>1, BytesOfBits, SMTT(40)
  <2> QED
    BY <1>6, <1>7, <1>9, <2>1, <2>2, <2>3
<1> QED
  BY <1>10, <1>11, <1>12 DEF bits, digits

(* Bytes that follow the text block by block are the reference's.          *)
LEMMA BytesAreReference ==
  ASSUME NEW t \in Seq(Char), WellFormed(t),
         NEW d \in Seq(Byte), Len(d) = 3 * (Len(t) \div 4) - Pads(t),
         \A m \in Nat : /\ 3 * m + 1 <= Len(d) => d[3 * m + 1] = FirstOf(t, m)
                        /\ 3 * m + 2 <= Len(d) => d[3 * m + 2] = SecondOf(t, m)
                        /\ 3 * m + 3 <= Len(d) => d[3 * m + 3] = ThirdOf(t, m)
  PROVE  d = RefData(t)
<1> DEFINE bits == Bits(SubSeq(t, 1, Len(t) - Pads(t)), 6)
<1>1. Len(d) \in Nat
  OBVIOUS
<1>2. ASSUME NEW k \in 1..Len(d)
      PROVE  d[k] = RefByte(bits, k)
  <2> DEFINE m == (k - 1) \div 3
  <2>1. m \in Nat /\ (k = 3 * m + 1 \/ k = 3 * m + 2 \/ k = 3 * m + 3)
    BY <1>1
  <2>2. k <= Len(d)
    BY <1>1
  <2> HIDE DEF m
  <2> QED
    BY <2>1, <2>2, RefBytes, Zenon
<1>3. RefData(t) = [k \in 1..Len(d) |-> RefByte(bits, k)]
  BY DEF RefData
<1>4. d = [k \in 1..Len(d) |-> d[k]]
  OBVIOUS
<1> HIDE DEF bits
<1> QED
  BY <1>2, <1>3, <1>4

(***************************************************************************)
(* The decoder on any text.  The pads among the first n characters of a    *)
(* well-formed text are all at its end.                                    *)
(***************************************************************************)
PadsBefore(n) ==
  IF n > Len(text) - Pads(text) THEN n - (Len(text) - Pads(text)) ELSE 0

DecodedBlock(m) ==
  /\ decoded[3 * m + 1] = FirstOf(text, m)
  /\ decoded[3 * m + 2] = SecondOf(text, m)
  /\ decoded[3 * m + 3] = ThirdOf(text, m)

Follows ==
  pc = "decoding" =>
    /\ \A k \in 1..Len(block) : block[k] = Value(text[4 * blocks + k])
    /\ \A m \in 0..(blocks - 1) : DecodedBlock(m)
    /\ Len(block) = 0 => padCount = 0
    /\ WellFormed(text) => padCount = PadsBefore(SrcIndex)

RefInv == Follows /\ EncodesAsReference /\ DecodesAsReference

(* The block that the current character fills, in any text.                *)
LEMMA FilledByText ==
  ASSUME TypeOK, Follows, pc = "decoding", More, Next4th
  PROVE  /\ BlockBytes[1] = FirstOf(text, blocks)
         /\ BlockBytes[2] = SecondOf(text, blocks)
         /\ BlockBytes[3] = ThirdOf(text, blocks)
<1>1. Len(block) = 3 /\ blocks \in Nat
  BY DEF Next4th, TypeOK
<1>2. Current = text[4 * blocks + 4]
  BY <1>1 DEF Current, SrcIndex
<1>3. /\ block[1] = Value(text[4 * blocks + 1])
      /\ block[2] = Value(text[4 * blocks + 2])
      /\ block[3] = Value(text[4 * blocks + 3])
  BY <1>1 DEF Follows
<1> QED
  BY <1>2, <1>3 DEF BlockBytes, FirstOf, SecondOf, ThirdOf

(* The pads seen with the current character of a well-formed text.         *)
LEMMA PadsSeen ==
  ASSUME TypeOK, Follows, pc = "decoding", More, WellFormed(text)
  PROVE  /\ Current # Invalid
         /\ PadsNow = PadsBefore(SrcIndex + 1)
         /\ PadsNow \in 0..2
<1>1. SrcIndex \in Nat /\ Len(text) \in Nat /\ SrcIndex < Len(text)
  BY CurrentTyped DEF More, TypeOK
<1>2. SrcIndex + 1 \in 1..Len(text)
  BY <1>1
<1>3. /\ Pads(text) \in 0..2 /\ Current # Invalid
      /\ Current = Pad <=> SrcIndex + 1 > Len(text) - Pads(text)
  BY <1>2, PadsWhere DEF TypeOK, Current
<1>4. padCount = PadsBefore(SrcIndex)
  BY DEF Follows
<1>5. PadsNow = PadsBefore(SrcIndex + 1)
  <2>1. CASE Current = Pad
    <3>1. SrcIndex + 1 > Len(text) - Pads(text)
      BY <1>3, <2>1
    <3> QED
      BY <1>1, <1>3, <1>4, <2>1, <3>1 DEF PadsNow, PadsBefore
  <2>2. CASE Current # Pad
    <3>1. ~(SrcIndex + 1 > Len(text) - Pads(text))
      BY <1>3, <2>2
    <3> QED
      BY <1>1, <1>3, <1>4, <2>2, <3>1 DEF PadsNow, PadsBefore
  <2> QED
    BY <2>1, <2>2
<1> QED
  BY <1>1, <1>3, <1>5 DEF PadsBefore

----------------------------------------------------------------------------
LEMMA RefInit == Init => RefInv
<1> SUFFICES ASSUME Init PROVE RefInv
  OBVIOUS
<1>1. Follows /\ DecodesAsReference
  BY DEF Init, Follows, DecodesAsReference
<1>2. EncodesAsReference
  BY DEF Init, EncodesAsReference
<1> QED
  BY <1>1, <1>2 DEF RefInv

(* A step that ends encoding leaves the reference's text.                  *)
LEMMA EncodedIsReference == Inv => EncodesAsReference
<1> SUFFICES ASSUME Inv, origin = "data", pc = "encoded" PROVE text = RefText(src)
  BY DEF EncodesAsReference
<1> QED
  BY TextIsReference DEF Inv, EncodeInv

LEMMA RefEncode == Inv /\ RefInv /\ Encode => Follows' /\ DecodesAsReference'
<1> SUFFICES ASSUME Inv, RefInv, Encode PROVE Follows' /\ DecodesAsReference'
  OBVIOUS
<1>1. pc' # "decoding" /\ pc' # "decoded"
  BY DEF Encode, StartEncoding, EncodeBlock, EncodeLastTwo, EncodeLastOne, EncodeEnd
<1>2. pc' = "null" => Untouched'
  BY DEF Encode, StartEncoding, EncodeBlock, EncodeLastTwo, EncodeLastOne, EncodeEnd,
         Inv, EncodeInv, DecoderFresh, decoder, Untouched
<1> QED
  BY <1>1, <1>2 DEF Follows, DecodesAsReference

LEMMA RefStartDecoding ==
  Inv /\ RefInv /\ StartDecoding => Follows' /\ DecodesAsReference'
<1> SUFFICES ASSUME Inv, RefInv, StartDecoding PROVE Follows' /\ DecodesAsReference'
  OBVIOUS
<1>1. /\ block' = <<>> /\ padCount' = 0 /\ blocks' = 0 /\ reach' = 0 /\ text' = text
      /\ pc' \in {"decoding", "null"}
  BY DEF Inv, EncodeInv, StartDecoding, DecoderFresh, decoder
<1>2. WellFormed(text) => PadsBefore(0) = 0
  <2> SUFFICES ASSUME WellFormed(text) PROVE PadsBefore(0) = 0
    OBVIOUS
  <2>1. Len(text) \in Nat /\ Pads(text) \in 0..2 /\ Pads(text) <= Len(text)
    BY PadsWhere DEF Inv, TypeOK
  <2> QED
    BY <2>1 DEF PadsBefore
<1>3. SrcIndex' = 0
  BY <1>1 DEF SrcIndex
<1>4. Follows'
  BY <1>1, <1>2, <1>3 DEF Follows, PadsBefore
<1>5. DecodesAsReference'
  BY <1>1 DEF DecodesAsReference, Untouched
<1> QED
  BY <1>4, <1>5

LEMMA RefDecodeInvalid ==
  Inv /\ RefInv /\ DecodeInvalid => Follows' /\ DecodesAsReference'
<1> SUFFICES ASSUME Inv, RefInv, DecodeInvalid PROVE Follows' /\ DecodesAsReference'
  OBVIOUS
<1>1. ~WellFormed(text)
  BY PadsSeen DEF Inv, RefInv, DecodeInvalid
<1> QED
  BY <1>1 DEF DecodeInvalid, Follows, DecodesAsReference

LEMMA RefDecodeChar ==
  Inv /\ RefInv /\ DecodeChar => Follows' /\ DecodesAsReference'
<1> SUFFICES ASSUME Inv, RefInv, DecodeChar PROVE Follows' /\ DecodesAsReference'
  OBVIOUS
<1> USE DEF Inv, RefInv
<1>1. /\ blocks \in Nat /\ Len(block) \in 0..2 /\ block \in Seq(Digit)
      /\ More /\ pc = "decoding" /\ Current # Invalid
  BY CurrentTyped DEF DecodeChar, Next4th, TypeOK
<1>2. /\ blocks' = blocks /\ text' = text /\ decoded' = decoded /\ pc' = "decoding"
      /\ padCount' = PadsNow
  BY <1>1 DEF DecodeChar
<1>3. Value(Current) \in Digit
  BY <1>1, CurrentTyped, ValueIsDigit
<1>4. /\ Len(block') = Len(block) + 1
      /\ \A k \in 1..Len(block) : block'[k] = block[k]
      /\ block'[Len(block) + 1] = Value(Current)
  BY <1>1, <1>3 DEF DecodeChar
<1>5. Current = text[4 * blocks + (Len(block) + 1)]
  BY <1>1 DEF Current, SrcIndex
<1>6. ASSUME NEW k \in 1..Len(block')
      PROVE  block'[k] = Value(text[4 * blocks + k])
  <2>1. CASE k = Len(block) + 1
    BY <1>4, <1>5, <2>1
  <2>2. CASE k \in 1..Len(block)
    BY <1>1, <1>4, <2>2 DEF Follows
  <2> QED
    BY <1>1, <1>4, <2>1, <2>2
<1>7. WellFormed(text) => PadsNow = PadsBefore(SrcIndex + 1)
  BY <1>1, PadsSeen
<1>8. SrcIndex' = SrcIndex + 1
  BY <1>1, <1>2, <1>4 DEF SrcIndex
<1>9. \A m \in 0..(blocks - 1) : DecodedBlock(m)'
  BY <1>1, <1>2 DEF Follows, DecodedBlock
<1>10. Follows'
  <2>1. Len(block') # 0
    BY <1>1, <1>4
  <2> QED
    BY <1>2, <1>6, <1>7, <1>8, <1>9, <2>1 DEF Follows, PadsBefore
<1> QED
  BY <1>2, <1>10 DEF DecodesAsReference

LEMMA RefDecodeBlock ==
  Inv /\ RefInv /\ DecodeBlock => Follows' /\ DecodesAsReference'
<1> SUFFICES ASSUME Inv, RefInv, DecodeBlock PROVE Follows' /\ DecodesAsReference'
  OBVIOUS
<1> USE DEF Inv, RefInv
<1>1. /\ blocks \in Nat /\ Len(block) = 3 /\ decoded \in Seq(Byte) /\ Len(decoded) = 3 * blocks
      /\ More /\ Next4th /\ pc = "decoding" /\ Current # Invalid /\ PadsNow = 0
      /\ padCount \in Nat
  BY DEF DecodeBlock, Next4th, TypeOK, DecodeBounds
<1>2. /\ blocks' = blocks + 1 /\ block' = <<>> /\ text' = text /\ pc' = "decoding"
      /\ padCount' = padCount /\ padCount = 0
  BY <1>1 DEF DecodeBlock, PadsNow
<1>3. /\ BlockBytes = <<BlockBytes[1], BlockBytes[2], BlockBytes[3]>>
      /\ BlockBytes[1] \in Byte /\ BlockBytes[2] \in Byte /\ BlockBytes[3] \in Byte
  BY <1>1, BlockBytesTyped
<1>4. /\ \A k \in 1..3 * blocks : decoded'[k] = decoded[k]
      /\ decoded'[3 * blocks + 1] = BlockBytes[1]
      /\ decoded'[3 * blocks + 2] = BlockBytes[2]
      /\ decoded'[3 * blocks + 3] = BlockBytes[3]
  <2>1. decoded' = decoded \o <<BlockBytes[1], BlockBytes[2], BlockBytes[3]>>
    BY <1>3 DEF DecodeBlock
  <2>2. decoded \in Seq(Byte)
    BY <1>1
  <2>3. /\ \A k \in 1..Len(decoded) : decoded'[k] = decoded[k]
        /\ decoded'[Len(decoded) + 1] = BlockBytes[1]
        /\ decoded'[Len(decoded) + 2] = BlockBytes[2]
        /\ decoded'[Len(decoded) + 3] = BlockBytes[3]
    BY <1>3, <2>1, <2>2, ThreeMore
  <2> QED
    BY <1>1, <2>3
<1>5. ASSUME NEW m \in 0..blocks
      PROVE  DecodedBlock(m)'
  <2>1. CASE m = blocks
    BY <1>1, <1>2, <1>4, <2>1, FilledByText DEF DecodedBlock
  <2>2. CASE m < blocks
    <3>1. DecodedBlock(m)
      BY <1>1, <2>2 DEF Follows
    <3>2. 3 * m + 1 \in 1..3 * blocks /\ 3 * m + 2 \in 1..3 * blocks
          /\ 3 * m + 3 \in 1..3 * blocks
      BY <1>1, <2>2
    <3> QED
      BY <1>2, <1>4, <3>1, <3>2 DEF DecodedBlock
  <2> QED
    BY <1>1, <2>1, <2>2
<1>6. WellFormed(text) => PadsBefore(SrcIndex + 1) = 0
  BY <1>1, PadsSeen
<1>7. SrcIndex' = SrcIndex + 1 /\ Len(block') = 0
  BY <1>1, <1>2 DEF SrcIndex
<1>8. Follows'
  <2>1. \A m \in 0..(blocks' - 1) : DecodedBlock(m)'
    BY <1>1, <1>2, <1>5
  <2> QED
    BY <1>2, <1>6, <1>7, <2>1 DEF Follows, PadsBefore
<1> QED
  BY <1>2, <1>8 DEF DecodesAsReference

LEMMA RefDecodePadded ==
  Inv /\ RefInv /\ DecodePadded => Follows' /\ DecodesAsReference'
<1> SUFFICES ASSUME Inv, RefInv, DecodePadded PROVE Follows' /\ DecodesAsReference'
  OBVIOUS
<1> USE DEF Inv, RefInv
<1>1. /\ blocks \in Nat /\ Len(block) = 3 /\ decoded \in Seq(Byte) /\ Len(decoded) = 3 * blocks
      /\ More /\ Next4th /\ pc = "decoding" /\ Current # Invalid /\ PadsNow \in {1, 2}
      /\ pc' = "decoded" /\ text' = text /\ text \in Seq(Char)
  BY DEF DecodePadded, Next4th, TypeOK, DecodeBounds
<1>2. BlockBytes[1] \in Byte /\ BlockBytes[2] \in Byte /\ decoded \in Seq(Byte)
  BY <1>1, BlockBytesTyped
<1>3. /\ decoded' \in Seq(Byte)
      /\ Len(decoded') = 3 * blocks + (3 - PadsNow)
      /\ \A k \in 1..3 * blocks : decoded'[k] = decoded[k]
      /\ decoded'[3 * blocks + 1] = BlockBytes[1]
      /\ PadsNow = 1 => decoded'[3 * blocks + 2] = BlockBytes[2]
  <2>1. CASE PadsNow = 1
    <3>1. decoded' = decoded \o <<BlockBytes[1], BlockBytes[2]>>
      BY <2>1 DEF DecodePadded
    <3>2. /\ decoded' \in Seq(Byte) /\ Len(decoded') = Len(decoded) + 2
          /\ \A k \in 1..Len(decoded) : decoded'[k] = decoded[k]
          /\ decoded'[Len(decoded) + 1] = BlockBytes[1]
          /\ decoded'[Len(decoded) + 2] = BlockBytes[2]
      BY <1>2, <3>1, TwoMore
    <3> QED
      BY <1>1, <2>1, <3>2
  <2>2. CASE PadsNow = 2
    <3>1. decoded' = decoded \o <<BlockBytes[1]>>
      BY <2>2 DEF DecodePadded
    <3>2. /\ decoded' \in Seq(Byte) /\ Len(decoded') = Len(decoded) + 1
          /\ \A k \in 1..Len(decoded) : decoded'[k] = decoded[k]
          /\ decoded'[Len(decoded) + 1] = BlockBytes[1]
      BY <1>2, <3>1, OneMore
    <3> QED
      BY <1>1, <2>2, <3>2
  <2> QED
    BY <1>1, <2>1, <2>2
<1>4. ASSUME WellFormed(text)
      PROVE  decoded' = RefData(text)
  <2>1. /\ Len(text) \in Nat /\ Len(text) % 4 = 0 /\ Pads(text) \in 0..2
        /\ PadsNow = PadsBefore(SrcIndex + 1)
    BY <1>1, <1>4, PadsWhere, PadsSeen
  <2>2. SrcIndex = 4 * blocks + 3 /\ SrcIndex < Len(text)
    BY <1>1 DEF SrcIndex, More
  <2>3. Len(text) = 4 * blocks + 4 /\ PadsNow = Pads(text)
    <3>1. SrcIndex + 1 > Len(text) - Pads(text)
      BY <1>1, <2>1 DEF PadsBefore
    <3>2. Len(text) = 4 * blocks + 4
      BY <1>1, <2>1, <2>2, <3>1
    <3> QED
      BY <1>1, <2>1, <2>2, <3>1, <3>2 DEF PadsBefore
  <2>4. Len(text) \div 4 = blocks + 1
    BY <1>1, <2>3
  <2>5. Len(decoded') = 3 * (Len(text) \div 4) - Pads(text)
    BY <1>1, <1>3, <2>1, <2>3, <2>4
  <2>6. ASSUME NEW m \in Nat
        PROVE  /\ 3 * m + 1 <= Len(decoded') => decoded'[3 * m + 1] = FirstOf(text, m)
               /\ 3 * m + 2 <= Len(decoded') => decoded'[3 * m + 2] = SecondOf(text, m)
               /\ 3 * m + 3 <= Len(decoded') => decoded'[3 * m + 3] = ThirdOf(text, m)
    <3>1. CASE m < blocks
      <4>1. DecodedBlock(m)
        BY <1>1, <3>1 DEF Follows
      <4>2. 3 * m + 1 \in 1..3 * blocks /\ 3 * m + 2 \in 1..3 * blocks
            /\ 3 * m + 3 \in 1..3 * blocks
        BY <1>1, <3>1
      <4> QED
        BY <1>3, <4>1, <4>2 DEF DecodedBlock
    <3>2. CASE m = blocks
      <4>1. BlockBytes[1] = FirstOf(text, m) /\ BlockBytes[2] = SecondOf(text, m)
        BY <1>1, <3>2, FilledByText
      <4>2. /\ ~(3 * m + 3 <= Len(decoded'))
            /\ 3 * m + 2 <= Len(decoded') => PadsNow = 1
        BY <1>1, <1>3, <3>2
      <4> QED
        BY <1>3, <3>2, <4>1, <4>2
    <3>3. CASE m > blocks
      BY <1>1, <1>3, <3>3
    <3> QED
      BY <1>1, <3>1, <3>2, <3>3
  <2> HIDE DEF Inv, RefInv
  <2> QED
    BY <1>1, <1>3, <1>4, <2>5, <2>6, BytesAreReference
<1> QED
  BY <1>1, <1>4 DEF Follows, DecodesAsReference

LEMMA RefDecodeOverpadded ==
  Inv /\ RefInv /\ DecodeOverpadded => Follows' /\ DecodesAsReference'
<1> SUFFICES ASSUME Inv, RefInv, DecodeOverpadded PROVE Follows' /\ DecodesAsReference'
  OBVIOUS
<1>1. ASSUME WellFormed(text) PROVE FALSE
  <2>1. PadsNow \in 0..2 /\ PadsNow > 2
    BY <1>1, PadsSeen DEF Inv, RefInv, DecodeOverpadded
  <2> QED
    BY <2>1
<1> QED
  BY <1>1 DEF DecodeOverpadded, Follows, DecodesAsReference

LEMMA RefDecodeEnd ==
  Inv /\ RefInv /\ DecodeEnd => Follows' /\ DecodesAsReference'
<1> SUFFICES ASSUME Inv, RefInv, DecodeEnd PROVE Follows' /\ DecodesAsReference'
  OBVIOUS
<1> USE DEF Inv, RefInv
<1>1. /\ pc = "decoding" /\ ~More /\ pc' = "decoded" /\ text' = text /\ decoded' = decoded
      /\ blocks \in Nat /\ block \in Seq(Digit) /\ Len(block) <= 3
      /\ decoded \in Seq(Byte) /\ Len(decoded) = 3 * blocks /\ text \in Seq(Char)
  BY DEF DecodeEnd, decoder, TypeOK, DecodeBounds
<1>2. ASSUME WellFormed(text)
      PROVE  decoded = RefData(text)
  <2>1. Len(text) \in Nat /\ Len(text) % 4 = 0 /\ Pads(text) \in 0..2
    BY <1>1, <1>2, PadsWhere
  <2>2. 4 * blocks + Len(block) = Len(text) /\ Len(block) \in Nat
    <3>1. Len(block) \in Nat
      BY <1>1
    <3> QED
      BY <1>1, <2>1, <3>1 DEF More, SrcIndex, DecodeBounds
  <2>3. Len(block) = 0 /\ Len(text) = 4 * blocks
    <3>1. Len(block) \in 0..3
      <4>1. \A n \in Nat : n <= 3 => n \in 0..3
        OBVIOUS
      <4> QED
        BY <1>1, <2>2, <4>1
    <3>2. \A n \in 0..3 : (4 * blocks + n) % 4 = 0 => n = 0
      BY <1>1
    <3>3. Len(block) = 0
      BY <2>1, <2>2, <3>1, <3>2
    <3> QED
      BY <1>1, <2>2, <3>3
  <2>4. Pads(text) = 0
    <3>1. padCount = 0 /\ padCount = PadsBefore(SrcIndex)
      BY <1>1, <1>2, <2>3 DEF Follows
    <3>2. SrcIndex = Len(text)
      BY <1>1, <2>3 DEF SrcIndex
    <3> QED
      BY <2>1, <3>1, <3>2 DEF PadsBefore
  <2>5. Len(decoded) = 3 * (Len(text) \div 4) - Pads(text)
    BY <1>1, <2>3, <2>4
  <2>6. ASSUME NEW m \in Nat
        PROVE  /\ 3 * m + 1 <= Len(decoded) => decoded[3 * m + 1] = FirstOf(text, m)
               /\ 3 * m + 2 <= Len(decoded) => decoded[3 * m + 2] = SecondOf(text, m)
               /\ 3 * m + 3 <= Len(decoded) => decoded[3 * m + 3] = ThirdOf(text, m)
    <3>1. CASE m < blocks
      BY <1>1, <3>1 DEF Follows, DecodedBlock
    <3>2. CASE ~(m < blocks)
      BY <1>1, <3>2
    <3> QED
      BY <3>1, <3>2
  <2> HIDE DEF Inv, RefInv
  <2> QED
    BY <1>1, <1>2, <2>5, <2>6, BytesAreReference
<1> QED
  BY <1>1, <1>2 DEF Follows, DecodesAsReference

LEMMA RefUnchanged == RefInv /\ UNCHANGED vars => Follows' /\ DecodesAsReference'
BY DEF RefInv, vars, decoder, Follows, DecodesAsReference, DecodedBlock, PadsBefore,
       SrcIndex, Untouched

(***************************************************************************)
(* Texts and bytes agree with the reference, and the decoder follows any   *)
(* text block by block.                                                    *)
(***************************************************************************)
THEOREM ReferenceInvariant == Spec => []RefInv
<1>1. Inv /\ Inv' /\ RefInv /\ [Next]_vars => RefInv'
  <2> SUFFICES ASSUME Inv, Inv', RefInv, [Next]_vars PROVE RefInv'
    OBVIOUS
  <2>1. EncodesAsReference'
    BY EncodedIsReference, PTL
  <2>2. Follows' /\ DecodesAsReference'
    BY RefEncode, RefStartDecoding, RefDecodeInvalid, RefDecodeChar, RefDecodeBlock,
       RefDecodePadded, RefDecodeOverpadded, RefDecodeEnd, RefUnchanged
    DEF Next, Decode, Ended
  <2> QED
    BY <2>1, <2>2 DEF RefInv
<1> QED
  BY RefInit, <1>1, Base64Invariant, PTL DEF Spec

(* base64_encode() writes RFC 4648's text, for data of every length.       *)
THEOREM EncodesReference == Spec => []EncodesAsReference
<1>1. RefInv => EncodesAsReference
  BY DEF RefInv
<1> QED
  BY <1>1, ReferenceInvariant, PTL

(***************************************************************************)
(* base64_decode() returns RFC 4648's bytes for every well-formed text,    *)
(* and gives up on one only where malloc() fails.                          *)
(***************************************************************************)
THEOREM DecodesReference == Spec => []DecodesAsReference
<1>1. RefInv => DecodesAsReference
  BY DEF RefInv
<1> QED
  BY <1>1, ReferenceInvariant, PTL
============================================================================
