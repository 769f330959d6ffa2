------------------------------ MODULE MCBase64 ------------------------------
(***************************************************************************)
(* Base64 on data of up to five bytes, of none, one and two blocks with    *)
(* every remainder, and on texts of up to five characters, partial blocks  *)
(* and misplaced padding included, and of two blocks.                      *)
(***************************************************************************)
EXTENDS Base64

SomeBytes == {0, 63, 155, 255}

MCDatas == UNION {[1..l -> SomeBytes] : l \in 0..5}

MCTexts ==
  UNION {[1..l -> {0, 27, 63, Pad, Invalid}] : l \in 0..5}
    \union [1..8 -> {45, Pad}]
============================================================================
