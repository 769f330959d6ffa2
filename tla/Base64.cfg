CONSTANTS
  Datas <- MCDatas
  Texts <- MCTexts
SPECIFICATION Spec
INVARIANTS
  TypeOK
  WithinBuffers
  DecodeInvertsEncode
  EncodesAsReference
  DecodesAsReference
