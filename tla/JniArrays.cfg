\* One array, used again and again.
CONSTANTS
  Bytes <- TwoBytes
  Units <- ThreeUnits
  Size = 5
  MaxText = 3
  FieldLen = 2
  NameLen = 4
SPECIFICATION Spec
INVARIANTS
  TypeOK
  TextReadable
  PathSurvives
  StatusReadable
  FieldReadable
  BytesReadable
