CONSTANTS
  Char = {0, 1, 2}
  MaxLen = 3
  MaxNames = 3
  PlainSize = 2
  HeaderSize = 2
SPECIFICATION Spec
CHECK_DEADLOCK FALSE
INVARIANT FieldsArrive
INVARIANT ValuesArrive
