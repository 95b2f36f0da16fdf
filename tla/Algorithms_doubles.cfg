CONSTANTS
  pending = pending
  throws = throws
  Word = 8
  Length = 6
  Byte = 4
  Mantissas = 2
  LongBytes = {0, 1, 3}
  Digit = 3
  Width = 2
  MaxBytes = 2
  MaxResultBytes = 3
  HalfBits = 4
  Words <- MCWords
  Slots <- MCSlots
  payer = payer
  other = other
  ByteSize = 2
  Contents <- MCContents
  StartContent <- MCStart
  KeyOrder <- MCKeyOrder
  null = null
  absent = absent
  MaxEdits = 3
  BlockTime = 2
  Times = {0, 1, 2, 3}
  Numbers = {0, 1, 2}
  MaxTime = 6
SPECIFICATION DoublesSpec
INVARIANT DoublesInOrder
