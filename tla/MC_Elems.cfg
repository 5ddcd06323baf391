CONSTANTS
  SIZE_MOD = 4096
  MODIFIER_SIZE_THRESHOLD = 2
  CONTENT_SIZE_THRESHOLD = 2
  ELEM_SIZE_THRESHOLD = 2
  Alphabet = {"|", "{", "}", "=", ":", "sp", "a", "2"}
  MaxLen = 2
  MaxParsed = 4
  MAX_LENGTH = 3
  Buffers <- MC_Buffers
  Works <- MC_Works
SPECIFICATION Spec
INVARIANTS ElemTypeOK ElemReadsInBounds CountedInBuffer PiecesInOrder  ReadAsWritten
CONSTRAINT Bounded
