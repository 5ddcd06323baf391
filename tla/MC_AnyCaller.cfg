CONSTANTS
  ParserFlags = {"PSYC_PARSE_ALL", "PSYC_PARSE_START_AT_CONTENT"}
  SIZE_MOD = 1024
  Alphabet = {"nl", "tab", "sp", "|", ":", "a", "2"}
  MaxLen = 2
  MaxCount = 6
  Buffers <- MC_Buffers
SPECIFICATION Spec
INVARIANTS TypeOK ReadInBounds IncompleteUsesBuffer MissingAgrees ParserInvariant
CONSTRAINT Bounded
