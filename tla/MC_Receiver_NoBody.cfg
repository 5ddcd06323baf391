CONSTANTS
  ParserFlags = {"PSYC_PARSE_ALL"}
  SIZE_MOD = 65536
  MODIFIER_SIZE_THRESHOLD = 2
  CONTENT_SIZE_THRESHOLD = 3
  RECV_BUF_SIZE = 60
  SEND_BUF_SIZE = 60
  Workloads <- MC_NoBodyBinary
  Defects <- MC_NoDefects
SPECIFICATION FairSpec
INVARIANTS NeverClosed
