CONSTANTS
  ParserFlags = {"PSYC_PARSE_ALL", "PSYC_PARSE_ROUTING_ONLY"}
  SIZE_MOD = 65536
  MODIFIER_SIZE_THRESHOLD = 2
  CONTENT_SIZE_THRESHOLD = 3
  RECV_BUF_SIZE = 60
  SEND_BUF_SIZE = 60
  Workloads <- MC_Workloads
  Defects <- MC_Defects
SPECIFICATION FairSpec
INVARIANTS EchoesBytes ContentCounted NeverClosed KeptIsPartial LengthsFit RoundTrip
PROPERTIES DeliversPackets ParseLoopEnds
