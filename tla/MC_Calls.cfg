CONSTANTS
  INT_MOD = 256
  Keywords <- MC_Keywords
  Names <- MC_Names
  Numerals <- MC_Numerals
  Words <- MC_Words
  Uniforms <- MC_Uniforms
  Afters <- MC_Afters
  MODIFIER_SIZE_THRESHOLD = 2
  CONTENT_SIZE_THRESHOLD = 3
  ELEM_SIZE_THRESHOLD = 2
  ElemLists <- MC_ElemLists
  DictElems <- MC_DictElems
  IdParts <- MC_IdParts
  DefaultTypes <- MC_DefaultTypes
  Routings <- MC_Routings
  Entities <- MC_Entities
  Methods <- MC_Methods
  Bodies <- MC_Bodies
  Contents <- MC_Contents
  StateOps = {"NOOP", "="}
  Flags = {"CHECK_LENGTH", "NEED_LENGTH", "NO_LENGTH"}
  BufferSizes = {20, 200}
SPECIFICATION Spec
INVARIANTS MatchesWords InheritedMatch RoutingExact TypeInherited ListTyped MethodKnown FamilyInherited NumbersReadBack KeywordCounted UniformTiled UniformAccepted LengthIsExact
