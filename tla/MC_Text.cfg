CONSTANTS
  SIZE_MOD = 1024
  TMPL = 512
  MaxSegments = 4
  Templates <- MC_Templates
  GetValue <- MC_GetValue
  FirstSizes = {0, 1, 2, 3, 5, 8, 30}
  NextSizes = {12, 13, 16}
SPECIFICATION FairSpec
INVARIANTS WritesInBounds RestInTemplate TextIsFilledIn
PROPERTY TextCompletes
