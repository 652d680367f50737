SPECIFICATION Spec
CONSTANTS
  Undefined = Undefined
  Empty = Empty
  NaN = NaN
  Texts <- MCTexts
  Number <- MCNumber
  Elements <- Words
  Names <- MCNames
  Custom <- OwnMinMax
  MethodExtension = FALSE
  Candidates <- MCCandidates
INVARIANTS
  EnforcedUnlessShadowed
