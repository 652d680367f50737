SPECIFICATION Spec
CONSTANTS
  Undefined = Undefined
  Empty = Empty
  NaN = NaN
  Texts <- MCTexts
  Number <- MCNumber
  Elements <- Postcodes
  Names <- MCNames
  Custom <- OwnSingle
  MethodExtension = FALSE
  Candidates <- MCCandidates
INVARIANTS
  EnforcedUnlessShadowed
