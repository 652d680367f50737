SPECIFICATION Spec
CONSTANTS
  Undefined = Undefined
  Empty = Empty
  NaN = NaN
  Texts <- MCTexts
  Number <- MCNumber
  Elements <- MCElements
  Names <- MCNames
  Custom <- NoCustom
  MethodExtension = FALSE
  Candidates <- MCCandidates
INVARIANTS
  TypeOK
  NoStricter
  EnforcedUnlessShadowed
  MessagesFitRules
