SPECIFICATION FairSpec
CONSTANTS
  email = email
  name = name
  None = None
  Fields <- BothFields
  FromStart <- OnlyEmail
  Declared <- TwoRemotes
  Additional <- WithName
  Replaced <- OnlyEmail
  Values <- MCValues
  Blank = ""
  Formed <- MCFormed
  MaxChanges = 2
INVARIANTS
  TypeOK
  NothingUnchecked
  PendingIsCounted
  ErrorsAreRechecked
PROPERTIES
  SubmitIsAnswered
CHECK_DEADLOCK FALSE
