SPECIFICATION Spec
CONSTANTS
  email = email
  name = name
  None = None
  Fields <- BothFields
  FromStart <- OnlyEmail
  Declared <- RemoteEmail
  Additional <- Alone
  Replaced <- BothFields
  Values <- MCValues
  Blank = ""
  Formed <- MCFormed
  MaxChanges = 3
INVARIANTS
  ParseEnables
CHECK_DEADLOCK FALSE
