CONSTANTS
  Nul = Nul
  Names <- MCNames
  Words <- MCWords
  Lower <- MCLower
  Rights <- MCRights
  Users <- MCUsers
  MaxNodes = 4
SPECIFICATION TreeSpec
INVARIANTS FullNameFinds AbbreviationUnambiguous
CHECK_DEADLOCK FALSE
