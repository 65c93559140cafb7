SPECIFICATION Spec
CONSTANTS
  Texts <- AllTexts
  Inputs <- ChainInputs
  HexDigits <- Hexadecimal
  HexWrong <- NotHexadecimal
  Spelling <- Canonical
INVARIANT TreesFollowGrammar
CHECK_DEADLOCK FALSE
