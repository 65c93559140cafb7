SPECIFICATION Spec
CONSTANTS
  Texts <- AllTexts
  Inputs <- AllInputs
  HexDigits <- Hexadecimal
  HexWrong <- NotHexadecimal
  Spelling <- Canonical
INVARIANTS TypeOK AcceptsGrammar TreeIsMeant RoundTrip TextsFreedOnce ErrorsExplain
CHECK_DEADLOCK FALSE
