SPECIFICATION FairSpec
CONSTANTS
  Texts <- AllTexts
  Digits <- DigitChars
  Letters <- LetterChars
  Spaces <- SpaceChars
  Keywords <- TwoKeywords
  Void <- VoidWord
  BuffSize = 4
  LenMod = 3
  PosMod = 4
  StrayPos <- SomePositions
INVARIANTS TypeOK InStep TokensAreMeant PointsAtStart TextsOwned
PROPERTY LexReturns
CHECK_DEADLOCK FALSE
