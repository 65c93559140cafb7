SPECIFICATION FairSpec
CONSTANTS
  Texts <- CommentTexts
  Digits <- DigitChars
  Letters <- LetterChars
  Spaces <- SpaceChars
  Keywords <- TwoKeywords
  Void <- VoidWord
  BuffSize = 4
  LenMod = 3
  PosMod = 4
  StrayPos <- SomePositions
PROPERTY CommentsAreDeleted
CHECK_DEADLOCK FALSE
