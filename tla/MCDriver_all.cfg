SPECIFICATION DFairSpec
CONSTANTS
  Char <- MCChar
  Nul <- nul
  Newline <- nl
  BuffSize = 3
  lexify <- MClexify
  parse <- MCparse
  compile_to_uxn <- MCcompile_to_uxn
  fprintf_tokens <- MCfprintf_tokens
  fprintf_ast <- MCfprintf_ast
  fprintf_uxn_program <- MCfprintf_uxn_program
  uxnasm <- MCuxnasm
  uxncli <- MCuxncli
  Failed = Failed
  Absent = Absent
  Gone = Gone
  Sources <- MCSources
  Setups <- MCSetups
INVARIANTS DTypeOK AnswerIsRight OkIsEarned HandedOver CrashOnlyOnReadOnly
PROPERTY RunEnds
CHECK_DEADLOCK FALSE
