SPECIFICATION FairSpec
CONSTANTS
  Letter = {"a", "b", "c", "d", "e", "f", "i", "l", "n", "o", "p", "r", "s", "t", "u",
            "x", "y"}
  Digit = {"1", "2", "3"}
  Punct = {"(", ")", "{", "}", ":", "=", ";"}
  Sources <- MCSources
  tok_map <- token_keywords
  InitCap = 4
  UMod = 64
  MemLimit = 32
  digit_val <- MCDigitVal
  UIntMod = 16384
  ULongMod = 1073741824
  Leftovers <- MCLeftovers
  BufSize = 8
INVARIANT ShowsTheErrorsLine
INVARIANT MarksTheCharacter
INVARIANT OnlyLongLinesFailTheAssertion
PROPERTY EndsInOneReport
