SPECIFICATION FairSpec
CONSTANTS
  Letter = {"a", "b", "x"}
  Digit = {"0", "1", "2"}
  Punct = {"(", ")", "{", "}", "[", ":", "=", ";", "+", "-", ","}
  Streams <- MCStreams
  digit_val <- MCDigitVal
  UIntMod = 16384
  ULongMod = 1073741824
  Leftovers <- MCLeftovers
INVARIANT TypeOK
INVARIANT ParserProgresses
INVARIANT StopsAtTheFirstEof
INVARIANT ReferencesPointBack
PROPERTY FollowsTheGrammar
