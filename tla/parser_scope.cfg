SPECIFICATION Spec
CONSTANTS
  Letter = {"a", "b", "x"}
  Digit = {"0", "1", "2"}
  Punct = {"(", ")", "{", "}", "[", ":", "=", ";", "+", "-", ","}
  Streams <- MCStreams
  digit_val <- MCDigitVal
  UIntMod = 16384
  ULongMod = 1073741824
  Leftovers <- MCLeftovers
INVARIANT ReferencesStayInTheirBlock
