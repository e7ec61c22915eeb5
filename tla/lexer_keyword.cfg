SPECIFICATION Spec
CONSTANTS
  Letter = {"a", "b", "c", "d", "e", "f", "i", "l", "n", "o", "p", "r", "s", "t", "u",
            "x", "y"}
  Digit = {"0", "2", "3"}
  Punct = {";"}
  Sources <- WordTexts
  tok_map <- token_keywords
  InitCap = 2
  UMod = 32
  MemLimit = 16
INVARIANT KeywordsAreSpelledOut
