SPECIFICATION FairSpec
CONSTANTS
  Letter = {"a", "b", "c", "d", "e", "f", "i", "l", "n", "o", "p", "r", "s", "t", "u",
            "x", "y"}
  Digit = {"0", "2", "3"}
  Punct = {";"}
  Sources <- ArraySources
  tok_map <- token_keywords
  InitCap = 5
  UMod = 16
  MemLimit = 32
INVARIANT LexerInv
INVARIANT OnlyADotExhaustsTheArrays
PROPERTY Stops
