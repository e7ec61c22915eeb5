SPECIFICATION FairSpec
CONSTANTS
  Letter = {"a", "b", "c", "d", "e", "f", "i", "l", "n", "o", "p", "r", "s", "t", "u",
            "x", "y"}
  Digit = {"0", "2", "3"}
  Punct = {";"}
  Sources <- DotFreeSources
  tok_map <- token_keywords
  InitCap = 2
  UMod = 32
  MemLimit = 16
INVARIANT TypeOK
INVARIANT PositionsIncrease
INVARIANT LineNumbersCountBreaks
INVARIANT CharacterNumbersCountFromTheBreak
INVARIANT EveryNulGivesAnEof
INVARIANT ReadsPastTheEofInACommentOnly
PROPERTY CutsTheSource
