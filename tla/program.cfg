SPECIFICATION Spec
CONSTANTS
  NsecPerSec = 3
  MaxTime = 5
  FileSizes <- MCFileSizes
  PageSize = 4
  IntMod = 16
  InitCap = 2
  MaxTokens = 4
  MaxRounds = 2
INVARIANT TypeOK
INVARIANT HeapIsUsedSafely
INVARIANT LeaksPerRound
INVARIANT ReleasesItsResources
INVARIANT OnlyTheseFilesFault
INVARIANT ReportIsSound
