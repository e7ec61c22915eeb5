SPECIFICATION FairSpec
CONSTANTS
  Tables <- MCTables
  Words <- MCWords
INVARIANT StrMapInv
INVARIANT SortsOrReports
INVARIANT FindLenReturnsTheLeastExtension
INVARIANT FindIsExact
PROPERTY CallsReturn
