SPECIFICATION FairSpec
CONSTANTS
  MaxInds = 3
  MaxTries = 2
INVARIANT TypeOK
INVARIANT ResponseMatches
INVARIANT UnlockedBeforeMode
INVARIANT PackedIsRead
INVARIANT SetupIsSpliced
INVARIANT IpConfigRead
PROPERTY BringUpEnds
CHECK_DEADLOCK FALSE
