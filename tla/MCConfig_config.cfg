SPECIFICATION FairSpec
CONSTANTS
  Libs = {"a", "b"}
  Files <- MCFiles
  Content <- MCContent
  Refused <- MCRefused
  Large <- MCLarge
  DirNames <- MCDirNames
  Entries <- MCEntries
  Hidden = {".hidden"}
  MaxOpen = 4
  Roots <- MCRoots
INVARIANTS TypeOK ReadsTheFiles ReleasesAll RefsMatch HandlesValid
PROPERTY ConfReturns
CHECK_DEADLOCK FALSE
