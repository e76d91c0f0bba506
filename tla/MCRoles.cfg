SPECIFICATION FairSpec
CONSTANTS
  PermA = PermA
  PermB = PermB
  None = None
  Roles = {1, 2, 3, 4}
  Graphs <- SmallGraphs
  Perms = {PermA, PermB}
  BackendOnly = {PermA}
  Lists <- AllLists
INVARIANT ExpandsToLeaves
INVARIANT PerLevel
INVARIANT ConflictReported
INVARIANT HiddenOnlyByConflict
PROPERTY ExpandEnds
CHECK_DEADLOCK FALSE
