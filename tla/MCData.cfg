SPECIFICATION Spec
CONSTANTS
  Null = Null
  None = None
  Failed = Failed
  Err = Err
  Star = Star
  Text = Text
  Catalog <- MCCatalog
  Call <- MCCall
  Match <- MCMatch
  RoleNames <- MCRoleNames
  InheritedRoles <- MCInherited
  Metadata <- MCMetadata
  SqlFunctions <- MCSqlFunctions
  Tracked <- MCTracked
  InferFunctionPermissions = FALSE
  InsertPerms <- MCInsertPerms
  UpdatePerms <- MCUpdatePerms
  DeletePerms <- MCDeletePerms
  Requests <- MCRequests
  Sessions <- MCSessions
  Writers <- MCWriters
  Walks <- MCWalks
  Possible <- MCPossible
  RowFilter <- MCRowFilter
  Means <- MCMeans
  Rank <- MCRank
  Joins <- MCJoins
  OwnRowRoles <- MCOwnRowRoles
  FilterColumns <- MCFilterColumns
  MayInsert <- MCMayInsert
  MayUpdate <- MCMayUpdate
  MayDelete <- MCMayDelete
INVARIANT CellsAreGranted
INVARIANT RowsAreTheView
INVARIANT WritesArePermitted
INVARIANT NonInterference
INVARIANT SchemaIsThePlanner
PROPERTY ImplementsWalk
