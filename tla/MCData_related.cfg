SPECIFICATION Spec
CONSTANTS
  Null = Null
  None = None
  Failed = Failed
  Err = Err
  Star = Star
  Text = Text
  Catalog <- MCCatalog
  Call <- MCCall
  Match <- MCMatch
  RoleNames <- MCRoleNames
  InheritedRoles <- MCInherited
  Metadata <- MCMetadata
  SqlFunctions <- MCSqlFunctions
  Tracked <- MCTracked
  InferFunctionPermissions = FALSE
  InsertPerms <- MCInsertPerms
  UpdatePerms <- MCUpdatePerms
  DeletePerms <- MCDeletePerms
  Requests <- RelatedRequests
  Sessions <- MCSessions
  Writers = {}
  Walks <- MCWalks
  Possible <- MCPossible
  RowFilter <- MCRowFilter
  Means <- MCMeans
  Rank <- MCRank
  Joins <- MCJoins
  OwnRowRoles <- MCOwnRowRoles
  FilterColumns <- MCFilterColumns
  MayInsert <- MCMayInsert
  MayUpdate <- MCMayUpdate
  MayDelete <- MCMayDelete
INVARIANT NonInterference
