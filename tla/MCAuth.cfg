SPECIFICATION Spec
CONSTANTS
  anon = anon
  user = user
  Roles = {anon, user}
  None = None
INVARIANT RoleWasGranted
 
CHECK_DEADLOCK FALSE
