SPECIFICATION HttpSpec
CONSTANTS
  Users = {ann, su}
  SuperUsers = {su}
  Permissions = {see, edit, audit, manage}
  ManageAssignments = manage
  ManageRoles = manage
  ManageGlobalRoles = manage
  Nodes <- MCNodes
  ModeledLevels = {"organization", "team"}
  RootLevels = {"platform"}
  Roles = {Editor, Auditor}
  Names = {Editor, Auditor}
  None = None
  GLOBAL = GLOBAL
  DENIED = DENIED
  UNREGISTERED = UNREGISTERED
  Policy = "self"
  AllowList = {}
  Actors = {su}
  RoleOwnerLevels = {}
  InitCatalog = {Editor, Auditor}
  InitRole <- MCRole
  InitRows <- Staff
  InitParent <- MCParent
  InitKind <- MCKind
  Parents <- Unmoved
  Kinds <- Unmoved
  Deletable = {}
  Switchable = {}
  PermissionSets = {}
  Windows = {}
  MaxRows = 3
  MaxTime = 0
  LevelOrder <- MCLevelOrder
  ModelOf <- MCModelOf
  Workers = {w1, w2}
  Clients = {ann, su}
  Objects = {ticket}
  Anchors = {team1, team2}
  AnchorModel = "team"
  InitStore <- OneTicket
  PermissionFor <- MCPermissionFor
  LeafPermissions <- MCLeafPermissions
  Views <- MCViews
  Absent = Absent
  Keep = Keep
  ann = ann
  su = su
  org = org
  team1 = team1
  team2 = team2
  see = see
  edit = edit
  audit = audit
  manage = manage
  Editor = Editor
  Auditor = Auditor
  w1 = w1
  w2 = w2
  ticket = ticket
SYMMETRY Threads
INVARIANTS ListAgreesWithDetail
PROPERTIES EveryWriteWasEntitled
