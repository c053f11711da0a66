SPECIFICATION Spec
CONSTANTS
  Users <- MCUsers
  SuperUsers = {su}
  Permissions <- MCPermissions
  ManageAssignments = assign
  ManageRoles = roles
  ManageGlobalRoles = global
  Nodes <- MCNodes
  ModeledLevels = {"organization", "team"}
  RootLevels = {"platform"}
  Roles <- MCRoles
  Names <- MCNames
  None = None
  GLOBAL = GLOBAL
  DENIED = DENIED
  UNREGISTERED = UNREGISTERED
  Policy = "self"
  AllowList = {}
  Actors = {ann, bob}
  RoleOwnerLevels = {"organization", "team"}
  InitCatalog <- MCCatalog
  InitRole <- MCRole
  InitRows <- TwoTenants
  InitParent <- MCParent
  InitKind <- MCKind
  Parents <- FixedParents
  Kinds <- FixedKinds
  Deletable = {}
  Switchable = {}
  PermissionSets = {{}, {view}}
  Windows <- Always
  MaxRows = 4
  MaxTime = 0
  su = su
  ann = ann
  bob = bob
  org = org
  team1 = team1
  team2 = team2
  Manager = Manager
  Viewer = Viewer
  Custom = Custom
  view = view
  assign = assign
  roles = roles
  global = global
PROPERTIES NoEscalationByAnyCall
CHECK_DEADLOCK FALSE
