SPECIFICATION Spec
CONSTANTS
  Users <- MCUsers
  SuperUsers = {su}
  Permissions <- MCPermissions
  ManageAssignments = assign
  ManageRoles = roles
  ManageGlobalRoles = global
  Nodes <- MCNodes
  ModeledLevels = {"organization", "department", "team"}
  RootLevels = {"platform"}
  Roles <- MCRoles
  Names <- MCNames
  None = None
  GLOBAL = GLOBAL
  DENIED = DENIED
  UNREGISTERED = UNREGISTERED
  Policy = "self"
  AllowList = {}
  Actors = {ann}
  RoleOwnerLevels = {}
  InitCatalog <- MCRoles
  InitRole <- HospitalRole
  InitRows <- Hospital
  InitParent <- DeepParent
  InitKind <- DeepKind
  Parents <- SkippingParents
  Kinds <- ChangingKinds
  Deletable = {}
  Switchable = {}
  PermissionSets = {{view}}
  Windows <- Always
  MaxRows = 3
  MaxTime = 0
  su = su
  ann = ann
  bob = bob
  org = org
  team1 = team1
  team2 = team2
  Manager = Manager
  Viewer = Viewer
  Custom = Custom
  view = view
  assign = assign
  roles = roles
  global = global
  LevelOrder <- MCLevelOrder
  ModelOf <- OneModel
INVARIANT FilterIsCompleteInTrees
