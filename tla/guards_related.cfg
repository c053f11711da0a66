SPECIFICATION Spec
CONSTANTS
  Contexts = {request, task}
  Roles = {role1, role2}
  Perms = {perm}
  LinkKeys = {link1, link2}
  Keys = {key1, key2}
  Scopes = {here, there}
  Names = {name}
  Absent = Absent
  None = None
  CopiesLoaded = FALSE
  MaxDepth = 2
  MaxRows = 1
  request = request
  task = task
  role1 = role1
  role2 = role2
  key1 = key1
  key2 = key2
SYMMETRY Interchangeable
PROPERTY PermissionsAreAddedInBlocks
