SPECIFICATION Spec
CONSTANTS
  Models <- MCModels
  Field <- MCField
  AppOf <- MCAppOf
  AutoCreated = {"Link"}
  Hierarchies <- MCHierarchies
  OwnerLevels = {{}, {"team"}}
  Paths <- MCPaths
  Resources = {"Ticket", "Note", "Desk"}
  None = None
INVARIANTS StoredAssignmentsCompare RegisteredModelsHaveOnePolicy
