----------------------------- MODULE ScopedAccess -----------------------------
(***************************************************************************)
(* The authorization database of django-auth-with-scoped-access: roles and *)
(* scope assignments changed through the actor-aware API                   *)
(* (ScopeAssignment.objects.grant, suspend / reactivate / revoke,          *)
(* RoleService), while the host application activates users, reshapes its  *)
(* hierarchy and time passes.  Every API call is one transaction, modelled *)
(* as one step; its arguments are existentially quantified and every check *)
(* that raises is a guard.                                                 *)
(***************************************************************************)
EXTENDS ScopeEngine, FiniteSets

CONSTANTS
    Actors,          \* the users that call the management API
    RoleOwnerLevels, \* ROLE_OWNER_LEVELS
    InitCatalog, InitRole, InitRows,  \* the tables of the deployment
    InitParent, InitKind,             \* the host hierarchy it starts with
    Parents,         \* [Nodes -> set of parents the host may give the node]
    Kinds,           \* [Nodes -> set of level sets the host may give it]
    Deletable,       \* nodes the host may delete
    Switchable,      \* users the host may deactivate and activate
    PermissionSets,  \* permission sets passed to create / grant / revoke
    Windows,         \* <<valid_from, valid_until>> pairs passed to grant
    MaxRows,         \* bound: length of the assignment table
    MaxTime          \* bound: the clock

ASSUME ActorAssumption == Actors \subseteq Users

ASSUME OwnerLevelAssumption == RoleOwnerLevels \subseteq ModeledLevels

ASSUME HierarchyAssumption ==
    /\ InitParent \in [Nodes -> Nodes \cup {None}]
    /\ InitKind \in [Nodes -> SUBSET ModeledLevels]
    /\ Parents \in [Nodes -> SUBSET (Nodes \cup {None})]
    /\ Kinds \in [Nodes -> SUBSET SUBSET ModeledLevels]
    /\ Deletable \subseteq Nodes /\ Switchable \subseteq Users

ASSUME InputAssumption ==
    /\ PermissionSets \subseteq SUBSET Permissions
    /\ Windows \subseteq Time \X Time
    /\ MaxRows \in Nat /\ MaxTime \in Nat

(***************************************************************************)
(* Shape of the persisted tables.                                          *)
(***************************************************************************)
\* Two rows the live-assignment constraints tell apart by nothing.
SameGrant(x, y) ==
    /\ x.user = y.user /\ x.role = y.role
    /\ x.level = y.level /\ x.scope = y.scope

RowShape(x) ==
    IF x.scope = None THEN x.level \in RootLevels \cup {None}
                      ELSE x.level \in ModeledLevels

RoleShape(x) == x.owner = None <=> x.ownerLevel = None

ASSUME TablesAssumption ==
    /\ InitCatalog \subseteq Roles
    /\ InitRole \in [Roles -> RoleRecord]
    /\ \A r \in Roles : RoleShape(InitRole[r])
    /\ InitRows \in Seq(Row)
    /\ \A i \in DOMAIN InitRows :
           InitRows[i].role \in InitCatalog /\ RowShape(InitRows[i])
    /\ \A i, j \in DOMAIN InitRows :
           (/\ SameGrant(InitRows[i], InitRows[j])
            /\ InitRows[i].status # "REVOKED" /\ InitRows[j].status # "REVOKED")
           => i = j

hostVars == <<active, nodes, parent, kind, now>>

Init ==
    /\ active = Users
    /\ nodes = Nodes
    /\ parent = InitParent
    /\ kind = InitKind
    /\ catalog = InitCatalog
    /\ role = InitRole
    /\ rows = InitRows
    /\ now = 0

(***************************************************************************)
(* Assignment lifecycle (ScopeAssignmentQuerySet.grant and the transitions *)
(* of AbstractScopeAssignment).                                            *)
(***************************************************************************)
\* The level of a new assignment: one that selects its scope, or a root level
\* (or none) when there is no scope.
GrantLevel(level, scope) ==
    IF scope = None THEN level \in RootLevels \cup {None}
                    ELSE SelectsNode(level, scope)

WindowIsOpenable(w) == (w[1] # None /\ w[2] # None) => w[1] < w[2]

\* Mutant: the constraint ranges over ACTIVE rows only.
DuplicatesActive(row) ==
    \E a \in Rows : rows[a].status = "ACTIVE" /\ SameGrant(rows[a], row)

\* The partial unique constraints on non-revoked assignments.
DuplicatesLive(row) ==
    \E a \in Rows : rows[a].status # "REVOKED" /\ SameGrant(rows[a], row)

Grant(by, u, r, level, scope, w) ==
    LET row == [user |-> u, role |-> r, level |-> level, scope |-> scope,
                status |-> "ACTIVE", from |-> w[1], until |-> w[2]]
    IN  /\ Len(rows) < MaxRows
        /\ GrantLevel(level, scope)
        /\ WindowIsOpenable(w)
        /\ r \in catalog
        /\ ~DuplicatesLive(row)
        /\ CanManageAssignment(by, scope)
        /\ CanAssignRole(by, r, level, scope)
        /\ rows' = Append(rows, row)
        /\ UNCHANGED <<hostVars, catalog, role>>

\* The scope a transition resolves: None when the stored node is gone.
ResolvedScope(a) == IF rows[a].scope \in nodes THEN rows[a].scope ELSE None

MayTransition(by, a) == CanManageAssignment(by, ResolvedScope(a))

Transition(a, allowedFrom, target) ==
    /\ rows[a].status \in allowedFrom
    /\ rows' = [rows EXCEPT ![a].status = target]
    /\ UNCHANGED <<hostVars, catalog, role>>

Suspend(by, a) ==
    /\ MayTransition(by, a)
    /\ Transition(a, {"ACTIVE"}, "SUSPENDED")

Reactivate(by, a) ==
    /\ MayTransition(by, a)
    /\ CanAssignRole(by, rows[a].role, rows[a].level, ResolvedScope(a))
    /\ Transition(a, {"SUSPENDED"}, "ACTIVE")

Revoke(by, a) ==
    /\ MayTransition(by, a)
    /\ Transition(a, {"ACTIVE", "SUSPENDED"}, "REVOKED")

(***************************************************************************)
(* Role management (RoleService and AbstractRole).                         *)
(***************************************************************************)
\* _validate_owner: a system role has no owner level, a custom role one that
\* selects its owner and may own roles.
OwnerLevel(level, owner) ==
    IF owner = None THEN level = None
                    ELSE SelectsNode(level, owner) /\ level \in RoleOwnerLevels

\* R3: names are unique per owner, and among system roles.
NameIsFree(r, name, owner) ==
    \A q \in catalog \ {r} : ~(role[q].name = name /\ role[q].owner = owner)

\* RoleService.create and the permissions it is given.  The fields it passes on
\* to the model do not name the primary key of a role that exists: save would
\* then replace that role.
CreateRole(by, r, name, owner, level, ps) ==
    /\ r \notin catalog
    /\ OwnerLevel(level, owner)
    /\ CanManageRole(by, owner)
    /\ NameIsFree(r, name, owner)
    /\ \A p \in ps : CanGrantPermission(by, owner, p)
    /\ catalog' = catalog \cup {r}
    /\ role' = [role EXCEPT ![r] = [name |-> name, owner |-> owner,
                                    ownerLevel |-> level, perms |-> ps]]
    /\ UNCHANGED <<hostVars, rows>>

\* The three fields as they stand once the requested changes are applied; a
\* field the caller does not change is passed with its current value.
UpdateRole(by, r, name, owner, level) ==
    /\ r \in catalog
    /\ OwnerLevel(level, owner)
    /\ CanManageRole(by, role[r].owner)
    /\ CanManageRole(by, owner)
    /\ NameIsFree(r, name, owner)
    /\ role' = [role EXCEPT ![r].name = name, ![r].owner = owner,
                            ![r].ownerLevel = level]
    /\ UNCHANGED <<hostVars, catalog, rows>>

\* Mutant: only live assignments protect their role.
DeleteUnusedRole(by, r) ==
    /\ r \in catalog
    /\ CanManageRole(by, role[r].owner)
    /\ \A a \in Rows : rows[a].role = r => rows[a].status = "REVOKED"
    /\ catalog' = catalog \ {r}
    /\ UNCHANGED <<hostVars, role, rows>>

\* Any assignment row, revoked ones included, protects its role.
DeleteRole(by, r) ==
    /\ r \in catalog
    /\ CanManageRole(by, role[r].owner)
    /\ \A a \in Rows : rows[a].role # r
    /\ catalog' = catalog \ {r}
    /\ UNCHANGED <<hostVars, role, rows>>

GrantPermissions(by, r, ps) ==
    /\ r \in catalog
    /\ CanManageRole(by, role[r].owner)
    /\ \A p \in ps \ role[r].perms : CanGrantPermission(by, role[r].owner, p)
    /\ role' = [role EXCEPT ![r].perms = @ \cup ps]
    /\ UNCHANGED <<hostVars, catalog, rows>>

RevokePermissions(by, r, ps) ==
    /\ r \in catalog
    /\ CanManageRole(by, role[r].owner)
    /\ role' = [role EXCEPT ![r].perms = @ \ ps]
    /\ UNCHANGED <<hostVars, catalog, rows>>

(***************************************************************************)
(* The host application and the clock.                                     *)
(***************************************************************************)
SetActive(u) ==
    /\ active' = IF u \in active THEN active \ {u} ELSE active \cup {u}
    /\ UNCHANGED <<nodes, parent, kind, catalog, role, rows, now>>

\* on_delete=CASCADE: a node goes with everything below it.
DeleteNode(n) ==
    /\ n \in nodes
    /\ nodes' = {m \in nodes : n \notin Ancestors(m)}
    /\ UNCHANGED <<active, parent, kind, catalog, role, rows, now>>

\* The hierarchy stays a forest of existing nodes.
MoveNode(n, p) ==
    /\ n \in nodes
    /\ p = None \/ (p \in nodes /\ n \notin Ancestors(p))
    /\ parent' = [parent EXCEPT ![n] = p]
    /\ UNCHANGED <<active, nodes, kind, catalog, role, rows, now>>

Reclassify(n, levels) ==
    /\ n \in nodes
    /\ kind' = [kind EXCEPT ![n] = levels]
    /\ UNCHANGED <<active, nodes, parent, catalog, role, rows, now>>

Tick ==
    /\ now < MaxTime
    /\ now' = now + 1
    /\ UNCHANGED <<active, nodes, parent, kind, catalog, role, rows>>

AssignmentStep(by) ==
    \/ \E u \in Users, r \in Roles, level \in Levels \cup {None},
          scope \in Nodes \cup {None}, w \in Windows :
           Grant(by, u, r, level, scope, w)
    \/ \E a \in Rows : Suspend(by, a) \/ Reactivate(by, a) \/ Revoke(by, a)

\* Role edits that leave the owner alone, and the ones that may move the role.
RoleEdit(by) ==
    \/ \E r \in Roles, name \in Names, owner \in Nodes \cup {None},
          level \in ModeledLevels \cup {None}, ps \in PermissionSets :
           CreateRole(by, r, name, owner, level, ps)
    \/ \E r \in Roles, ps \in PermissionSets :
           GrantPermissions(by, r, ps) \/ RevokePermissions(by, r, ps)
    \/ \E r \in Roles : DeleteRole(by, r)

RoleMove(by) ==
    \E r \in Roles, name \in Names, owner \in Nodes \cup {None},
       level \in ModeledLevels \cup {None} :
        UpdateRole(by, r, name, owner, level)

HostStep ==
    \/ \E u \in Switchable : SetActive(u)
    \/ \E n \in Deletable : DeleteNode(n)
    \/ \E n \in Nodes : \/ \E p \in Parents[n] : MoveNode(n, p)
                        \/ \E levels \in Kinds[n] : Reclassify(n, levels)

ApiStep(by) == AssignmentStep(by) \/ RoleEdit(by) \/ RoleMove(by)

Next ==
    \/ \E by \in Actors : ApiStep(by)
    \/ HostStep
    \/ Tick

Spec == Init /\ [][Next]_db

(***************************************************************************)
(* Properties.                                                             *)
(***************************************************************************)

\* The tables keep their types and the shape the constraints and validators
\* give them: a row without a node has a root level or none, a role has an
\* owner level exactly when it has an owner.
TypeOK ==
    /\ active \subseteq Users
    /\ nodes \subseteq Nodes
    /\ parent \in [Nodes -> Nodes \cup {None}]
    /\ kind \in [Nodes -> SUBSET ModeledLevels]
    /\ catalog \subseteq Roles
    /\ role \in [Roles -> RoleRecord]
    /\ rows \in Seq(Row)
    /\ now \in Nat
    /\ \A r \in Roles : RoleShape(role[r])
    /\ \A a \in Rows : RowShape(rows[a]) /\ rows[a].role \in catalog

\* What assignment a confers on target t, whatever its validity window: the
\* permissions of its role if the row is ACTIVE, valid and covers t.
Conferred(a, t) ==
    IF a \in Rows /\ rows[a].status = "ACTIVE" /\ Covers(a, t) /\ IsValid(a)
    THEN RolePerms(a)
    ELSE {}

\* SPEC 4.2: authority flows down.  What a user holds at a node they hold at
\* every node below it, whatever role edits, transitions, moves and deletions
\* produced the tables.
DownwardCoverage ==
    \A n \in nodes : \A m \in nodes \cap Ancestors(n) : \A u \in Users :
        UserPermissions(u, m) \subseteq UserPermissions(u, n)

\* R2 at decision time: a custom role confers nothing outside its owner's
\* subtree, although the owner, the node and the role may all have been moved
\* or deleted since the assignment was granted.
CustomRoleConfined ==
    \A a \in Rows, t \in Targets \ {GLOBAL} :
        LET owner == role[rows[a].role].owner
        IN  (owner # None /\ Conferred(a, t) # {}) =>
                t \in Nodes /\ owner \in nodes \cap Ancestors(t)

\* SPEC 8.3: no two live assignments of one role to one user at one scope,
\* suspended and reactivated ones included.
LiveAssignmentsAreUnique ==
    \A a, b \in Rows :
        (/\ SameGrant(rows[a], rows[b])
         /\ rows[a].status # "REVOKED" /\ rows[b].status # "REVOKED") => a = b

\* What the policy lets a non-superuser delegate at target t.
Delegable(by, t) ==
    CASE Policy = "any"  -> Permissions
      [] Policy = "list" -> AllowList
      [] Policy = "self" -> UserPermissions(by, t)

\* The permissions assignment a starts to confer on t in this step.
Gained(a, t) == Conferred(a, t)' \ Conferred(a, t)

\* In this step some assignment starts to confer what "by" could not delegate.
GainBeyond(by) ==
    \E a \in DOMAIN rows', t \in Targets :
        \E p \in Gained(a, t) : p \notin Delegable(by, t)

\* R5 and R7 together: no grant, transition or role edit by an ordinary actor
\* makes any assignment confer what that actor could not delegate.
NoEscalation ==
    [][ \A by \in Actors \ SuperUsers :
            GainBeyond(by) => ~(AssignmentStep(by) \/ RoleEdit(by)) ]_db

\* docs/security.md: the library protects against "privilege delegation
\* beyond the caller's effective authority": the same bound for every API
\* call, RoleService.update included.
NoEscalationByAnyCall ==
    [][ \A by \in Actors \ SuperUsers : GainBeyond(by) => ~ApiStep(by) ]_db

\* The actor may manage what happens at t: assignments or roles there, or
\* system roles.
Manages(by, t) ==
    \/ by \in SuperUsers \cap active
    \/ HasPerm(by, ManageAssignments, t) \/ HasPerm(by, ManageRoles, t)
    \/ by \in active /\ ManageGlobalRoles \in RootPermissions(by)

\* Tenant isolation of management: an API call changes what any assignment
\* confers at a node only if its actor manages that node.
ManagementIsConfined ==
    [][ \A by \in Actors :
            (\E a \in DOMAIN rows', t \in Targets \ {GLOBAL} :
                Conferred(a, t)' # Conferred(a, t) /\ ~Manages(by, t))
            => ~ApiStep(by) ]_db

=============================================================================
