----------------------------- MODULE ScopeEngine -----------------------------
(***************************************************************************)
(* The authorization engine (src/scoped_access/engine.py) as state         *)
(* functions of the database it reads: the host application's users and    *)
(* hierarchy, the role catalog, the assignment rows and the clock.  The    *)
(* module has no actions; ScopedAccess.tla changes the state.              *)
(***************************************************************************)
EXTENDS Naturals, Sequences

CONSTANTS
    Users,                \* principals (settings.AUTH_USER_MODEL)
    SuperUsers,           \* principals with is_superuser
    Permissions,          \* the flat permission catalog
    ManageAssignments,    \* "scoped_access.manage_assignments"
    ManageRoles,          \* "scoped_access.manage_roles"
    ManageGlobalRoles,    \* "scoped_access.manage_global_roles"
    Nodes,                \* primary keys of hierarchy nodes
    ModeledLevels,        \* levels of HIERARCHY bound to a host model
    RootLevels,           \* levels of HIERARCHY with model None
    Roles,                \* primary keys of roles
    Names,                \* role names
    None,                 \* Python's None, SQL's NULL
    GLOBAL, DENIED, UNREGISTERED, \* the anchor kinds that carry no node
    Policy,               \* GRANTABLE_PERMISSIONS: "self", "any" or "list"
    AllowList             \* the list, when Policy = "list"

Levels == ModeledLevels \cup RootLevels

ASSUME PrincipalAssumption == SuperUsers \subseteq Users

ASSUME PermissionAssumption ==
    {ManageAssignments, ManageRoles, ManageGlobalRoles} \subseteq Permissions

ASSUME NoneAssumption == None \notin Nodes \cup Levels \cup Nat

ASSUME AnchorAssumption ==
    /\ {GLOBAL, DENIED, UNREGISTERED} \cap (Nodes \cup {None}) = {}
    /\ GLOBAL # DENIED /\ GLOBAL # UNREGISTERED /\ DENIED # UNREGISTERED

ASSUME LevelAssumption == ModeledLevels \cap RootLevels = {}

ASSUME PolicyAssumption ==
    Policy \in {"self", "any", "list"} /\ AllowList \subseteq Permissions

VARIABLES
    active,   \* users with is_active
    nodes,    \* hierarchy nodes that exist
    parent,   \* [Nodes -> Nodes or None], the declared parent accessor
    kind,     \* [Nodes -> SUBSET ModeledLevels], the levels whose queryset
              \* (model and discriminator) selects the node
    catalog,  \* roles that exist
    role,     \* [Roles -> RoleRecord]
    rows,     \* the ScopeAssignment table, in primary-key order
    now       \* the clock

db == <<active, nodes, parent, kind, catalog, role, rows, now>>

(***************************************************************************)
(* Types.                                                                  *)
(***************************************************************************)
Time == Nat \cup {None}

Status == {"ACTIVE", "SUSPENDED", "REVOKED"}

RoleRecord == [name : Names, owner : Nodes \cup {None},
               ownerLevel : ModeledLevels \cup {None},
               perms : SUBSET Permissions]

Row == [user : Users, role : Roles, level : Levels \cup {None},
        scope : Nodes \cup {None}, status : Status,
        from : Time, until : Time]

Rows == DOMAIN rows

\* What a permission check can be about: a node (or a resource anchored at
\* it), or one of the anchor kinds resolve_anchor returns without a node.
Targets == Nodes \cup {GLOBAL, DENIED, UNREGISTERED}

(***************************************************************************)
(* Hierarchy walk (iter_ancestors): the node, its parent, and so on.  The  *)
(* nodes the walk yields are the least set that holds the node and is      *)
(* closed under the parent accessor: m is one of them when no closed set   *)
(* that leaves m out holds n.                                              *)
(***************************************************************************)
Closed(S) == \A m \in S : parent[m] \in Nodes => parent[m] \in S

Ancestors(n) ==
    {m \in Nodes : \A S \in SUBSET (Nodes \ {m}) : n \in S => ~Closed(S)}

\* A level name a caller may state for node n.  A caller may also leave the
\* name out when exactly one level selects the node, and then gets that one:
\* the outcomes are the same, so the models always state it.
SelectsNode(level, n) == n \in nodes /\ level \in kind[n]

(***************************************************************************)
(* One assignment.                                                         *)
(***************************************************************************)
IsRootScope(a) == rows[a].scope = None

ScopeIsValid(a) ==
    IF IsRootScope(a)
    THEN rows[a].level \in RootLevels \cup {None}
    ELSE SelectsNode(rows[a].level, rows[a].scope)

\* R2: a custom role only in its owner's subtree, never at root.
OwnerAdmits(owner, level, scope) ==
    \/ owner = None
    \/ /\ owner \in nodes
       /\ SelectsNode(level, scope)
       /\ owner \in Ancestors(scope)

RoleAssignable(r, level, scope) == OwnerAdmits(role[r].owner, level, scope)

\* Mutant: the role's owner is checked at grant time only.
IsValidWhenGranted(a) == ScopeIsValid(a)

IsValid(a) ==
    /\ ScopeIsValid(a)
    /\ RoleAssignable(rows[a].role, rows[a].level, rows[a].scope)

InWindow(a) ==
    /\ rows[a].from # None => rows[a].from <= now
    /\ rows[a].until # None => now < rows[a].until

Effective(a) == rows[a].status = "ACTIVE" /\ InWindow(a)

\* The user's effective assignments that survive _assignment_is_valid.
Authority(u) == {a \in Rows : rows[a].user = u /\ Effective(a) /\ IsValid(a)}

\* Mutant: a node is covered by assignments to that very node.
CoversExactly(a, t) ==
    t # UNREGISTERED /\ (t = GLOBAL \/ IsRootScope(a) \/ rows[a].scope = t)

\* Coverage of a target by a valid assignment: downward, never upward.
Covers(a, t) ==
    /\ t # UNREGISTERED
    /\ \/ t = GLOBAL
       \/ IsRootScope(a)
       \/ t \in Nodes /\ rows[a].scope \in Ancestors(t)

RolePerms(a) == role[rows[a].role].perms

(***************************************************************************)
(* Permission decisions.                                                   *)
(***************************************************************************)
UserPermissions(u, t) ==
    IF u \in active
    THEN UNION {RolePerms(a) : a \in {b \in Authority(u) : Covers(b, t)}}
    ELSE {}

\* What the user holds through root-scoped assignments alone.
RootPermissions(u) ==
    UNION {RolePerms(a) : a \in {b \in Authority(u) : IsRootScope(b)}}

HasPerm(u, p, t) ==
    u \in active /\ (u \in SuperUsers \/ p \in UserPermissions(u, t))

UserCovers(u, t) ==
    /\ u \in active
    /\ u \in SuperUsers \/ t = GLOBAL \/ \E a \in Authority(u) : Covers(a, t)

(***************************************************************************)
(* Management decisions.  owner and scope are None for a system role and   *)
(* for an assignment without a node.                                       *)
(***************************************************************************)
OwnerResolves(owner) == owner = None \/ owner \in nodes

\* Mutant: has_perm without the object, manage_roles held anywhere is enough.
CanManageRoleAnywhere(by, owner) ==
    OwnerResolves(owner) /\ HasPerm(by, ManageRoles, GLOBAL)

CanManageRole(by, owner) ==
    /\ by \in active
    /\ OwnerResolves(owner)
    /\ \/ by \in SuperUsers
       \/ owner # None /\ HasPerm(by, ManageRoles, owner)
       \/ owner = None /\ ManageGlobalRoles \in RootPermissions(by)

CanManageAssignment(by, scope) ==
    /\ by \in active
    /\ \/ by \in SuperUsers
       \/ scope # None /\ HasPerm(by, ManageAssignments, scope)
       \/ scope = None /\ ManageAssignments \in RootPermissions(by)

\* What the actor holds where a role or an assignment without node (None)
\* or with one is concerned: the comparison set of the "self" policy.
Held(by, n) == IF n = None THEN RootPermissions(by) ELSE UserPermissions(by, n)

\* GRANTABLE_PERMISSIONS applied to one permission at one node.
Grantable(by, n, p) ==
    \/ by \in SuperUsers
    \/ Policy = "any"
    \/ Policy = "list" /\ p \in AllowList
    \/ Policy = "self" /\ p \in Held(by, n)

\* R5.
CanGrantPermission(by, owner, p) ==
    by \in active /\ OwnerResolves(owner) /\ Grantable(by, owner, p)

\* R1.
RoleVisible(u, r) ==
    /\ u \in active
    /\ \/ role[r].owner = None
       \/ /\ role[r].owner \in nodes
          /\ \/ u \in SuperUsers
             \/ \E a \in Authority(u) : Covers(a, role[r].owner)

\* Mutant: a visible, assignable role may be assigned whatever it contains.
CanAssignVisibleRole(by, r, level, scope) ==
    r \in catalog /\ RoleAssignable(r, level, scope) /\ RoleVisible(by, r)

\* R7.
CanAssignRole(by, r, level, scope) ==
    /\ by \in active
    /\ r \in catalog
    /\ RoleAssignable(r, level, scope)
    /\ \/ by \in SuperUsers
       \/ /\ RoleVisible(by, r)
          /\ \A p \in role[r].perms : Grantable(by, scope, p)

=============================================================================
