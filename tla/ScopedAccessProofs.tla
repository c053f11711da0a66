-------------------------- MODULE ScopedAccessProofs --------------------------
(***************************************************************************)
(* Machine-checked proofs about ScopedAccess for every value of its        *)
(* constants: any users, hierarchy, catalog, tables and input sets.        *)
(***************************************************************************)
EXTENDS ScopedAccess, SequenceTheorems, TLAPS

(***************************************************************************)
(* The assignment table: appending and updating rows.                      *)
(***************************************************************************)
\* Appending a row (ScopeAssignmentQuerySet.create) keeps every earlier row
\* under its primary key and adds one key.
LEMMA AppendedRow ==
    ASSUME NEW T, NEW s \in Seq(T), NEW x \in T
    PROVE  /\ Append(s, x) \in Seq(T)
           /\ DOMAIN Append(s, x) = DOMAIN s \cup {Len(s) + 1}
           /\ Len(s) + 1 \notin DOMAIN s
           /\ \A i \in DOMAIN s : Append(s, x)[i] = s[i]
           /\ Append(s, x)[Len(s) + 1] = x
<1>1. /\ Append(s, x) \in Seq(T) /\ Len(Append(s, x)) = Len(s) + 1
      /\ \A i \in 1 .. Len(s) : Append(s, x)[i] = s[i]
      /\ Append(s, x)[Len(s) + 1] = x
  BY AppendProperties
<1>2. DOMAIN Append(s, x) = 1 .. Len(s) + 1 /\ DOMAIN s = 1 .. Len(s) /\ Len(s) \in Nat
  BY <1>1, LenProperties
<1> QED  BY <1>1, <1>2

\* A conditional UPDATE of one row's status touches that row alone.
LEMMA UpdatedRow ==
    ASSUME NEW s \in Seq(Row), NEW a \in DOMAIN s, NEW st \in Status
    PROVE  LET t == [s EXCEPT ![a].status = st]
           IN  /\ t \in Seq(Row) /\ DOMAIN t = DOMAIN s
               /\ \A i \in DOMAIN s \ {a} : t[i] = s[i]
               /\ t[a].status = st /\ SameGrant(t[a], s[a])
<1> DEFINE x == [s[a] EXCEPT !.status = st]
<1>1. s[a] \in Row  BY ElementOfSeq, LenProperties
<1>2. x \in Row /\ x.status = st /\ SameGrant(x, s[a])  BY <1>1 DEF Row, SameGrant
<1>3. [s EXCEPT ![a] = x] \in Seq(Row)  BY <1>2, ExceptSeq, LenProperties
<1>4. [s EXCEPT ![a].status = st] = [s EXCEPT ![a] = x]  OBVIOUS
<1> QED  BY <1>2, <1>3, <1>4

(***************************************************************************)
(* Type correctness.                                                       *)
(***************************************************************************)
\* Every API call on the assignment table keeps the tables typed: a granted
\* row names an existing role and has the shape its scope asks for.
LEMMA AssignmentStepTyped ==
    ASSUME TypeOK, NEW by \in Actors, AssignmentStep(by)
    PROVE  TypeOK'
<1> USE DEF TypeOK
<1>1. ASSUME NEW u \in Users, NEW r \in Roles, NEW level \in Levels \cup {None},
             NEW scope \in Nodes \cup {None}, NEW w \in Windows,
             Grant(by, u, r, level, scope, w)
      PROVE  TypeOK'
  <2> DEFINE x == [user |-> u, role |-> r, level |-> level, scope |-> scope,
                   status |-> "ACTIVE", from |-> w[1], until |-> w[2]]
  <2>1. w[1] \in Time /\ w[2] \in Time
    BY InputAssumption
  <2>2. x \in Row /\ x.role = r
    BY <2>1 DEF Row, Status
  <2>3. RowShape(x)
    <3>1. CASE scope = None  BY <1>1, <3>1 DEF Grant, GrantLevel, RowShape
    <3>2. CASE scope # None
      BY <1>1, <3>2 DEF Grant, GrantLevel, SelectsNode, RowShape
    <3> QED  BY <3>1, <3>2
  <2>4. rows' = Append(rows, x)  BY <1>1 DEF Grant
  <2>5. /\ rows' \in Seq(Row)
        /\ \A a \in Rows' : (a \in Rows /\ rows'[a] = rows[a]) \/ rows'[a] = x
    BY <2>2, <2>4, AppendedRow DEF Rows
  <2>6. r \in catalog /\ UNCHANGED <<hostVars, catalog, role>>
    BY <1>1 DEF Grant
  <2> HIDE DEF x
  <2>7. \A a \in Rows' : RowShape(rows'[a]) /\ rows'[a].role \in catalog
    BY <2>2, <2>3, <2>5, <2>6
  <2> QED  BY <2>5, <2>6, <2>7 DEF hostVars, RowShape, Rows
<1>2. ASSUME NEW a \in Rows, NEW st \in Status, NEW from, Transition(a, from, st)
      PROVE  TypeOK'
  <2>1. rows' = [rows EXCEPT ![a].status = st] /\ UNCHANGED <<hostVars, catalog, role>>
    BY <1>2 DEF Transition
  <2>2. /\ rows' \in Seq(Row) /\ DOMAIN rows' = Rows
        /\ \A b \in Rows : rows'[b] = rows[b] \/ SameGrant(rows'[b], rows[b])
    BY <2>1, UpdatedRow DEF Rows
  <2>3. \A b \in Rows : RowShape(rows'[b]) /\ rows'[b].role \in catalog
    BY <2>2 DEF SameGrant, RowShape
  <2> QED  BY <2>1, <2>2, <2>3 DEF hostVars, RowShape, Rows
<1>3. ASSUME NEW a \in Rows, Suspend(by, a) \/ Reactivate(by, a) \/ Revoke(by, a)
      PROVE  TypeOK'
  BY <1>2, <1>3 DEF Suspend, Reactivate, Revoke, Status
<1> QED  BY <1>1, <1>3 DEF AssignmentStep

\* RoleService keeps the catalog typed: a role has an owner level exactly when
\* it has an owner, and no role with assignments leaves the catalog.
LEMMA RoleStepTyped ==
    ASSUME TypeOK, NEW by \in Actors, RoleEdit(by) \/ RoleMove(by)
    PROVE  TypeOK'
<1> USE DEF TypeOK
<1>1. ASSUME NEW r \in Roles, NEW x \in RoleRecord, RoleShape(x),
             role' = [role EXCEPT ![r] = x], UNCHANGED <<hostVars, rows>>,
             catalog' \in {catalog, catalog \cup {r}}
      PROVE  TypeOK'
  BY <1>1 DEF hostVars, RoleShape, Rows
<1>2. ASSUME NEW r \in Roles, NEW name \in Names, NEW owner \in Nodes \cup {None},
             NEW level \in ModeledLevels \cup {None}, NEW ps \in PermissionSets,
             CreateRole(by, r, name, owner, level, ps)
      PROVE  TypeOK'
  <2> DEFINE x == [name |-> name, owner |-> owner, ownerLevel |-> level, perms |-> ps]
  <2>1. x \in RoleRecord  BY InputAssumption DEF RoleRecord
  <2>2. RoleShape(x)
    BY <1>2, NoneAssumption DEF CreateRole, OwnerLevel, SelectsNode, RoleShape, Levels
  <2> QED  BY <1>1, <1>2, <2>1, <2>2 DEF CreateRole
<1>3. ASSUME NEW r \in Roles, NEW name \in Names, NEW owner \in Nodes \cup {None},
             NEW level \in ModeledLevels \cup {None}, UpdateRole(by, r, name, owner, level)
      PROVE  TypeOK'
  <2> DEFINE x == [role[r] EXCEPT !.name = name, !.owner = owner, !.ownerLevel = level]
  <2>1. x \in RoleRecord /\ x.owner = owner /\ x.ownerLevel = level
    BY DEF RoleRecord
  <2>2. RoleShape(x)
    BY <1>3, <2>1, NoneAssumption DEF UpdateRole, OwnerLevel, SelectsNode, RoleShape, Levels
  <2>3. role' = [role EXCEPT ![r] = x]  BY <1>3 DEF UpdateRole, RoleRecord
  <2> QED  BY <1>1, <1>3, <2>1, <2>2, <2>3 DEF UpdateRole
<1>4. ASSUME NEW r \in Roles, NEW ps \in PermissionSets,
             GrantPermissions(by, r, ps) \/ RevokePermissions(by, r, ps)
      PROVE  TypeOK'
  <2>1. PICK q \in SUBSET Permissions : role' = [role EXCEPT ![r].perms = q]
    <3>1. /\ role[r].perms \cup ps \in SUBSET Permissions
          /\ role[r].perms \ ps \in SUBSET Permissions
      BY InputAssumption DEF RoleRecord
    <3>2. \/ role' = [role EXCEPT ![r].perms = role[r].perms \cup ps]
          \/ role' = [role EXCEPT ![r].perms = role[r].perms \ ps]
      BY <1>4 DEF GrantPermissions, RevokePermissions
    <3> QED  BY <3>1, <3>2
  <2> DEFINE x == [role[r] EXCEPT !.perms = q]
  <2>2. x \in RoleRecord /\ RoleShape(x)
    BY DEF RoleRecord, RoleShape
  <2>3. role' = [role EXCEPT ![r] = x]  BY <2>1 DEF RoleRecord
  <2>4. UNCHANGED <<hostVars, catalog, rows>>
    BY <1>4 DEF GrantPermissions, RevokePermissions
  <2> QED  BY <1>1, <2>2, <2>3, <2>4
<1>5. ASSUME NEW r \in Roles, DeleteRole(by, r)
      PROVE  TypeOK'
  BY <1>5 DEF DeleteRole, hostVars, Rows
<1> QED  BY <1>2, <1>3, <1>4, <1>5 DEF RoleEdit, RoleMove

\* The host and the clock keep their own variables typed and leave the
\* authorization tables alone.
LEMMA HostStepTyped ==
    ASSUME TypeOK, HostStep \/ Tick
    PROVE  TypeOK'
<1> USE DEF TypeOK, Rows
<1>1. ASSUME NEW u \in Switchable, SetActive(u)
      PROVE  TypeOK'
  BY <1>1, HierarchyAssumption DEF SetActive
<1>2. ASSUME NEW n \in Deletable, DeleteNode(n)
      PROVE  TypeOK'
  BY <1>2 DEF DeleteNode
<1>3. ASSUME NEW n \in Nodes, NEW p \in Parents[n], MoveNode(n, p)
      PROVE  TypeOK'
  <2>1. p \in Nodes \cup {None}  BY <1>3 DEF MoveNode
  <2> QED  BY <1>3, <2>1 DEF MoveNode
<1>4. ASSUME NEW n \in Nodes, NEW levels \in Kinds[n], Reclassify(n, levels)
      PROVE  TypeOK'
  <2>1. levels \in SUBSET ModeledLevels  BY HierarchyAssumption
  <2> QED  BY <1>4, <2>1 DEF Reclassify
<1>5. ASSUME Tick
      PROVE  TypeOK'
  BY <1>5 DEF Tick
<1> QED  BY <1>1, <1>2, <1>3, <1>4, <1>5 DEF HostStep

\* A step that changes nothing keeps the tables typed.
LEMMA StutterTyped ==
    ASSUME TypeOK, UNCHANGED db
    PROVE  TypeOK'
BY DEF TypeOK, db, Rows

\* TypeOK: the tables of every reachable state have the types, the row shape
\* and the foreign keys the validators and constraints promise.
THEOREM TypeCorrect == Spec => []TypeOK
<1>1. Init => TypeOK
  BY HierarchyAssumption, TablesAssumption DEF Init, TypeOK, Rows
<1>2. TypeOK /\ [Next]_db => TypeOK'
  BY AssignmentStepTyped, RoleStepTyped, HostStepTyped, StutterTyped
     DEF Next, ApiStep
<1> QED  BY <1>1, <1>2, PTL DEF Spec

(***************************************************************************)
(* The hierarchy.                                                          *)
(***************************************************************************)
\* iter_ancestors yields the node itself, and only nodes.
LEMMA AncestorsReflexive ==
    ASSUME NEW n \in Nodes
    PROVE  n \in Ancestors(n) /\ Ancestors(n) \subseteq Nodes
BY DEF Ancestors

\* An ancestor of an ancestor is an ancestor.
LEMMA AncestorsTransitive ==
    ASSUME NEW l, NEW m, NEW n, l \in Ancestors(m), m \in Ancestors(n)
    PROVE  l \in Ancestors(n)
<1>1. l \in Nodes /\ m \in Nodes  BY DEF Ancestors
<1>2. ASSUME NEW S \in SUBSET (Nodes \ {l}), n \in S, Closed(S)
      PROVE  FALSE
  <2>1. m \in S
    <3>1. SUFFICES ASSUME m \notin S PROVE FALSE  OBVIOUS
    <3>2. S \in SUBSET (Nodes \ {m})  BY <3>1
    <3> QED  BY <1>2, <3>2 DEF Ancestors
  <2> QED  BY <1>2, <2>1 DEF Ancestors
<1> QED  BY <1>1, <1>2 DEF Ancestors

\* A grant at node n (or at None, the root) reaches target t: the shape of
\* covers() with the assignment left out.
Spans(n, t) ==
    /\ t # UNREGISTERED
    /\ t = GLOBAL \/ n = None \/ (t \in Nodes /\ n \in Ancestors(t))

\* covers() depends on the assignment through its scope alone.
LEMMA CoversIsSpans ==
    ASSUME NEW a, NEW t
    PROVE  Covers(a, t) <=> Spans(rows[a].scope, t)
BY DEF Covers, Spans, IsRootScope

\* A grant that covers a node covers the targets below it from any ancestor.
LEMMA SpansDown ==
    ASSUME NEW m, NEW n \in Nodes, NEW t, m \in Ancestors(n), Spans(n, t)
    PROVE  Spans(m, t)
BY AncestorsTransitive, NoneAssumption DEF Spans

\* Coverage is transitive.
LEMMA SpansFromAbove ==
    ASSUME NEW l, NEW n \in Nodes, NEW t, Spans(l, n), Spans(n, t)
    PROVE  Spans(l, t)
BY AncestorsTransitive, NoneAssumption, AnchorAssumption DEF Spans

\* DownwardCoverage: what a user holds at a node they hold below it.
THEOREM CoverageFlowsDown == Spec => []DownwardCoverage
<1>1. ASSUME TypeOK, NEW n \in nodes, NEW m \in nodes \cap Ancestors(n), NEW u \in Users
      PROVE  UserPermissions(u, m) \subseteq UserPermissions(u, n)
  <2>1. m \in Nodes /\ n \in Nodes  BY <1>1 DEF TypeOK
  <2>2. Spans(m, n)  BY <2>1, AnchorAssumption DEF Spans
  <2>3. \A a \in Authority(u) : Covers(a, m) => Covers(a, n)
    BY <2>1, <2>2, CoversIsSpans, SpansFromAbove
  <2> QED  BY <2>3 DEF UserPermissions
<1>2. TypeOK => DownwardCoverage  BY <1>1 DEF DownwardCoverage
<1> QED  BY <1>2, TypeCorrect, PTL

\* A valid assignment of a custom role has its scope in the owner's subtree.
LEMMA ValidCustomAssignment ==
    ASSUME TypeOK, NEW a \in Rows, IsValid(a), role[rows[a].role].owner # None
    PROVE  /\ role[rows[a].role].owner \in nodes
           /\ rows[a].scope \in nodes
           /\ role[rows[a].role].owner \in Ancestors(rows[a].scope)
BY DEF IsValid, RoleAssignable, OwnerAdmits, SelectsNode

\* CustomRoleConfined: custom roles confer nothing outside their owner's
\* subtree, whatever happened to role and hierarchy after the grant.
THEOREM CustomRolesStayConfined == Spec => []CustomRoleConfined
<1>1. ASSUME TypeOK, NEW a \in Rows, NEW t \in Targets \ {GLOBAL},
             role[rows[a].role].owner # None, Conferred(a, t) # {}
      PROVE  t \in Nodes /\ role[rows[a].role].owner \in nodes \cap Ancestors(t)
  <2>1. IsValid(a) /\ Spans(rows[a].scope, t)
    BY <1>1, CoversIsSpans DEF Conferred
  <2>2. /\ role[rows[a].role].owner \in nodes
        /\ rows[a].scope \in nodes
        /\ role[rows[a].role].owner \in Ancestors(rows[a].scope)
    BY <1>1, <2>1, ValidCustomAssignment
  <2>3. rows[a].scope # None  BY <1>1, <2>2, NoneAssumption DEF TypeOK
  <2>4. t \in Nodes /\ rows[a].scope \in Ancestors(t)
    BY <2>1, <2>3 DEF Spans
  <2> QED  BY <2>2, <2>4, AncestorsTransitive
<1>2. TypeOK => CustomRoleConfined  BY <1>1 DEF CustomRoleConfined
<1> QED  BY <1>2, TypeCorrect, PTL

(***************************************************************************)
(* What a step leaves alone.                                               *)
(***************************************************************************)
\* No API call touches the host's variables, so the walk is the same after it.
LEMMA AncestorsFrame ==
    ASSUME UNCHANGED hostVars, NEW n
    PROVE  Ancestors(n)' = Ancestors(n)
BY DEF hostVars, Ancestors, Closed

\* A row that keeps its user, role, level and scope, and whose role keeps its
\* owner, is as valid, and covers the same targets, as before.
LEMMA ValidityFrame ==
    ASSUME UNCHANGED hostVars, NEW a, NEW t, SameGrant(rows'[a], rows[a]),
           role'[rows[a].role].owner = role[rows[a].role].owner
    PROVE  /\ IsValid(a)' <=> IsValid(a)
           /\ Covers(a, t)' <=> Covers(a, t)
<1>1. /\ parent' = parent /\ nodes' = nodes /\ kind' = kind
      /\ rows'[a].role = rows[a].role /\ rows'[a].level = rows[a].level
      /\ rows'[a].scope = rows[a].scope
  BY DEF hostVars, SameGrant
<1>2. Covers(a, t)' <=> Covers(a, t)
  BY <1>1 DEF Covers, IsRootScope, Ancestors, Closed
<1>3. ScopeIsValid(a)' <=> ScopeIsValid(a)
  BY <1>1 DEF ScopeIsValid, IsRootScope, SelectsNode
<1>4. RoleAssignable(rows[a].role, rows[a].level, rows[a].scope)'
        <=> RoleAssignable(rows[a].role, rows[a].level, rows[a].scope)
  BY <1>1 DEF RoleAssignable, OwnerAdmits, SelectsNode, Ancestors, Closed
<1> QED  BY <1>2, <1>3, <1>4 DEF IsValid

\* What an assignment confers changes only with its row, its role or the hierarchy.
LEMMA ConferredFrame ==
    ASSUME UNCHANGED hostVars, NEW a \in Rows, a \in Rows', NEW t,
           rows'[a] = rows[a], role'[rows[a].role] = role[rows[a].role]
    PROVE  Conferred(a, t)' = Conferred(a, t)
<1>1. (IsValid(a)' <=> IsValid(a)) /\ (Covers(a, t)' <=> Covers(a, t))
  BY ValidityFrame DEF SameGrant
<1> QED  BY <1>1 DEF Conferred, RolePerms

(***************************************************************************)
(* Live assignments are unique.                                            *)
(***************************************************************************)
\* LiveAssignmentsAreUnique: at most one non-revoked assignment per user,
\* role, level and scope, through every suspension and reactivation.
THEOREM LiveUnique == Spec => []LiveAssignmentsAreUnique
<1>1. Init => LiveAssignmentsAreUnique
  BY TablesAssumption DEF Init, LiveAssignmentsAreUnique, Rows
<1>2. ASSUME TypeOK, LiveAssignmentsAreUnique, [Next]_db
      PROVE  LiveAssignmentsAreUnique'
  <2> USE <1>2 DEF LiveAssignmentsAreUnique
  <2>1. ASSUME UNCHANGED rows
        PROVE  LiveAssignmentsAreUnique'
    BY <2>1 DEF Rows, SameGrant
  <2>2. ASSUME NEW by \in Actors, NEW u \in Users, NEW r \in Roles,
               NEW level \in Levels \cup {None}, NEW scope \in Nodes \cup {None},
               NEW w \in Windows, Grant(by, u, r, level, scope, w)
        PROVE  LiveAssignmentsAreUnique'
    <3> DEFINE x == [user |-> u, role |-> r, level |-> level, scope |-> scope,
                     status |-> "ACTIVE", from |-> w[1], until |-> w[2]]
    <3>1. x \in Row  BY InputAssumption DEF Row, Status
    <3>2. rows' = Append(rows, x)  BY <2>2 DEF Grant
    <3>3. \A a \in Rows : rows[a].status # "REVOKED" => ~SameGrant(rows[a], x)
      BY <2>2 DEF Grant, DuplicatesLive
    <3> HIDE DEF x
    <3>4. /\ Rows' = Rows \cup {Len(rows) + 1} /\ Len(rows) + 1 \notin Rows
          /\ \A a \in Rows : rows'[a] = rows[a]
          /\ rows'[Len(rows) + 1] = x
      BY <3>1, <3>2, AppendedRow DEF Rows, TypeOK
    <3> QED  BY <3>3, <3>4 DEF SameGrant
  <2>3. ASSUME NEW a \in Rows, NEW st \in Status, NEW from, "REVOKED" \notin from,
               Transition(a, from, st)
        PROVE  LiveAssignmentsAreUnique'
    <3>1. /\ Rows' = Rows
          /\ \A b \in Rows \ {a} : rows'[b] = rows[b]
          /\ SameGrant(rows'[a], rows[a])
      BY <2>3, UpdatedRow DEF Transition, TypeOK, Rows
    <3>2. rows[a].status # "REVOKED"  BY <2>3 DEF Transition
    <3> QED  BY <3>1, <3>2 DEF SameGrant
  <2>4. ASSUME NEW by \in Actors, NEW a \in Rows,
               Suspend(by, a) \/ Reactivate(by, a) \/ Revoke(by, a)
        PROVE  LiveAssignmentsAreUnique'
    BY <2>3, <2>4 DEF Suspend, Reactivate, Revoke, Status
  <2>5. ASSUME NEW by \in Actors, RoleEdit(by) \/ RoleMove(by)
        PROVE  UNCHANGED rows
    BY <2>5 DEF RoleEdit, RoleMove, CreateRole, UpdateRole, DeleteRole,
                GrantPermissions, RevokePermissions
  <2>6. ASSUME HostStep \/ Tick \/ UNCHANGED db
        PROVE  UNCHANGED rows
    BY <2>6 DEF HostStep, SetActive, DeleteNode, MoveNode, Reclassify, Tick, db
  <2> QED  BY <2>1, <2>2, <2>4, <2>5, <2>6 DEF Next, ApiStep, AssignmentStep
<1> QED  BY <1>1, <1>2, TypeCorrect, PTL DEF Spec

(***************************************************************************)
(* Delegation is bounded by the actor's own authority.                     *)
(***************************************************************************)
\* What an actor holds at n it holds on everything n reaches.
LEMMA HeldSpans ==
    ASSUME NEW by \in active, NEW n \in Nodes \cup {None}, NEW p \in Held(by, n),
           NEW t, Spans(n, t)
    PROVE  p \in UserPermissions(by, t)
<1>1. PICK a \in Authority(by) : p \in RolePerms(a) /\ Spans(rows[a].scope, t)
  <2>1. CASE n = None
    BY <2>1 DEF Held, RootPermissions, IsRootScope, Spans
  <2>2. CASE n # None
    <3>1. n \in Nodes /\ p \in UserPermissions(by, n)  BY <2>2 DEF Held
    <3>2. PICK a \in Authority(by) : p \in RolePerms(a) /\ Covers(a, n)
      BY <3>1 DEF UserPermissions
    <3> QED  BY <3>1, <3>2, CoversIsSpans, SpansFromAbove
  <2> QED  BY <2>1, <2>2
<1>2. Covers(a, t)  BY <1>1, CoversIsSpans
<1> QED  BY <1>1, <1>2 DEF UserPermissions

\* What the policy lets an actor grant at n it could delegate on everything
\* a grant at n reaches.
LEMMA GrantableSpans ==
    ASSUME NEW by \in active \ SuperUsers, NEW n \in Nodes \cup {None},
           NEW p \in Permissions, NEW t, Grantable(by, n, p), Spans(n, t)
    PROVE  p \in Delegable(by, t)
<1>1. CASE Policy = "any"
  BY <1>1 DEF Delegable
<1>2. CASE Policy = "list"
  BY <1>2 DEF Delegable, Grantable
<1>3. CASE Policy = "self"
  <2>1. p \in UserPermissions(by, t)
    BY <1>3, HeldSpans DEF Grantable
  <2> QED  BY <1>3, <2>1 DEF Delegable
<1> QED  BY <1>1, <1>2, <1>3, PolicyAssumption

\* Who may manage at a node may manage below it, and who may without a node
\* may everywhere: assignments (can_manage_assignment), the permissions of a
\* role (can_grant_permission) and, of the owner's nodes only, the roles
\* (can_manage_role: a system role asks for another permission).
THEOREM ManagementFlowsDown ==
    Spec => [](\A by \in Users, n \in Nodes \cup {None}, m \in nodes :
                  Spans(n, m) =>
                      /\ CanManageAssignment(by, n) => CanManageAssignment(by, m)
                      /\ n # None /\ CanManageRole(by, n) => CanManageRole(by, m)
                      /\ \A p : CanGrantPermission(by, n, p) => CanGrantPermission(by, m, p))
<1> DEFINE FlowsDown(by, n, m) ==
      /\ CanManageAssignment(by, n) => CanManageAssignment(by, m)
      /\ n # None /\ CanManageRole(by, n) => CanManageRole(by, m)
      /\ \A p : CanGrantPermission(by, n, p) => CanGrantPermission(by, m, p)
<1>1. ASSUME TypeOK, NEW by \in Users, NEW n \in Nodes \cup {None}, NEW m \in nodes,
             Spans(n, m)
      PROVE  FlowsDown(by, n, m)
  <2>1. m \in Nodes /\ m # None  BY <1>1, NoneAssumption DEF TypeOK
  <2>2. ASSUME by \in active, NEW p \in Held(by, n)  PROVE p \in Held(by, m)
    <3>1. p \in UserPermissions(by, m)  BY <1>1, <2>2, HeldSpans
    <3> QED  BY <2>1, <3>1 DEF Held
  <2>3. CanManageAssignment(by, n) => CanManageAssignment(by, m)
    BY <2>1, <2>2 DEF CanManageAssignment, HasPerm, Held
  <2>4. n # None /\ CanManageRole(by, n) => CanManageRole(by, m)
    BY <2>1, <2>2 DEF CanManageRole, OwnerResolves, HasPerm, Held
  <2>5. \A p : CanGrantPermission(by, n, p) => CanGrantPermission(by, m, p)
    BY <2>1, <2>2 DEF CanGrantPermission, OwnerResolves, Grantable
  <2> QED  BY <2>3, <2>4, <2>5
<1> HIDE DEF FlowsDown
<1>2. TypeOK => \A by \in Users, n \in Nodes \cup {None}, m \in nodes :
                    Spans(n, m) => FlowsDown(by, n, m)
  BY <1>1
<1>3. TypeOK => \A by \in Users, n \in Nodes \cup {None}, m \in nodes :
                    Spans(n, m) =>
                      /\ CanManageAssignment(by, n) => CanManageAssignment(by, m)
                      /\ n # None /\ CanManageRole(by, n) => CanManageRole(by, m)
                      /\ \A p : CanGrantPermission(by, n, p) => CanGrantPermission(by, m, p)
  BY <1>2 DEF FlowsDown
<1> QED  BY <1>3, TypeCorrect, PTL

\* An assignment whose row and role are untouched by an API call gains
\* nothing.
LEMMA UntouchedGainsNothing ==
    ASSUME UNCHANGED hostVars, NEW a \in Rows, a \in Rows', NEW t,
           rows'[a] = rows[a], role'[rows[a].role] = role[rows[a].role]
    PROVE  Gained(a, t) = {}
BY ConferredFrame DEF Gained

\* grant(): R7 was checked at the scope of the row it appends.
LEMMA GrantGainsBounded ==
    ASSUME TypeOK, NEW by \in Actors \ SuperUsers, NEW u \in Users, NEW r \in Roles,
           NEW level \in Levels \cup {None}, NEW scope \in Nodes \cup {None},
           NEW w \in Windows, Grant(by, u, r, level, scope, w),
           NEW a \in Rows', NEW t \in Targets
    PROVE  Gained(a, t) \subseteq Delegable(by, t)
<1> DEFINE x == [user |-> u, role |-> r, level |-> level, scope |-> scope,
                 status |-> "ACTIVE", from |-> w[1], until |-> w[2]]
<1>1. x \in Row /\ x.role = r /\ x.scope = scope  BY InputAssumption DEF Row, Status
<1>2. rows' = Append(rows, x) /\ UNCHANGED hostVars /\ role' = role
  BY DEF Grant
<1> HIDE DEF x
<1>3. /\ Rows' = Rows \cup {Len(rows) + 1}
      /\ \A b \in Rows : rows'[b] = rows[b]
      /\ rows'[Len(rows) + 1] = x
  BY <1>1, <1>2, AppendedRow DEF TypeOK, Rows
<1>4. CASE a \in Rows
  <2>1. Gained(a, t) = {}  BY <1>2, <1>3, <1>4, UntouchedGainsNothing
  <2> QED  BY <2>1
<1>5. CASE a = Len(rows) + 1
  <2>1. SUFFICES ASSUME NEW p \in Gained(a, t) PROVE p \in Delegable(by, t)
    OBVIOUS
  <2>2. p \in role[r].perms /\ Covers(a, t)'
    BY <1>1, <1>2, <1>3, <1>5 DEF Gained, Conferred, RolePerms
  <2>3. Spans(scope, t)
    BY <1>1, <1>2, <1>3, <1>5, <2>2
       DEF Covers, IsRootScope, Spans, Ancestors, Closed, hostVars
  <2>4. by \in active \ SuperUsers /\ Grantable(by, scope, p)
    BY <2>2 DEF Grant, CanAssignRole
  <2>5. p \in Permissions  BY <2>2 DEF TypeOK, RoleRecord
  <2> QED  BY <2>3, <2>4, <2>5, GrantableSpans
<1> QED  BY <1>3, <1>4, <1>5

\* suspend() and revoke() give nobody anything; reactivate() checks R7 at the
\* scope of the row it restores.
LEMMA TransitionGainsBounded ==
    ASSUME TypeOK, NEW by \in Actors \ SuperUsers, NEW b \in Rows,
           Suspend(by, b) \/ Reactivate(by, b) \/ Revoke(by, b),
           NEW a \in Rows', NEW t \in Targets
    PROVE  Gained(a, t) \subseteq Delegable(by, t)
<1>1. PICK st \in Status : rows' = [rows EXCEPT ![b].status = st]
  BY DEF Suspend, Reactivate, Revoke, Transition, Status
<1>2. UNCHANGED hostVars /\ role' = role
  BY DEF Suspend, Reactivate, Revoke, Transition
<1>3. /\ Rows' = Rows
      /\ \A c \in Rows \ {b} : rows'[c] = rows[c]
      /\ rows'[b].status = st /\ SameGrant(rows'[b], rows[b])
  BY <1>1, UpdatedRow DEF TypeOK, Rows
<1>4. CASE a # b
  <2>1. Gained(a, t) = {}  BY <1>2, <1>3, <1>4, UntouchedGainsNothing
  <2> QED  BY <2>1
<1>5. CASE a = b /\ ~Reactivate(by, b)
  <2>1. PICK q \in {"SUSPENDED", "REVOKED"} : rows' = [rows EXCEPT ![b].status = q]
    BY <1>5 DEF Suspend, Revoke, Transition
  <2>2. rows'[b].status # "ACTIVE"
    BY <2>1, UpdatedRow DEF TypeOK, Rows, Status
  <2> QED  BY <1>5, <2>2 DEF Gained, Conferred
<1>6. CASE a = b /\ Reactivate(by, b)
  <2> DEFINE scope == rows[b].scope
  <2>1. SUFFICES ASSUME NEW p \in Gained(a, t) PROVE p \in Delegable(by, t)
    OBVIOUS
  <2>2. rows[b] \in Row  BY ElementOfSeq, LenProperties DEF TypeOK, Rows
  <2>3. p \in role[rows[b].role].perms /\ Covers(b, t)' /\ ScopeIsValid(b)'
    BY <1>2, <1>3, <1>6, <2>1 DEF Gained, Conferred, RolePerms, SameGrant, IsValid
  <2>4. Spans(scope, t)
    BY <1>2, <1>3, <2>3
       DEF Covers, IsRootScope, SameGrant, Spans, Ancestors, Closed, hostVars
  <2>5. ResolvedScope(b) = scope
    BY <1>2, <1>3, <2>2, <2>3, NoneAssumption
       DEF ScopeIsValid, IsRootScope, SelectsNode, ResolvedScope, SameGrant, hostVars, Row
  <2>6. by \in active \ SuperUsers /\ Grantable(by, scope, p)
    BY <1>6, <2>3, <2>5 DEF Reactivate, CanAssignRole
  <2>7. p \in Permissions /\ scope \in Nodes \cup {None}
    BY <2>2, <2>3 DEF TypeOK, RoleRecord, Row
  <2> QED  BY <2>4, <2>6, <2>7, GrantableSpans
<1> QED  BY <1>4, <1>5, <1>6

\* The owner of the role of a valid assignment is above everything the
\* assignment covers (and is None, above everything, for a system role).
LEMMA OwnerSpans ==
    ASSUME nodes \subseteq Nodes, NEW owner, NEW level, NEW scope, NEW t,
           OwnerAdmits(owner, level, scope), Spans(scope, t)
    PROVE  Spans(owner, t)
<1>1. CASE owner = None  BY <1>1 DEF Spans
<1>2. CASE owner # None
  <2>1. scope \in Nodes /\ owner \in Ancestors(scope)
    BY <1>2 DEF OwnerAdmits, SelectsNode
  <2> QED  BY <2>1, SpansDown
<1> QED  BY <1>1, <1>2

\* grant_permissions(): R5 was checked at the owner, which is above every
\* valid assignment of the role.
LEMMA PermissionGainsBounded ==
    ASSUME TypeOK, NEW by \in Actors \ SuperUsers, NEW r \in Roles,
           NEW ps \in PermissionSets,
           GrantPermissions(by, r, ps) \/ RevokePermissions(by, r, ps),
           NEW a \in Rows', NEW t \in Targets
    PROVE  Gained(a, t) \subseteq Delegable(by, t)
<1>1. UNCHANGED <<hostVars, rows>> /\ a \in Rows
  BY DEF GrantPermissions, RevokePermissions, Rows
<1>2. /\ role'[r].owner = role[r].owner
      /\ \A q \in Roles \ {r} : role'[q] = role[q]
  BY DEF GrantPermissions, RevokePermissions, TypeOK, RoleRecord
<1>3. CASE rows[a].role # r
  <2>1. rows[a].role \in Roles  BY <1>1 DEF TypeOK
  <2>2. Gained(a, t) = {}  BY <1>1, <1>2, <1>3, <2>1, UntouchedGainsNothing
  <2> QED  BY <2>2
<1>4. CASE rows[a].role = r
  <2>1. SUFFICES ASSUME NEW p \in Gained(a, t) PROVE p \in Delegable(by, t)
    OBVIOUS
  <2>2. /\ IsValid(a)' <=> IsValid(a)
        /\ Covers(a, t)' <=> Covers(a, t)
    BY <1>1, <1>2, <1>4, ValidityFrame DEF SameGrant
  <2>3. /\ IsValid(a) /\ Covers(a, t)
        /\ p \in role'[r].perms /\ p \notin role[r].perms
    BY <1>1, <1>4, <2>1, <2>2 DEF Gained, Conferred, RolePerms
  <2>4. GrantPermissions(by, r, ps) /\ p \in ps
    BY <2>3 DEF GrantPermissions, RevokePermissions, TypeOK, RoleRecord
  <2>5. by \in active /\ Grantable(by, role[r].owner, p)
    BY <2>3, <2>4 DEF GrantPermissions, CanGrantPermission
  <2>6. Spans(role[r].owner, t)
    <3>1. OwnerAdmits(role[r].owner, rows[a].level, rows[a].scope)
      BY <1>4, <2>3 DEF IsValid, RoleAssignable, OwnerAdmits
    <3>2. Spans(rows[a].scope, t)  BY <2>3, CoversIsSpans
    <3>3. nodes \subseteq Nodes  BY DEF TypeOK
    <3> QED  BY <3>1, <3>2, <3>3, OwnerSpans
  <2>7. p \in Permissions /\ role[r].owner \in Nodes \cup {None}
    BY <2>4, InputAssumption DEF TypeOK, RoleRecord
  <2> QED  BY <2>5, <2>6, <2>7, GrantableSpans
<1> QED  BY <1>3, <1>4

\* RoleService.create and delete touch no assignment: the role has none.
LEMMA CatalogGainsNothing ==
    ASSUME TypeOK, NEW by \in Actors, NEW r \in Roles,
           \/ DeleteRole(by, r)
           \/ \E name, owner, level, ps : CreateRole(by, r, name, owner, level, ps),
           NEW a \in Rows', NEW t
    PROVE  a \in Rows /\ Conferred(a, t)' = Conferred(a, t)
<1>1. UNCHANGED <<hostVars, rows>> /\ a \in Rows
  BY DEF CreateRole, DeleteRole, Rows
<1>2. role'[rows[a].role] = role[rows[a].role]
  BY <1>1 DEF TypeOK, CreateRole, DeleteRole
<1> QED  BY <1>1, <1>2, ConferredFrame

\* What ordinary actors make an assignment confer they could delegate.
LEMMA OrdinaryGainsBounded ==
    ASSUME TypeOK, NEW by \in Actors \ SuperUsers,
           AssignmentStep(by) \/ RoleEdit(by),
           NEW a \in Rows', NEW t \in Targets
    PROVE  Gained(a, t) \subseteq Delegable(by, t)
<1>1. CASE AssignmentStep(by)
  BY <1>1, GrantGainsBounded, TransitionGainsBounded DEF AssignmentStep
<1>2. CASE RoleEdit(by)
  <2>1. ASSUME NEW r \in Roles, NEW ps \in PermissionSets,
               GrantPermissions(by, r, ps) \/ RevokePermissions(by, r, ps)
        PROVE  Gained(a, t) \subseteq Delegable(by, t)
    BY <2>1, PermissionGainsBounded
  <2>2. ASSUME NEW r \in Roles,
               \/ DeleteRole(by, r)
               \/ \E name, owner, level, ps :
                      CreateRole(by, r, name, owner, level, ps)
        PROVE  Gained(a, t) \subseteq Delegable(by, t)
    BY <2>2, CatalogGainsNothing DEF Gained
  <2> QED  BY <1>2, <2>1, <2>2 DEF RoleEdit
<1> QED  BY <1>1, <1>2

\* NoEscalation (SPEC R5 and R7): no grant, transition or role edit makes any
\* assignment confer what its actor could not delegate.
THEOREM DelegationIsBounded == Spec => NoEscalation
<1>1. ASSUME TypeOK, [Next]_db, NEW by \in Actors \ SuperUsers, GainBeyond(by)
      PROVE  ~(AssignmentStep(by) \/ RoleEdit(by))
  BY <1>1, OrdinaryGainsBounded DEF GainBeyond, Rows
<1>2. TypeOK /\ [Next]_db =>
        [\A by \in Actors \ SuperUsers :
            GainBeyond(by) => ~(AssignmentStep(by) \/ RoleEdit(by))]_db
  BY <1>1
<1> QED  BY <1>2, TypeCorrect, PTL DEF Spec, NoEscalation

(***************************************************************************)
(* Coalitions.                                                             *)
(***************************************************************************)
\* The steps that leave superusers, the tree and the owners of roles aside:
\* what any number of ordinary managers can do together, while users come and
\* go, nodes are deleted and windows open and close.
OrdinaryStep ==
    \/ \E by \in Actors \ SuperUsers : AssignmentStep(by) \/ RoleEdit(by)
    \/ \E u \in Switchable : SetActive(u)
    \/ \E n \in Deletable : DeleteNode(n)
    \/ Tick

\* No assignment of anybody, in or outside its window, confers p at t.
Unheld(p, t) == \A a \in Rows : p \notin Conferred(a, t)

\* A permission that may be delegated by holding it alone.
HeldToDelegate(p) == Policy = "self" \/ (Policy = "list" /\ p \notin AllowList)

\* Who holds a permission at a target has an assignment that confers it.
LEMMA HoldersHaveAssignments ==
    ASSUME NEW p, NEW t, Unheld(p, t), NEW u
    PROVE  p \notin UserPermissions(u, t)
BY DEF Unheld, UserPermissions, Authority, Effective, Conferred

\* A deleted node takes authority away and gives none.
LEMMA DeletionConfersNothing ==
    ASSUME TypeOK, NEW n, DeleteNode(n), NEW a, NEW t
    PROVE  Conferred(a, t)' \subseteq Conferred(a, t)
<1>1. /\ nodes' \subseteq nodes
      /\ parent' = parent /\ kind' = kind /\ rows' = rows /\ role' = role
  BY DEF DeleteNode
<1>2. \A m : Ancestors(m)' = Ancestors(m)  BY <1>1 DEF Ancestors, Closed
<1>3. Covers(a, t)' <=> Covers(a, t)  BY <1>1, <1>2 DEF Covers, IsRootScope
<1>4. ScopeIsValid(a)' => ScopeIsValid(a)
  BY <1>1 DEF ScopeIsValid, IsRootScope, SelectsNode
<1>5. RoleAssignable(rows[a].role, rows[a].level, rows[a].scope)'
          => RoleAssignable(rows[a].role, rows[a].level, rows[a].scope)
  BY <1>1, <1>2 DEF RoleAssignable, OwnerAdmits, SelectsNode
<1>6. IsValid(a)' => IsValid(a)  BY <1>1, <1>4, <1>5 DEF IsValid
<1> QED  BY <1>1, <1>3, <1>6 DEF Conferred, RolePerms, Rows

\* Users who come and go and the clock change nothing that is conferred.
LEMMA ConferredByTables ==
    ASSUME UNCHANGED <<nodes, parent, kind, role, rows>>, NEW a, NEW t
    PROVE  Conferred(a, t)' = Conferred(a, t)
<1>1. \A m : Ancestors(m)' = Ancestors(m)  BY DEF Ancestors, Closed
<1>2. Covers(a, t)' <=> Covers(a, t)  BY <1>1 DEF Covers, IsRootScope
<1>3. IsValid(a)' <=> IsValid(a)
  BY <1>1 DEF IsValid, ScopeIsValid, IsRootScope, SelectsNode, RoleAssignable, OwnerAdmits
<1> QED  BY <1>2, <1>3 DEF Conferred, RolePerms, Rows

\* R5 and R7 over whole histories: a permission nobody has at a target cannot
\* be brought there by any number of ordinary managers in any number of calls,
\* from whatever state they begin.
THEOREM AuthorityIsNotConjured ==
    ASSUME NEW p \in Permissions, NEW t \in Targets, HeldToDelegate(p)
    PROVE  Spec => []((Unheld(p, t) /\ [][OrdinaryStep]_db) =>
               [](Unheld(p, t) /\ \A u \in Users \ SuperUsers : ~HasPerm(u, p, t)))
<1>1. ASSUME TypeOK, Unheld(p, t), [OrdinaryStep]_db  PROVE Unheld(p, t)'
  <2>1. ASSUME NEW by \in Actors \ SuperUsers, AssignmentStep(by) \/ RoleEdit(by),
               NEW a \in Rows'
        PROVE  p \notin Conferred(a, t)'
    <3>1. p \notin Delegable(by, t)
      BY <1>1, HoldersHaveAssignments DEF Delegable, HeldToDelegate
    <3>2. p \notin Gained(a, t)  BY <1>1, <2>1, <3>1, OrdinaryGainsBounded
    <3>3. p \notin Conferred(a, t)  BY <1>1 DEF Unheld, Conferred
    <3> QED  BY <3>2, <3>3 DEF Gained
  <2>2. ASSUME NEW n, DeleteNode(n)  PROVE Unheld(p, t)'
    <3>1. Rows' = Rows  BY <2>2 DEF DeleteNode, Rows
    <3> QED  BY <1>1, <2>2, <3>1, DeletionConfersNothing DEF Unheld
  <2>3. CASE UNCHANGED <<nodes, parent, kind, role, rows>>
    <3>1. Rows' = Rows  BY <2>3 DEF Rows
    <3> QED  BY <1>1, <2>3, <3>1, ConferredByTables DEF Unheld
  <2>4. (\E u \in Switchable : SetActive(u)) \/ Tick \/ UNCHANGED db
            => UNCHANGED <<nodes, parent, kind, role, rows>>
    BY DEF SetActive, Tick, db
  <2>5. CASE \E by \in Actors \ SuperUsers : AssignmentStep(by) \/ RoleEdit(by)
    BY <2>1, <2>5 DEF Unheld
  <2> QED  BY <1>1, <2>2, <2>3, <2>4, <2>5 DEF OrdinaryStep
<1>2. Unheld(p, t) => \A u \in Users \ SuperUsers : ~HasPerm(u, p, t)
  BY HoldersHaveAssignments DEF HasPerm
<1> QED  BY <1>1, <1>2, TypeCorrect, PTL

(***************************************************************************)
(* Management is confined to what the actor manages.                       *)
(***************************************************************************)
\* Who may manage assignments, or a role, at n manages everything n reaches.
LEMMA ManagesReach ==
    ASSUME NEW by, NEW n \in Nodes \cup {None}, NEW t, Spans(n, t),
           CanManageAssignment(by, n) \/ CanManageRole(by, n)
    PROVE  Manages(by, t)
<1>1. by \in active  BY DEF CanManageAssignment, CanManageRole
<1>2. CASE by \in SuperUsers  BY <1>1, <1>2 DEF Manages
<1>3. CASE by \notin SuperUsers /\ n = None
  <2>1. \/ ManageAssignments \in Held(by, n)
        \/ ManageGlobalRoles \in RootPermissions(by)
    BY <1>3 DEF CanManageAssignment, CanManageRole, Held
  <2> QED  BY <1>1, <2>1, HeldSpans DEF Manages, HasPerm
<1>4. CASE by \notin SuperUsers /\ n # None
  <2>1. ManageAssignments \in Held(by, n) \/ ManageRoles \in Held(by, n)
    BY <1>4 DEF CanManageAssignment, CanManageRole, HasPerm, Held
  <2> QED  BY <1>1, <2>1, HeldSpans DEF Manages, HasPerm
<1> QED  BY <1>2, <1>3, <1>4

\* grant(): the new row confers only below the scope its actor manages.
LEMMA GrantConfined ==
    ASSUME TypeOK, NEW by \in Actors, NEW u \in Users, NEW r \in Roles,
           NEW level \in Levels \cup {None}, NEW scope \in Nodes \cup {None},
           NEW w \in Windows, Grant(by, u, r, level, scope, w),
           NEW a \in Rows', NEW t, Conferred(a, t)' # Conferred(a, t)
    PROVE  Manages(by, t)
<1> DEFINE x == [user |-> u, role |-> r, level |-> level, scope |-> scope,
                 status |-> "ACTIVE", from |-> w[1], until |-> w[2]]
<1>1. x \in Row /\ x.scope = scope  BY InputAssumption DEF Row, Status
<1>2. rows' = Append(rows, x) /\ UNCHANGED hostVars /\ role' = role
      /\ CanManageAssignment(by, scope)
  BY DEF Grant
<1> HIDE DEF x
<1>3. /\ Rows' = Rows \cup {Len(rows) + 1} /\ Len(rows) + 1 \notin Rows
      /\ \A b \in Rows : rows'[b] = rows[b]
      /\ rows'[Len(rows) + 1] = x
  BY <1>1, <1>2, AppendedRow DEF TypeOK, Rows
<1>4. a \notin Rows  BY <1>2, <1>3, ConferredFrame
<1>5. rows'[a].scope = scope /\ Conferred(a, t) = {}
  BY <1>1, <1>3, <1>4 DEF Conferred
<1>6. Covers(a, t)'  BY <1>5 DEF Conferred
<1>7. Spans(scope, t)
  BY <1>2, <1>5, <1>6 DEF Covers, IsRootScope, Spans, Ancestors, Closed, hostVars
<1> QED  BY <1>2, <1>7, ManagesReach

\* Transitions: the row confers only below its scope, and a scope that no
\* longer resolves (managed globally) confers nothing before or after.
LEMMA TransitionConfined ==
    ASSUME TypeOK, NEW by \in Actors, NEW b \in Rows,
           Suspend(by, b) \/ Reactivate(by, b) \/ Revoke(by, b),
           NEW a \in Rows', NEW t, Conferred(a, t)' # Conferred(a, t)
    PROVE  Manages(by, t)
<1>1. PICK st \in Status : rows' = [rows EXCEPT ![b].status = st]
  BY DEF Suspend, Reactivate, Revoke, Transition, Status
<1>2. UNCHANGED hostVars /\ role' = role /\ CanManageAssignment(by, ResolvedScope(b))
  BY DEF Suspend, Reactivate, Revoke, Transition, MayTransition
<1>3. /\ Rows' = Rows
      /\ \A c \in Rows \ {b} : rows'[c] = rows[c]
      /\ SameGrant(rows'[b], rows[b])
  BY <1>1, UpdatedRow DEF TypeOK, Rows
<1>4. a = b  BY <1>2, <1>3, ConferredFrame
<1>5. IsValid(b) /\ Covers(b, t)
  <2>1. (IsValid(b)' <=> IsValid(b)) /\ (Covers(b, t)' <=> Covers(b, t))
    BY <1>2, <1>3, ValidityFrame
  <2> QED  BY <1>3, <1>4, <2>1 DEF Conferred
<1>6. rows[b].scope \in Nodes \cup {None}
  <2>1. rows[b] \in Row  BY ElementOfSeq, LenProperties DEF TypeOK, Rows
  <2> QED  BY <2>1 DEF Row
<1>7. ResolvedScope(b) = rows[b].scope
  BY <1>5, <1>6, NoneAssumption
     DEF IsValid, ScopeIsValid, IsRootScope, SelectsNode, ResolvedScope
<1>8. Spans(rows[b].scope, t)  BY <1>5, CoversIsSpans
<1> QED  BY <1>2, <1>6, <1>7, <1>8, ManagesReach

\* Permission edits: the role confers only below its owner.
LEMMA PermissionsConfined ==
    ASSUME TypeOK, NEW by \in Actors, NEW r \in Roles, NEW ps \in PermissionSets,
           GrantPermissions(by, r, ps) \/ RevokePermissions(by, r, ps),
           NEW a \in Rows', NEW t, Conferred(a, t)' # Conferred(a, t)
    PROVE  Manages(by, t)
<1>1. UNCHANGED <<hostVars, rows>> /\ a \in Rows /\ CanManageRole(by, role[r].owner)
  BY DEF GrantPermissions, RevokePermissions, Rows
<1>2. /\ role'[r].owner = role[r].owner
      /\ \A q \in Roles \ {r} : role'[q] = role[q]
  BY DEF GrantPermissions, RevokePermissions, TypeOK, RoleRecord
<1>3. rows[a].role = r
  <2>1. rows[a].role \in Roles  BY <1>1 DEF TypeOK
  <2> QED  BY <1>1, <1>2, <2>1, ConferredFrame
<1>4. IsValid(a) /\ Covers(a, t)
  <2>1. (IsValid(a)' <=> IsValid(a)) /\ (Covers(a, t)' <=> Covers(a, t))
    BY <1>1, <1>2, <1>3, ValidityFrame DEF SameGrant
  <2> QED  BY <1>1, <2>1 DEF Conferred
<1>5. Spans(role[r].owner, t)
  <2>1. OwnerAdmits(role[r].owner, rows[a].level, rows[a].scope)
    BY <1>3, <1>4 DEF IsValid, RoleAssignable, OwnerAdmits
  <2>2. Spans(rows[a].scope, t)  BY <1>4, CoversIsSpans
  <2>3. nodes \subseteq Nodes  BY DEF TypeOK
  <2> QED  BY <2>1, <2>2, <2>3, OwnerSpans
<1>6. role[r].owner \in Nodes \cup {None}  BY DEF TypeOK, RoleRecord
<1> QED  BY <1>1, <1>5, <1>6, ManagesReach

\* Owner moves: what the role confers changes below the old owner, which the
\* actor manages, or below the new one, which it manages too.
LEMMA MoveConfined ==
    ASSUME TypeOK, NEW by \in Actors, NEW r \in Roles, NEW name \in Names,
           NEW owner \in Nodes \cup {None}, NEW level \in ModeledLevels \cup {None},
           UpdateRole(by, r, name, owner, level),
           NEW a \in Rows', NEW t, Conferred(a, t)' # Conferred(a, t)
    PROVE  Manages(by, t)
<1>1. /\ UNCHANGED <<hostVars, rows>> /\ a \in Rows
      /\ CanManageRole(by, role[r].owner) /\ CanManageRole(by, owner)
  BY DEF UpdateRole, Rows
<1>2. /\ role'[r].owner = owner
      /\ \A q \in Roles \ {r} : role'[q] = role[q]
  BY DEF UpdateRole, TypeOK, RoleRecord
<1>3. rows[a].role = r
  <2>1. rows[a].role \in Roles  BY <1>1 DEF TypeOK
  <2> QED  BY <1>1, <1>2, <2>1, ConferredFrame
<1>4. nodes \subseteq Nodes /\ role[r].owner \in Nodes \cup {None}
  BY DEF TypeOK, RoleRecord
<1>5. CASE Conferred(a, t) # {}
  <2>1. IsValid(a) /\ Covers(a, t)  BY <1>5 DEF Conferred
  <2>2. OwnerAdmits(role[r].owner, rows[a].level, rows[a].scope)
    BY <1>3, <2>1 DEF IsValid, RoleAssignable, OwnerAdmits
  <2>3. Spans(rows[a].scope, t)  BY <2>1, CoversIsSpans
  <2>4. Spans(role[r].owner, t)  BY <1>4, <2>2, <2>3, OwnerSpans
  <2> QED  BY <1>1, <1>4, <2>4, ManagesReach
<1>6. CASE Conferred(a, t)' # {}
  <2>1. IsValid(a)' /\ Covers(a, t)'  BY <1>6 DEF Conferred
  <2>2. OwnerAdmits(owner, rows[a].level, rows[a].scope)
    BY <1>1, <1>2, <1>3, <2>1
       DEF IsValid, RoleAssignable, OwnerAdmits, SelectsNode, Ancestors, Closed, hostVars
  <2>3. Spans(rows[a].scope, t)
    BY <1>1, <2>1 DEF Covers, IsRootScope, Spans, Ancestors, Closed, hostVars
  <2>4. Spans(owner, t)  BY <1>4, <2>2, <2>3, OwnerSpans
  <2> QED  BY <1>1, <2>4, ManagesReach
<1> QED  BY <1>5, <1>6

\* ManagementIsConfined: an API call changes what assignments confer at a
\* target only if its actor manages assignments or roles there.
THEOREM TenantsAreIsolated == Spec => ManagementIsConfined
<1>1. ASSUME TypeOK, NEW by \in Actors, ApiStep(by), NEW a \in Rows',
             NEW t \in Targets, Conferred(a, t)' # Conferred(a, t)
      PROVE  Manages(by, t)
  <2>1. CASE AssignmentStep(by)
    BY <1>1, <2>1, GrantConfined, TransitionConfined DEF AssignmentStep
  <2>2. CASE RoleEdit(by)
    <3>1. ASSUME NEW r \in Roles,
                 \/ DeleteRole(by, r)
                 \/ \E name, owner, level, ps :
                        CreateRole(by, r, name, owner, level, ps)
          PROVE  FALSE
      BY <1>1, <3>1, CatalogGainsNothing
    <3> QED  BY <1>1, <2>2, <3>1, PermissionsConfined DEF RoleEdit
  <2>3. CASE RoleMove(by)
    BY <1>1, <2>3, MoveConfined DEF RoleMove
  <2> QED  BY <1>1, <2>1, <2>2, <2>3 DEF ApiStep
<1>2. TypeOK /\ [Next]_db =>
        [\A by \in Actors :
            (\E a \in DOMAIN rows', t \in Targets \ {GLOBAL} :
                Conferred(a, t)' # Conferred(a, t) /\ ~Manages(by, t))
            => ~ApiStep(by)]_db
  BY <1>1 DEF Rows
<1> QED  BY <1>2, TypeCorrect, PTL DEF Spec, ManagementIsConfined

=============================================================================
