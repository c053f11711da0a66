---------------------------- MODULE MutationGuards ----------------------------
(***************************************************************************)
(* The guards that keep host code from changing roles, their permissions   *)
(* and assignments without an actor (src/scoped_access/mutations.py,       *)
(* role_permissions.py, the querysets, save and delete of models.py).      *)
(* Three context variables say whether a service that has authorized its   *)
(* actor is at work; it opens a block around the statement it runs, and    *)
(* Django runs the host's receivers of pre_save, post_save and m2m_changed *)
(* inside the block.  Receivers may call services in turn, so that blocks  *)
(* nest; any of them may raise; and a task spawned inside a block starts   *)
(* with a copy of its context.                                             *)
(***************************************************************************)
EXTENDS Naturals, Sequences, FiniteSets

CONSTANTS
    Contexts,      \* execution contexts: threads, tasks, requests
    Roles, Perms,  \* primary keys of roles, permissions
    LinkKeys,      \* primary keys of RolePermission rows
    Keys,          \* primary keys of assignments
    Scopes,        \* what an assignment says besides its role and status
    Names,         \* what a role update changes
    Absent, None,  \* no such row; no primary key
    CopiesLoaded,  \* the host saves loaded instances under no primary key
    MaxDepth,      \* bound: blocks open in one context
    MaxRows        \* bound: assignments in the table

Areas == {"role", "permission", "assignment"}

Status == {"ACTIVE", "SUSPENDED", "REVOKED"}

Link == [role : Roles, permission : Perms]

\* The role stands for the foreign keys that have a related manager (role,
\* user), the scope for level, scope and window.  The audit fields, which the
\* lifecycle writes too, are left out.
Row == [role : Roles, scope : Scopes, status : Status]

\* status and _IMMUTABLE_ASSIGNMENT_FIELDS.
Protected == {"role", "scope", "status"}

\* What a statement gives the fields it names; the host's own are left out.
Values == {[f \in fields |-> row[f]] : fields \in SUBSET Protected, row \in Row}

ASSUME GuardAssumption ==
    /\ Absent \notin Names \cup Link \cup Row
    /\ None \notin Keys
    /\ CopiesLoaded \in BOOLEAN /\ MaxDepth \in Nat /\ MaxRows \in Nat

VARIABLES
    flag,       \* [Contexts -> areas whose context variable is True]
    blocks,     \* [Contexts -> the managed blocks open, the innermost last]
    inherited,  \* history: [Contexts -> areas open where it was spawned]
    roles,      \* [Roles -> name, or Absent]
    permissions, \* the rows of auth.Permission
    links,      \* [LinkKeys -> Link, or Absent]
    assignments \* [Keys -> Row, or Absent]

context == <<flag, blocks, inherited>>
tables == <<roles, permissions, links, assignments>>
vars == <<context, tables>>

Block == [area : Areas, token : BOOLEAN]

(***************************************************************************)
(* Managed blocks.                                                         *)
(***************************************************************************)
Reset(c, area, value) ==
    [flag EXCEPT ![c] = IF value THEN @ \cup {area} ELSE @ \ {area}]

Enter(c, area) ==
    /\ Len(blocks[c]) < MaxDepth
    /\ blocks' = [blocks EXCEPT
           ![c] = Append(@, [area |-> area, token |-> area \in flag[c]])]
    /\ flag' = Reset(c, area, TRUE)
    /\ UNCHANGED <<inherited, tables>>

\* Mutant: leaving a block clears the variable.
LeaveClearing(c) ==
    /\ blocks[c] # << >>
    /\ flag' = Reset(c, blocks[c][Len(blocks[c])].area, FALSE)
    /\ blocks' = [blocks EXCEPT ![c] = SubSeq(@, 1, Len(@) - 1)]
    /\ UNCHANGED <<inherited, tables>>

\* By return or by exception: finally resets the variable to its token.
Leave(c) ==
    /\ blocks[c] # << >>
    /\ LET innermost == blocks[c][Len(blocks[c])]
       IN  flag' = Reset(c, innermost.area, innermost.token)
    /\ blocks' = [blocks EXCEPT ![c] = SubSeq(@, 1, Len(@) - 1)]
    /\ UNCHANGED <<inherited, tables>>

\* A task takes a copy of the context it is created in; one that is done
\* makes room for the next request.
Spawn(c, d) ==
    /\ c # d /\ blocks[d] = << >>
    /\ flag' = [flag EXCEPT ![d] = flag[c]]
    /\ inherited' = [inherited EXCEPT ![d] = flag[c]]
    /\ UNCHANGED <<blocks, tables>>

Finish(c) ==
    /\ blocks[c] = << >>
    /\ flag' = [flag EXCEPT ![c] = {}]
    /\ inherited' = [inherited EXCEPT ![c] = {}]
    /\ UNCHANGED <<blocks, tables>>

\* Mutant: one context variable for all areas.
ManagedAtAll(c, area) == flag[c] # {}

Managed(c, area) == area \in flag[c]

(***************************************************************************)
(* Statements, by a service in its block or by host code anywhere.  One on *)
(* several rows is several steps: it asks its guard once, and no flag      *)
(* changes in it.                                                          *)
(***************************************************************************)
\* create, bulk_create, update, bulk_update and save of roles.
WriteRole(c, r, name) ==
    /\ Managed(c, "role")
    /\ roles' = [roles EXCEPT ![r] = name]
    /\ UNCHANGED <<context, permissions, links, assignments>>

\* What the deletion of these links by a cascade leaves.
LinksWithout(gone) ==
    [l \in LinkKeys |-> IF links[l] \in gone THEN Absent ELSE links[l]]

Unassigned(r) == \A k \in Keys : assignments[k] # Absent => assignments[k].role # r

\* Mutant: the permissions of a deleted role stay behind.
DeleteRoleAlone(c, r) ==
    /\ Managed(c, "role") /\ Unassigned(r)
    /\ roles' = [roles EXCEPT ![r] = Absent]
    /\ UNCHANGED <<context, permissions, links, assignments>>

\* delete of a role or a queryset of them: assignments PROTECT it, and its
\* permissions go with it (the cascade asks no guard).
DeleteRole(c, r) ==
    /\ Managed(c, "role") /\ Unassigned(r)
    /\ roles' = [roles EXCEPT ![r] = Absent]
    /\ links' = LinksWithout([role : {r}, permission : Perms])
    /\ UNCHANGED <<context, permissions, assignments>>

\* The foreign keys of a link lead somewhere and no other row is the same.
Admissible(l, link) ==
    /\ roles[link.role] # Absent /\ link.permission \in permissions
    /\ \A m \in LinkKeys \ {l} : links[m] # link

\* add, remove, set and clear of role.permissions; create, bulk_create,
\* update, bulk_update, save and delete of RolePermission.
WriteLink(c, l, link) ==
    /\ Managed(c, "permission")
    /\ link # Absent => Admissible(l, link)
    /\ links' = [links EXCEPT ![l] = link]
    /\ UNCHANGED <<context, roles, permissions, assignments>>

\* add and set of role.role_permissions and permission.scoped_role_permissions:
\* an UPDATE of the foreign key through _base_manager, which asks no guard.
RepointLink(l, link) ==
    /\ links[l] # Absent /\ Admissible(l, link)
    /\ link.role = links[l].role \/ link.permission = links[l].permission
    /\ links' = [links EXCEPT ![l] = link]
    /\ UNCHANGED <<context, roles, permissions, assignments>>

\* The host's permissions come with its models; deleting one takes its links
\* along, again without asking.
AddPermission(p) ==
    /\ permissions' = permissions \cup {p}
    /\ UNCHANGED <<context, roles, links, assignments>>

DropPermission(p) ==
    /\ permissions' = permissions \ {p}
    /\ links' = LinksWithout([role : Roles, permission : {p}])
    /\ UNCHANGED <<context, roles, assignments>>

Assign(k, values) ==
    /\ "role" \in DOMAIN values => roles[values.role] # Absent
    /\ assignments' = [assignments EXCEPT ![k] =
           [role   |-> IF "role" \in DOMAIN values THEN values.role ELSE @.role,
            scope  |-> IF "scope" \in DOMAIN values THEN values.scope ELSE @.scope,
            status |-> IF "status" \in DOMAIN values THEN values.status ELSE @.status]]

HasRoom == Cardinality({k \in Keys : assignments[k] # Absent}) < MaxRows

\* create and bulk_create of assignments.  With update_conflicts a row that has
\* the key is overwritten, in protected fields too: any row may come of it.
CreateAssignment(c, k, row) ==
    /\ Managed(c, "assignment") /\ roles[row.role] # Absent
    /\ assignments[k] # Absent \/ HasRoom
    /\ assignments' = [assignments EXCEPT ![k] = row]
    /\ UNCHANGED <<context, roles, permissions, links>>

\* update and bulk_update of assignments; delete always raises.
UpdateAssignment(k, values) ==
    /\ assignments[k] # Absent
    /\ DOMAIN values \cap Protected = {}
    /\ Assign(k, values)
    /\ UNCHANGED <<context, roles, permissions, links>>

\* update(id=...): the primary key is not among the immutable fields.
Rekey(k, j) ==
    /\ assignments[k] # Absent /\ assignments[j] = Absent
    /\ assignments' = [assignments EXCEPT ![k] = Absent, ![j] = assignments[k]]
    /\ UNCHANGED <<context, roles, permissions, links>>

\* add and set of role.assignments and user.scoped_assignments, as RepointLink.
RepointAssignment(k, r) ==
    /\ assignments[k] # Absent /\ roles[r] # Absent
    /\ assignments' = [assignments EXCEPT ![k].role = r]
    /\ UNCHANGED <<context, roles, permissions, links>>

\* Mutant: save without update_fields is taken for harmless.
SaveGuardNamedFields(c, pk, adding, named, values) ==
    /\ adding => Managed(c, "assignment")
    /\ (pk # None /\ named) => DOMAIN values \cap Protected = {}

\* Mutant: only persisted rows are protected.
SaveGuardPersisted(c, pk, adding, named, values) ==
    pk # None => named /\ DOMAIN values \cap Protected = {}

SaveGuard(c, pk, adding, named, values) ==
    /\ adding => Managed(c, "assignment")
    /\ pk # None => named /\ DOMAIN values \cap Protected = {}

\* save of an instance with these values in memory, all of them or those its
\* update_fields name.  Django inserts a row if there is no primary key, and
\* updates the one that has it otherwise.
SaveAssignment(c, pk, adding, named, values) ==
    /\ SaveGuard(c, pk, adding, named, values)
    /\ \/ /\ pk = None /\ ~named /\ roles[values.role] # Absent /\ HasRoom
          /\ \E k \in Keys : /\ assignments[k] = Absent
                             /\ assignments' = [assignments EXCEPT ![k] = values]
       \/ /\ pk \in Keys /\ assignments[pk] # Absent
          /\ Assign(pk, values)
    /\ UNCHANGED <<context, roles, permissions, links>>

\* _transition: the service's own conditional update.
Transition(k, from, to) ==
    /\ assignments[k] # Absent /\ assignments[k].status \in from
    /\ assignments' = [assignments EXCEPT ![k].status = to]
    /\ UNCHANGED <<context, roles, permissions, links>>

\* The instances host code holds: new ones, with or without a primary key,
\* loaded ones, and loaded ones it has taken the primary key from.
Instance(pk, adding) ==
    adding \/ (IF pk = None THEN CopiesLoaded ELSE assignments[pk] # Absent)

(***************************************************************************)
(* The system.                                                             *)
(***************************************************************************)
Init ==
    /\ flag = [c \in Contexts |-> {}]
    /\ blocks = [c \in Contexts |-> << >>]
    /\ inherited = [c \in Contexts |-> {}]
    /\ roles \in [Roles -> Names]
    /\ permissions = Perms
    /\ links = [l \in LinkKeys |-> Absent]
    /\ assignments = [k \in Keys |-> Absent]

ContextStep(c) ==
    \/ \E area \in Areas : Enter(c, area)
    \/ Leave(c)
    \/ \E d \in Contexts : Spawn(c, d)
    \/ Finish(c)

\* The statements that ask whether their area is managed.
Statement(c) ==
    \/ \E r \in Roles : \/ \E name \in Names : WriteRole(c, r, name)
                        \/ DeleteRole(c, r)
    \/ \E l \in LinkKeys, link \in Link \cup {Absent} : WriteLink(c, l, link)
    \/ \E k \in Keys, row \in Row : CreateAssignment(c, k, row)
    \/ \E pk \in Keys \cup {None}, adding, named \in BOOLEAN, values \in Values :
           /\ Instance(pk, adding) /\ (named \/ values \in Row)
           /\ SaveAssignment(c, pk, adding, named, values)

\* Those that do not.
Unasked ==
    \/ \E l \in LinkKeys, link \in Link : RepointLink(l, link)
    \/ \E p \in Perms : AddPermission(p) \/ DropPermission(p)
    \/ \E k \in Keys, values \in Values : UpdateAssignment(k, values)
    \/ \E k, j \in Keys : Rekey(k, j)
    \/ \E k \in Keys, r \in Roles : RepointAssignment(k, r)

Lifecycle ==
    \E k \in Keys : \/ Transition(k, {"ACTIVE"}, "SUSPENDED")
                    \/ Transition(k, {"SUSPENDED"}, "ACTIVE")
                    \/ Transition(k, {"ACTIVE", "SUSPENDED"}, "REVOKED")

Next == (\E c \in Contexts : ContextStep(c) \/ Statement(c)) \/ Unasked \/ Lifecycle

Spec == Init /\ [][Next]_vars

(***************************************************************************)
(* Properties.                                                             *)
(***************************************************************************)
\* The variables keep their types and the foreign keys lead somewhere: no
\* link or assignment outlives its role, nor a link its permission.
TypeOK ==
    /\ flag \in [Contexts -> SUBSET Areas]
    /\ blocks \in [Contexts -> Seq(Block)]
    /\ inherited \in [Contexts -> SUBSET Areas]
    /\ roles \in [Roles -> Names \cup {Absent}]
    /\ permissions \in SUBSET Perms
    /\ links \in [LinkKeys -> Link \cup {Absent}]
    /\ assignments \in [Keys -> Row \cup {Absent}]
    /\ \A l \in LinkKeys : links[l] # Absent =>
           roles[links[l].role] # Absent /\ links[l].permission \in permissions
    /\ \A k \in Keys : assignments[k] # Absent => roles[assignments[k].role] # Absent

\* The areas a context is entitled to change.
Open(c) ==
    {blocks[c][i].area : i \in DOMAIN blocks[c]} \cup inherited[c]

\* mutations.py and role_permissions.py: however blocks nest, and whichever
\* of them end by an exception, a context may change exactly the areas whose
\* blocks are open in it, or were where it was spawned.
GuardsFollowBlocks == \A c \in Contexts : flag[c] = Open(c)

Somewhere(area) == \E c \in Contexts : area \in Open(c)

\* docs/security.md, Threat 2, as far as the code keeps it: roles and their
\* permissions change only while a service that authorized an actor is at work
\* in some context.  Outside such blocks the links of a role or permission that
\* is deleted go with it, and a related manager may point one of the two ends
\* of a link elsewhere; no statement gives out a new link or takes one away.
RolesChangeInBlocks ==
    [][ /\ roles' # roles => Somewhere("role")
        /\ \A l \in LinkKeys : links'[l] # links[l] =>
               \/ Somewhere("permission")
               \/ /\ links[l] # Absent
                  /\ IF links'[l] = Absent
                     THEN \/ roles'[links[l].role] = Absent
                          \/ links[l].permission \notin permissions'
                     ELSE \/ links'[l].role = links[l].role
                          \/ links'[l].permission = links[l].permission ]_vars

\* docs/security.md, Threat 2: direct writes, "and related managers", are
\* blocked: a role gains a permission only in a permission block.
PermissionsAreAddedInBlocks ==
    [][ \A l \in LinkKeys :
            links'[l] \notin {links[l], Absent} => Somewhere("permission") ]_vars

Legal == {<<"ACTIVE", "SUSPENDED">>, <<"SUSPENDED", "ACTIVE">>,
          <<"ACTIVE", "REVOKED">>, <<"SUSPENDED", "REVOKED">>}

\* What may become of a row outside the blocks of a service: one step of the
\* lifecycle, or a related manager gives it to another role or user.
Continues(row, next) ==
    /\ next.scope = row.scope
    /\ \/ next.status = row.status
       \/ next.role = row.role /\ <<row.status, next.status>> \in Legal

\* Row k is found under key j after the step: its own, or one that was free
\* (update of the primary key), where it stays as it is.
FoundAt(k, j) ==
    /\ assignments'[j] # Absent
    /\ j # k => /\ assignments[j] = Absent /\ assignments'[k] = Absent
                /\ assignments'[j] = assignments[k]

\* docs/security.md, Threat 3, as far as the code keeps it: no assignment is
\* ever deleted, in a block or not; outside assignment blocks its scope and
\* window never change and its status only along the lifecycle, however
\* instances and querysets are saved, updated and deleted.
AuditTrailIsKept ==
    [][ \A k \in Keys : assignments[k] # Absent =>
            \E j \in Keys :
                /\ FoundAt(k, j)
                /\ \/ Somewhere("assignment")
                   \/ Continues(assignments[k], assignments'[j]) ]_vars

\* docs/security.md, Threat 3: "Direct mutations without managed context
\* tokens raise DirectAssignmentMutationError": a row is inserted only while
\* an assignment block is open.  One that only changes its key is not new.
AssignmentsStartInBlocks ==
    [][ \A k \in Keys :
            (assignments[k] = Absent /\ assignments'[k] # Absent) =>
                \/ Somewhere("assignment")
                \/ \E j \in Keys : /\ assignments[j] = assignments'[k]
                                   /\ assignments'[j] = Absent ]_vars

=============================================================================
