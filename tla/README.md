# A TLA+ verification of django-auth-with-scoped-access

The library answers one question for a Django application: may this user do
this, here? "Here" is a node of a hierarchy the host application owns
(organizations, departments, teams), and the answer follows from *assignments*
of *roles* to users at nodes. Around the decision stand an API with which
delegated managers change roles and assignments, a per-request memo, list
filters, step-up re-authentication, guards in the REST framework and the admin,
guards against direct ORM writes, and start-up checks. This directory models
those parts in TLA+, checks them with TLC on small deployments, and proves most
of what it checks with TLAPS for every deployment.

Paths below are relative to `src/`; `SPEC` is `src/SPEC.md`.

## 1. Inventory

| Part | State | Operations | What makes it correct |
|---|---|---|---|
| Authorization engine (`scoped_access/engine.py`) | none; reads the database | `has_perm`, `user_covers`, `user_permissions`, `role_visible` (R1), `role_assignable` (R2), `can_manage_role` (R4), `can_grant_permission` (R5), `can_assign_role` (R7), `access_summary` | authority flows down the tree and nowhere else; whatever no longer fits the hierarchy confers nothing |
| Assignment lifecycle (`models.py`) | assignment rows: user, role, level, scope, status, window | `grant`, `suspend`, `reactivate`, `revoke` | nobody hands out what they do not hold; one live row per identity; `REVOKED` is terminal; one event per change |
| Role management (`services.py`, `models.py`) | roles with owner and permissions | `create`, `update`, `delete`, `grant_permissions`, `revoke_permissions` | custom roles stay in their owner's subtree; nobody changes authority outside what they manage |
| Hierarchy and registry (`registry.py`) | configuration, host's tables | level and rank lookup, parent walk, anchors | the walk and the filters agree |
| Collection filtering (`engine.py`) | none | `accessible_nodes`, `scope_filter_q`, `visible_resources` | a list shows what the single decisions allow |
| Request cache (`cache.py`) | two context variables, commit callbacks | request blocks, lookups, invalidation | no answer from authority that was replaced or rolled back |
| ReAuth (`reauth/`) | a shared cache: tokens, generations, claims, use marks | `issue`, `consume` (two modes), `invalidate_all_for_user`, password receivers | a token verifies once; an invalidation is final; a good token is not lost |
| Signals (`signals.py`) | receivers of the host | sent inside the transaction | events and changes match |
| REST framework, admin (`drf/`, `admin.py`) | none of their own; the request's instance | object permission, write guard, filtered lists, form choices, bulk deletion | a client replaces only what it may change, by what it may save; lists and details agree |
| Mutation guards (`mutations.py`, `role_permissions.py`, `models.py`) | three context variables | managed blocks; raise on direct ORM writes | who writes outside a block can change only what the code leaves unguarded; no assignment row is ever deleted |
| Configuration, registry, checks (`conf.py`, `registry.py`, `checks.py`) | settings, anchors, global models | build, register, unregister, check | what the checks accept, the engine can work with |
| Backend (`backends.py`) | none | `has_perm`, `get_all_permissions` | it repeats the engine |
| Migrations, exceptions, exports | - | - | - |

How they interact: the management API asks the engine before every change,
locks the role row, writes, invalidates the request cache, registers an
`on_commit` invalidation and sends a signal, all in one `transaction.atomic`.
The engine reads through the request cache. The filters compile the engine's
rules to SQL. ReAuth shares nothing with the rest but the user; a password
save reaches it through `pre_save` and `post_save`. The host moves, reclassifies
and deletes nodes, and deactivates users, without telling the library. Viewsets
and the admin ask the engine at several moments of one request and hold no lock
in between. Every write of the management API runs inside a managed block, and
Django runs the host's receivers inside that block too.

What is hard here: sequences of legal calls by actors who each hold part of the
authority; host changes between a grant and a decision; two workers in
overlapping transactions; receivers that raise and workers that die; memoized
facts across savepoints and rollbacks; cache operations of concurrent token
requests, with entries that expire or are evicted; requests that read, check and
write at different moments; managed blocks that nest and end by exceptions; a new
hierarchy over the assignments of an old one. The hazards are listed with
their lines in `PROJECT.json`.

## 2. Modules

| Module | Models | Extends / uses |
|---|---|---|
| `ScopeEngine` | every decision, as state functions of the database | |
| `ScopedAccess` | the database changed by the management API, the host and the clock | `ScopeEngine` |
| `CollectionFilter` | list filters and the access summary, compared with the decisions | `ScopeEngine` |
| `ScopedWrites` | requests through viewsets and the admin, over the database of `ScopedAccess` | `ScopedAccess`, `CollectionFilter` |
| `AssignmentLifecycle` | abstract: status changes, permissions, events | |
| `AssignmentTransactions` | the statements, locks and failures behind the calls | implements `AssignmentLifecycle` |
| `RequestCache` | the memo over transactions | |
| `StepUp` | abstract: what step-up re-authentication promises | |
| `ReAuth` | the token service, one cache operation per step | implements `StepUp` |
| `MutationGuards` | the context variables, every guarded statement and those that pass the guards by | |
| `Configuration` | settings, registry and checks over successive deployments | |
| `MC...` | small deployments for TLC | the module named |
| `...Proofs` | theorems about the module named | that module, `TLAPS` |

### ScopeEngine and ScopedAccess

The state is the database: `active` (users with `is_active`), the host's
`nodes`, `parent` and `kind` (which levels' querysets select a node), the role
`catalog` and `role` records, the assignment table `rows` in primary-key order,
and the clock `now`. Each definition of `ScopeEngine` is one function of
`engine.py` with the same guards in the same places: `IsValid` for
`_assignment_is_valid`, `Covers` for `covers`, `UserPermissions`, `HasPerm`,
`CanManageRole`, `CanAssignRole`. Two decisions deserve a remark.

- `iter_ancestors` is the least set that holds the node and is closed under the
  parent accessor (`Ancestors`). This is what the loop yields, it needs no
  recursion, and it can be reasoned about: reflexivity and transitivity follow
  from the definition.
- A node carries a *set* of levels, because levels that share a model are told
  apart by discriminators that may overlap or select nothing.

`ScopedAccess` has one action per management call. A call is one database
transaction, so it is one step: its arguments are existentially quantified and
each check that raises is a guard. A caller that omits the level gets the one
that selects the node, which is among the levels the model quantifies over.
Host steps (`SetActive`, `DeleteNode`, `MoveNode`, `Reclassify`) are external
and leave the library's tables alone: a deleted node leaves dangling scopes and
owners behind, as generic foreign keys do.

Bounds: `MaxRows` (length of the table), `MaxTime` (clock), and the sets of
arguments (`PermissionSets`, `Windows`, `Parents`, `Kinds`).

### CollectionFilter

Filters as sets, over the same state. `Reaches` compares ranks and follows
exactly as many parents as the ranks differ, as the compiled ORM path does;
`VisibleNodes` is the filter over hierarchy models, `VisibleAnchors` over
resources by the node they are anchored at, `VisibleUnanchored` over global,
unregistered and null-anchored resources. `Summarized` and `SummaryPermissions`
are `access_summary`, which is written apart from the decisions it reports.

### AssignmentTransactions

One role, the assignments of it to one user at one scope (the rows the
live-assignment constraint relates), and workers that run the calls statement by
statement under READ COMMITTED isolation: `Refresh` (`refresh_from_db` and the
snapshot), `Recheck`, `Lock` (`SELECT ... FOR UPDATE` on the role), `Check` (R5,
R7), `Insert` against the partial unique index, the conditional `Update`,
receivers that record or raise, `Commit`, `Crash`. Uncommitted writes live in
the worker's `call`; `rowLock` and `roleLock` stand for the database's locks.
Who may make the call at all is `ScopedAccess`'s subject and not repeated;
`Delegable` gives each actor the permissions R7 lets them hand out. Bound:
`MaxEvents`.

### RequestCache

One thread with a stack of open `with` blocks (requests, nested requests,
transactions, savepoints) and other connections that commit. Facts are version
numbers: the question is only which version a check uses. The management calls
appear as far as they touch the memo: lock the role and invalidate everything,
write, run the host's model receivers, invalidate, register a callback.
Bounds: `MaxVersion`, `MaxDepth`.

### ReAuth

One step per cache operation. `pc` and `call` are the workers' control points:
an issue is get-generation, (add, re-read,) store; a consumption is get, then
pop (Redis) or claim and delete (other backends), then validate, then compare the
generation; in window mode validate, compare, mark. An entry has a physical
deadline (twice the TTL) apart from the token's logical expiry. The cache may
drop any entry whose kind is in `drops`, at any time. A password save is
two or three steps: save, `post_save`, and in a host transaction a later commit
or rollback. Bounds: `MaxDraws` (random generations), `MaxUses`, and the tokens minted and
ticks of each deployment (`mints`, `lasts`).

A deployment (mode, backend, how a password save commits, what the cache may drop
at any time) is chosen in the initial state, so that one run covers several.

`Patience` is an assumption on the deployment and not a bound: no request
runs longer than that many ticks. It is one TTL in the runs. A worker that had
validated a token in window mode and then stalled for longer than a use mark
lasts (two TTLs) would find the mark of an earlier use gone.

`StepUp` has no cache, workers or clock. The refinement mapping calls a token
live if it verifies by its own data and is in the cache or in the hands of a call
that may still accept it (`Alive`).

### ScopedWrites

A request is a list of steps still `todo`: look the object up in the queryset,
check it, guard the object as it would be saved, read it again (`save_model`),
write. The admin's bulk action builds its filter once, with the authority of that
moment, and deletes with it later (`seen`). Between two of them other requests write and managers suspend and
reactivate assignments. The steps of each surface are in the order of the code:
`list_editable` skips the first check, the bulk action selects and deletes with
two queries, a viewset may hide objects by its queryset. A viewset is its
`permission_classes`, as expressions over model permissions,
`ScopeObjectPermission` and other classes; `Required` is what the mixin finds in
them, `ViewAdmits` what the REST framework makes of them.

Abstractions: the request cache is off; a bulk selection is one object; the
form's own validation of a choice is left out (the guard after it is not); a
class of the host admits everyone; the tree keeps its shape while requests run.
A save writes every column and inserts a row that is gone, as `Model.save` does.

### MutationGuards

`flag` is which context variables are true in each context, `blocks` the stack of
managed blocks with the token each will restore. Blocks nest in any order, end by
return or exception, and a task spawned inside one starts with a copy of the
flags. Statements may be issued at any time with any arguments, in two groups.
`Statement` holds those that ask for a block: queryset and instance methods of
roles, their permissions and assignments; `Instance` says which instances host
code can hold. `Unasked` holds those that ask for none: `update` of assignments,
which only looks at the fields it is given (the primary key is not among those it
refuses, `Rekey`); `add` and `set` of the related managers `role.role_permissions`,
`permission.scoped_role_permissions`, `role.assignments` and
`user.scoped_assignments`, which Django runs as an UPDATE through
`Model._base_manager` and so past the querysets of the library (`RepointLink`,
`RepointAssignment`); and the deletion of an `auth.Permission`, which takes its links
along (`DropPermission`). `Lifecycle` is the library's own conditional UPDATE.

Abstractions: `role` of an assignment stands for its two foreign keys with related
managers, role and user; `scope` for level, scope and window; the audit fields and
the unique constraints of assignments are left out (`ScopedAccess` has them), those
of links are kept. Bounds: `MaxDepth`, and `MaxRows` assignments in the table.

### Configuration

A deployment starts with a hierarchy, registers resources in any order, is
checked, serves and makes grants; the next may bring another hierarchy, and the
stored assignment stays. Models are names with relation fields, so that parent
accessors and anchors are paths that `Walk` follows as the checks do.
`AccessorsLead` and `AccessorsAreShared` are what `conf.py` and `registry.py` ask
of the host and no check enforces; without either, TLC finds an accepted
hierarchy for which the list and the decision follow different trees. A resource
may be anchored below a node: `StoredAssignmentsCompare` also follows the list's
path on from its anchor, which is the path a query on the resource uses.

## 3. Runs

Each property of a passing run has a mutant of the modelled code (the
definitions marked "Mutant" in the modules) that TLC finds violating it.

| Run | Question | Deployment and bounds |
|---|---|---|
| `delegation` | Can any sequence of management calls by ordinary managers make an assignment confer what the caller could not delegate, or change authority where the caller manages nothing? (`NoEscalation`, `ManagementIsConfined`, `LiveAssignmentsAreUnique`, `TypeOK`) | an organization manager and a manager of one of its two teams, "self" policy, four rows: the three that exist and one to grant; a third role to create, edit, move and delete |
| `owner_move` | the same bound for `RoleService.update` - **violated**, see findings | |
| `collections` | While the host reshapes the tree: do lists and summaries agree with the decisions, and do coverage, the confinement of custom roles and the delegation bound survive? (`FilterIsSound`, `FilterIsComplete`, `SummaryAgreesWithDecisions`, `DownwardCoverage`, `CustomRoleConfined`, `NoEscalation`) | three levels in one model, a team moved past its department and deleted, a department reclassified, a user deactivated, windows that open and close with a tick, an allow-list policy |
| `skipped_level` | completeness in every tree SPEC:34 admits - **violated** | as above, without deletion and deactivation |
| `writes` | Is every object a request replaces or saves one its client was entitled to at some moment of the request, and do lists, details and form choices agree? (`EveryWriteWasEntitled`, `ListAgreesWithDetail`) | two workers, a superuser and a user who edits in one team and audits in both, one object, four viewsets, the admin |
| `transactions` | Do concurrent statements implement the abstract lifecycle? (`ImplementsLifecycle`, `DelegationHolds`, `InstanceIsHonest`, `NobodyWaitsInACircle`, `EveryCallEnds`, `TypeOK`) | two workers, two rows (so that a revoked row can be granted anew), two permissions of which one actor may delegate one, four events |
| `request_cache` | Is a check ever based on stale authority? (`NoStaleAnswer`, `TypeOK`) | two users and the validity facts, three versions, four nested blocks: a transaction and a savepoint inside or around a request |
| `reauth` | Does a token verify once, is a completed invalidation final, is no good token lost? (`OneFreshUse`, `CommittedInvalidationIsFinal`, `TokenIsNeverLost`, `ImplementsStepUp`, `TypeOK`) | two workers, an owner and a stranger; five deployments: both backends with evictable generations (two tokens on the portable one), both with everything evictable and saves in host transactions, and window mode with evictable tokens and generations |
| `reauth_uncommitted` | password saved in a host transaction - **violated** | both backends, nothing evictable |
| `guards` | Do guards follow the open blocks, and what is left of roles, permissions and the audit trail when guarded and unguarded statements meet in every order? (`GuardsFollowBlocks`, `RolesChangeInBlocks`, `AuditTrailIsKept`, `AssignmentsStartInBlocks`, `TypeOK`) | a request and a task, two nested blocks each, two roles, two links, one permission that comes and goes, one assignment with two keys to move between and two scopes |
| `guards_related` | Does a role gain a permission only in a permission block? (`PermissionsAreAddedInBlocks`) - **violated** by a related manager | as `guards` |
| `configuration` | Can the engine work with whatever the checks accept? (`StoredAssignmentsCompare`, `RegisteredModelsHaveOnePolicy`) | twenty hierarchies, right and wrong, strict or not, three resources, two anchors of which one is broken |

Why the bounds are enough for the interesting cases: escalation needs a grantor,
a grantee and a role whose content changes between two calls, so two managers at
different depths, one grantable row beyond the existing ones and one role to
create suffice; a race needs two workers, and a third could only repeat what one
of them does; ReAuth's generations matter up to "old, new", so two draws,
the second one competing with an eviction, and a clock that passes a token's
expiry and its entry's. A rank difference of two needs three levels. A block
inside a block of the same and of another area needs a depth of two, and a
lost update needs two requests on one object. Workers, tokens and contexts are
interchangeable wherever a `SYMMETRY` is declared: every definition quantifies
over them, no initial state tells them apart, and no liveness property is
checked in those runs. `reauth`, `reauth_uncommitted`, `delegation`, `owner_move`
and `transactions` turn deadlock checking off because every bound may be used up
there; the other runs check it.

### Findings

Each is a run that ends in a counterexample against a sentence of the
documentation.

1. `owner_move`: `RoleService.update` examines the new owner (R4) but not the
   permissions the role already has (R5, R7). Move a role over assignments that
   were dormant under its old owner, and they confer what the actor does not hold.
   `docs/security.md` promises protection against delegation beyond the caller's
   authority. `NoEscalation` holds for all other calls.
2. `skipped_level`: the filters climb a fixed number of parents. A node whose
   parent is two levels up (legal by SPEC:34) is missing from the lists of its
   ancestors' managers although `has_perm` allows it (SPEC:101 promises it). Lists
   are never too long: `FilterIsSound` holds in every tree.
3. `reauth_uncommitted`: the password receiver invalidates before the host's
   transaction commits; a token minted in between from the old password survives
   the change (`docs/reauth.md:180`).
4. `guards_related`: `role.role_permissions.add(link)` and
   `permission.scoped_role_permissions.add(link)`, public related managers, update the
   foreign key of an existing link through `Model._base_manager`; neither
   `RolePermissionQuerySet.update` nor `RolePermission.save` runs. A role gains
   another one's permission outside any block. `docs/security.md:49` ("and related
   managers") and `CHANGELOG.md:49` say they are guarded; the test of
   `tests/test_role_management.py:228` tries their `filter().update()` and
   `bulk_update()`, which are.

Further disagreements have no run of their own:

- In window mode the record of a first use is a cache entry, and a cache that drops
  it before the token accepts a second fresh consumption (`docs/reauth.md:109`).
  `FreshUsesAreFirst` states the assumption under which this cannot happen.
- `save()` of an assignment asks for a block only if `_state.adding` is set, and for
  `update_fields` only if there is a primary key (`models.py:484`). A loaded instance
  whose primary key is set to `None` is neither, and is inserted as a new assignment;
  `docs/security.md:57` says that such writes raise. `AssignmentsGuarded` needs the
  assumption `~CopiesLoaded` for it; with `CopiesLoaded = TRUE` TLC finds the
  violation of `AssignmentsStartInBlocks`.
- The related managers of an assignment, `role.assignments` and
  `user.scoped_assignments` (`models.py:443`), change its role and user in the same
  way as finding 4, and `update(id=...)` its key, although "assignment identity and
  scope are immutable after creation" (`models.py:417`). `AuditTrailIsKept` claims
  neither.
- A password proof is verified (`reauth/service.py:55`) before the generation is read
  (`:66`). An invalidation between the two is not noticed, and the token, which is
  minted after it, is good. `docs/reauth.md:180` speaks of active tokens;
  `CommittedInvalidationIsFinal` counts from the reading of the generation on.

### Fairness

Only `EveryCallEnds` (in `transactions`) and the abstract behaviours under it
need fairness. `WF_vars(Proceeds(w))`: a running worker takes its next step.
`SF_vars(Lock(w))` and likewise `Insert` and `Update`: databases queue those who
wait for a row lock, so one who could get the lock again and again gets it. No
call is assumed to begin, no receiver to fail, and no worker to crash. All other
properties are safety properties and need none.

## 4. Proofs

Each theorem holds for every value of the constants: any users, trees, roles,
workers, tokens, deployments, and no bound on time, depth or the number of
steps.

| Module | Theorems (property) |
|---|---|
| `ScopedAccessProofs` | `TypeCorrect` (`TypeOK`), `CoverageFlowsDown` (`DownwardCoverage`), `CustomRolesStayConfined` (`CustomRoleConfined`), `LiveUnique` (`LiveAssignmentsAreUnique`), `DelegationIsBounded` (`NoEscalation`), `TenantsAreIsolated` (`ManagementIsConfined`), `ManagementFlowsDown`, `AuthorityIsNotConjured` |
| `CollectionFilterProofs` | `ListsAreSound` (`FilterIsSound`), `ListsAreComplete` (`FilterIsComplete`), `SummariesAgree` (`SummaryAgreesWithDecisions`), `WalkYieldsAncestors`, `WalksEnd` |
| `ScopedWritesProofs` | `WritesWereEntitled` (`EveryWriteWasEntitled`), `ListsAgreeWithDetail` (`ListAgreesWithDetail`) |
| `AssignmentTransactionsProofs` | `TransactionsTyped` (`TypeOK`), `ObjectsAreHonest` (`InstanceIsHonest`), `DelegationHeld` (`DelegationHolds`), `TransactionsImplementLifecycle` (`ImplementsLifecycle`), `NobodyDeadlocks` (`NobodyWaitsInACircle`), `OneLiveRowCommitted`, `RevocationIsFinal` |
| `RequestCacheProofs` | `CacheTyped` (`TypeOK`), `ChecksAreCurrent` (`NoStaleAnswer`) |
| `ReAuthProofs` | `ReAuthTyped` (`TypeOK`), `TokensAreNotLost` (`TokenIsNeverLost`), `InvalidationsAreFinal` (`CommittedInvalidationIsFinal`), `FreshUsesAreFirst` (`OneFreshUse`), `ServiceImplementsPromise` (`ImplementsStepUp`), `DeadTokensStayDead`, `SpentTokensStayDead` |
| `MutationGuardsProofs` | `GuardsTyped` (`TypeOK`), `GuardsFollow` (`GuardsFollowBlocks`), `RolesGuarded` (`RolesChangeInBlocks`), `AuditTrailKept` (`AuditTrailIsKept`), `AssignmentsGuarded` (`AssignmentsStartInBlocks`) |
| `ConfigurationProofs` | `AssignmentsStayComparable` (`StoredAssignmentsCompare`), `ModelsHaveOnePolicy` (`RegisteredModelsHaveOnePolicy`) |

A theorem without a property says something no run states: `AuthorityIsNotConjured`
and `RevocationIsFinal` speak of whole behaviours, `WalksEnd` of a walk no bound
limits, the others follow from what the runs check and are what a reader wants to
cite.

### Authority: ScopedAccessProofs

Assumptions: the named `ASSUME`s of `ScopeEngine` and `ScopedAccess`, nothing
else: superusers are users, the three management permissions exist, `None` and
the anchor kinds are no nodes, root levels are not modeled levels, the initial
tables are well formed and the initial rows have no live duplicates.

The argument. `TypeOK` is inductive as it stands; besides types it holds the
shape of rows (no scope means a root level or none), the shape of roles (owner
and owner level come together) and the protection of roles by their rows, which
is what makes `rows[a].role` resolvable everywhere else. One lemma per group of
actions shows that a step keeps it.

`Ancestors` is reflexive and transitive (two lemmas from its definition as the
least closed set). Coverage is rewritten as `Spans(scope, target)`, and
transitivity gives that whoever reaches a node reaches everything below it:
`DownwardCoverage` and `CustomRoleConfined` are then facts about single states in
which `TypeOK` holds, and need no induction of their own, which is the point of
deciding validity at each read and not at the grant. `LiveAssignmentsAreUnique`
is inductive together with `TypeOK`.

For the two action properties, frame lemmas show that where the host's tables do
not change, what an untouched assignment confers does not change either. One
lemma per kind of call then bounds what the touched assignments gain: what an
actor holds at a scope or an owner they hold at every target the assignment
reaches, by the same transitivity; custom roles need that their assignments lie
in the owner's subtree. `ManagementIsConfined` goes the same way with the
management permission in place of the delegated one. The same transitivity
makes management itself flow down the tree (`ManagementFlowsDown`). It leaves
one thing out on purpose: who manages system roles need not manage custom ones,
for those ask for another permission.

`NoEscalation` bounds one call. `AuthorityIsNotConjured` is about all of them
together: a permission that can only be delegated by those who hold it (`self`
policy, or not on the allow-list), and that no active assignment confers on a target,
in its window or not, is never conferred there by any sequence of ordinary calls, in
any number, by any coalition of actors who are no superusers (reactivations included),
while time passes and the host deletes nodes and switches users off and on. The
steps it allows (`OrdinaryStep`) leave out what can give a target a permission
without anybody delegating it: nodes moved or reclassified, calls of superusers, and
the moves of roles that the first finding is about.

### Lists: CollectionFilterProofs

The filter climbs a number of parents (`Climb`), the decision asks for membership
in the least closed set (`Ancestors`). The two meet by induction over the number
of steps. The provers cannot instantiate the library's induction theorems, which
take an operator as a parameter; so the induction is by *least counterexample*:
the set of steps at which the claim fails, if it is not empty, has a least element
(`LeastElement`, from the well-foundedness of the naturals), and the step before
it refutes that. The function that `Climb` chooses is shown to exist the same way
(`ClimbExists`). Soundness then needs that whatever a climb meets is an ancestor;
completeness that every ancestor is met (the nodes met form a closed set) and that
in a tree whose parents lie one level up the number of steps is the difference of
the ranks. `FilterIsCompleteInTrees`, which drops that condition, is the finding
above. That a climb meets an ancestor at every step and every ancestor at some step
is a theorem of its own (`WalkYieldsAncestors`): it is what entitles the models to
put the least closed set in the place of the loop in `iter_ancestors`.

That loop ends only in a forest. `WalksEnd` assumes `Forest(InitParent)`, that no set
of nodes holds all the parents of its members, and shows that the host's moves,
which put a node only below nodes it is no ancestor of, keep it so: the nodes of a
new cycle above the one that moved would have been such a set before.

Assumption beyond those of `ScopedAccess`: `OrderAssumption`, that the level order
is a sequence of the levels.

### Requests: ScopedWritesProofs

A request holds no lock, so nothing about the table or about authority stays true
between its steps. What does stay true is in `had` and `held`, which only grow
while it runs. `HttpInv` says, by the steps a request still has to take, what the
steps behind it have put there: after the fetch the anchor it works with is one
the object had; after the check of the object (or a fetch from a queryset that
filters) one of those is one its client was entitled to (`Vouched`); after the
check of what is saved, so is that (`Guarded`). `Ordered` is what the argument
needs of the lists of steps: read first, write last, check and guard in between.
Each step is shown to put in what `Progress` then asks for; that its decision is
about the same tables before and after it needs the frame lemmas
(`EntitledFrame`), and that a filtered queryset vouches for its rows is
`FilterIsSound`.

`WritesWereEntitled` assumes `MethodsAreMapped`: a viewset with model permissions
names one for every method. The code does not see to it. With an empty entry in
`perms_map` for a method that writes, `has_object_permission`
(`drf/permissions.py:36`) is true of every object, and no warning is raised, since
the class is a model permission (`drf/mixins.py:142`).
`ListsAgreeWithDetail` assumes `HostIsLayered`, the condition of
`FilterIsComplete` for the tree the host starts with, and that the anchors are
nodes of the declared model; no request changes the tree. TLC evaluates both
assumptions on the instance of `writes`.

### Calls: AssignmentTransactionsProofs

`Inv` is a typing of all variables and, for each worker, where each kind of call
may be and which locks it holds there (`Control`), that what the call found out
still holds when it is about to commit (`Ready`), that its actor may delegate the
role as long as it holds the lock (`Entitled`), and that the Python object and its
snapshot are statuses the row had meanwhile (`Follows`). `TypeOK` and
`InstanceIsHonest` follow from it; `DelegationHolds` and the refinement follow
from one look at `Commit`, the only step that changes a table: the row locks give
that the conditional UPDATE still describes the row at the commit, the unique
index that no other live row appeared. The fairness part of the specification is
not used.

`NobodyDeadlocks` follows from the control part of `Inv`: whoever holds a row's lock
is about to signal and waits for nobody, and whoever holds the role's lock waits at
most for those. So of any set of workers one waits for nobody in the set.

What the abstract lifecycle promises comes down through the refinement instead of
being proved again about the statements: `LifecycleChange` says what one step of
`AssignmentLifecycle` can change, and from it and the refinement follow
`OneLiveRowCommitted` and `RevocationIsFinal`.

### The memo: RequestCacheProofs

`Fresh` says that what a query answers and what a memo in use remembers is
current. It is not inductive: a rollback takes back facts a memo may hold. The
invariant adds that there is at most one request block that owns the memo
(`OneRequest`), that writes exist only inside a transaction (`Outermost`), that a
transaction inside it that wrote has set the mark (`WritesMark`), and that a call which
locked a role has set it in every context entered since (`LocksMark`): a memo is
then out of use until it is emptied. Three lemmas on sequences (`Pushed`, `Popped`,
`Replaced`) say what entering, leaving and marking a block leave of the others.

### Tokens: ReAuthProofs

`Inv` has, apart from types: generations in use have been drawn (`Numbers`); a
call holding a popped token is the only one (`Owners`); what each control point
knows (`WorkerInv`); and for each token that its entry and mark outlive it
(`Lasting`), that an accepted one is gone or marked (`Spent`), that one whose
generation was read before a completed invalidation has an older one (`Outdated`, and
the same of a token about to be stored in `WorkerInv`), that the
winner of a claim will take the token (`Claimed`), and that a good one is
somewhere (`Kept`). A step either moves one worker and keeps what the others know
(`WorkerStays`, `TokenStays`) or is the environment's. `FreshUsesAreFirst`
assumes `Patience <= TTL` and that no window-mode cache drops marks; both are
assumptions of that theorem alone. The refinement maps every step to a step of
`StepUp` or a stutter: losing a race, expiring, invalidating and evicting are all
`Lose`. From the refinement follow `DeadTokensStayDead` (what does not verify any
more never verifies again) and `SpentTokensStayDead` (once a single-use token is
accepted it is dead for all others), by `PromiseStep`, which says what a step of
`StepUp` may do to a token.

### Guards: MutationGuardsProofs

`GuardInv` is `TypeOK`, `GuardsFollowBlocks` and that every block's token is what
the blocks below it leave open (`TokensRemember`), without which leaving a block
could not be shown to restore the right value. The statements fall into a few
kinds of effect, by which all else is proved: roles and links written in a block
(`RolesWritten`), assignments written in one (`Written`), one end of a link moved or a
permission gone with its links (`Relinked`), an assignment handed to another role
(`Handed`) or moved to another key (`Moved`). `RolesGuarded` and `AuditTrailKept` say
no more than that allows: outside blocks a role's links change only by a cascade or at
one end, and an assignment keeps its scope and window and its place in the lifecycle,
under whatever key. That no statement deletes an assignment holds in blocks too.
`AssignmentsGuarded` assumes that the host saves no copies of loaded instances
(`~CopiesLoaded`), without which it is false.

### Configuration: ConfigurationProofs

`ConfigInv` is short: the settings are among those a host may write, a resource is
anchored or global and not both, traffic is served only by what the checks
accepted, and a stored assignment at a level was made at a model. The weight is in
what acceptance implies, which is a claim about paths of any length. `Walk` and
`FlattenSeq` are defined by functions over the positions of a path; both are shown
to exist and walking to be compositional (`WalkGoesOn`) by the least
counterexample of `CollectionFilterProofs`. Then, in an accepted hierarchy, each
level below a modeled one is modeled and its accessor leads to the one above
(`LevelsLeadUp`), and the concatenated accessors lead from any level to any above
it (`PathLeadsUp`).

Assumptions: `SettingAssumption`, that hierarchies are sequences and accessors and
anchors are sequences of field names. `AccessorsLead` and `AccessorsAreShared` are
antecedents of the property, not assumptions of the theorem.

### Only model-checked

`EveryCallEnds`: liveness under fairness is beyond the prover. Its safety core is
proved, `NobodyWaitsInACircle`. The properties of the four violated runs are false
and so have no theorem.

## 5. Not modelled, and why

- A callable `GRANTABLE_PERMISSIONS` policy: arbitrary host code.
- The two REST endpoints and the throttle (`drf/views.py`, `drf/throttling.py`):
  their answers are `access_summary` and `issue`; the rate is Django's.
- Discovery of permissions by running `get_permissions` (`drf/mixins.py`):
  arbitrary host code; the classes it finds are modelled.
- `has_module_perms` of the backend: a test over the permission set by label.
- A viewset whose classes include a model permission under an alternative is refused by
  `Serves` on every route; on a detail route the code may stop at an earlier leaf that
  protects it (`drf/mixins.py:141`). No property depends on the difference.
- In the admin: selections of several objects, and choices among registered
  resources that are no nodes.
- The checks on the form of single settings (E005, E009 to E011, E013, E014, W001)
  and swappable model names: predicates on one value.
- Password verifiers: a proof that is refused is a request that does not start.
- Audit columns (`granted_by`, `revoked_by`, `reason`), descriptions; the clean-up
  of the token index of earlier releases; the `reauth_*` signals.
- Several management calls in one host transaction with locks held across them:
  `RequestCache` has such transactions, `AssignmentTransactions` does not.
- Workers that die in the middle of a token's consumption: what they had begun is
  left undone, and on the portable path a claim without a delete
  (`reauth/atomic.py:57`) keeps a good token from everybody until it expires.
  `TokenIsNeverLost` says nothing of such a token.
- `RoleService.create` with the primary key of an existing role among its fields
  (`services.py:19`), which would replace that role without R4 on its old owner.
- Registrations while traffic is served: `docs/security.md:24` excludes them and the
  registry does not (`Register`).
- `Model._base_manager` used by name, raw SQL: `docs/security.md:29` leaves them out.
- Migrations, exceptions, exports, tests and the example project.

Behaviour a reader might look for and which no property states, because the code
or its host decides it and no document promises more:

- An assignment's window is closed at `valid_from` and open at `valid_until`, in
  SQL and in Python alike (`engine.py:208`); `InWindow` has it so.
- A grant whose window opens later is authorized with what its actor holds at the
  grant (`models.py:374`). `NoEscalation` speaks of what the row would confer, and
  nobody is asked again when the window opens.
- A role or an assignment model swapped for one whose primary key has a default
  (`models.py:487`): `_state.adding` and not the key decides in `save`.
- `granted_by` becomes NULL when its user is deleted (`models.py:456`).
- A parent cycle in the host's tree, for which `iter_ancestors` does not end: the
  host keeps a forest, and so does `MoveNode` (`WalksEnd`).
- The process dies between the save of a password and `post_save`.

## 6. What could come next

In the order of what a mistake would cost:

1. Several calls in one host transaction in `AssignmentTransactions`: locks held
   across calls in the order the host chooses, and Python objects after a late
   rollback.
2. A role that moves while other workers grant it, with the owner as a part of the
   role in `AssignmentTransactions`.
