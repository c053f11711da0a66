--------------------------- MODULE CollectionFilter ---------------------------
(***************************************************************************)
(* Collection filtering (accessible_nodes, scope_filter_q and              *)
(* visible_resources of src/scoped_access/engine.py): the same scope rules *)
(* as the single-object decisions of ScopeEngine, compiled to database     *)
(* filters.  A filter cannot walk the tree: for each assignment it follows *)
(* the parent accessor a fixed number of times, the difference between two *)
(* level ranks.  Resources are known by the node they are anchored at, and *)
(* p = None is a filter by coverage alone.                                 *)
(***************************************************************************)
EXTENDS ScopeEngine

CONSTANTS
    LevelOrder,  \* HIERARCHY: every level, the top first
    ModelOf      \* [ModeledLevels -> host models]

ASSUME OrderAssumption ==
    /\ LevelOrder \in Seq(Levels)
    /\ {LevelOrder[i] : i \in DOMAIN LevelOrder} = Levels
    /\ \A i, j \in DOMAIN LevelOrder : LevelOrder[i] = LevelOrder[j] => i = j

ASSUME ModelAssumption == DOMAIN ModelOf = ModeledLevels

Models == {ModelOf[level] : level \in ModeledLevels}

Rank(level) == CHOOSE i \in DOMAIN LevelOrder : LevelOrder[i] = level

LevelsForModel(model) == {level \in ModeledLevels : ModelOf[level] = model}

\* The node d parents above n, None when the path meets a null reference.
Climb(n, d) ==
    LET up[i \in 0..d] ==
            IF i = 0 THEN n
            ELSE IF up[i - 1] \in Nodes THEN parent[up[i - 1]] ELSE None
    IN  up[d]

\* Mutant: the range of the path stops one level early.
UpPathShort(n, from, to) ==
    IF from > to THEN Climb(n, from - to - 1) ELSE n

\* The path from a node taken to be of rank from, up to rank to.
UpPath(n, from, to) == Climb(n, from - to)

\* Mutant: the filter forgets the permission it was asked for.
ContributingAnyRole(u, p) == Authority(u)

\* The assignments that contribute to a filter.
Contributing(u, p) ==
    {a \in Authority(u) : p = None \/ p \in RolePerms(a)}

\* Assignment a reaches node n, taken to be of this level: deeper assignments
\* contribute nothing.
Reaches(a, n, level) ==
    \/ IsRootScope(a)
    \/ /\ Rank(rows[a].level) <= Rank(level)
       /\ UpPath(n, Rank(level), Rank(rows[a].level)) = rows[a].scope

AccessibleNodes(u, level, p) ==
    {n \in nodes :
        /\ u \in active
        /\ SelectsNode(level, n)
        /\ \/ u \in SuperUsers
           \/ \E a \in Contributing(u, p) : Reaches(a, n, level)}

\* A filter over a model of the hierarchy itself.
VisibleNodes(u, model, p) ==
    UNION {AccessibleNodes(u, level, p) : level \in LevelsForModel(model)}

\* A filter over resources anchored at nodes of a model.  Which level the
\* anchor really has is not asked: every level of the model is tried.
VisibleAnchors(u, model, p) ==
    {n \in nodes :
        /\ u \in active
        /\ \/ u \in SuperUsers
           \/ \E a \in Contributing(u, p), level \in LevelsForModel(model) :
                  Reaches(a, n, level)}

\* A filter over resources that carry no node: all of them or none.
VisibleUnanchored(u, p, t) ==
    /\ u \in active
    /\ \/ u \in SuperUsers
       \/ t = GLOBAL /\ (p = None \/ p \in UserPermissions(u, GLOBAL))
       \/ t = DENIED /\ \E a \in Contributing(u, p) : IsRootScope(a)

\* Mutant: stored assignments are listed although their scope is gone.
SummarizedAsStored(u) ==
    {a \in Rows : rows[a].user = u /\ Effective(a) /\ u \in active}

\* access_summary: the assignments GET /me/access/ lists, and their union.
Summarized(u) == IF u \in active THEN Authority(u) ELSE {}

SummaryPermissions(u) == UNION {RolePerms(a) : a \in Summarized(u)}

\* The decision on a single object.
Decides(u, p, t) == IF p = None THEN UserCovers(u, t) ELSE HasPerm(u, p, t)

(***************************************************************************)
(* Properties.                                                             *)
(***************************************************************************)
Asked == Permissions \cup {None}

Anchorless == {GLOBAL, DENIED, UNREGISTERED}

\* Whatever the shape of the host's tree, a list never shows what the check
\* on the single object denies (visible_resources against has_perm and
\* user_covers).
FilterIsSound ==
    \A u \in Users, p \in Asked :
        /\ \A model \in Models :
               \A n \in VisibleNodes(u, model, p)
                        \cup VisibleAnchors(u, model, p) : Decides(u, p, n)
        /\ \A t \in Anchorless : VisibleUnanchored(u, p, t) => Decides(u, p, t)

\* SPEC 10: the endpoint and the checks are "the sole authorities", so they
\* must agree: the summary names exactly the permissions the user holds
\* somewhere, and the user holds an entry's permissions at the entry's scope
\* (a superuser holds more than the summary says).
SummaryAgreesWithDecisions ==
    \A u \in Users \ SuperUsers :
        /\ SummaryPermissions(u) = {p \in Permissions : HasPerm(u, p, GLOBAL)}
        /\ \A a \in Summarized(u), p \in Permissions :
               p \in RolePerms(a) =>
                   HasPerm(u, p, IF IsRootScope(a) THEN DENIED ELSE rows[a].scope)

\* Every object the single-object check allows is listed, for nodes that
\* satisfy the condition given (a set of nodes closed under the parent
\* accessor).
Listed(S) ==
    \A u \in Users, p \in Asked, n \in S :
        Decides(u, p, n) =>
            \E level \in kind[n] :
                /\ n \in VisibleNodes(u, ModelOf[level], p)
                /\ n \in VisibleAnchors(u, ModelOf[level], p)

\* A tree in which every parent lies Step(child rank, parent rank) above.
Layered(Step(_, _)) ==
    {n \in nodes : \A m \in Ancestors(n) :
        /\ \E level \in ModeledLevels : kind[m] = {level}
        /\ parent[m] \in Nodes =>
               \A low \in kind[m], high \in kind[parent[m]] :
                   Step(Rank(low), Rank(high))}

NextRank(low, high) == low = high + 1

LowerRank(low, high) == low > high

\* Where each node's parent is one level above it, a list shows all that the
\* single-object check allows (accessible_nodes, scope_filter_q).
FilterIsComplete == Listed(Layered(NextRank))

\* What SPEC.md:34 and SPEC.md:101 promise: completeness for every tree whose
\* parents have a strictly lower rank, whether or not a level is skipped.
FilterIsCompleteInTrees == Listed(Layered(LowerRank))

=============================================================================
