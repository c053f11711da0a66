----------------------------- MODULE Configuration -----------------------------
(***************************************************************************)
(* Configuration as the engine depends on it: the HIERARCHY setting        *)
(* (src/scoped_access/conf.py, registry.py), the resource registry the     *)
(* host's applications fill at startup, and the system checks that accept  *)
(* or refuse the result (checks.py).  A deployment starts, registers, is   *)
(* checked and serves; the next one may come with another hierarchy, while *)
(* the assignments stored under the old one stay in the database.          *)
(***************************************************************************)
EXTENDS Naturals, Sequences, SequencesExt

CONSTANTS
    Models,        \* the host's models
    Field,         \* [Models -> its fields, each -> the related model or None]
    AppOf,         \* [Models -> application labels]
    AutoCreated,   \* models Django made for a many-to-many field
    Hierarchies,   \* values of HIERARCHY: sequences of Entry
    OwnerLevels,   \* values of ROLE_OWNER_LEVELS
    Paths,         \* anchors the host registers resources with
    Resources,     \* the models it registers
    None           \* no model, no related model

\* A level of Hierarchies: its name, its model, its parent accessor (<< >> is none).
Name(e) == e[1]
Label(e) == e[2]
Parent(e) == e[3]

ASSUME SchemaAssumption ==
    /\ None \notin Models /\ Resources \cup AutoCreated \subseteq Models
    /\ \A m \in Models : Range(Field[m]) \subseteq Models \cup {None}

ASSUME SettingAssumption ==
    /\ \A h \in Hierarchies :
           /\ h \in Seq(Range(h))
           /\ \A i \in DOMAIN h : Parent(h[i]) \in Seq(STRING)
    /\ Paths \subseteq Seq(STRING)

VARIABLES
    hierarchy, ownerLevels, strict, \* the settings of this deployment
    anchors,   \* [models registered with an anchor -> path]
    globals,   \* models registered as global
    serving,   \* the checks have accepted the deployment
    stored     \* an assignment in the database, the one of the last grant:
               \* <<name of its level, model of its node>>, or None

settings == <<hierarchy, ownerLevels, strict>>
registry == <<anchors, globals>>
vars == <<settings, registry, serving, stored>>

Ranks == DOMAIN hierarchy

Modeled == {i \in Ranks : Label(hierarchy[i]) # None}

\* The model a relation path leads to, None if a segment is missing or is no
\* relation (_walk_relation_path).
Walk(m, path) ==
    LET at[i \in 0..Len(path)] ==
            IF i = 0 THEN m
            ELSE IF at[i - 1] \in Models /\ path[i] \in DOMAIN Field[at[i - 1]]
                 THEN Field[at[i - 1]][path[i]]
                 ELSE None
    IN  at[Len(path)]

(***************************************************************************)
(* The checks.                                                             *)
(***************************************************************************)
E001 == \E i, j \in Ranks : i # j /\ Name(hierarchy[i]) = Name(hierarchy[j])

\* Mutant: one root level, anywhere.
E002Anywhere == \E i, j \in Ranks \ Modeled : i # j

E002 == Ranks \ Modeled \notin {{}, {1}}

\* Every modeled level except the first of them.
E003 ==
    \E i \in Modeled : /\ Parent(hierarchy[i]) = << >>
                       /\ \E j \in Modeled : j < i

E004 == ~(ownerLevels \subseteq {Name(hierarchy[i]) : i \in Modeled})

E006 == \E i \in Modeled : Label(hierarchy[i]) \notin Models

E007 == \E i \in Modeled : Walk(Label(hierarchy[i]), Parent(hierarchy[i])) = None

E008 == \E m \in DOMAIN anchors : Walk(m, anchors[m]) = None

NodeModels == {Label(hierarchy[i]) : i \in Modeled} \cap Models

Registered == DOMAIN anchors \cup globals

\* Mutant: only the applications of hierarchy models are searched.
E012Hierarchy ==
    strict /\ \E m \in Models \ (AutoCreated \cup NodeModels \cup Registered) :
                  \E n \in NodeModels : AppOf[m] = AppOf[n]

E012 ==
    strict /\ \E m \in Models \ (AutoCreated \cup NodeModels \cup Registered) :
                  \E n \in NodeModels \cup Registered : AppOf[m] = AppOf[n]

Accepted == ~(E001 \/ E002 \/ E003 \/ E004 \/ E006 \/ E007 \/ E008 \/ E012)

(***************************************************************************)
(* What the engine makes of the configuration.                             *)
(***************************************************************************)
\* Hierarchy.rank: the last level of a name is the one that is found.
RankOf(name) ==
    LET named == {i \in Ranks : Name(hierarchy[i]) = name}
    IN  CHOOSE i \in named : \A j \in named : j <= i

Known(name) == \E i \in Ranks : Name(hierarchy[i]) = name

\* parent_accessor_for_model: one accessor for all levels of a model.
ParentAccessor(m) ==
    LET given == {i \in Modeled : /\ Label(hierarchy[i]) = m
                                  /\ Parent(hierarchy[i]) # << >>}
    IN  IF given = {} THEN << >>
        ELSE Parent(hierarchy[CHOOSE i \in given : \A j \in given : i <= j])

\* _up_path; a level without accessor breaks it.
UpPath(from, to) ==
    LET Accessor(i) == IF Parent(hierarchy[i]) = << >> THEN <<None>>
                                                       ELSE Parent(hierarchy[i])
    IN  FlattenSeq([k \in 1..(from - to) |-> Accessor(from + 1 - k)])

\* resolve_anchor and scope_filter_q: what a resource of the model counts as.
Kind(m) ==
    CASE m \in NodeModels -> "node"
      [] m \notin NodeModels /\ m \in globals -> "global"
      [] m \notin NodeModels \cup globals /\ m \in DOMAIN anchors -> "anchored"
      [] OTHER -> IF strict THEN "unregistered" ELSE "global"

\* _assignment_scope_is_valid, as far as the configuration decides.
Compared(row) ==
    /\ row # None /\ Known(row[1])
    /\ Label(hierarchy[RankOf(row[1])]) = row[2]

(***************************************************************************)
(* Deployments.                                                            *)
(***************************************************************************)
NoAnchors == [m \in {} |-> << >>]

Starts ==
    /\ hierarchy' \in Hierarchies /\ ownerLevels' \in OwnerLevels
    /\ strict' \in BOOLEAN
    /\ anchors' = NoAnchors /\ globals' = {} /\ serving' = FALSE

Init ==
    /\ hierarchy \in Hierarchies /\ ownerLevels \in OwnerLevels
    /\ strict \in BOOLEAN
    /\ anchors = NoAnchors /\ globals = {} /\ serving = FALSE
    /\ stored = None

Without(m) == [n \in DOMAIN anchors \ {m} |-> anchors[n]]

\* The registry has no such guard: docs/security.md asks that registrations run
\* "during application startup, before traffic is accepted".
Register(m, path) ==
    /\ ~serving
    /\ anchors' = [n \in DOMAIN anchors \cup {m} |->
                      IF n = m THEN path ELSE anchors[n]]
    /\ globals' = globals \ {m}
    /\ UNCHANGED <<settings, serving, stored>>

RegisterGlobal(m) ==
    /\ ~serving
    /\ anchors' = Without(m)
    /\ globals' = globals \cup {m}
    /\ UNCHANGED <<settings, serving, stored>>

Unregister(m) ==
    /\ ~serving
    /\ anchors' = Without(m)
    /\ globals' = globals \ {m}
    /\ UNCHANGED <<settings, serving, stored>>

RunChecks ==
    /\ ~serving /\ Accepted
    /\ serving' = TRUE
    /\ UNCHANGED <<settings, registry, stored>>

\* grant: the level of an assignment selects its node.
Grant(i) ==
    /\ serving /\ i \in Modeled
    /\ stored' = <<Name(hierarchy[i]), Label(hierarchy[i])>>
    /\ UNCHANGED <<settings, registry, serving>>

Redeploy == Starts /\ UNCHANGED stored

Next ==
    \/ \E m \in Resources : \/ \E path \in Paths : Register(m, path)
                            \/ RegisterGlobal(m)
                            \/ Unregister(m)
    \/ RunChecks
    \/ \E i \in Ranks : Grant(i)
    \/ Redeploy

Spec == Init /\ [][Next]_vars

(***************************************************************************)
(* Properties.                                                             *)
(***************************************************************************)
\* What the checks leave to the host.  conf.py: a parent accessor leads to
\* the previous modeled level.  registry.py: "Levels sharing one model must
\* share one parent accessor".
AccessorsLead ==
    \A i \in Modeled, j \in Modeled :
        (/\ j < i /\ Parent(hierarchy[i]) # << >>
         /\ \A k \in Modeled : ~(j < k /\ k < i)) =>
            Walk(Label(hierarchy[i]), Parent(hierarchy[i])) = Label(hierarchy[j])

AccessorsAreShared ==
    \A i \in Modeled : Parent(hierarchy[i]) # << >> =>
        Parent(hierarchy[i]) = ParentAccessor(Label(hierarchy[i]))

\* SPEC 3: once the checks have accepted a deployment whose accessors lead
\* where they should, an assignment in the database, of this hierarchy or an
\* earlier one, is ignored or can be compared with the nodes and resources
\* of every level below it: the path the list follows, from a node or from
\* what is anchored at one, exists, ends at the model of the assignment's
\* node, and starts with the accessor the decision on one object walks.
StoredAssignmentsCompare ==
    (serving /\ AccessorsLead /\ AccessorsAreShared /\ Compared(stored)) =>
        LET rank == RankOf(stored[1])
        IN  \A i \in {k \in Modeled : rank <= k} :
                /\ Walk(Label(hierarchy[i]), UpPath(i, rank)) = stored[2]
                /\ \A m \in DOMAIN anchors :
                       Walk(m, anchors[m]) = Label(hierarchy[i]) =>
                           Walk(m, anchors[m] \o UpPath(i, rank)) = stored[2]
                /\ rank < i => ParentAccessor(Label(hierarchy[i]))
                                  = Parent(hierarchy[i])

\* SPEC 4.1: in strict mode no model of the host's applications is left
\* without a policy when traffic is accepted, and what was registered last
\* is the policy.
RegisteredModelsHaveOnePolicy ==
    /\ DOMAIN anchors \cap globals = {}
    /\ (serving /\ strict) =>
           \A m \in Models \ AutoCreated :
               (\E n \in NodeModels \cup Registered : AppOf[m] = AppOf[n]) =>
                   Kind(m) # "unregistered"

=============================================================================
