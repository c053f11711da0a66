----------------------------- MODULE ScopedWrites -----------------------------
(***************************************************************************)
(* The read and write paths of the REST framework integration              *)
(* (src/scoped_access/drf) and of the admin (src/scoped_access/admin.py)   *)
(* over one table of resources.  A request is a sequence of database       *)
(* moments, with no lock: it reads the stored object, asks the engine      *)
(* about it and about the object as it would be saved, and writes.         *)
(* Requests interleave with one another and with changes of authority; the *)
(* host's tree keeps its shape meanwhile.                                  *)
(***************************************************************************)
EXTENDS ScopedAccess, CollectionFilter

CONSTANTS
    Workers, Clients, \* threads that serve requests, users that send them
    Objects,          \* primary keys of the resource table
    Anchors,          \* what an object may be anchored at: nodes, or None
    AnchorModel,      \* the host model of those nodes
    InitStore,        \* the table the deployment starts with
    PermissionFor,    \* [Methods -> Permissions], "view_*" and the others
    LeafPermissions,  \* [model permission classes ->
                      \*     [Methods -> sets of permissions]], perms_map
    Views,            \* the viewsets a host may declare, each with the
                      \* surfaces the table is served on
    Absent, Keep      \* no such row; a payload that leaves the anchor alone

Methods == {"view", "add", "change", "delete"}

ModelLeaves == DOMAIN LeafPermissions

\* An entry of permission_classes, the leaves under one operator: a model
\* permission, ScopeObjectPermission, or a class that admits everyone.
Expression == [op : {"and", "or", "not"},
               of : Seq(ModelLeaves \cup {"scope", "other"}) \ {<< >>}]

ASSUME RequestAssumption ==
    /\ Clients \subseteq Users /\ AnchorModel \in Models
    /\ None \notin Permissions
    /\ {"scope", "other"} \cap ModelLeaves = {}
    /\ Anchors \subseteq Nodes \cup {None}
    /\ Anchors \cap {Absent, Keep} = {}
    /\ InitStore \in [Objects -> Anchors \cup {Absent}]
    /\ PermissionFor \in [Methods -> Permissions]
    /\ LeafPermissions \in [ModelLeaves -> [Methods -> SUBSET Permissions]]
    /\ \A v \in Views : /\ v.classes \subseteq Expression /\ v.hides \in BOOLEAN
                        /\ v.surfaces \subseteq {"api", "admin"}

VARIABLES
    view,    \* the viewset that serves the table
    store,   \* [Objects -> anchor of the stored row, or Absent]
    todo,    \* [Workers -> steps the request still has to take]
    request, \* [Workers -> its arguments and the anchor it has read]
    had,     \* history: [Workers -> anchors the stored object had, and
    held     \* where the client was entitled, since the request began]

http == <<view, store, todo, request, had, held>>

(***************************************************************************)
(* Permissions of a viewset.                                               *)
(***************************************************************************)
Leaves(e) == {e.of[i] : i \in DOMAIN e.of}

\* Mutant: only the classes that stand alone are found.
RequiredAlone(v, method) ==
    UNION {UNION {LeafPermissions[leaf][method] :
                      leaf \in Leaves(e) \cap ModelLeaves} :
               e \in {f \in v.classes : Len(f.of) = 1}}

\* _required_scoped_permissions.
Required(v, method) ==
    UNION {UNION {LeafPermissions[leaf][method] :
                      leaf \in Leaves(e) \cap ModelLeaves} : e \in v.classes}

\* No request gets through a negation (every leaf admits at view level) or an
\* alternative with a model permission (ImproperlyConfigured).  On a detail
\* route the code stops at the first leaf that protects it and may not come to
\* such an alternative; here it refuses the request in either order.
Serves(v) ==
    \A e \in v.classes : \/ e.op = "and"
                         \/ e.op = "or" /\ Leaves(e) \cap ModelLeaves = {}

\* Nothing on a detail route looks at the scope, as far as the mixin can tell.
WarnsOfDetailRoutes(v) ==
    /\ ~v.hides
    /\ \A e \in v.classes : /\ Leaves(e) \cap ModelLeaves = {}
                            /\ e.of # <<"scope">>

At(anchor) == IF anchor = None THEN DENIED ELSE anchor

\* has_object_permission of one class.
LeafAdmits(leaf, u, method, anchor) ==
    \/ leaf = "other"
    \/ leaf = "scope" /\ UserCovers(u, At(anchor))
    \/ /\ leaf \in ModelLeaves
       /\ \A p \in LeafPermissions[leaf][method] : HasPerm(u, p, At(anchor))

\* A leaf refuses with an exception, so the first one decides an alternative.
ViewAdmits(v, u, method, anchor) ==
    \A e \in v.classes :
        LET asked == IF e.op = "or" THEN {e.of[1]} ELSE Leaves(e)
        IN  \A leaf \in asked : LeafAdmits(leaf, u, method, anchor)

\* scope_filter_q over the resources of the table.
InFilter(u, p, anchor) ==
    IF anchor = None THEN VisibleUnanchored(u, p, DENIED)
                     ELSE anchor \in VisibleAnchors(u, AnchorModel, p)

\* ScopeQuerySetMixin.get_queryset where it filters.
InScopedQuerySet(v, u, method, anchor) ==
    \A p \in IF Required(v, method) = {} THEN {None} ELSE Required(v, method) :
        InFilter(u, p, anchor)

\* _assert_target_scope.
TargetAdmitted(v, u, method, anchor) ==
    IF Required(v, method) = {} THEN UserCovers(u, At(anchor))
    ELSE \A p \in Required(v, method) : HasPerm(u, p, At(anchor))

(***************************************************************************)
(* Permissions of the admin.                                               *)
(***************************************************************************)
AdminAdmits(u, method, anchor) == HasPerm(u, PermissionFor[method], At(anchor))

InChangeList(u, anchor) == InFilter(u, PermissionFor["view"], anchor)

\* The nodes a form offers as anchors.
Choices(u) ==
    UNION {AccessibleNodes(u, level, PermissionFor[method]) :
               level \in LevelsForModel(AnchorModel),
               method \in {"add", "change"}}

(***************************************************************************)
(* Requests.                                                               *)
(***************************************************************************)
\* Mutant: the admin saves an edit without reading the row again.
StepsWithoutReread(surface, method) ==
    CASE method = "add" -> {<<"guard", "write">>}
      [] method = "change" ->
             {<<"fetch", "check", "guard", "write">>}
             \cup (IF surface = "api" THEN {} ELSE {<<"fetch", "guard", "write">>})
      [] method = "delete" -> {<<"fetch", "check", "write">>}

\* In the admin, edits come from the change form, which checks the object
\* first, or from list_editable, which does not; deletions from the object's
\* page or from the action on a selection.
Steps(surface, method) ==
    CASE method = "add" -> {<<"guard", "write">>}
      [] method = "change" /\ surface = "api" ->
             {<<"fetch", "check", "guard", "write">>}
      [] method = "change" /\ surface = "admin" ->
             {<<"fetch", "check", "guard", "reread", "check", "write">>,
              <<"fetch", "guard", "reread", "check", "write">>}
      [] method = "delete" /\ surface = "api" -> {<<"fetch", "check", "write">>}
      [] method = "delete" /\ surface = "admin" ->
             {<<"fetch", "check", "write">>,
              <<"fetch", "check", "select", "purge">>}

NoRequest == [surface |-> "none", method |-> "view", client |-> None,
              object |-> None, payload |-> Keep, read |-> Absent, seen |-> {}]

Doing(w, step) == todo[w] # << >> /\ Head(todo[w]) = step

Stored(w) == store[request[w].object]

Proceed(w) == todo' = [todo EXCEPT ![w] = Tail(@)] /\ UNCHANGED request

Finish(w) ==
    /\ todo' = [todo EXCEPT ![w] = << >>]
    /\ request' = [request EXCEPT ![w] = NoRequest]

\* Goes on if the condition holds; else the response is 403 or 404.
Require(w, condition) ==
    /\ IF condition THEN Proceed(w) ELSE Finish(w)
    /\ UNCHANGED <<view, store>>

\* The permission a request needs somewhere, before any object is known.
ModelLevel(surface, u, method) ==
    \A p \in IF surface = "api" THEN Required(view, method)
                                ELSE {PermissionFor[method]} :
        HasPerm(u, p, GLOBAL)

Begin(w, surface, u, method, x, payload) ==
    /\ todo[w] = << >> /\ surface \in view.surfaces
    /\ surface = "api" => Serves(view)
    /\ ModelLevel(surface, u, method)
    /\ \E steps \in Steps(surface, method) : todo' = [todo EXCEPT ![w] = steps]
    /\ request' = [request EXCEPT ![w] =
           [surface |-> surface, method |-> method, client |-> u,
            object |-> x, payload |-> payload, read |-> Absent, seen |-> {}]]
    /\ UNCHANGED <<view, store>>

\* Whether the queryset an object is looked up in contains the row.
InQuerySet(r, anchor) ==
    /\ anchor # Absent
    /\ r.surface = "admin" => InChangeList(r.client, anchor)
    /\ r.surface = "api" /\ view.hides =>
           InScopedQuerySet(view, r.client, r.method, anchor)

\* get_queryset of a bulk action: the filter is built from the assignments of
\* this moment, and both queries of the action use it.
Seen(w) ==
    IF \E i \in DOMAIN todo[w] : todo[w][i] = "purge"
    THEN {anchor \in Anchors : InChangeList(request[w].client, anchor)} ELSE {}

\* get_object: the instance the rest of the request works with.
Fetch(w) ==
    /\ Doing(w, "fetch")
    /\ IF InQuerySet(request[w], Stored(w))
       THEN /\ todo' = [todo EXCEPT ![w] = Tail(@)]
            /\ request' = [request EXCEPT ![w].read = Stored(w), ![w].seen = Seen(w)]
       ELSE Finish(w)
    /\ UNCHANGED <<view, store>>

\* check_object_permissions; has_change_permission, has_delete_permission.
Check(w) ==
    LET r == request[w]
    IN  /\ Doing(w, "check")
        /\ Require(w, IF r.surface = "api"
                      THEN ViewAdmits(view, r.client, r.method, r.read)
                      ELSE AdminAdmits(r.client, r.method, r.read))

\* _apply_payload; the admin's form does the same.
Candidate(r) == IF r.payload = Keep THEN r.read ELSE r.payload

\* perform_create, perform_update; the first check of save_model.
Guard(w) ==
    LET r == request[w]
    IN  /\ Doing(w, "guard")
        /\ Require(w, IF r.surface = "api"
                      THEN TargetAdmitted(view, r.client, r.method, Candidate(r))
                      ELSE AdminAdmits(r.client, r.method, Candidate(r)))

\* save_model reads the row again; the form's object keeps its own anchor.
Reread(w) ==
    /\ Doing(w, "reread")
    /\ IF Stored(w) = Absent
       THEN Finish(w)
       ELSE /\ todo' = [todo EXCEPT ![w] = Tail(@)]
            /\ request' = [request EXCEPT ![w].payload = Candidate(request[w]),
                                          ![w].read = Stored(w)]
    /\ UNCHANGED <<view, store>>

\* delete_queryset refuses what is in the queryset and may not be deleted now...
Select(w) ==
    LET r == request[w]
    IN  /\ Doing(w, "select")
        /\ Require(w, Stored(w) \in r.seen =>
                          InFilter(r.client, PermissionFor["delete"], Stored(w)))

\* ... and deletes the rows that are in it by then.
Purge(w) ==
    LET r == request[w]
    IN  /\ Doing(w, "purge")
        /\ store' = IF Stored(w) \in r.seen
                    THEN [store EXCEPT ![r.object] = Absent] ELSE store
        /\ Finish(w)
        /\ UNCHANGED view

\* Model.save writes every column, and inserts a row that is gone; DELETE.
Write(w) ==
    LET r == request[w]
    IN  /\ Doing(w, "write")
        /\ store' = [store EXCEPT ![r.object] =
               IF r.method = "delete" THEN Absent ELSE Candidate(r)]
        /\ Finish(w)
        /\ UNCHANGED view

RequestStep(w) ==
    \/ \E surface \in {"api", "admin"}, u \in Clients, x \in Objects :
           \/ \E n \in Anchors : /\ store[x] = Absent
                                 /\ Begin(w, surface, u, "add", x, n)
           \/ \E n \in Anchors \cup {Keep} : Begin(w, surface, u, "change", x, n)
           \/ Begin(w, surface, u, "delete", x, Keep)
    \/ Fetch(w) \/ Check(w) \/ Guard(w) \/ Reread(w)
    \/ Select(w) \/ Purge(w) \/ Write(w)

AuthorityStep ==
    /\ \E by \in Actors, a \in Rows : Suspend(by, a) \/ Reactivate(by, a)
    /\ UNCHANGED <<view, store, todo, request>>

\* Where the client of a request may do what it asks for: what the policy of
\* the viewset admits within the client's scope; the admin's permission.
Entitled(r) ==
    {anchor \in Anchors :
        IF r.surface = "api"
        THEN /\ ViewAdmits(view, r.client, r.method, anchor)
             /\ UserCovers(r.client, At(anchor))
        ELSE AdminAdmits(r.client, r.method, anchor)}

\* The histories follow every step.
Remember ==
    /\ had' = [w \in Workers |->
           IF todo'[w] = << >> THEN {}
           ELSE had[w] \cup ({Stored(w)'} \ {Absent})]
    /\ held' = [w \in Workers |->
           IF todo'[w] = << >> THEN {} ELSE held[w] \cup Entitled(request[w])']

HttpInit ==
    /\ Init
    /\ view \in Views
    /\ store = InitStore
    /\ todo = [w \in Workers |-> << >>]
    /\ request = [w \in Workers |-> NoRequest]
    /\ had = [w \in Workers |-> {}]
    /\ held = [w \in Workers |-> {}]

HttpNext ==
    /\ \/ \E w \in Workers : RequestStep(w) /\ UNCHANGED db
       \/ AuthorityStep
    /\ Remember

HttpSpec == HttpInit /\ [][HttpNext]_<<db, http>>

(***************************************************************************)
(* Properties.                                                             *)
(***************************************************************************)

\* SPEC 5 and docs/drf.md, for a viewset that raises no warning and for the
\* admin: whatever other requests and managers do in the meantime, a request
\* replaces or deletes an object only if the object was, at some moment of
\* the request, where its client was entitled at some moment of it, and it
\* saves only what its client was then entitled to save.
EveryWriteWasEntitled ==
    [][\A w \in Workers :
           LET r == request[w]
           IN  (/\ \/ Doing(w, "write") /\ todo'[w] = << >>
                   \/ Doing(w, "purge") /\ store' # store
                /\ r.surface = "api" => ~WarnsOfDetailRoutes(view)) =>
               /\ r.method # "add" => had[w] \cap held[w] # {}
               /\ r.method # "delete" => Candidate(r) \in held[w]
      ]_<<db, http>>

\* docs/drf.md: "List querysets use the same permission-aware rule": a list
\* shows exactly the objects whose detail page its client may open within its
\* scope, a change list of the admin those the client may view, and a form
\* offers exactly the nodes where the client may add or change.
ListAgreesWithDetail ==
    \A u \in Clients, anchor \in Anchors :
        /\ Serves(view) =>
               (InScopedQuerySet(view, u, "view", anchor) <=>
                    /\ ViewAdmits(view, u, "view", anchor)
                    /\ UserCovers(u, At(anchor)))
        /\ InChangeList(u, anchor) <=> AdminAdmits(u, "view", anchor)
        /\ anchor # None =>
               (anchor \in Choices(u) <=> \E method \in {"add", "change"} :
                                              AdminAdmits(u, method, anchor))

(***************************************************************************)
(* Deployments the properties are proved for.                              *)
(***************************************************************************)
\* A viewset with model permissions asks for one of them on every method, or
\* hides what its client cannot reach.  The code does not see to it: with an
\* empty entry in perms_map it neither warns nor looks at the stored object.
MethodsAreMapped ==
    \A v \in Views :
        LET model(e) == Leaves(e) \cap ModelLeaves
        IN  \/ v.hides \/ \A e \in v.classes : model(e) = {}
            \/ \A method \in Methods : \E e \in v.classes : \E leaf \in model(e) :
                   LeafPermissions[leaf][method] # {}

\* Every parent of the host's tree lies one level up, and the anchors are nodes
\* of the model the resource declares.
HostIsLayered ==
    /\ \A n \in Nodes :
           /\ \E level \in ModeledLevels : InitKind[n] = {level}
           /\ InitParent[n] \in Nodes =>
                  \A low \in InitKind[n], high \in InitKind[InitParent[n]] :
                      NextRank(Rank(low), Rank(high))
    /\ \A n \in Anchors \ {None} : \A level \in InitKind[n] : ModelOf[level] = AnchorModel

=============================================================================
