-------------------------- MODULE ScopedWritesProofs --------------------------
(***************************************************************************)
(* Machine-checked proofs about ScopedWrites: for any viewsets, clients,   *)
(* objects and threads, and any interleaving of their requests with        *)
(* changes of authority.                                                   *)
(***************************************************************************)
EXTENDS ScopedWrites, CollectionFilterProofs

(***************************************************************************)
(* The steps a request still has to take.                                  *)
(***************************************************************************)
StepNames == {"fetch", "check", "guard", "reread", "select", "purge", "write"}

ToCome(s, step) == \E i \in 1..Len(s) : s[i] = step

\* The object is read first and checked later, the table written last, and
\* what is saved is guarded after it was read.
Ordered(s, method) ==
    /\ \A i \in 1..Len(s) : /\ s[i] = "fetch" => i = 1
                            /\ s[i] \in {"write", "purge"} => i = Len(s)
    /\ ToCome(s, "fetch") =>
           ToCome(s, "check") /\ (method # "delete" => ToCome(s, "guard"))

\* What a step leaves of the list.
LEMMA StepTaken ==
    ASSUME NEW method, NEW s \in Seq(StepNames), s # << >>, Ordered(s, method)
    PROVE  /\ Tail(s) \in Seq(StepNames) /\ Ordered(Tail(s), method)
           /\ ~ToCome(Tail(s), "fetch")
           /\ \A step : ToCome(s, step) => Head(s) = step \/ ToCome(Tail(s), step)
<1>1. Len(s) \in Nat /\ Len(s) > 0 /\ Head(s) = s[1]
  OBVIOUS
<1>2. Tail(s) \in Seq(StepNames) /\ Len(Tail(s)) = Len(s) - 1
  OBVIOUS
<1>3. \A i \in 1..(Len(s) - 1) : Tail(s)[i] = s[i + 1]
  OBVIOUS
<1>4. \A i \in 1..(Len(s) - 1) : i + 1 \in 1..Len(s) /\ i + 1 # 1
  BY <1>1
<1>5. \A i \in 1..Len(s) : /\ s[i] = "fetch" => i = 1
                           /\ s[i] \in {"write", "purge"} => i = Len(s)
  BY DEF Ordered
<1>6. ASSUME ToCome(Tail(s), "fetch")  PROVE FALSE
  <2>1. PICK i \in 1..(Len(s) - 1) : Tail(s)[i] = "fetch"  BY <1>2, <1>6 DEF ToCome
  <2>2. s[i + 1] = "fetch"  BY <1>3, <2>1
  <2> QED  BY <1>4, <1>5, <2>2
<1>7. ASSUME NEW i \in 1..Len(Tail(s))
      PROVE  /\ Tail(s)[i] = "fetch" => i = 1
             /\ Tail(s)[i] \in {"write", "purge"} => i = Len(Tail(s))
  <2>1. i \in 1..(Len(s) - 1) /\ Tail(s)[i] = s[i + 1]  BY <1>2, <1>3
  <2>2. i + 1 \in 1..Len(s) /\ i + 1 # 1  BY <1>4, <2>1
  <2>3. s[i + 1] # "fetch"  BY <1>5, <2>2
  <2>4. s[i + 1] \in {"write", "purge"} => i + 1 = Len(s)  BY <1>5, <2>2
  <2>5. i + 1 = Len(s) => i = Len(s) - 1  BY <1>1, <2>1
  <2>6. i + 1 = Len(s) => i = Len(Tail(s))  BY <1>2, <2>5
  <2> QED  BY <2>1, <2>3, <2>4, <2>6
<1>8. Ordered(Tail(s), method)
  BY <1>6, <1>7 DEF Ordered
<1>9. ASSUME NEW step, ToCome(s, step), Head(s) # step  PROVE ToCome(Tail(s), step)
  <2>1. PICK i \in 1..Len(s) : s[i] = step  BY <1>9 DEF ToCome
  <2>2. i # 1  BY <1>1, <1>9, <2>1
  <2>3. i - 1 \in 1..(Len(s) - 1) /\ (i - 1) + 1 = i  BY <1>1, <2>1, <2>2
  <2>4. Tail(s)[i - 1] = step  BY <1>3, <2>1, <2>3
  <2> QED  BY <1>1, <1>2, <2>3, <2>4 DEF ToCome
<1> QED  BY <1>2, <1>6, <1>8, <1>9

\* Nothing is read first but by the head of the list.
LEMMA FetchIsFirst ==
    ASSUME NEW method, NEW s \in Seq(StepNames), s # << >>, Ordered(s, method),
           Head(s) # "fetch"
    PROVE  ~ToCome(s, "fetch")
BY StepTaken

\* The last step is alone in its list.
LEMMA LastStep ==
    ASSUME NEW method, NEW s \in Seq(StepNames), s # << >>, Ordered(s, method),
           Head(s) \in {"write", "purge"}, NEW step, ToCome(s, step)
    PROVE  step = Head(s)
<1>1. Len(s) \in Nat /\ Len(s) > 0 /\ Head(s) = s[1] /\ 1 \in 1..Len(s)  OBVIOUS
<1>2. s[1] \in {"write", "purge"} => 1 = Len(s)  BY <1>1 DEF Ordered
<1>3. Len(s) = 1  BY <1>1, <1>2
<1>4. PICK i \in 1..Len(s) : s[i] = step  BY DEF ToCome
<1>5. i = 1  BY <1>3, <1>4
<1> QED  BY <1>1, <1>4, <1>5

\* The lists a request may start with.
LEMMA FirstSteps ==
    ASSUME NEW surface \in {"api", "admin"}, NEW method \in {"add", "change", "delete"},
           NEW s \in Steps(surface, method)
    PROVE  /\ s \in Seq(StepNames) /\ s # << >> /\ Ordered(s, method)
           /\ method # "add" => ToCome(s, "fetch") /\ ToCome(s, "check")
           /\ method # "delete" => ToCome(s, "guard")
<1>1. CASE s = <<"guard", "write">> /\ method = "add"
  BY <1>1 DEF ToCome, Ordered, StepNames
<1>2. CASE s = <<"fetch", "check", "guard", "write">> /\ method = "change"
  BY <1>2 DEF ToCome, Ordered, StepNames
<1>3. CASE s = <<"fetch", "check", "guard", "reread", "check", "write">> /\ method = "change"
  BY <1>3 DEF ToCome, Ordered, StepNames
<1>4. CASE s = <<"fetch", "guard", "reread", "check", "write">> /\ method = "change"
  BY <1>4 DEF ToCome, Ordered, StepNames
<1>5. CASE s = <<"fetch", "check", "write">> /\ method = "delete"
  BY <1>5 DEF ToCome, Ordered, StepNames
<1>6. CASE s = <<"fetch", "check", "select", "purge">> /\ method = "delete"
  BY <1>6 DEF ToCome, Ordered, StepNames
<1> QED  BY <1>1, <1>2, <1>3, <1>4, <1>5, <1>6 DEF Steps

(***************************************************************************)
(* What the checks of the integration establish.                           *)
(***************************************************************************)
\* A permission at a target is held through an assignment that covers it.
LEMMA PermissionCovers ==
    ASSUME NEW u, NEW p, NEW t, HasPerm(u, p, t)
    PROVE  UserCovers(u, t)
BY DEF HasPerm, UserCovers, UserPermissions

\* Each class of a viewset that serves requests admits what the required
\* permissions and the client's scope admit.
LEMMA Admission ==
    ASSUME NEW v \in Views, Serves(v), NEW method, NEW u, NEW x, UserCovers(u, At(x)),
           \A p \in Required(v, method) : HasPerm(u, p, At(x))
    PROVE  ViewAdmits(v, u, method, x)
<1> SUFFICES ASSUME NEW e \in v.classes
             PROVE  \A leaf \in IF e.op = "or" THEN {e.of[1]} ELSE Leaves(e) :
                        LeafAdmits(leaf, u, method, x)
  BY DEF ViewAdmits
<1>1. e \in Expression  BY RequestAssumption
<1>2. /\ e.of \in Seq(ModelLeaves \cup {"scope", "other"}) /\ e.of # << >>
  BY <1>1 DEF Expression
<1>3. 1 \in DOMAIN e.of /\ e.of[1] \in Leaves(e)  BY <1>2 DEF Leaves
<1>4. Leaves(e) \subseteq ModelLeaves \cup {"scope", "other"}  BY <1>2 DEF Leaves
<1>5. ASSUME NEW leaf \in Leaves(e)  PROVE LeafAdmits(leaf, u, method, x)
  <2>1. CASE leaf \in ModelLeaves
    <3>1. LeafPermissions[leaf][method] \subseteq Required(v, method)
      BY <2>1, <1>5 DEF Required
    <3> QED  BY <2>1, <3>1 DEF LeafAdmits
  <2>2. CASE leaf \notin ModelLeaves  BY <1>4, <1>5, <2>2 DEF LeafAdmits
  <2> QED  BY <2>1, <2>2
<1> QED  BY <1>3, <1>5

\* ... and admits nothing without the required permissions.
LEMMA AdmittedHolds ==
    ASSUME NEW v \in Views, Serves(v), NEW method, NEW u, NEW x,
           ViewAdmits(v, u, method, x), NEW p \in Required(v, method)
    PROVE  HasPerm(u, p, At(x))
<1>1. PICK e \in v.classes : \E leaf \in Leaves(e) \cap ModelLeaves :
                                 p \in LeafPermissions[leaf][method]
  BY DEF Required
<1>2. PICK leaf \in Leaves(e) \cap ModelLeaves : p \in LeafPermissions[leaf][method]
  BY <1>1
<1>3. e.op = "and"  BY <1>2 DEF Serves
<1>4. LeafAdmits(leaf, u, method, x)  BY <1>2, <1>3 DEF ViewAdmits
<1>5. leaf # "other" /\ leaf # "scope"  BY <1>2, RequestAssumption
<1> QED  BY <1>2, <1>4, <1>5 DEF LeafAdmits

\* The check of the object as it would be saved.
LEMMA TargetIsEntitled ==
    ASSUME NEW v \in Views, Serves(v), NEW method, NEW u, NEW x,
           TargetAdmitted(v, u, method, x)
    PROVE  ViewAdmits(v, u, method, x) /\ UserCovers(u, At(x))
<1>1. \A p \in Required(v, method) : HasPerm(u, p, At(x))  BY DEF TargetAdmitted
<1>2. UserCovers(u, At(x))
  <2>1. CASE Required(v, method) = {}  BY <2>1 DEF TargetAdmitted
  <2>2. CASE Required(v, method) # {}  BY <1>1, <2>2, PermissionCovers
  <2> QED  BY <2>1, <2>2
<1> QED  BY <1>1, <1>2, Admission

\* A filter shows a resource only where the decision admits its anchor.
LEMMA ShownIsAllowed ==
    ASSUME FilterIsSound, NEW u \in Users, NEW p \in Permissions \cup {None},
           NEW x \in Anchors, InFilter(u, p, x)
    PROVE  Decides(u, p, At(x))
<1>1. p \in Asked  BY DEF Asked
<1>2. CASE x = None
  BY <1>1, <1>2 DEF InFilter, At, FilterIsSound, Anchorless
<1>3. CASE x # None
  <2>1. AnchorModel \in Models  BY RequestAssumption
  <2>2. x \in VisibleAnchors(u, AnchorModel, p)  BY <1>3 DEF InFilter
  <2>3. Decides(u, p, x)  BY <1>1, <2>1, <2>2 DEF FilterIsSound
  <2> QED  BY <1>3, <2>3 DEF At
<1> QED  BY <1>2, <1>3

\* What a viewset requires are permissions.
LEMMA RequiredTyped ==
    ASSUME NEW v, NEW method \in Methods
    PROVE  Required(v, method) \subseteq Permissions
BY RequestAssumption DEF Required, ModelLeaves

\* A queryset that filters shows only what its client may reach.
LEMMA QuerySetIsEntitled ==
    ASSUME FilterIsSound, NEW v \in Views, Serves(v), NEW method \in Methods,
           NEW u \in Users, NEW x \in Anchors, InScopedQuerySet(v, u, method, x)
    PROVE  ViewAdmits(v, u, method, x) /\ UserCovers(u, At(x))
<1>1. CASE Required(v, method) = {}
  <2>1. InFilter(u, None, x)  BY <1>1 DEF InScopedQuerySet
  <2>2. Decides(u, None, At(x))  BY <2>1, ShownIsAllowed
  <2>3. UserCovers(u, At(x))  BY <2>2 DEF Decides
  <2> QED  BY <1>1, <2>3, Admission
<1>2. CASE Required(v, method) # {}
  <2>1. ASSUME NEW p \in Required(v, method)  PROVE HasPerm(u, p, At(x))
    <3>1. p \in Permissions /\ p # None  BY <2>1, RequiredTyped, RequestAssumption
    <3>2. InFilter(u, p, x)  BY <2>1, <1>2 DEF InScopedQuerySet
    <3>3. Decides(u, p, At(x))  BY <3>1, <3>2, ShownIsAllowed
    <3> QED  BY <3>1, <3>3 DEF Decides
  <2>2. UserCovers(u, At(x))  BY <1>2, <2>1, PermissionCovers
  <2> QED  BY <2>1, <2>2, Admission
<1> QED  BY <1>1, <1>2

\* A viewset that raises no warning and does not filter checks the scope of
\* the object itself.
LEMMA CheckedIsEntitled ==
    ASSUME MethodsAreMapped, NEW v \in Views, Serves(v), ~WarnsOfDetailRoutes(v), ~v.hides,
           NEW method \in Methods, NEW u, NEW x, ViewAdmits(v, u, method, x)
    PROVE  UserCovers(u, At(x))
<1>1. PICK e \in v.classes : Leaves(e) \cap ModelLeaves # {} \/ e.of = <<"scope">>
  BY DEF WarnsOfDetailRoutes
<1>2. CASE Leaves(e) \cap ModelLeaves # {}
  <2>1. PICK f \in v.classes, leaf \in ModelLeaves :
            leaf \in Leaves(f) /\ LeafPermissions[leaf][method] # {}
    BY <1>1, <1>2 DEF MethodsAreMapped
  <2>2. PICK p \in LeafPermissions[leaf][method] : TRUE  BY <2>1
  <2>3. p \in Required(v, method)  BY <2>1, <2>2 DEF Required
  <2>4. HasPerm(u, p, At(x))  BY <2>3, AdmittedHolds
  <2> QED  BY <2>4, PermissionCovers
<1>3. CASE e.of = <<"scope">>
  <2>1. 1 \in DOMAIN e.of /\ e.of[1] = "scope"  BY <1>3
  <2>2. LeafAdmits("scope", u, method, x)  BY <2>1 DEF ViewAdmits, Leaves
  <2>3. "scope" \notin ModelLeaves  BY RequestAssumption
  <2> QED  BY <2>2, <2>3 DEF LeafAdmits
<1> QED  BY <1>1, <1>2, <1>3

(***************************************************************************)
(* What a step that leaves the authorization database alone decides is the *)
(* same after it, for the client of any request.                           *)
(***************************************************************************)
LEMMA AssignmentFrame ==
    ASSUME UNCHANGED db
    PROVE  \A a \in Rows : /\ Effective(a)' <=> Effective(a)
                           /\ IsValid(a)' <=> IsValid(a)
                           /\ \A t : Covers(a, t)' <=> Covers(a, t)
                           /\ RolePerms(a)' = RolePerms(a)
<1> USE DEF db
<1>1. \A n : Ancestors(n)' = Ancestors(n)  BY DEF Ancestors, Closed
<1>2. \A a : ScopeIsValid(a)' = ScopeIsValid(a)
  BY DEF ScopeIsValid, IsRootScope, SelectsNode
<1>3. \A a : IsValid(a)' = IsValid(a)
  BY <1>1, <1>2 DEF IsValid, RoleAssignable, OwnerAdmits, SelectsNode
<1>4. \A a : Effective(a)' = Effective(a)  BY DEF Effective, InWindow
<1>5. \A a, t : Covers(a, t)' = Covers(a, t)  BY <1>1 DEF Covers, IsRootScope
<1>6. \A a : RolePerms(a)' = RolePerms(a)  BY DEF RolePerms
<1> QED  BY <1>3, <1>4, <1>5, <1>6

\* The permissions of a client.
LEMMA HasPermFrame ==
    ASSUME UNCHANGED db, NEW w, NEW p, NEW t
    PROVE  HasPerm(request[w].client, p, t)' <=> HasPerm(request'[w].client, p, t)
<1> DEFINE u == request'[w].client
<1>1. active' = active /\ rows' = rows /\ Rows' = Rows  BY DEF db, Rows
<1>2. HasPerm(request[w].client, p, t)' <=>
          /\ u \in active
          /\ \/ u \in SuperUsers
             \/ \E a \in Rows : /\ rows[a].user = u /\ Effective(a)' /\ IsValid(a)'
                                /\ Covers(a, t)' /\ p \in RolePerms(a)'
  BY <1>1 DEF HasPerm, UserPermissions, Authority
<1>3. HasPerm(u, p, t) <=>
          /\ u \in active
          /\ \/ u \in SuperUsers
             \/ \E a \in Rows : /\ rows[a].user = u /\ Effective(a) /\ IsValid(a)
                                /\ Covers(a, t) /\ p \in RolePerms(a)
  BY DEF HasPerm, UserPermissions, Authority
<1> QED  BY <1>2, <1>3, AssignmentFrame

\* The scope of a client.
LEMMA UserCoversFrame ==
    ASSUME UNCHANGED db, NEW w, NEW t
    PROVE  UserCovers(request[w].client, t)' <=> UserCovers(request'[w].client, t)
<1> DEFINE u == request'[w].client
<1>1. active' = active /\ rows' = rows /\ Rows' = Rows  BY DEF db, Rows
<1>2. UserCovers(request[w].client, t)' <=>
          /\ u \in active
          /\ \/ u \in SuperUsers \/ t = GLOBAL
             \/ \E a \in Rows : /\ rows[a].user = u /\ Effective(a)' /\ IsValid(a)'
                                /\ Covers(a, t)'
  BY <1>1 DEF UserCovers, Authority
<1>3. UserCovers(u, t) <=>
          /\ u \in active
          /\ \/ u \in SuperUsers \/ t = GLOBAL
             \/ \E a \in Rows : /\ rows[a].user = u /\ Effective(a) /\ IsValid(a)
                                /\ Covers(a, t)
  BY DEF UserCovers, Authority
<1> QED  BY <1>2, <1>3, AssignmentFrame

\* Where the client of a request is entitled.
LEMMA EntitledFrame ==
    ASSUME UNCHANGED db, UNCHANGED view, NEW w, NEW x \in Anchors
    PROVE  LET r == request'[w]
           IN  x \in Entitled(request[w])' <=>
                   IF r.surface = "api"
                   THEN ViewAdmits(view, r.client, r.method, x) /\ UserCovers(r.client, At(x))
                   ELSE AdminAdmits(r.client, r.method, x)
<1>1. \A p, t : HasPerm(request[w].client, p, t)' <=> HasPerm(request'[w].client, p, t)
  BY HasPermFrame
<1>2. UserCovers(request[w].client, At(x))' <=> UserCovers(request'[w].client, At(x))
  BY UserCoversFrame
<1>3. \A leaf : LeafAdmits(leaf, request[w].client, request[w].method, x)' <=>
                    LeafAdmits(leaf, request'[w].client, request'[w].method, x)
  BY <1>1, <1>2 DEF LeafAdmits
<1>4. ViewAdmits(view, request[w].client, request[w].method, x)' <=>
          ViewAdmits(view, request'[w].client, request'[w].method, x)
  BY <1>3 DEF ViewAdmits
<1>5. AdminAdmits(request[w].client, request[w].method, x)' <=>
          AdminAdmits(request'[w].client, request'[w].method, x)
  BY <1>1 DEF AdminAdmits
<1> QED  BY <1>2, <1>4, <1>5 DEF Entitled

(***************************************************************************)
(* The inductive invariant: what a request has established, by the steps   *)
(* it still has to take.                                                   *)
(***************************************************************************)
RequestRecord ==
    [surface : {"none", "api", "admin"}, method : Methods, client : Clients \cup {None},
     object : Objects \cup {None}, payload : Anchors \cup {Keep},
     read : Anchors \cup {Absent}, seen : SUBSET Anchors]

Typed ==
    /\ view \in Views
    /\ store \in [Objects -> Anchors \cup {Absent}]
    /\ todo \in [Workers -> Seq(StepNames)]
    /\ request \in [Workers -> RequestRecord]

\* A request as Begin admits it.
Admitted(w) ==
    LET r == request[w]
    IN  /\ r.surface \in {"api", "admin"} /\ r.client \in Clients /\ r.object \in Objects
        /\ r.method \in {"add", "change", "delete"}
        /\ r.surface = "api" => Serves(view)
        /\ r.method = "add" => r.payload \in Anchors

\* The stored object was somewhere its client was entitled.
Vouched(w) == had[w] \cap held[w] # {}

\* What the fetch, the queryset it filters with, the check of the object and
\* the check of what is saved leave behind.
Fetched(w) ==
    (request[w].method # "add" /\ ~ToCome(todo[w], "fetch")) => request[w].read \in had[w]

Filtered(w) ==
    (/\ request[w].method # "add" /\ ~ToCome(todo[w], "fetch")
     /\ request[w].surface = "api" /\ view.hides) => Vouched(w)

Checked(w) ==
    (/\ request[w].method # "add"
     /\ ~ToCome(todo[w], "fetch") /\ ~ToCome(todo[w], "check")
     /\ request[w].surface = "api" => ~WarnsOfDetailRoutes(view)) => Vouched(w)

Guarded(w) ==
    (request[w].method # "delete" /\ ~ToCome(todo[w], "guard")) =>
        Candidate(request[w]) \in held[w]

Progress(w) ==
    /\ had[w] \subseteq Anchors /\ held[w] \subseteq Anchors
    /\ todo[w] # << >> =>
           /\ Admitted(w) /\ Ordered(todo[w], request[w].method)
           /\ Fetched(w) /\ Filtered(w) /\ Checked(w) /\ Guarded(w)

HttpInv == Typed /\ \A w \in Workers : Progress(w)

\* The histories of a request that goes on only grow, and take in where its
\* object is and where its client is entitled.
LEMMA Remembered ==
    ASSUME Remember, NEW w \in Workers, todo'[w] # << >>
    PROVE  /\ had'[w] = had[w] \cup ({store'[request'[w].object]} \ {Absent})
           /\ held'[w] = held[w] \cup Entitled(request[w])'
           /\ Entitled(request[w])' \subseteq Anchors
<1>1. /\ had'[w] = had[w] \cup ({Stored(w)'} \ {Absent})
      /\ held'[w] = held[w] \cup Entitled(request[w])'
  BY DEF Remember
<1>2. Stored(w)' = store'[request'[w].object]  BY DEF Stored
<1>3. Entitled(request[w])' \subseteq Anchors  BY DEF Entitled
<1> QED  BY <1>1, <1>2, <1>3

\* A request that ends leaves nothing behind.
LEMMA Forgotten ==
    ASSUME Remember, NEW w \in Workers, todo'[w] = << >>
    PROVE  Progress(w)'
<1>1. had'[w] = {} /\ held'[w] = {}  BY DEF Remember
<1> QED  BY <1>1 DEF Progress

\* A request that takes no step loses nothing of what it has established.
LEMMA BystanderKeepsProgress ==
    ASSUME NEW w \in Workers, Progress(w), Typed', Remember, UNCHANGED view,
           todo'[w] = todo[w], request'[w] = request[w]
    PROVE  Progress(w)'
<1> SUFFICES ASSUME todo[w] # << >>  PROVE Progress(w)'
  BY Forgotten
<1>1. /\ Admitted(w) /\ Ordered(todo[w], request[w].method)
      /\ had[w] \subseteq Anchors /\ held[w] \subseteq Anchors
      /\ Fetched(w) /\ Filtered(w) /\ Checked(w) /\ Guarded(w)
  BY DEF Progress
<1>2. Admitted(w)' /\ Ordered(todo[w], request[w].method)'
  BY <1>1 DEF Admitted, Ordered, ToCome, Serves
<1>3. /\ had[w] \subseteq had'[w] /\ held[w] \subseteq held'[w]
      /\ had'[w] \subseteq Anchors /\ held'[w] \subseteq Anchors
  <2>1. store'[request'[w].object] \in Anchors \cup {Absent}
    BY <1>1 DEF Typed, Admitted
  <2> QED  BY <1>1, <2>1, Remembered
<1>4. Vouched(w) => Vouched(w)'  BY <1>3 DEF Vouched
<1>5. Fetched(w)' /\ Filtered(w)' /\ Checked(w)' /\ Guarded(w)'
  BY <1>1, <1>3, <1>4 DEF Fetched, Filtered, Checked, Guarded, Candidate
<1> QED  BY <1>2, <1>3, <1>5 DEF Progress

\* A step that goes on keeps what the request has established and adds what
\* the step itself establishes.
LEMMA StepKeepsProgress ==
    ASSUME NEW w \in Workers, Typed, Typed', Progress(w), Remember, UNCHANGED view,
           todo[w] # << >>, todo'[w] = Tail(todo[w]),
           request'[w].surface = request[w].surface,
           request'[w].method = request[w].method,
           request'[w].client = request[w].client,
           request'[w].object = request[w].object,
           request[w].method = "add" => request'[w].payload \in Anchors,
           \/ Head(todo[w]) # "fetch" /\ request'[w].read = request[w].read
           \/ request'[w].read \in had'[w],
           \/ Head(todo[w]) = "fetch"
           \/ Candidate(request'[w]) = Candidate(request[w]),
           (/\ Head(todo[w]) = "fetch" /\ request[w].surface = "api"
            /\ view.hides) => Vouched(w)',
           (/\ Head(todo[w]) = "check" /\ request[w].method # "add"
            /\ request[w].surface = "api" => ~WarnsOfDetailRoutes(view)) => Vouched(w)',
           (Head(todo[w]) = "guard" /\ request[w].method # "delete") =>
               Candidate(request'[w]) \in held'[w]
    PROVE  Progress(w)'
<1> SUFFICES ASSUME todo'[w] # << >>  PROVE Progress(w)'
  BY Forgotten
<1> DEFINE s == todo[w]
<1>1. /\ Admitted(w) /\ Ordered(s, request[w].method)
      /\ had[w] \subseteq Anchors /\ held[w] \subseteq Anchors
      /\ Fetched(w) /\ Filtered(w) /\ Checked(w) /\ Guarded(w)
  BY DEF Progress
<1>2. s \in Seq(StepNames)  BY DEF Typed
<1>3. /\ Ordered(Tail(s), request[w].method) /\ ~ToCome(Tail(s), "fetch")
      /\ \A step : ToCome(s, step) => Head(s) = step \/ ToCome(Tail(s), step)
      /\ Head(s) # "fetch" => ~ToCome(s, "fetch")
  BY <1>1, <1>2, StepTaken, FetchIsFirst
<1>4. Head(s) = "fetch" => /\ ToCome(s, "fetch") /\ ToCome(s, "check")
                           /\ request[w].method # "delete" => ToCome(s, "guard")
  <2>1. 1 \in 1..Len(s) /\ Head(s) = s[1]  BY <1>2
  <2>2. Head(s) = "fetch" => ToCome(s, "fetch")  BY <2>1 DEF ToCome
  <2> QED  BY <1>1, <2>2 DEF Ordered
<1>5. /\ had[w] \subseteq had'[w] /\ held[w] \subseteq held'[w]
      /\ had'[w] \subseteq Anchors /\ held'[w] \subseteq Anchors
  <2>1. store'[request'[w].object] \in Anchors \cup {Absent}
    BY <1>1 DEF Typed, Admitted
  <2> QED  BY <1>1, <2>1, Remembered
<1>6. Vouched(w) => Vouched(w)'  BY <1>5 DEF Vouched
<1>7. Admitted(w)'  BY <1>1 DEF Admitted, Serves
<1>8. Ordered(todo[w], request[w].method)'  BY <1>3 DEF Ordered, ToCome
<1>9. Fetched(w)'  BY <1>1, <1>3, <1>5 DEF Fetched
<1>10. Filtered(w)'
  <2>1. CASE Head(s) = "fetch"  BY <2>1 DEF Filtered
  <2>2. CASE Head(s) # "fetch"  BY <1>1, <1>3, <1>6, <2>2 DEF Filtered
  <2> QED  BY <2>1, <2>2
<1>11. Checked(w)'
  <2> SUFFICES ASSUME request[w].method # "add", ~ToCome(Tail(s), "check"),
                      request[w].surface = "api" => ~WarnsOfDetailRoutes(view)
               PROVE  Vouched(w)'
    BY DEF Checked, WarnsOfDetailRoutes
  <2>1. CASE Head(s) = "check"  BY <2>1
  <2>2. CASE Head(s) # "check"
    <3>1. ~ToCome(s, "check")  BY <1>3, <2>2
    <3>2. Head(s) # "fetch"  BY <1>4, <3>1
    <3> QED  BY <1>1, <1>3, <1>6, <3>1, <3>2 DEF Checked
  <2> QED  BY <2>1, <2>2
<1>12. Guarded(w)'
  <2>1. (request'[w].method # "delete" /\ ~ToCome(todo'[w], "guard")) =>
            Candidate(request'[w]) \in held'[w]
    <3> SUFFICES ASSUME request[w].method # "delete", ~ToCome(Tail(s), "guard")
                 PROVE  Candidate(request'[w]) \in held'[w]
      OBVIOUS
    <3>1. CASE Head(s) = "guard"  BY <3>1
    <3>2. CASE Head(s) # "guard"
      <4>1. ~ToCome(s, "guard")  BY <1>3, <3>2
      <4>2. Head(s) # "fetch"  BY <1>4, <4>1
      <4>3. Candidate(request[w]) \in held[w]  BY <1>1, <4>1 DEF Guarded
      <4> QED  BY <1>5, <4>2, <4>3
    <3> QED  BY <3>1, <3>2
  <2> QED  BY <2>1 DEF Guarded, Candidate
<1> QED  BY <1>5, <1>7, <1>8, <1>9, <1>10, <1>11, <1>12 DEF Progress

\* A request that has read its object has an anchor to save it at.
LEMMA CandidateIsAnchor ==
    ASSUME NEW w \in Workers, Typed, Progress(w), todo[w] # << >>,
           Head(todo[w]) # "fetch"
    PROVE  /\ Candidate(request[w]) \in Anchors
           /\ request[w].method # "add" => request[w].read \in had[w] \cap Anchors
<1>1. todo[w] \in Seq(StepNames) /\ request[w] \in RequestRecord  BY DEF Typed
<1>2. Ordered(todo[w], request[w].method) /\ Fetched(w) /\ had[w] \subseteq Anchors
      /\ Admitted(w)
  BY DEF Progress
<1>3. ~ToCome(todo[w], "fetch")  BY <1>1, <1>2, FetchIsFirst
<1>4. request[w].method # "add" => request[w].read \in had[w] \cap Anchors
  BY <1>2, <1>3 DEF Fetched
<1>5. Keep \notin Anchors  BY RequestAssumption
<1> QED  BY <1>1, <1>2, <1>4, <1>5 DEF Candidate, RequestRecord, Admitted

(***************************************************************************)
(* Every step of a request keeps the invariant.                            *)
(***************************************************************************)
\* What each step owes: the types, the progress of its own request, and that
\* it touches no other.
Kept(w) ==
    /\ Typed' /\ Progress(w)' /\ UNCHANGED view
    /\ \A v \in Workers \ {w} : todo'[v] = todo[v] /\ request'[v] = request[v]

\* Leaving with a response.
LEMMA FinishKeeps ==
    ASSUME Typed, Remember, NEW w \in Workers, Finish(w), UNCHANGED view,
           store' \in [Objects -> Anchors \cup {Absent}]
    PROVE  Kept(w)
<1>1. NoRequest \in RequestRecord  BY DEF NoRequest, RequestRecord, Methods
<1>2. << >> \in Seq(StepNames)  OBVIOUS
<1>3. todo' = [todo EXCEPT ![w] = << >>] /\ request' = [request EXCEPT ![w] = NoRequest]
  BY DEF Finish
<1>4. todo'[w] = << >>  BY <1>3 DEF Typed
<1> QED  BY <1>1, <1>2, <1>3, <1>4, Forgotten DEF Kept, Typed

\* Going on with the arguments of the request as they are.
LEMMA ProceedTypes ==
    ASSUME HttpInv, NEW w \in Workers, todo[w] # << >>, UNCHANGED <<view, store>>,
           NEW r \in RequestRecord, todo' = [todo EXCEPT ![w] = Tail(@)],
           request' = [request EXCEPT ![w] = r]
    PROVE  /\ Typed' /\ todo'[w] = Tail(todo[w]) /\ request'[w] = r
           /\ \A v \in Workers \ {w} : todo'[v] = todo[v] /\ request'[v] = request[v]
<1>1. todo[w] \in Seq(StepNames)  BY DEF HttpInv, Typed
<1>2. Tail(todo[w]) \in Seq(StepNames)  BY <1>1
<1> QED  BY <1>2 DEF HttpInv, Typed

\* A request starts with nothing established and everything to come.
LEMMA BeginKeeps ==
    ASSUME HttpInv, Remember, NEW w \in Workers, NEW surface \in {"api", "admin"},
           NEW u \in Clients, NEW method \in {"add", "change", "delete"},
           NEW x \in Objects, NEW payload \in Anchors \cup {Keep},
           method = "add" => payload \in Anchors, Begin(w, surface, u, method, x, payload)
    PROVE  Kept(w)
<1> DEFINE r == [surface |-> surface, method |-> method, client |-> u,
                 object |-> x, payload |-> payload, read |-> Absent, seen |-> {}]
<1>1. r \in RequestRecord  BY DEF RequestRecord, Methods
<1>2. PICK steps \in Steps(surface, method) : todo' = [todo EXCEPT ![w] = steps]
  BY DEF Begin
<1>3. /\ steps \in Seq(StepNames) /\ steps # << >> /\ Ordered(steps, method)
      /\ method # "add" => ToCome(steps, "fetch") /\ ToCome(steps, "check")
      /\ method # "delete" => ToCome(steps, "guard")
  BY <1>2, FirstSteps
<1>4. /\ request' = [request EXCEPT ![w] = r] /\ UNCHANGED <<view, store>>
      /\ surface = "api" => Serves(view)
  BY DEF Begin
<1>5. Typed'  BY <1>1, <1>2, <1>3, <1>4 DEF HttpInv, Typed
<1>6. todo'[w] = steps /\ request'[w] = r  BY <1>2, <1>4 DEF HttpInv, Typed
<1>7. \A v \in Workers \ {w} : todo'[v] = todo[v] /\ request'[v] = request[v]
  BY <1>2, <1>4 DEF HttpInv, Typed
<1>8. Admitted(w)'
  <2>1. /\ request'[w].surface = surface /\ request'[w].method = method
        /\ request'[w].client = u /\ request'[w].object = x
        /\ request'[w].payload = payload
    BY <1>6
  <2> QED  BY <1>4, <2>1 DEF Admitted, Serves
<1>9. Ordered(todo[w], request[w].method)'  BY <1>3, <1>6 DEF Ordered, ToCome
<1>10. had'[w] \subseteq Anchors /\ held'[w] \subseteq Anchors
  <2>1. store'[request'[w].object] \in Anchors \cup {Absent}  BY <1>5, <1>6 DEF Typed
  <2>2. had[w] \subseteq Anchors /\ held[w] \subseteq Anchors  BY DEF HttpInv, Progress
  <2> QED  BY <1>3, <1>6, <2>1, <2>2, Remembered
<1>11. Fetched(w)' /\ Filtered(w)' /\ Checked(w)'
  <2>1. request'[w].method = method  BY <1>6
  <2> QED  BY <1>3, <1>6, <2>1 DEF Fetched, Filtered, Checked, ToCome
<1>12. Guarded(w)'
  <2>1. request'[w].method = method  BY <1>6
  <2> QED  BY <1>3, <1>6, <2>1 DEF Guarded, ToCome
<1> QED  BY <1>4, <1>5, <1>7, <1>8, <1>9, <1>10, <1>11, <1>12 DEF Kept, Progress

\* Reading the object: a queryset that filters vouches for it.
LEMMA FetchKeeps ==
    ASSUME HttpInv, FilterIsSound, UNCHANGED db, Remember, NEW w \in Workers, Fetch(w)
    PROVE  Kept(w)
<1>1. Typed /\ Progress(w) /\ todo[w] # << >> /\ Head(todo[w]) = "fetch"
      /\ UNCHANGED <<view, store>>
  BY DEF HttpInv, Fetch, Doing
<1>2. Admitted(w) /\ request[w] \in RequestRecord /\ view \in Views
  BY <1>1 DEF Progress, Typed
<1>3. CASE ~InQuerySet(request[w], Stored(w))
  <2>1. Finish(w)  BY <1>3 DEF Fetch
  <2> QED  BY <1>1, <2>1, FinishKeeps DEF Typed
<1>4. CASE InQuerySet(request[w], Stored(w))
  <2> DEFINE x == Stored(w)
             y == Seen(w)
             r == [request[w] EXCEPT !.read = x, !.seen = y]
  <2>1. x \in Anchors  BY <1>1, <1>2, <1>4 DEF InQuerySet, Stored, Typed, Admitted
  <2>2. r \in RequestRecord
    <3>1. y \in SUBSET Anchors  BY DEF Seen
    <3> HIDE DEF y
    <3> QED  BY <1>2, <2>1, <3>1 DEF RequestRecord
  <2>3. todo' = [todo EXCEPT ![w] = Tail(@)] /\ request' = [request EXCEPT ![w] = r]
    <3> HIDE DEF y
    <3>1. request' = [request EXCEPT ![w].read = x, ![w].seen = y]  BY <1>4 DEF Fetch, y
    <3> QED  BY <1>4, <3>1 DEF Fetch
  <2> HIDE DEF y
  <2>4. /\ Typed' /\ todo'[w] = Tail(todo[w]) /\ request'[w] = r
        /\ \A v \in Workers \ {w} : todo'[v] = todo[v] /\ request'[v] = request[v]
    BY <1>1, <2>2, <2>3, ProceedTypes
  <2>5. /\ r.surface = request[w].surface /\ r.method = request[w].method
        /\ r.client = request[w].client /\ r.object = request[w].object
        /\ r.payload = request[w].payload /\ r.read = x
    BY <1>2 DEF RequestRecord
  <2> SUFFICES ASSUME todo'[w] # << >>  PROVE Progress(w)'
    BY <1>1, <2>4, Forgotten DEF Kept
  <2>6. x \in had'[w]
    <3>1. store'[request'[w].object] = x  BY <1>1, <2>4, <2>5 DEF Stored
    <3>2. x # Absent  BY <1>4 DEF InQuerySet
    <3> QED  BY <3>1, <3>2, Remembered
  <2>7. ASSUME request[w].surface = "api", view.hides  PROVE Vouched(w)'
    <3>1. Serves(view) /\ InScopedQuerySet(view, request[w].client, request[w].method, x)
      BY <1>2, <1>4, <2>7 DEF InQuerySet, Admitted
    <3>2. request[w].client \in Users /\ request[w].method \in Methods
      BY <1>2, RequestAssumption DEF Admitted, Methods
    <3>3. /\ ViewAdmits(view, request[w].client, request[w].method, x)
          /\ UserCovers(request[w].client, At(x))
      BY <1>2, <2>1, <3>1, <3>2, QuerySetIsEntitled
    <3>4. x \in Entitled(request[w])'
      BY <1>1, <2>1, <2>4, <2>5, <2>7, <3>3, EntitledFrame
    <3>5. x \in held'[w]  BY <3>4, Remembered
    <3> QED  BY <2>6, <3>5 DEF Vouched
  <2>8. request[w].method = "add" => request'[w].payload \in Anchors
    BY <1>2, <2>4, <2>5 DEF Admitted
  <2> HIDE DEF x, r
  <2> QED  BY <1>1, <2>4, <2>5, <2>6, <2>7, <2>8, StepKeepsProgress
<1> QED  BY <1>3, <1>4

\* A step that only requires a condition.
LEMMA RequireKeeps ==
    ASSUME HttpInv, Remember, NEW w \in Workers, NEW condition,
           Require(w, condition), todo[w] # << >>, Head(todo[w]) # "fetch",
           condition /\ todo'[w] # << >> /\ UNCHANGED view /\ request'[w] = request[w] =>
               /\ (/\ Head(todo[w]) = "check" /\ request[w].method # "add"
                   /\ request[w].surface = "api" => ~WarnsOfDetailRoutes(view)) => Vouched(w)'
               /\ (Head(todo[w]) = "guard" /\ request[w].method # "delete") =>
                      Candidate(request'[w]) \in held'[w]
    PROVE  Kept(w)
<1>1. Typed /\ Progress(w) /\ UNCHANGED <<view, store>>  BY DEF HttpInv, Require
<1>2. CASE ~condition
  <2>1. Finish(w)  BY <1>2 DEF Require
  <2> QED  BY <1>1, <2>1, FinishKeeps DEF Typed
<1>3. CASE condition
  <2>1. todo' = [todo EXCEPT ![w] = Tail(@)] /\ request' = request
    BY <1>3 DEF Require, Proceed
  <2>2. request' = [request EXCEPT ![w] = request[w]] /\ request[w] \in RequestRecord
    BY <1>1, <2>1 DEF Typed
  <2>3. /\ Typed' /\ todo'[w] = Tail(todo[w]) /\ request'[w] = request[w]
        /\ \A v \in Workers \ {w} : todo'[v] = todo[v] /\ request'[v] = request[v]
    BY <1>1, <2>1, <2>2, ProceedTypes
  <2> SUFFICES ASSUME todo'[w] # << >>  PROVE Progress(w)'
    BY <1>1, <2>3, Forgotten DEF Kept
  <2>4. request[w].method = "add" => request'[w].payload \in Anchors
    BY <1>1, <2>3 DEF Progress, Admitted
  <2>5. Candidate(request'[w]) = Candidate(request[w])  BY <2>3
  <2> QED  BY <1>1, <1>3, <2>3, <2>4, <2>5, StepKeepsProgress
<1> QED  BY <1>2, <1>3

\* The check of the object, of a viewset that warns of nothing or of the
\* admin, vouches for it.
LEMMA CheckKeeps ==
    ASSUME MethodsAreMapped, HttpInv, UNCHANGED db, Remember, NEW w \in Workers, Check(w)
    PROVE  Kept(w)
<1> DEFINE r == request[w]
           condition == IF r.surface = "api" THEN ViewAdmits(view, r.client, r.method, r.read)
                                             ELSE AdminAdmits(r.client, r.method, r.read)
<1>1. todo[w] # << >> /\ Head(todo[w]) = "check" /\ Require(w, condition)
  BY DEF Check, Doing
<1>2. Typed /\ Progress(w) /\ Admitted(w) /\ Filtered(w) /\ r \in RequestRecord
  BY <1>1 DEF HttpInv, Progress, Typed
<1>3. r.method # "add" => r.read \in had[w] \cap Anchors
  BY <1>1, <1>2, CandidateIsAnchor
<1>4. ASSUME condition, todo'[w] # << >>, UNCHANGED view, request'[w] = request[w],
             r.method # "add", r.surface = "api" => ~WarnsOfDetailRoutes(view)
      PROVE  Vouched(w)'
  <2>1. had[w] \subseteq had'[w] /\ held[w] \subseteq held'[w]
    BY <1>4, Remembered
  <2>2. CASE r.surface = "api" /\ view.hides
    <3>1. todo[w] \in Seq(StepNames) /\ Ordered(todo[w], r.method)
      BY <1>1, <1>2 DEF Typed, Progress
    <3>2. ~ToCome(todo[w], "fetch")  BY <1>1, <3>1, FetchIsFirst
    <3>3. Vouched(w)  BY <1>2, <1>4, <2>2, <3>2 DEF Filtered
    <3> QED  BY <2>1, <3>3 DEF Vouched
  <2>3. CASE r.surface = "api" /\ ~view.hides
    <3>1. Serves(view) /\ view \in Views /\ r.method \in Methods
      BY <1>2, <2>3 DEF Admitted, Typed, Methods
    <3>2. ViewAdmits(view, r.client, r.method, r.read)  BY <1>4, <2>3
    <3>3. UserCovers(r.client, At(r.read))  BY <1>4, <2>3, <3>1, <3>2, CheckedIsEntitled
    <3>4. r.read \in Entitled(request[w])'
      BY <1>3, <1>4, <2>3, <3>2, <3>3, EntitledFrame
    <3>5. r.read \in held'[w]  BY <1>4, <3>4, Remembered
    <3> QED  BY <1>3, <1>4, <2>1, <3>5 DEF Vouched
  <2>4. CASE r.surface # "api"
    <3>1. AdminAdmits(r.client, r.method, r.read)  BY <1>4, <2>4
    <3>2. r.read \in Entitled(request[w])'
      BY <1>3, <1>4, <2>4, <3>1, EntitledFrame
    <3>3. r.read \in held'[w]  BY <1>4, <3>2, Remembered
    <3> QED  BY <1>3, <1>4, <2>1, <3>3 DEF Vouched
  <2> QED  BY <2>2, <2>3, <2>4
<1> HIDE DEF condition, r
<1>5. condition /\ todo'[w] # << >> /\ UNCHANGED view /\ request'[w] = request[w] =>
          /\ (/\ Head(todo[w]) = "check" /\ request[w].method # "add"
              /\ request[w].surface = "api" => ~WarnsOfDetailRoutes(view)) => Vouched(w)'
          /\ (Head(todo[w]) = "guard" /\ request[w].method # "delete") =>
                 Candidate(request'[w]) \in held'[w]
  BY <1>1, <1>4 DEF r
<1> QED  BY <1>1, <1>5, RequireKeeps

\* The check of what is saved vouches for that.
LEMMA GuardKeeps ==
    ASSUME HttpInv, UNCHANGED db, Remember, NEW w \in Workers, Guard(w)
    PROVE  Kept(w)
<1> DEFINE r == request[w]
           x == Candidate(r)
           condition == IF r.surface = "api" THEN TargetAdmitted(view, r.client, r.method, x)
                                             ELSE AdminAdmits(r.client, r.method, x)
<1>1. todo[w] # << >> /\ Head(todo[w]) = "guard" /\ Require(w, condition)
  BY DEF Guard, Doing
<1>2. Typed /\ Progress(w) /\ Admitted(w)
  BY <1>1 DEF HttpInv, Progress
<1>3. x \in Anchors  BY <1>1, <1>2, CandidateIsAnchor
<1>4. ASSUME condition, todo'[w] # << >>, UNCHANGED view, request'[w] = request[w]
      PROVE  x \in held'[w]
  <2>1. CASE r.surface = "api"
    <3>1. Serves(view) /\ view \in Views  BY <1>2, <2>1 DEF Admitted, Typed
    <3>2. TargetAdmitted(view, r.client, r.method, x)  BY <1>4, <2>1
    <3>3. ViewAdmits(view, r.client, r.method, x) /\ UserCovers(r.client, At(x))
      BY <3>1, <3>2, TargetIsEntitled
    <3>4. x \in Entitled(request[w])'  BY <1>3, <1>4, <2>1, <3>3, EntitledFrame
    <3> QED  BY <1>4, <3>4, Remembered
  <2>2. CASE r.surface # "api"
    <3>1. AdminAdmits(r.client, r.method, x)  BY <1>4, <2>2
    <3>2. x \in Entitled(request[w])'  BY <1>3, <1>4, <2>2, <3>1, EntitledFrame
    <3> QED  BY <1>4, <3>2, Remembered
  <2> QED  BY <2>1, <2>2
<1>5. condition /\ todo'[w] # << >> /\ UNCHANGED view /\ request'[w] = request[w] =>
          /\ (/\ Head(todo[w]) = "check" /\ request[w].method # "add"
              /\ request[w].surface = "api" => ~WarnsOfDetailRoutes(view)) => Vouched(w)'
          /\ (Head(todo[w]) = "guard" /\ request[w].method # "delete") =>
                 Candidate(request'[w]) \in held'[w]
  <2> HIDE DEF condition
  <2> QED  BY <1>1, <1>4
<1> HIDE DEF condition
<1> QED  BY <1>1, <1>5, RequireKeeps

\* Refusing a selection.
LEMMA SelectKeeps ==
    ASSUME HttpInv, Remember, NEW w \in Workers, Select(w)
    PROVE  Kept(w)
<1> DEFINE condition == Stored(w) \in request[w].seen =>
                            InFilter(request[w].client, PermissionFor["delete"], Stored(w))
<1>1. todo[w] # << >> /\ Head(todo[w]) = "select" /\ Require(w, condition)
  BY DEF Select, Doing
<1> HIDE DEF condition
<1> QED  BY <1>1, RequireKeeps

\* Reading the row again: the object keeps the anchor it is to be saved at.
LEMMA RereadKeeps ==
    ASSUME HttpInv, Remember, NEW w \in Workers, Reread(w)
    PROVE  Kept(w)
<1>1. Typed /\ Progress(w) /\ todo[w] # << >> /\ Head(todo[w]) = "reread"
      /\ UNCHANGED <<view, store>>
  BY DEF HttpInv, Reread, Doing
<1>2. Admitted(w) /\ request[w] \in RequestRecord
  BY <1>1 DEF Progress, Typed
<1>3. CASE Stored(w) = Absent
  <2>1. Finish(w)  BY <1>3 DEF Reread
  <2> QED  BY <1>1, <2>1, FinishKeeps DEF Typed
<1>4. CASE Stored(w) # Absent
  <2> DEFINE x == Stored(w)
             y == Candidate(request[w])
             r == [request[w] EXCEPT !.payload = y, !.read = x]
  <2>1. x \in Anchors  BY <1>1, <1>2, <1>4 DEF Stored, Typed, Admitted
  <2>2. y \in Anchors  BY <1>1, CandidateIsAnchor
  <2>3. r \in RequestRecord  BY <1>2, <2>1, <2>2 DEF RequestRecord
  <2>4. todo' = [todo EXCEPT ![w] = Tail(@)] /\ request' = [request EXCEPT ![w] = r]
    BY <1>1, <1>4 DEF Reread, Typed
  <2>5. /\ Typed' /\ todo'[w] = Tail(todo[w]) /\ request'[w] = r
        /\ \A v \in Workers \ {w} : todo'[v] = todo[v] /\ request'[v] = request[v]
    BY <1>1, <2>3, <2>4, ProceedTypes
  <2>6. /\ r.surface = request[w].surface /\ r.method = request[w].method
        /\ r.client = request[w].client /\ r.object = request[w].object
        /\ r.payload = y /\ r.read = x
    BY <1>2 DEF RequestRecord
  <2> SUFFICES ASSUME todo'[w] # << >>  PROVE Progress(w)'
    BY <1>1, <2>5, Forgotten DEF Kept
  <2>7. x \in had'[w]
    <3>1. store'[request'[w].object] = x  BY <1>1, <2>5, <2>6 DEF Stored
    <3> QED  BY <1>4, <3>1, Remembered
  <2>8. Candidate(request'[w]) = Candidate(request[w])
    <3>1. y # Keep  BY <2>2, RequestAssumption
    <3> QED  BY <2>5, <2>6, <3>1 DEF Candidate
  <2> HIDE DEF x, y, r
  <2> QED  BY <1>1, <2>2, <2>5, <2>6, <2>7, <2>8, StepKeepsProgress
<1> QED  BY <1>3, <1>4

\* Writing the table ends the request.
LEMMA WriteKeeps ==
    ASSUME HttpInv, Remember, NEW w \in Workers, Purge(w) \/ Write(w)
    PROVE  Kept(w)
<1>1. Typed /\ Progress(w) /\ todo[w] # << >> /\ Head(todo[w]) # "fetch"
  BY DEF HttpInv, Purge, Write, Doing
<1>2. Candidate(request[w]) \in Anchors  BY <1>1, CandidateIsAnchor
<1>3. Finish(w) /\ UNCHANGED view  BY DEF Purge, Write
<1>4. store' \in [Objects -> Anchors \cup {Absent}]
  BY <1>1, <1>2 DEF Purge, Write, Typed
<1> QED  BY <1>1, <1>3, <1>4, FinishKeeps

\* Whatever step a request takes.
LEMMA RequestStepKeeps ==
    ASSUME MethodsAreMapped, HttpInv, FilterIsSound, UNCHANGED db, Remember,
           NEW w \in Workers, RequestStep(w)
    PROVE  Kept(w)
<1>1. ASSUME NEW surface \in {"api", "admin"}, NEW u \in Clients, NEW x \in Objects,
             \/ \E n \in Anchors : Begin(w, surface, u, "add", x, n)
             \/ \E n \in Anchors \cup {Keep} : Begin(w, surface, u, "change", x, n)
             \/ Begin(w, surface, u, "delete", x, Keep)
      PROVE  Kept(w)
  <2>1. ASSUME NEW n \in Anchors, Begin(w, surface, u, "add", x, n)  PROVE Kept(w)
    BY <2>1, BeginKeeps
  <2>2. ASSUME NEW n \in Anchors \cup {Keep}, Begin(w, surface, u, "change", x, n)
        PROVE  Kept(w)
    BY <2>2, BeginKeeps
  <2>3. ASSUME Begin(w, surface, u, "delete", x, Keep)  PROVE Kept(w)
    BY <2>3, BeginKeeps
  <2> QED  BY <1>1, <2>1, <2>2, <2>3
<1>2. CASE Fetch(w)  BY <1>2, FetchKeeps
<1>3. CASE Check(w)  BY <1>3, CheckKeeps
<1>4. CASE Guard(w)  BY <1>4, GuardKeeps
<1>5. CASE Reread(w)  BY <1>5, RereadKeeps
<1>6. CASE Select(w)  BY <1>6, SelectKeeps
<1>7. CASE Purge(w) \/ Write(w)  BY <1>7, WriteKeeps
<1> QED  BY <1>1, <1>2, <1>3, <1>4, <1>5, <1>6, <1>7 DEF RequestStep

\* The invariant is inductive, given that lists are sound.
LEMMA HttpStepKeepsInv ==
    ASSUME MethodsAreMapped, HttpInv, FilterIsSound, [HttpNext]_<<db, http>>
    PROVE  HttpInv'
<1>1. ASSUME NEW w \in Workers, RequestStep(w), UNCHANGED db, Remember
      PROVE  HttpInv'
  <2>1. Kept(w)  BY <1>1, RequestStepKeeps
  <2>2. ASSUME NEW v \in Workers \ {w}  PROVE Progress(v)'
    <3>1. Progress(v)  BY DEF HttpInv
    <3>2. Typed' /\ UNCHANGED view /\ todo'[v] = todo[v] /\ request'[v] = request[v]
      BY <2>1 DEF Kept
    <3> QED  BY <1>1, <3>1, <3>2, BystanderKeepsProgress
  <2>3. \A v \in Workers : Progress(v)'  BY <2>1, <2>2 DEF Kept
  <2> QED  BY <2>1, <2>3 DEF HttpInv, Kept
<1>2. ASSUME AuthorityStep, Remember  PROVE HttpInv'
  <2>1. UNCHANGED <<view, store, todo, request>>  BY <1>2 DEF AuthorityStep
  <2>2. Typed'  BY <2>1 DEF HttpInv, Typed
  <2>3. ASSUME NEW v \in Workers  PROVE Progress(v)'
    <3>1. Progress(v)  BY DEF HttpInv
    <3> QED  BY <1>2, <2>1, <2>2, <3>1, BystanderKeepsProgress
  <2> QED  BY <2>2, <2>3 DEF HttpInv
<1>3. ASSUME UNCHANGED <<db, http>>  PROVE HttpInv'
  <2>1. UNCHANGED <<view, store, todo, request, had, held>>  BY <1>3 DEF http
  <2>2. Typed'  BY <2>1 DEF HttpInv, Typed
  <2>3. ASSUME NEW v \in Workers  PROVE Progress(v)'
    <3>1. Progress(v)  BY DEF HttpInv
    <3> QED  BY <2>1, <3>1 DEF Progress, Admitted, Serves, Ordered, ToCome, Fetched,
                               Filtered, Checked, Guarded, Vouched, Candidate,
                               WarnsOfDetailRoutes
  <2> QED  BY <2>2, <2>3 DEF HttpInv
<1> QED  BY <1>1, <1>2, <1>3 DEF HttpNext

\* No request is open at the start.
LEMMA HttpInitInv == HttpInit => HttpInv
<1> SUFFICES ASSUME HttpInit  PROVE HttpInv
  OBVIOUS
<1>1. NoRequest \in RequestRecord  BY DEF NoRequest, RequestRecord, Methods
<1>2. << >> \in Seq(StepNames)  OBVIOUS
<1>3. Typed  BY <1>1, <1>2, RequestAssumption DEF HttpInit, Typed
<1>4. ASSUME NEW w \in Workers  PROVE Progress(w)
  BY DEF HttpInit, Progress
<1> QED  BY <1>3, <1>4 DEF HttpInv

\* What changes authority while requests run is a call of the managers, so all
\* that is proved of the authorization database holds meanwhile.
LEMMA AuthorityStepIsNext == AuthorityStep => Next
<1> SUFFICES ASSUME AuthorityStep  PROVE Next
  OBVIOUS
<1>1. PICK by \in Actors, a \in Rows : Suspend(by, a) \/ Reactivate(by, a)
  BY DEF AuthorityStep
<1> QED  BY <1>1 DEF Next, ApiStep, AssignmentStep

\* A run of the requests is a run of the authorization database.
LEMMA RequestsKeepSpec == HttpSpec => Spec
<1>1. HttpInit => Init  BY DEF HttpInit
<1>2. [HttpNext]_<<db, http>> => [Next]_db
  BY AuthorityStepIsNext DEF HttpNext
<1> QED  BY <1>1, <1>2, PTL DEF HttpSpec, Spec

\* EveryWriteWasEntitled: whatever the viewsets, and however requests
\* interleave with one another and with changes of authority, a request
\* replaces, deletes and saves only what its client was entitled to at some
\* moment of it.
THEOREM WritesWereEntitled ==
    ASSUME MethodsAreMapped
    PROVE  HttpSpec => EveryWriteWasEntitled
<1> DEFINE Entitlement(w) ==
               (/\ \/ Doing(w, "write") /\ todo'[w] = << >>
                   \/ Doing(w, "purge") /\ store' # store
                /\ request[w].surface = "api" => ~WarnsOfDetailRoutes(view)) =>
                   /\ request[w].method # "add" => had[w] \cap held[w] # {}
                   /\ request[w].method # "delete" => Candidate(request[w]) \in held[w]
<1>1. ASSUME HttpInv, NEW w \in Workers  PROVE Entitlement(w)
  <2> SUFFICES ASSUME todo[w] # << >>, Head(todo[w]) \in {"write", "purge"},
                      request[w].surface = "api" => ~WarnsOfDetailRoutes(view)
               PROVE  /\ request[w].method # "add" => had[w] \cap held[w] # {}
                      /\ request[w].method # "delete" => Candidate(request[w]) \in held[w]
    BY DEF Doing
  <2>1. /\ todo[w] \in Seq(StepNames) /\ Ordered(todo[w], request[w].method)
        /\ Checked(w) /\ Guarded(w)
    BY <1>1 DEF HttpInv, Typed, Progress
  <2>2. /\ ~ToCome(todo[w], "fetch") /\ ~ToCome(todo[w], "check")
        /\ ~ToCome(todo[w], "guard")
    BY <2>1, LastStep
  <2> QED  BY <2>1, <2>2 DEF Checked, Guarded, Vouched
<1>2. HttpInv => \A w \in Workers : Entitlement(w)  BY <1>1
<1>3. HttpInv /\ FilterIsSound /\ [HttpNext]_<<db, http>> => HttpInv'
  BY HttpStepKeepsInv
<1> HIDE DEF Entitlement
<1>4. HttpSpec => [][\A w \in Workers : Entitlement(w)]_<<db, http>>
  BY <1>2, <1>3, HttpInitInv, RequestsKeepSpec, ListsAreSound, PTL DEF HttpSpec
<1> QED  BY <1>4 DEF Entitlement, EveryWriteWasEntitled

(***************************************************************************)
(* Lists against detail pages, where every parent of the host's tree lies  *)
(* one level up and the anchors are nodes of the model the resource        *)
(* declares.                                                               *)
(***************************************************************************)
HostIsAsDeployed == nodes = Nodes /\ parent = InitParent /\ kind = InitKind

\* While requests run the host's tree keeps its shape.
LEMMA HostKept == HttpSpec => []HostIsAsDeployed
<1>1. HttpInit => HostIsAsDeployed  BY DEF HttpInit, Init, HostIsAsDeployed
<1>2. ASSUME HostIsAsDeployed, [HttpNext]_<<db, http>>  PROVE HostIsAsDeployed'
  <2>1. CASE AuthorityStep
    <3>1. PICK by \in Actors, a \in Rows : Suspend(by, a) \/ Reactivate(by, a)
      BY <2>1 DEF AuthorityStep
    <3>2. UNCHANGED hostVars  BY <3>1 DEF Suspend, Reactivate, Transition
    <3> QED  BY <1>2, <3>2 DEF hostVars, HostIsAsDeployed
  <2>2. CASE UNCHANGED db  BY <1>2, <2>2 DEF db, HostIsAsDeployed
  <2> QED  BY <1>2, <2>1, <2>2 DEF HttpNext
<1> QED  BY <1>1, <1>2, PTL DEF HttpSpec

\* In such a tree every list of nodes, and of resources anchored at them, is
\* the list of what the decision admits.
LEMMA ListedIsAllowed ==
    ASSUME HostIsLayered, HostIsAsDeployed, FilterIsSound, FilterIsComplete,
           NEW u \in Users, NEW p \in Asked, NEW n \in Anchors \ {None}
    PROVE  /\ n \in VisibleNodes(u, AnchorModel, p) <=> Decides(u, p, n)
           /\ n \in VisibleAnchors(u, AnchorModel, p) <=> Decides(u, p, n)
<1>1. AnchorModel \in Models /\ n \in Nodes  BY RequestAssumption
<1>2. /\ n \in VisibleNodes(u, AnchorModel, p) => Decides(u, p, n)
      /\ n \in VisibleAnchors(u, AnchorModel, p) => Decides(u, p, n)
  BY <1>1 DEF FilterIsSound
<1>3. n \in Layered(NextRank)
  <2>1. Ancestors(n) \subseteq Nodes  BY DEF Ancestors
  <2> QED  BY <1>1, <2>1 DEF Layered, HostIsLayered, HostIsAsDeployed
<1>4. ASSUME Decides(u, p, n)
      PROVE  n \in VisibleNodes(u, AnchorModel, p) /\ n \in VisibleAnchors(u, AnchorModel, p)
  <2>1. PICK level \in kind[n] : /\ n \in VisibleNodes(u, ModelOf[level], p)
                                 /\ n \in VisibleAnchors(u, ModelOf[level], p)
    BY <1>3, <1>4 DEF FilterIsComplete, Listed
  <2>2. ModelOf[level] = AnchorModel  BY <2>1 DEF HostIsLayered, HostIsAsDeployed
  <2> QED  BY <2>1, <2>2
<1> QED  BY <1>2, <1>4

\* So is a filter over the resources, those without an anchor included.
LEMMA FilteredIsAllowed ==
    ASSUME HostIsLayered, HostIsAsDeployed, FilterIsSound, FilterIsComplete,
           NEW u \in Users, NEW p \in Permissions \cup {None}, NEW x \in Anchors
    PROVE  InFilter(u, p, x) <=> Decides(u, p, At(x))
<1>1. p \in Asked  BY DEF Asked
<1>2. CASE x # None  BY <1>1, <1>2, ListedIsAllowed DEF InFilter, At
<1>3. CASE x = None
  <2>1. InFilter(u, p, x) => Decides(u, p, At(x))  BY ShownIsAllowed
  <2>2. ASSUME Decides(u, p, DENIED)  PROVE VisibleUnanchored(u, p, DENIED)
    <3>1. u \in active /\ (u \in SuperUsers \/ \E a \in Contributing(u, p) : Covers(a, DENIED))
      <4>1. CASE p = None
        BY <2>2, <4>1, AnchorAssumption DEF Decides, UserCovers, Contributing
      <4>2. CASE p # None
        BY <2>2, <4>2 DEF Decides, HasPerm, UserPermissions, Contributing
      <4> QED  BY <4>1, <4>2
    <3>2. \A a : Covers(a, DENIED) => IsRootScope(a)  BY AnchorAssumption DEF Covers
    <3> QED  BY <3>1, <3>2 DEF VisibleUnanchored
  <2> QED  BY <1>3, <2>1, <2>2 DEF InFilter, At
<1> QED  BY <1>2, <1>3

\* ListAgreesWithDetail: every list shows exactly the objects whose detail
\* page its client may open, every change list of the admin those the client
\* may view, and every form offers exactly the nodes its client may use.
THEOREM ListsAgreeWithDetail ==
    ASSUME HostIsLayered
    PROVE  HttpSpec => []ListAgreesWithDetail
<1>1. ASSUME HostIsAsDeployed, FilterIsSound, FilterIsComplete, view \in Views,
             NEW u \in Clients, NEW x \in Anchors
      PROVE  /\ Serves(view) =>
                    (InScopedQuerySet(view, u, "view", x) <=>
                         ViewAdmits(view, u, "view", x) /\ UserCovers(u, At(x)))
             /\ InChangeList(u, x) <=> AdminAdmits(u, "view", x)
             /\ x # None => (x \in Choices(u) <=> \E method \in {"add", "change"} :
                                                     AdminAdmits(u, method, x))
  <2>1. u \in Users /\ "view" \in Methods  BY RequestAssumption DEF Methods
  <2>2. \A p \in Permissions : InFilter(u, p, x) <=> HasPerm(u, p, At(x))
    BY <1>1, <2>1, FilteredIsAllowed, RequestAssumption DEF Decides
  <2>3. InFilter(u, None, x) <=> UserCovers(u, At(x))
    BY <1>1, <2>1, FilteredIsAllowed DEF Decides
  <2>4. ASSUME Serves(view), ViewAdmits(view, u, "view", x), UserCovers(u, At(x))
        PROVE  InScopedQuerySet(view, u, "view", x)
    <3>1. \A p \in Required(view, "view") : p \in Permissions /\ HasPerm(u, p, At(x))
      BY <1>1, <2>1, <2>4, AdmittedHolds, RequiredTyped
    <3> QED  BY <2>2, <2>3, <2>4, <3>1 DEF InScopedQuerySet
  <2>5. Serves(view) /\ InScopedQuerySet(view, u, "view", x) =>
            ViewAdmits(view, u, "view", x) /\ UserCovers(u, At(x))
    BY <1>1, <2>1, QuerySetIsEntitled
  <2>6. \A method \in Methods : PermissionFor[method] \in Permissions  BY RequestAssumption
  <2>7. InChangeList(u, x) <=> AdminAdmits(u, "view", x)
    BY <2>1, <2>2, <2>6 DEF InChangeList, AdminAdmits
  <2>8. ASSUME x # None
        PROVE  x \in Choices(u) <=> \E method \in {"add", "change"} : AdminAdmits(u, method, x)
    <3>1. Choices(u) = UNION {VisibleNodes(u, AnchorModel, PermissionFor[method]) :
                                  method \in {"add", "change"}}
      BY DEF Choices, VisibleNodes
    <3>2. ASSUME NEW method \in {"add", "change"}
          PROVE  x \in VisibleNodes(u, AnchorModel, PermissionFor[method]) <=>
                     AdminAdmits(u, method, x)
      <4>1. PermissionFor[method] \in Permissions /\ PermissionFor[method] # None
        BY <2>6, <3>2, RequestAssumption DEF Methods
      <4>2. x \in VisibleNodes(u, AnchorModel, PermissionFor[method]) <=>
                Decides(u, PermissionFor[method], x)
        BY <1>1, <2>1, <2>8, <4>1, ListedIsAllowed DEF Asked
      <4> QED  BY <2>8, <4>1, <4>2 DEF Decides, AdminAdmits, At
    <3> QED  BY <3>1, <3>2
  <2> QED  BY <2>4, <2>5, <2>7, <2>8
<1>2. HostIsAsDeployed /\ FilterIsSound /\ FilterIsComplete /\ view \in Views =>
          ListAgreesWithDetail
  BY <1>1 DEF ListAgreesWithDetail
<1>3. HttpSpec => [](view \in Views)
  <2>1. HttpInit => view \in Views  BY DEF HttpInit
  <2>2. ASSUME NEW w \in Workers, RequestStep(w)  PROVE UNCHANGED view
    BY <2>2 DEF RequestStep, Begin, Fetch, Check, Guard, Reread, Select, Purge, Write, Require
  <2>3. view \in Views /\ [HttpNext]_<<db, http>> => (view \in Views)'
    BY <2>2 DEF HttpNext, http, AuthorityStep
  <2> QED  BY <2>1, <2>3, PTL DEF HttpSpec
<1> QED  BY <1>2, <1>3, HostKept, RequestsKeepSpec, ListsAreSound, ListsAreComplete, PTL

=============================================================================
