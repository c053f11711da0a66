---------------------------- MODULE MCScopedAccess ----------------------------
(***************************************************************************)
(* Small deployments of ScopedAccess for TLC: an organization with two     *)
(* teams, managed by delegation.                                           *)
(***************************************************************************)
EXTENDS ScopedAccess

CONSTANTS su, ann, bob,                   \* users; su is the superuser
          org, team1, team2,              \* nodes
          Manager, Viewer, Custom,        \* roles
          view, assign, roles, global     \* permissions

MCUsers == {su, ann, bob}
MCNodes == {org, team1, team2}
MCPermissions == {view, assign, roles, global}
MCRoles == {Manager, Viewer, Custom}
MCNames == {"manager", "viewer"}

MCParent == [n \in MCNodes |-> IF n = org THEN None ELSE org]
MCKind == [n \in MCNodes |-> IF n = org THEN {"organization"} ELSE {"team"}]

\* The host never reshapes this hierarchy.
FixedParents == [n \in MCNodes |-> {}]
FixedKinds == [n \in MCNodes |-> {}]

\* Two system roles: one manages and delegates, the other views.  A third
\* role is still to be created through RoleService.
SystemRole(name, ps) ==
    [name |-> name, owner |-> None, ownerLevel |-> None, perms |-> ps]

MCCatalog == {Manager, Viewer}
MCRole ==
    [r \in MCRoles |->
        CASE r = Manager -> SystemRole("manager", {assign, roles})
          [] r = Viewer  -> SystemRole("viewer", {view})
          [] r = Custom  -> SystemRole("viewer", {})]

Assigned(u, r, level, scope) ==
    [user |-> u, role |-> r, level |-> level, scope |-> scope,
     status |-> "ACTIVE", from |-> None, until |-> None]

\* ann manages the organization; bob manages and views team2.
TwoTenants == << Assigned(ann, Manager, "organization", org),
                 Assigned(bob, Manager, "team", team2),
                 Assigned(bob, Viewer, "team", team2) >>

\* Assignments without a window.
Always == {<<None, None>>}
=============================================================================
