---------------------------- MODULE MCScopedWrites ----------------------------
(***************************************************************************)
(* ScopedWrites for TLC: ann edits in one team and audits in both, a       *)
(* superuser edits in both; one object, which the first team has.          *)
(***************************************************************************)
EXTENDS ScopedWrites, TLC

CONSTANTS ann, su, org, team1, team2, see, edit, audit, manage,
          Editor, Auditor, w1, w2, ticket

MCNodes == {org, team1, team2}
MCParent == [n \in MCNodes |-> IF n = org THEN None ELSE org]
MCKind == [n \in MCNodes |-> IF n = org THEN {"organization"} ELSE {"team"}]
Unmoved == [n \in MCNodes |-> {}]

MCLevelOrder == <<"platform", "organization", "team">>
MCModelOf == [level \in ModeledLevels |-> level]

MCRole ==
    [r \in {Editor, Auditor} |->
        [name |-> r, owner |-> None, ownerLevel |-> None,
         perms |-> IF r = Editor THEN {see, edit} ELSE {see, audit}]]

Staff ==
    LET Assigned(u, r, level, node) ==
            [user |-> u, role |-> r, level |-> level, scope |-> node,
             status |-> "ACTIVE", from |-> None, until |-> None]
    IN  << Assigned(ann, Editor, "team", team1),
           Assigned(ann, Auditor, "organization", org) >>

OneTicket == [x \in {ticket} |-> team1]

MCPermissionFor == [m \in Methods |-> IF m = "view" THEN see ELSE edit]

\* The stock class, and one whose perms_map asks for audit on a read.
MCLeafPermissions ==
    [leaf \in {"model", "audited"} |->
        [m \in Methods |-> IF leaf = "model" THEN {MCPermissionFor[m]}
                           ELSE IF m = "view" THEN {audit} ELSE {}]]

Only(leaf) == [op |-> "and", of |-> <<leaf>>]

\* ScopedModelViewSet; two model permissions under AND; hidden objects
\* and no permissions; an alternative no request gets through, which leaves
\* the table to the admin.
MCViews ==
    { [classes |-> {Only("model"), Only("scope")}, hides |-> FALSE,
       surfaces |-> {"api"}],
      [classes |-> {[op |-> "and", of |-> <<"model", "audited">>]},
       hides |-> FALSE, surfaces |-> {"api"}],
      [classes |-> {Only("other")}, hides |-> TRUE, surfaces |-> {"api"}],
      [classes |-> {[op |-> "or", of |-> <<"other", "model">>]},
       hides |-> FALSE, surfaces |-> {"api", "admin"}] }

\* The instance is one the properties are proved for.
ASSUME InstanceAssumption == MethodsAreMapped /\ HostIsLayered

Threads == Permutations({w1, w2})
=============================================================================
