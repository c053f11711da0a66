-------------------------- MODULE MCCollectionFilter --------------------------
(***************************************************************************)
(* CollectionFilter over a running deployment: the database changes as in  *)
(* ScopedAccess while every list is compared with every decision.  One     *)
(* host model holds organizations, departments and teams; the host moves   *)
(* a team past its department and turns a department into a team.          *)
(***************************************************************************)
EXTENDS MCScopedAccess, CollectionFilter

MCLevelOrder == <<"platform", "organization", "department", "team">>

OneModel == [level \in ModeledLevels |-> "unit"]

\* team1 is the department here, team2 the team below it.
DeepParent ==
    [n \in MCNodes |->
        CASE n = org -> None [] n = team1 -> org [] n = team2 -> team1]

DeepKind ==
    [n \in MCNodes |->
        CASE n = org   -> {"organization"}
          [] n = team1 -> {"department"}
          [] n = team2 -> {"team"}]

SkippingParents == [n \in MCNodes |-> IF n = team2 THEN {org, team1} ELSE {}]

ChangingKinds ==
    [n \in MCNodes |->
        IF n = team1 THEN {{}, {"department"}, {"team"}} ELSE {}]

\* ann manages and views the organization, bob views the team through a role
\* the department owns.
HospitalRole == [MCRole EXCEPT ![Custom].owner = team1,
                               ![Custom].ownerLevel = "department",
                               ![Custom].perms = {view},
                               ![Manager].perms = @ \cup {view}]

Hospital == << Assigned(ann, Manager, "organization", org),
               [Assigned(bob, Custom, "team", team2) EXCEPT !.from = 1] >>

\* bob's window opens with the tick that closes a granted one.
Closing == {<<None, 1>>}
=============================================================================
