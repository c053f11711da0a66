---------------------------- MODULE MCConfiguration ----------------------------
(***************************************************************************)
(* Configuration for TLC: organizations, their teams and the teams' desks, *)
(* tickets and notes; hierarchies a host may write, some of them wrong.    *)
(***************************************************************************)
EXTENDS Configuration

MCModels == {"Org", "Team", "Desk", "Ticket", "Note", "Link"}

MCField ==
    [m \in MCModels |->
        CASE m = "Org"    -> [name |-> None]
          [] m = "Team"   -> [org |-> "Org", lead |-> "Team", name |-> None]
          [] m = "Desk"   -> [team |-> "Team", owner |-> "Org"]
          [] m = "Ticket" -> [desk |-> "Desk", title |-> None]
          [] OTHER        -> [ticket |-> "Ticket"]]

MCAppOf ==
    [m \in MCModels |->
        IF m \in {"Org", "Team", "Desk"} THEN "orgs" ELSE "tickets"]

Root == <<"root", None, << >> >>
Org(name) == <<name, "Org", << >> >>
Team(parent) == <<"team", "Team", parent>>
Desk(parent) == <<"desk", "Desk", parent>>

\* Accessors that lead one level up, two levels, past a level, or nowhere; a
\* root level in its place, in the middle, or twice; a renamed level; two
\* levels of one model or name; a model that does not load.
MCHierarchies ==
    { << >>, <<Root>>, <<Root, Root>>,
      <<Org("org")>>, <<Org("company")>>, <<Org("team")>>,
      <<Root, Org("org"), Team(<<"org">>)>>,
      <<Org("company"), Team(<<"org">>)>>,
      <<Org("org"), Team(<< >>)>>,
      <<Org("org"), Root, Team(<<"org">>)>>,
      <<Org("org"), Team(<<"name">>)>>,
      <<Org("team"), Team(<<"org">>)>>,
      <<Root, Org("org"), Team(<<"org">>), Desk(<<"team">>)>>,
      <<Root, Org("org"), Team(<<"org">>), Desk(<<"owner">>)>>,
      <<Org("org"), Desk(<<"team", "org">>)>>,
      <<Org("org"), Desk(<<"owner">>)>>,
      <<Org("org"), Desk(<<"owner">>), Team(<<"org">>)>>,
      <<Org("org"), <<"unit", "Gone", <<"org">> >> >>,
      <<Org("org"), Team(<<"org">>), <<"crew", "Team", <<"lead">> >> >>,
      <<Org("org"), Team(<<"org">>), <<"crew", "Team", <<"org">> >> >> }

\* Ways to anchor a ticket, one of them broken.
MCPaths == {<<"desk">>, <<"title">>}
=============================================================================
