--------------------------- MODULE MCGitHubItems ---------------------------
(* Instances of GitHubItems: pull requests of me and of ann in the second  *)
(* of two spaces; the first space has none.                                *)
EXTENDS GitHubItems, TLC

MCAuthor == [p \in PRs |-> IF p = 2 THEN "ann" ELSE "me"]
MCSpace == [p \in PRs |-> Spaces]
MCTeammates == {{"me", "ann"}, {}}
=============================================================================
