---- MODULE MCJiraItems ----
(* Issues 1 and 2 share the lists of space 1, issue 3 is in space 2. *)
EXTENDS JiraItems
MCSpace == <<1, 1, 2>>
MCPlacements == {<<1, 1, 1>>, <<2, 1, 0>>}
MCBoardTypes == {<<"scrum", "kanban">>, <<"kanban", "scrum">>, <<"scrum", "">>}
====
