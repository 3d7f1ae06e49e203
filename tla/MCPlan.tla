------------------------------ MODULE MCPlan ------------------------------
(* Scenarios for PlanLog: two sessions whose plans never share a title. *)
EXTENDS PlanLog

MCTitles == [s \in Sessions |-> IF s = 1 THEN {"a", "b"} ELSE {"c"}]
Scene(present, plans, revisions, exits, lists, refusals) ==
    [present |-> present,
     left |-> [plan |-> plans, revise |-> revisions, exit |-> exits, task |-> lists,
               refuse |-> refusals]]

MCScenarios ==
    {Scene({}, 2, 1, 1, 0, 0),
     Scene({2}, 2, 0, 1, 1, 0),
     Scene({2}, 1, 1, 1, 1, 0),
     Scene({}, 1, 2, 1, 0, 1),
     Scene({}, 1, 1, 0, 1, 1)}
====
