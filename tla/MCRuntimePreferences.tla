------------------------ MODULE MCRuntimePreferences ------------------------
(* Two jobs of one profile: the first withholds the project's value or asks   *)
(* for another one, the second keeps it or corrects it and a fact.            *)
EXTENDS RuntimePreferences, TLC

Says(act, id, val, f) == [act |-> act, id |-> id, val |-> val, fact |-> f]
MCReplies ==
  [j \in Jobs |->
     CASE j = 1 -> {Says("withhold", Project, NoValue, TRUE), Says("set_current", Project, "b", FALSE)}
       [] j = 2 -> {Says("reaffirm", Project, NoValue, FALSE), Says("set_current", Project, "b", TRUE)}]
Plan(act, target) == [act |-> act, target |-> target]
MCPlans == [j \in Jobs |-> IF j = 1 THEN {Plan("pending", TRUE)}
                           ELSE {Plan("UPDATE", TRUE), Plan("KEEP_BOTH", FALSE)}]
MCStarted == [p \in {Project} |-> "a"]
MCCopies == [j \in Jobs |-> IF j = 1 THEN 2 ELSE 1]
WorkerSymmetry == Permutations(Workers)
MCPolicy == [j \in Jobs |-> IF j = 1 THEN 2 ELSE 1]
=============================================================================
