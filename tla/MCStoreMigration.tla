--------------------------- MODULE MCStoreMigration ---------------------------
(***************************************************************************)
(* Two segments of one shot, a film that needs one of them, a title, and   *)
(* five cases of a plan over them with what may happen beside its batch.   *)
(***************************************************************************)
EXTENDS StoreMigration, TLC

TargetsAlike == Permutations(Targets)

MCTasks == {"left", "right", "film", "title"}
MCParents == [t \in MCTasks |-> IF t = "film" THEN {"left"} ELSE {}]
MCShotOf == [t \in MCTasks |-> "shot"]
MCGenerated == {"left", "right"}
MCWorst == [t \in MCTasks |-> IF t \in MCGenerated THEN 2 ELSE 1]
MCBills == [t \in MCTasks |-> IF t = "left" THEN {1} ELSE {}]
MCFrames == [t \in MCTasks |-> IF t \in MCGenerated THEN 1 ELSE 0]

Only(tasks, happens) == [plan |-> tasks, beside |-> happens]
MCCases == {Only(<<"left", "right">>, {}), Only(<<"film", "left">>, {"replace"}),
            Only(<<"left">>, {"pause", "replace", "invalidate", "expire"}),
            Only(<<"left">>, {"forecast"}), Only(<<"title">>, {"migrate"})}
=============================================================================
