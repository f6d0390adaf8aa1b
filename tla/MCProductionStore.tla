------------------------- MODULE MCProductionStore -------------------------
(* Three small plans for TLC, one for each of the store's concerns.        *)
EXTENDS ProductionStore, TLC

CONSTANTS film, t1, t2, t3, s1, s2, s3, gpu, cpu

\* Repair: two segments of one shot, generated independently of each other.
RepairParents == [t \in {t1, t2} |-> {}]
RepairShot == [t \in {t1, t2} |-> s1]

\* Graph: a chain of three tasks of different shots.
ChainParents == [t \in {t1, t2, t3} |-> CASE t = t1 -> {} [] t = t2 -> {t1} [] t = t3 -> {t2}]
ChainShot == [t \in {t1, t2, t3} |-> CASE t = t1 -> s1 [] t = t2 -> s2 [] t = t3 -> s3]
ChainFrames == [t \in {t1, t2, t3} |-> IF t = t2 THEN 0 ELSE 1]

\* Money: an optional generation, then essential work on another route.
MoneyParents == [t \in {t1, t2} |-> IF t = t1 THEN {} ELSE {t1}]
MoneyShot == [t \in {t1, t2} |-> IF t = t1 THEN s1 ELSE s2]
MoneyRoute == [t \in {t1, t2} |-> IF t = t1 THEN gpu ELSE cpu]
MoneyWorst == [t \in {t1, t2} |-> IF t = t1 THEN 2 ELSE 1]
MoneyFrames == [t \in {t1, t2} |-> IF t = t1 THEN 1 ELSE 0]
MoneyLimit == [rt \in {gpu, cpu} |-> IF rt = gpu THEN 4 ELSE 1]

OneExecution == [t \in Tasks |-> film]
OneRoute == [t \in Tasks |-> gpu]
OneFrame == [t \in Tasks |-> 1]
OneUnit == [t \in Tasks |-> 1]
OwnSegment == [t \in Tasks |-> t]
WholeBudget == [rt \in Routes |-> TotalUnits - CleanupUnits]
=============================================================================
