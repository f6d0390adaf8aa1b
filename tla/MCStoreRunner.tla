--------------------------- MODULE MCStoreRunner ---------------------------
(* Small plans for TLC around the batch runner.                            *)
EXTENDS StoreRunner, TLC

CONSTANTS film, a, b, s1, s2, gpu

\* Twin: two segments of one shot.  Chain: the second task uses the first.
TwinParents == [t \in Tasks |-> {}]
TwinShot == [t \in Tasks |-> s1]
ChainParents == [t \in Tasks |-> IF t = a THEN {} ELSE {a}]
ChainShot == [t \in Tasks |-> IF t = a THEN s1 ELSE s2]

\* Forecast: a task without frames and a generation, each of two units.
MixedFrames == [t \in Tasks |-> IF t = a THEN 0 ELSE 1]
TwoUnits == [t \in Tasks |-> 2]

Order12 == [t \in Tasks |-> IF t = a THEN 0 ELSE 1]

OneExecution == [t \in Tasks |-> film]
OneRoute == [t \in Tasks |-> gpu]
OneFrame == [t \in Tasks |-> 1]
OneUnit == [t \in Tasks |-> 1]
OwnSegment == [t \in Tasks |-> t]
WholeBudget == [rt \in Routes |-> TotalUnits - CleanupUnits]
AnyForecast == 0..TotalUnits
AllExplored == {"bill", "lease", "pause", "hold", "revoke", "lapse"}
=============================================================================
