--------------------------- MODULE AcceptanceGate ---------------------------
(***************************************************************************)
(* What stands between produced work and its acceptance when a batch has a  *)
(* quality gate: the recorded evaluations of production/segment_quality.py  *)
(* and the publication of production/publication.py.  Each operator is one  *)
(* transaction or one file replacement; the runner performs them in turn    *)
(* and may die between them.  A request's artifact belongs to the provider, *)
(* which may replace it.                                                    *)
(***************************************************************************)
EXTENDS ProductionStore

CONSTANTS
  Gated,            \* the batch has a quality gate
  MaxEvaluations,   \* evaluations of one request
  MaxReplacements   \* bound: artifacts the provider replaces

ASSUME GateAssumption ==
  Gated \in BOOLEAN /\ MaxEvaluations \in Nat /\ MaxReplacements \in Nat

VARIABLES
  file,          \* content of a request's artifact at the provider
  started,       \* its segment_quality_started events
  quality,       \* its latest segment_quality_result: verdict and content
  intent,        \* content its publication_intent names, if any
  published      \* content of its file under published/, if any

gateVars == <<file, started, quality, intent, published>>

Verdicts == {"accept", "reject", "unknown"}
NoResult == [verdict |-> "none", content |-> 0]

GateTypeOK ==
  /\ file \in [Requests -> 0..MaxReplacements]
  /\ started \in [Requests -> Nat]
  /\ quality \in [Requests -> [verdict: Verdicts \cup {"none"}, content: 0..MaxReplacements]]
  /\ intent \in [Requests -> SUBSET (0..MaxReplacements)]
  /\ published \in [Requests -> SUBSET (0..MaxReplacements)]
  /\ \A r \in Requests : \A c, d \in intent[r] : c = d

GateInit ==
  /\ file = [r \in Requests |-> 0]
  /\ started = [r \in Requests |-> 0]
  /\ quality = [r \in Requests |-> NoResult]
  /\ intent = [r \in Requests |-> {}]
  /\ published = [r \in Requests |-> {}]

----------------------------------------------------------------------------
(* segment_quality.assess: two transactions around the evaluation.         *)

Conclusive(r) == quality[r].verdict \in {"accept", "reject"}

\* An earlier result must be about the same observation.
Comparable(r, f) == Fence(r) /\ (quality[r].verdict # "none" => quality[r].content = f)

EvaluableByResults(r) == quality[r].verdict = "none" \/ started[r] < MaxEvaluations

\* The evaluation is counted before it starts.
Evaluable(r) == started[r] < MaxEvaluations

StartEvaluation(r, f) ==
  /\ file[r] = f /\ Comparable(r, f) /\ ~Conclusive(r) /\ Evaluable(r)
  /\ started' = [started EXCEPT ![r] = @ + 1]
  /\ UNCHANGED <<file, quality, intent, published>>

RecordResult(r, f, verdict) ==
  /\ Fence(r)
  /\ quality' = [quality EXCEPT ![r] = [verdict |-> verdict, content |-> f]]
  /\ UNCHANGED <<file, started, intent, published>>

----------------------------------------------------------------------------
(* publication.stage_acceptance.                                           *)

RecordIntent(r, f) ==
  /\ Fence(r) /\ attempt[r].status = "produced"
  /\ intent' = [intent EXCEPT ![r] = {f}]
  /\ UNCHANGED <<file, started, quality, published>>

\* The artifact is copied beside its target and moved there when it is whole
\* and still what the intent names; a partial copy is thrown away.
Publish(r) ==
  /\ published[r] # {} \/ file[r] \in intent[r]
  /\ published' = [published EXCEPT ![r] = intent[r]]
  /\ UNCHANGED <<file, started, quality, intent>>

\* store.accept asks for the intent, the published file and the receipt.
Acceptable(r) ==
  /\ published[r] = intent[r]
  /\ quality[r].verdict = "accept" /\ quality[r].content \in intent[r]

----------------------------------------------------------------------------

Replace(r) ==
  /\ attempt[r].status \notin Final
  /\ SumOver(file, Requests) < MaxReplacements
  /\ file' = [file EXCEPT ![r] = @ + 1]
  /\ UNCHANGED <<started, quality, intent, published>>
=============================================================================
