---------------------------- MODULE MCSegmentRun ----------------------------
(***************************************************************************)
(* Plans of one or two segments on each transport, with what may happen     *)
(* beside them.                                                            *)
(***************************************************************************)
EXTENDS SegmentRun

MCRequests ==
  [plan: {"film"}, segment: {"one", "two"}, attempt: 1..MaxPerSegment]
  \cup [plan: {"encode"}, segment: {"one"}, attempt: 1..MaxPerSegment]
MCWorkOf == [r \in MCRequests |-> r.segment]
MCClaimOf == [r \in MCRequests |-> <<r.segment, r.attempt>>]

Case(plans, on, happens, n) ==
  [plans |-> plans, transport |-> on, beside |-> happens, faults |-> n]

OnePlan == [p \in {"film"} |-> <<"one">>]
TwoSegments == [p \in {"film"} |-> <<"one", "two">>]
TwoPlans == [p \in {"film", "encode"} |-> <<"one">>]

MCCases ==
  UNION {{Case(TwoSegments, t, {}, 1), Case(OnePlan, t, {}, 2),
          Case(OnePlan, t, {"cancel"}, 1), Case(OnePlan, t, {"commands"}, 1)} : t \in Transports}
  \cup {Case(OnePlan, "plain", {"pause"}, 1), Case(OnePlan, "native", {"assemble"}, 1),
        Case(TwoPlans, "native", {}, 1)}

PauseCase == {Case(OnePlan, "native", {"pause"}, 0)}
=============================================================================
