------------------------------ MODULE MCRemote ------------------------------
(***************************************************************************)
(* Everything that runs elsewhere: segments on remote workers, the GPU      *)
(* schedule of a worker, the first dispatch protocol and hosted models.     *)
(* The four share no state; a behaviour is one case of one of them, the     *)
(* others having nothing to do.                                            *)
(***************************************************************************)
EXTENDS MCSegmentRun, GpuJob, RemoteLane, ModelApi

\* Plans of a GPU schedule.
MCJobs == {"a", "b", "c"}
Each(n) == [j \in MCJobs |-> n]
NoDeps == Each({})

Schedule(tasks, deps, number, vram, tries, devices, slots, budget, by, beside) ==
  [tasks |-> tasks, deps |-> deps, count |-> number, vram |-> vram, tries |-> tries,
   devices |-> 1..devices, slots |-> slots, budget |-> budget, by |-> by, beside |-> beside]

NoBatch == Schedule(<<>>, NoDeps, Each(1), Each(0), Each(1), 0, 1, 0, "none", {})

MCBatches == {
  Schedule(<<"a", "b">>, [NoDeps EXCEPT !["b"] = {"a"}], Each(1), Each(0),
           [Each(1) EXCEPT !["a"] = 2], 2, 1, 0, "worker", {"pause", "cut", "store", "change"}),
  Schedule(<<"a", "b", "c">>, [NoDeps EXCEPT !["c"] = {"a"}], [Each(1) EXCEPT !["c"] = 2],
           Each(0), [Each(1) EXCEPT !["a"] = 2], 2, 1, 0, "operator", {"cancel"}),
  Schedule(<<"a", "b", "c">>, NoDeps, Each(1), [Each(2) EXCEPT !["c"] = 1], Each(1),
           1, 2, 3, "operator", {"memory", "late"})}

\* One request on each transport, and two attempts of a step on notebooks.
Lane(on, used, n, beside) ==
  [transport |-> on, bundles |-> used, steps |-> n, beside |-> beside]

NoLane == Lane("local", {}, 1, {})

MCLanes ==
  {Lane(t, {"first"}, 2, {"cancel"}) : t \in {"local", "http", "ssh"}}
  \cup {Lane(t, {"first"}, 1, {"late", "reconcile", "early"}) : t \in {"local", "ssh"}}
  \cup {Lane("kaggle", {"first"}, 1, {"cancel"}), Lane("kaggle", {"first", "second"}, 1, {})}

\* Profiles of a hosted model.
Profile(async, extended, byRequest, routes, used) ==
  [async |-> async, extended |-> extended, byRequest |-> byRequest, routes |-> routes,
   requests |-> used]

NoApi == Profile(FALSE, TRUE, FALSE, {}, {})

MCProfiles ==
  {Profile(a, e, b, {"cancel", "reconcile"}, {"p"}) : a, e, b \in BOOLEAN}
  \cup {Profile(a, TRUE, FALSE, {}, {"p", "q"}) : a \in BOOLEAN}

NoSegments == Case(<<>>, "plain", {}, 0)
MCAllCases == MCCases \cup {NoSegments}

RemoteInit ==
  /\ SegmentInit
  /\ \/ case # NoSegments /\ batch = NoBatch /\ lane = NoLane /\ api = NoApi
     \/ case = NoSegments /\ batch \in MCBatches /\ lane = NoLane /\ api = NoApi
     \/ case = NoSegments /\ batch = NoBatch /\ lane \in MCLanes /\ api = NoApi
     \/ case = NoSegments /\ batch = NoBatch /\ lane = NoLane /\ api \in MCProfiles
  /\ GpuJobInit /\ LaneInit /\ ApiInit

RemoteNext ==
  \/ SegmentNext /\ UNCHANGED <<gpuVars, laneVars, apiVars>>
  \/ GpuNext /\ UNCHANGED <<segmentVars, laneVars, apiVars>>
  \/ LaneNext /\ UNCHANGED <<segmentVars, gpuVars, apiVars>>
  \/ ApiNext /\ UNCHANGED <<segmentVars, gpuVars, laneVars>>

remoteVars == <<segmentVars, gpuVars, laneVars, apiVars>>

FairRemoteSpec ==
  /\ RemoteInit /\ [][RemoteNext]_remoteVars
  /\ \A p \in AllPlans : WF_segmentVars(RunStep(p))
  /\ WF_segmentVars(\E r \in Recorded : Provider(r))
=============================================================================
