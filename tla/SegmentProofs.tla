--------------------------- MODULE SegmentProofs ---------------------------
(* Theorems about rendering in segments on remote workers, for every set of *)
(* plans, transports, limits and bounds: the provider is never given a      *)
(* second live job of a segment, and what is sent was accounted for before. *)
EXTENDS SegmentRun, SequenceTheorems, SumLemmas

Begun == {"submit", "observe", "accept"}
Unsent == {"none", "torn", "prepared"}
Stopped == {"rejected"} \cup Ended

\* The requests that plans have made for themselves.
Own(p, s, i) == [plan |-> p, segment |-> s, attempt |-> i]
Made == {r \in Requests :
  \E p \in Plans, s \in Segments : \E i \in 1..Len(attempts[p][s]) :
    attempts[p][s][i].status # "reused_render" /\ r = Own(p, s, i)}

DispatchTyped ==
  /\ deadline \in [Requests -> Nat] /\ sends \in [Requests -> Nat]
  /\ DOMAIN job = Requests /\ DOMAIN ledger = Requests
  /\ \A r \in Requests : DOMAIN ledger[r] = {"status", "known", "provider"}
  /\ allocation \subseteq Requests

SegmentTyped ==
  /\ case \in Cases
  /\ attempts \in [Plans -> [Segments -> Seq(AttemptType)]]
  /\ complete \in [Plans -> [Segments -> SUBSET Requests]]
  /\ delivery \in [Plans -> Nat]
  /\ run \in [Plans -> [at: Steps, position: Nat]]

\* A request the ledger calls unsent has no job, and an end it names is the job's.
LedgerHolds(r) ==
  /\ ledger[r].status \in Unsent => job[r] = "none"
  /\ ledger[r].provider \in Ended => job[r] = ledger[r].provider
  /\ sends[r] = IF job[r] \in {"none", "pending"} THEN 0 ELSE 1
  /\ job[r] # "none" => r \in allocation

\* A claim has one request, and the deadlines of all fit.
AllocationHolds ==
  /\ \A r, q \in allocation : ClaimOf[r] = ClaimOf[q] => r = q
  /\ SumOver(deadline, allocation) <= MaxSeconds

DispatchInv == DispatchTyped /\ AllocationHolds /\ \A r \in Requests : LedgerHolds(r)

\* Attempts are made one after the other, each for a job that has stopped; a
\* render is reused before any.
AttemptsHold(p, s) ==
  /\ Len(attempts[p][s]) <= MaxPerSegment
  /\ \A i \in 1..Len(attempts[p][s]) :
       LET a == attempts[p][s][i] IN
       /\ a.request \in Made
       /\ IF a.status = "reused_render" THEN Len(attempts[p][s]) = 1 /\ complete[p][s] # {}
          ELSE a.request = Own(p, s, i)
       /\ i < Len(attempts[p][s]) => a.status \in Retried
       /\ a.status \in Retried => job[a.request] \in Stopped
  /\ complete[p][s] \subseteq Made

\* A run works on the last attempt of a segment that is not complete.
VisitHolds(p) ==
  /\ run[p].at # "off" => run[p].position >= 1
  /\ run[p].at \in Begun =>
       run[p].position <= Len(case.plans[p]) /\ Tries(p) # <<>> /\ complete[p][Here(p)] = {}

SegmentInv ==
  /\ SegmentTyped /\ DispatchInv
  /\ \A p \in Plans, s \in Segments : AttemptsHold(p, s)
  /\ \A p \in Plans : VisitHolds(p) /\ Spent(p) <= PlanSeconds
  /\ allocation \subseteq Made /\ \A r \in Made : deadline[r] > 0

\* What a step of the dispatch leaves alone, if it is about the requests of R.
Spares(R) ==
  /\ deadline' = deadline
  /\ allocation' \subseteq allocation \cup R
  /\ \A q \in Requests : job[q] \in Stopped => job'[q] = job[q]

\* The ledger alone changes, and says nothing the provider has not done.
LEMMA LedgerOnly ==
  ASSUME DispatchInv, UNCHANGED <<deadline, allocation, job, sends>>, DOMAIN ledger' = Requests,
         \A q \in Requests :
           /\ DOMAIN ledger'[q] = {"status", "known", "provider"}
           /\ ledger'[q].status \in Unsent => ledger[q].status \in Unsent
           /\ ledger'[q].provider \in Ended =>
                ledger'[q].provider = ledger[q].provider \/ ledger'[q].provider = job[q]
  PROVE  DispatchInv' /\ Spares({})
<1>1. DispatchTyped' /\ AllocationHolds'
  BY DEF DispatchInv, DispatchTyped, AllocationHolds
<1>2. ASSUME NEW q \in Requests PROVE LedgerHolds(q)'
  BY DEF DispatchInv, LedgerHolds
<1>. QED
  BY <1>1, <1>2 DEF DispatchInv, Spares

\* An entry of the ledger that is replaced.
LEMMA EntryOnly ==
  ASSUME DispatchInv, UNCHANGED <<deadline, allocation, job, sends>>, NEW r \in Requests,
         NEW new, ledger' = [ledger EXCEPT ![r] = new],
         DOMAIN new = {"status", "known", "provider"},
         new.status \in Unsent => ledger[r].status \in Unsent,
         new.provider \in Ended => new.provider = ledger[r].provider \/ new.provider = job[r]
  PROVE  DispatchInv' /\ Spares({r})
<1>1. /\ DOMAIN ledger' = Requests /\ ledger'[r] = new
      /\ \A q \in Requests \ {r} : ledger'[q] = ledger[q]
  BY DEF DispatchInv, DispatchTyped
<1>2. \A q \in Requests : DOMAIN ledger[q] = {"status", "known", "provider"}
  BY DEF DispatchInv, DispatchTyped
<1>3. DispatchInv' /\ Spares({})
  BY <1>1, <1>2, LedgerOnly
<1>. QED
  BY <1>3 DEF Spares

\* A found submission keeps what was said of the job.
LEMMA ReconciledEntry ==
  ASSUME DispatchInv, NEW r \in Requests
  PROVE  /\ DOMAIN Reconciled(r) = {"status", "known", "provider"}
         /\ Reconciled(r).status \in Unsent => ledger[r].status \in Unsent
         /\ Reconciled(r).provider = ledger[r].provider
BY DEF Reconciled, DispatchInv, DispatchTyped, Unsent, Found, Unresolved

\* What the adapter answers is the state of the job.
LEMMA StatusKeeps ==
  ASSUME DispatchInv, NEW r \in Requests, Status(r)
  PROVE  DispatchInv' /\ Spares({r})
<1>1. CASE ledger' = ledger
  <2>1. DispatchInv' /\ Spares({})
    BY <1>1, LedgerOnly DEF Status, providerVars, DispatchInv, DispatchTyped
  <2>. QED
    BY <2>1 DEF Spares
<1>2. CASE \E answer \in {"unknown", "running", "completed"} \cup Ended :
             Answers(r, answer) /\ ledger' = [ledger EXCEPT ![r] = Told(Reconciled(r), answer)]
  <2>1. PICK answer \in {"unknown", "running", "completed"} \cup Ended :
               Answers(r, answer) /\ ledger' = [ledger EXCEPT ![r] = Told(Reconciled(r), answer)]
    BY <1>2
  <2> DEFINE new == Told(Reconciled(r), answer)
  <2>2. /\ DOMAIN new = {"status", "known", "provider"} /\ new.provider = answer
        /\ new.status \in Unsent => Reconciled(r).status \in Unsent
    BY ReconciledEntry DEF Told, Unsent, Ended
  <2>3. answer \in Ended => answer = job[r]
    BY <2>1 DEF Answers, Truth, Ended, Absent
  <2>4. UNCHANGED <<deadline, allocation, job, sends>>
    BY DEF Status, providerVars
  <2> HIDE DEF new
  <2>5. ledger' = [ledger EXCEPT ![r] = new]
    BY <2>1 DEF new
  <2>. QED
    BY <2>2, <2>3, <2>4, <2>5, ReconciledEntry, EntryOnly
<1>. QED
  BY <1>1, <1>2 DEF Status

\* A collected result replaces the entries of its requests only.
LEMMA FetchedKeeps ==
  ASSUME DispatchInv, NEW R, R \subseteq Requests, FetchedAll(R)
  PROVE  DispatchInv' /\ Spares({})
<1>1. \A q \in Requests : DOMAIN ledger[q] = {"status", "known", "provider"}
  BY DEF DispatchInv, DispatchTyped
<1>2. ASSUME NEW q \in Requests
      PROVE  /\ DOMAIN ledger'[q] = {"status", "known", "provider"}
             /\ ledger'[q].status \in Unsent => ledger[q].status \in Unsent
             /\ ledger'[q].provider \in Ended => ledger'[q].provider = ledger[q].provider
  <2>1. CASE q \in R
    <3>1. ledger'[q] = [Reconciled(q) EXCEPT !.status = "verified", !.provider = "completed"]
      BY <2>1 DEF FetchedAll
    <3>. QED
      BY <3>1, ReconciledEntry DEF Unsent, Ended
  <2>2. CASE q \notin R
    BY <1>1, <2>2 DEF FetchedAll
  <2>. QED
    BY <2>1, <2>2
<1>3. DOMAIN ledger' = Requests /\ UNCHANGED <<deadline, allocation, job, sends>>
  BY DEF FetchedAll, providerVars
<1>. QED
  BY <1>2, <1>3, LedgerOnly

\* The calls that neither send a request nor hear of its end.
LEMMA OthersKeep ==
  ASSUME DispatchInv, NEW r \in Requests,
         StatusRaises(r) \/ SubmitKnown(r) \/ FetchRejected(r) \/ FetchRaises(r) \/ Recover(r) \/ Cancel(r)
  PROVE  DispatchInv' /\ Spares({r})
<1>1. UNCHANGED <<deadline, allocation, job, sends>>
  BY DEF StatusRaises, SubmitKnown, FetchRejected, FetchRaises, Recover, Cancel, dispatchVars,
     ledgerVars, providerVars
<1>2. CASE ledger' = ledger
  <2>1. DispatchInv' /\ Spares({})
    BY <1>1, <1>2, LedgerOnly DEF DispatchInv, DispatchTyped
  <2>. QED
    BY <2>1 DEF Spares
<1>3. ASSUME NEW s \in {"recovery_review_required", "recovered_verified"},
             ledger' = [ledger EXCEPT ![r] = [Reconciled(r) EXCEPT !.status = s, !.provider = job[r]]]
      PROVE  DispatchInv' /\ Spares({r})
  <2> DEFINE new == [Reconciled(r) EXCEPT !.status = s, !.provider = job[r]]
  <2>1. DOMAIN new = {"status", "known", "provider"} /\ new.provider = job[r] /\ new.status \notin Unsent
    BY <1>3, ReconciledEntry DEF Unsent
  <2>2. ledger' = [ledger EXCEPT ![r] = new]
    BY <1>3
  <2> HIDE DEF new
  <2>. QED
    BY <1>1, <2>1, <2>2, EntryOnly
<1>4. ASSUME NEW s \in {"cancel_requested", "cancel_unsupported"}, Marked(r, s)
      PROVE  DispatchInv' /\ Spares({r})
  <2> DEFINE new == [ledger[r] EXCEPT !.status = s]
  <2>1. /\ DOMAIN new = {"status", "known", "provider"} /\ new.provider = ledger[r].provider
        /\ new.status \notin Unsent
    BY <1>4 DEF Unsent, DispatchInv, DispatchTyped
  <2>2. ledger' = [ledger EXCEPT ![r] = new]
    BY <1>4 DEF Marked
  <2> HIDE DEF new
  <2>. QED
    BY <1>1, <2>1, <2>2, EntryOnly
<1>. QED
  BY <1>2, <1>3, <1>4 DEF StatusRaises, SubmitKnown, FetchRejected, FetchRaises, Recover, Cancel,
     dispatchVars, ledgerVars

\* A request is reserved before it is sent.
LEMMA Reserves ==
  ASSUME DispatchInv, NEW r \in Requests, Allocates(r), allocation' = allocation \cup {r},
         deadline' = deadline
  PROVE  AllocationHolds'
<1>1. \A q \in allocation : ClaimOf[q] = ClaimOf[r] => q = r
  BY DEF Allocates
<1>2. IsFiniteSet(allocation) /\ \A q \in Requests : deadline[q] \in Int
  BY SegmentAssumption, FS_Subset DEF DispatchInv, DispatchTyped
<1>3. SumOver(deadline, allocation \cup {r}) <= MaxSeconds
  <2>1. CASE r \in allocation
    <3>1. allocation \cup {r} = allocation
      BY <2>1
    <3>. QED
      BY <3>1 DEF DispatchInv, AllocationHolds
  <2>2. CASE r \notin allocation
    <3>1. SumOver(deadline, allocation) + deadline[r] <= MaxSeconds
      BY <2>2 DEF Allocates
    <3>2. SumOver(deadline, allocation \cup {r}) = SumOver(deadline, allocation) + deadline[r]
      BY <1>2, <2>2, SumAdd DEF DispatchInv, DispatchTyped
    <3>. QED
      BY <3>1, <3>2
  <2>. QED
    BY <2>1, <2>2
<1>. QED
  BY <1>1, <1>3 DEF DispatchInv, AllocationHolds

\* A submission that raises before the provider is asked.
LEMMA StopsKeep ==
  ASSUME DispatchInv, NEW r \in Requests, SubmitStops(r)
  PROVE  DispatchInv' /\ Spares({r})
<1>1. UNCHANGED <<deadline, job, sends>>
  BY DEF SubmitStops, providerVars
<1>2. \/ UNCHANGED ledger
      \/ \E s \in {"prepared", "torn"} : ledger[r].status \in Unsent /\ Marked(r, s)
  BY DEF SubmitStops, Openable, Unsent
<1>3. DOMAIN ledger' = Requests /\ \A q \in Requests :
        /\ DOMAIN ledger'[q] = {"status", "known", "provider"}
        /\ ledger'[q].status \in Unsent => ledger[q].status \in Unsent
        /\ ledger'[q].provider = ledger[q].provider
  BY <1>2 DEF Marked, DispatchInv, DispatchTyped
<1>4. allocation' = allocation \/ (Allocates(r) /\ allocation' = allocation \cup {r})
  BY DEF SubmitStops
<1>5. AllocationHolds'
  <2>1. CASE allocation' = allocation
    BY <1>1, <2>1 DEF DispatchInv, AllocationHolds
  <2>. QED
    BY <1>1, <1>4, <2>1, Reserves
<1>6. ASSUME NEW q \in Requests PROVE LedgerHolds(q)'
  BY <1>1, <1>3, <1>4 DEF DispatchInv, LedgerHolds
<1>7. DispatchTyped'
  BY <1>1, <1>3, <1>4 DEF DispatchInv, DispatchTyped
<1>. QED
  BY <1>1, <1>4, <1>5, <1>6, <1>7 DEF DispatchInv, Spares

\* A request is sent with its claim and deadline in the allocation, and only once.
LEMMA SendsKeep ==
  ASSUME DispatchInv, NEW r \in Requests, SubmitSends(r)
  PROVE  DispatchInv' /\ Spares({r})
<1>1. deadline' = deadline /\ allocation' = allocation \cup {r} /\ Allocates(r)
      /\ ledger[r].status \in Unsent /\ job[r] = "none"
  BY DEF SubmitSends, Openable, Unsent, DispatchInv, LedgerHolds
<1>2. /\ DOMAIN ledger' = Requests /\ \A q \in Requests \ {r} : ledger'[q] = ledger[q]
      /\ DOMAIN ledger'[r] = {"status", "known", "provider"}
      /\ ledger'[r].status \notin Unsent /\ ledger'[r].provider = ledger[r].provider
  BY DEF SubmitSends, Marked, Unsent, DispatchInv, DispatchTyped
<1>3. /\ DOMAIN job' = Requests /\ sends' \in [Requests -> Nat]
      /\ \A q \in Requests \ {r} : job'[q] = job[q] /\ sends'[q] = sends[q]
      /\ \/ job'[r] = "none" /\ sends'[r] = sends[r]
         \/ job'[r] = "pending" /\ sends'[r] = sends[r]
         \/ job'[r] \in {"running", "coming"} /\ sends'[r] = sends[r] + 1
  BY <1>1 DEF SubmitSends, Received, providerVars, DispatchInv, DispatchTyped
<1>4. AllocationHolds'
  BY <1>1, Reserves
<1>5. ledger[r].provider \notin Ended /\ sends[r] = 0
  BY <1>1 DEF DispatchInv, LedgerHolds, Ended
<1>6. ASSUME NEW q \in Requests PROVE LedgerHolds(q)'
  <2>1. CASE q = r
    BY <1>1, <1>2, <1>3, <1>5, <2>1 DEF LedgerHolds
  <2>2. CASE q # r
    BY <1>1, <1>2, <1>3, <2>2 DEF DispatchInv, LedgerHolds
  <2>. QED
    BY <2>1, <2>2
<1>7. DispatchTyped'
  BY <1>1, <1>2, <1>3 DEF DispatchInv, DispatchTyped
<1>. QED
  BY <1>1, <1>3, <1>4, <1>6, <1>7 DEF DispatchInv, Spares, Stopped, Ended

\* The provider takes a job forward only.
LEMMA ProviderKeeps ==
  ASSUME DispatchInv, NEW r \in Requests, JobArrives(r) \/ JobEnds(r) \/ Activate(r)
  PROVE  DispatchInv' /\ Spares({r})
<1>1. UNCHANGED <<deadline, ledger, allocation>>
  BY DEF JobArrives, JobEnds, Activate, ledgerVars
<1>2. /\ DOMAIN job' = Requests /\ sends' \in [Requests -> Nat]
      /\ \A q \in Requests \ {r} : job'[q] = job[q] /\ sends'[q] = sends[q]
      /\ job[r] \in {"coming", "running", "pending"}
      /\ job'[r] \notin {"none", "pending"}
      /\ sends'[r] = IF job[r] = "pending" THEN sends[r] + 1 ELSE sends[r]
  BY DEF JobArrives, JobEnds, Activate, Received, Ended, DispatchInv, DispatchTyped
<1>3. DispatchTyped' /\ AllocationHolds'
  BY <1>1, <1>2 DEF DispatchInv, DispatchTyped, AllocationHolds
<1>4. ASSUME NEW q \in Requests PROVE LedgerHolds(q)'
  <2>1. CASE q = r
    BY <1>1, <1>2, <2>1 DEF DispatchInv, LedgerHolds, Ended, Unsent
  <2>2. CASE q # r
    BY <1>1, <1>2, <2>2 DEF DispatchInv, LedgerHolds
  <2>. QED
    BY <2>1, <2>2
<1>. QED
  BY <1>1, <1>2, <1>3, <1>4 DEF DispatchInv, Spares, Stopped, Ended


----------------------------------------------------------------------------
(* A segment's attempts. *)

\* A plan's segments are among those of the requests.
LEMMA SegmentsFinite ==
  ASSUME case \in Cases
  PROVE  IsFiniteSet(Segments)
<1> DEFINE f == [r \in Requests |-> r.segment]
           T == {f[r] : r \in Requests}
<1>1. f \in Surjection(Requests, T)
  BY DEF Surjection
<1>2. IsFiniteSet(T)
  <2> HIDE DEF f, T
  <2>. QED
    BY <1>1, FS_Surjection, SegmentAssumption
<1>3. ASSUME NEW s \in Segments PROVE s \in T
  <2>1. PICK p \in DOMAIN case.plans : \E i \in 1..Len(case.plans[p]) : s = case.plans[p][i]
    BY <1>3 DEF Segments, Plans
  <2>2. PICK i \in 1..Len(case.plans[p]) : s = case.plans[p][i]
    BY <2>1
  <2>3. 1 \in 1..MaxPerSegment
    BY SegmentAssumption
  <2>4. [plan |-> p, segment |-> s, attempt |-> 1] \in Requests
    BY <2>2, <2>3, SegmentAssumption
  <2>5. [plan |-> p, segment |-> s, attempt |-> 1].segment = s
    OBVIOUS
  <2>. QED
    BY <2>4, <2>5
<1>. HIDE DEF T
<1>. QED
  BY <1>2, <1>3, FS_Subset

\* Where a run stands is a segment of its plan, whose attempts are requests.
LEMMA HereIs ==
  ASSUME SegmentInv, NEW p \in Plans, run[p].at # "off", run[p].position <= Len(case.plans[p])
  PROVE  /\ Here(p) \in Segments
         /\ \A n \in 1..MaxPerSegment : Own(p, Here(p), n) \in Requests
         /\ Tries(p) \in Seq(AttemptType) /\ Len(Tries(p)) \in Nat
         /\ \A i \in 1..Len(Tries(p)) : Tries(p)[i] \in AttemptType
<1>1. run[p].position \in 1..Len(case.plans[p])
  BY SegmentAssumption DEF SegmentInv, SegmentTyped, VisitHolds, Plans
<1>2. Here(p) \in Segments
  BY <1>1 DEF Here, Segments
<1>3. \A n \in 1..MaxPerSegment : Own(p, Here(p), n) \in Requests
  BY <1>1, SegmentAssumption DEF Here, Own, SegmentInv, SegmentTyped, Plans
<1>4. Tries(p) \in Seq(AttemptType)
  BY <1>2 DEF Tries, SegmentInv, SegmentTyped
<1>. QED
  BY <1>2, <1>3, <1>4, LenProperties, ElementOfSeq

\* The attempt that a run works on was made by its plan.
LEMMA LatestIs ==
  ASSUME SegmentInv, NEW p \in Plans, run[p].at \in Begun
  PROVE  /\ Len(Tries(p)) \in Nat \ {0} /\ Latest(p) \in AttemptType
         /\ Latest(p).status # "reused_render"
         /\ Latest(p).request \in Made /\ Latest(p).request = Own(p, Here(p), Len(Tries(p)))
<1>1. /\ run[p].at # "off" /\ run[p].position <= Len(case.plans[p])
      /\ Tries(p) # <<>> /\ complete[p][Here(p)] = {}
  BY DEF SegmentInv, VisitHolds, Begun
<1>2. Len(Tries(p)) \in Nat \ {0}
  BY <1>1, HereIs, EmptySeq
<1>3. Len(Tries(p)) \in 1..Len(Tries(p))
  BY <1>2
<1>4. Latest(p) \in AttemptType
  BY <1>1, <1>3, HereIs DEF Latest
<1>5. AttemptsHold(p, Here(p))
  BY <1>1, HereIs DEF SegmentInv
<1>6. Latest(p).status # "reused_render" /\ Latest(p).request \in Made
      /\ Latest(p).request = Own(p, Here(p), Len(Tries(p)))
  BY <1>1, <1>3, <1>5 DEF AttemptsHold, Latest, Tries
<1>. QED
  BY <1>2, <1>4, <1>6

\* A run moves.
LEMMA RunMoves ==
  ASSUME SegmentInv, case' = case, NEW p \in Plans, NEW new \in [at: Steps, position: Nat],
         run' = [run EXCEPT ![p] = new],
         \A q \in Plans \ {p} : attempts'[q] = attempts[q] /\ complete'[q] = complete[q],
         new.at # "off" => new.position >= 1,
         new.at \in Begun =>
           /\ new.position <= Len(case.plans[p])
           /\ attempts'[p][case.plans[p][new.position]] # <<>>
           /\ complete'[p][case.plans[p][new.position]] = {}
  PROVE  run' \in [Plans -> [at: Steps, position: Nat]] /\ \A q \in Plans : VisitHolds(q)'
<1>1. run' \in [Plans -> [at: Steps, position: Nat]]
  BY DEF SegmentInv, SegmentTyped
<1>2. ASSUME NEW q \in Plans PROVE VisitHolds(q)'
  <2>1. CASE q = p
    BY <2>1 DEF VisitHolds, Tries, Here, SegmentInv, SegmentTyped
  <2>2. CASE q # p
    <3>1. run'[q] = run[q] /\ VisitHolds(q)
      BY <2>2 DEF SegmentInv, SegmentTyped
    <3>. QED
      BY <2>2, <3>1 DEF VisitHolds, Tries, Here
  <2>. QED
    BY <2>1, <2>2
<1>. QED
  BY <1>1, <1>2

\* A step that changes at most one segment of one plan.
LEMMA GroupChanges ==
  ASSUME SegmentInv, case' = case, delivery' \in [Plans -> Nat], DispatchInv',
         NEW p \in Plans, NEW s \in Segments,
         attempts' \in [Plans -> [Segments -> Seq(AttemptType)]],
         complete' \in [Plans -> [Segments -> SUBSET Requests]],
         \A q \in Plans, t \in Segments :
           ~(q = p /\ t = s) => attempts'[q][t] = attempts[q][t] /\ complete'[q][t] = complete[q][t],
         \A r \in Requests : job[r] \in Stopped => job'[r] = job[r],
         Made \subseteq Made', allocation' \subseteq Made', \A r \in Made' : deadline'[r] > 0,
         AttemptsHold(p, s)', Spent(p)' <= PlanSeconds,
         run' \in [Plans -> [at: Steps, position: Nat]], \A q \in Plans : VisitHolds(q)'
  PROVE  SegmentInv'
<1>1. Plans' = Plans /\ Segments' = Segments
  BY DEF Plans, Segments
<1>2. SegmentTyped'
  BY <1>1 DEF SegmentInv, SegmentTyped
<1>3. Made \subseteq Requests
  BY DEF Made
<1>4. ASSUME NEW q \in Plans, NEW t \in Segments PROVE AttemptsHold(q, t)'
  <2>1. CASE q = p /\ t = s
    BY <2>1
  <2>2. CASE ~(q = p /\ t = s)
    <3>1. attempts'[q][t] = attempts[q][t] /\ complete'[q][t] = complete[q][t]
      BY <2>2
    <3>2. AttemptsHold(q, t)
      BY DEF SegmentInv
    <3>3. complete'[q][t] \subseteq Made'
      BY <3>1, <3>2 DEF AttemptsHold
    <3>4. ASSUME NEW i \in 1..Len(attempts[q][t])
          PROVE  LET a == attempts[q][t][i] IN
                 /\ a.request \in Made'
                 /\ a.status \in Retried => job'[a.request] \in Stopped
      BY <1>3, <3>2 DEF AttemptsHold
    <3>. QED
      BY <3>1, <3>2, <3>3, <3>4 DEF AttemptsHold
  <2>. QED
    BY <2>1, <2>2
<1>5. ASSUME NEW q \in Plans PROVE Spent(q)' <= PlanSeconds
  <2>1. CASE q = p
    BY <2>1
  <2>2. CASE q # p
    <3>1. \A t \in Segments : attempts'[q][t] = attempts[q][t]
      BY <2>2
    <3>2. Charges(q)' = Charges(q)
      BY <1>1, <3>1 DEF Charges
    <3>3. Spent(q)' = Spent(q)
      BY <1>1, <3>2 DEF Spent
    <3>. QED
      BY <3>3 DEF SegmentInv
  <2>. QED
    BY <2>1, <2>2
<1>. QED
  BY <1>1, <1>2, <1>4, <1>5 DEF SegmentInv

\* A step that changes no attempt.
LEMMA GroupStays ==
  ASSUME SegmentInv, UNCHANGED <<attempts, complete, case>>, delivery' \in [Plans -> Nat],
         DispatchInv', NEW R, R \subseteq Made, Spares(R),
         run' \in [Plans -> [at: Steps, position: Nat]], \A p \in Plans : VisitHolds(p)'
  PROVE  SegmentInv'
<1>1. Plans' = Plans /\ Segments' = Segments
  BY DEF Plans, Segments
<1>2. Made' = Made /\ Made \subseteq Requests
  BY <1>1 DEF Made
<1>3. SegmentTyped'
  BY <1>1 DEF SegmentInv, SegmentTyped
<1>4. ASSUME NEW q \in Plans, NEW t \in Segments PROVE AttemptsHold(q, t)'
  <2>1. AttemptsHold(q, t)
    BY DEF SegmentInv
  <2>. QED
    BY <1>2, <2>1 DEF AttemptsHold, Spares
<1>5. ASSUME NEW q \in Plans PROVE Spent(q)' <= PlanSeconds
  <2>1. Charges(q)' = Charges(q)
    BY <1>1 DEF Charges
  <2>2. Spent(q)' = Spent(q)
    BY <1>1, <2>1 DEF Spent
  <2>. QED
    BY <2>2 DEF SegmentInv
<1>6. allocation' \subseteq Made' /\ \A r \in Made' : deadline'[r] > 0
  BY <1>2 DEF SegmentInv, Spares
<1>. QED
  BY <1>1, <1>3, <1>4, <1>5, <1>6 DEF SegmentInv

\* A step of the dispatch beside runs that stay where they are.
LEMMA BesideRuns ==
  ASSUME SegmentInv, UNCHANGED <<groupVars, case, run>>, DispatchInv',
         NEW R, R \subseteq Made, Spares(R)
  PROVE  SegmentInv'
<1>1. \A p \in Plans : VisitHolds(p)'
  BY DEF SegmentInv, VisitHolds, Tries, Here, groupVars
<1>2. UNCHANGED <<attempts, complete, case>> /\ delivery' \in [Plans -> Nat]
      /\ run' \in [Plans -> [at: Steps, position: Nat]]
  BY DEF SegmentInv, SegmentTyped, groupVars
<1>. QED
  BY <1>1, <1>2, GroupStays

\* A step of one run that records nothing.
LEMMA OneRunMoves ==
  ASSUME SegmentInv, UNCHANGED <<attempts, complete, delivery, case>>, DispatchInv',
         NEW R, R \subseteq Made, Spares(R),
         NEW p \in Plans, NEW new \in [at: Steps, position: Nat], run' = [run EXCEPT ![p] = new],
         new.at # "off" => new.position >= 1,
         new.at \in Begun =>
           /\ new.position <= Len(case.plans[p])
           /\ attempts[p][case.plans[p][new.position]] # <<>>
           /\ complete[p][case.plans[p][new.position]] = {}
  PROVE  SegmentInv'
<1>1. run' \in [Plans -> [at: Steps, position: Nat]] /\ \A q \in Plans : VisitHolds(q)'
  BY RunMoves
<1>2. delivery' \in [Plans -> Nat]
  BY DEF SegmentInv, SegmentTyped
<1>. QED
  BY <1>1, <1>2, GroupStays

\* A run goes off, for whatever reason.
LEMMA RunLeaves ==
  ASSUME SegmentInv, UNCHANGED <<attempts, complete, delivery, case>>, DispatchInv',
         NEW R, R \subseteq Made, Spares(R), NEW p \in Plans, Leaves(p)
  PROVE  SegmentInv'
<1> DEFINE new == [at |-> "off", position |-> 0]
<1>1. new \in [at: Steps, position: Nat] /\ new.at = "off" /\ new.at \notin Begun
  BY DEF Steps, Begun
<1>2. run' = [run EXCEPT ![p] = new]
  BY DEF Leaves
<1> HIDE DEF new
<1>. QED
  BY <1>1, <1>2, OneRunMoves

\* The next step at the same segment.
LEMMA RunGoes ==
  ASSUME SegmentInv, UNCHANGED <<attempts, complete, delivery, case>>, DispatchInv',
         NEW R, R \subseteq Made, Spares(R), NEW p \in Plans, NEW step \in Begun, Goes(p, step),
         run[p].at # "off", run[p].position <= Len(case.plans[p]), Tries(p) # <<>>,
         complete[p][Here(p)] = {}
  PROVE  SegmentInv'
<1> DEFINE new == [at |-> step, position |-> run[p].position]
<1>1. run[p] \in [at: Steps, position: Nat] /\ run[p].position >= 1
  BY DEF SegmentInv, SegmentTyped, VisitHolds
<1>2. new \in [at: Steps, position: Nat] /\ new.at = step /\ new.position = run[p].position
  BY <1>1 DEF Steps, Begun
<1>3. run' = [run EXCEPT ![p] = new]
  <2>1. [run[p] EXCEPT !.at = step] = new
    BY <1>1
  <2>. QED
    BY <2>1 DEF Goes
<1> HIDE DEF new
<1>. QED
  BY <1>1, <1>2, <1>3, OneRunMoves DEF Tries, Here

\* The next segment.
LEMMA RunAdvances ==
  ASSUME SegmentInv, UNCHANGED <<attempts, complete, delivery, case>>, DispatchInv',
         NEW R, R \subseteq Made, Spares(R), NEW p \in Plans, Advances(p)
  PROVE  SegmentInv'
<1> DEFINE new == [at |-> "visit", position |-> run[p].position + 1]
<1>1. run[p] \in [at: Steps, position: Nat]
  BY DEF SegmentInv, SegmentTyped
<1>2. new \in [at: Steps, position: Nat] /\ new.at = "visit" /\ new.position >= 1 /\ new.at \notin Begun
  BY <1>1 DEF Steps, Begun
<1>3. run' = [run EXCEPT ![p] = new]
  BY <1>1 DEF Advances, SegmentInv, SegmentTyped
<1> HIDE DEF new
<1>. QED
  BY <1>2, <1>3, OneRunMoves

\* Nothing of the dispatch changes.
LEMMA DispatchStays ==
  ASSUME DispatchInv, UNCHANGED <<transport, ledgerVars, providerVars>>
  PROVE  DispatchInv' /\ Spares({})
<1>1. UNCHANGED <<deadline, ledger, allocation, job, sends>>
  BY DEF ledgerVars, providerVars
<1>. QED
  BY <1>1, LedgerOnly DEF DispatchInv, DispatchTyped

\* The limits are positive.
LEMMA PositiveLimits ==
  /\ MaxPerSegment \in Nat /\ MaxPerSegment >= 1 /\ PolicySeconds \in Nat /\ PolicySeconds >= 1
  /\ PlanSeconds \in Nat /\ MaxSeconds \in Nat
BY SegmentAssumption

LEMMA SecondsTyped ==
  ASSUME NEW tries \in Seq(AttemptType), NEW i \in Nat, i >= 1, i <= Len(tries)
  PROVE  tries[i].seconds \in Nat
<1>1. i \in 1..Len(tries)
  BY LenProperties
<1>2. tries[i] \in AttemptType
  BY <1>1, ElementOfSeq
<1>. QED
  BY <1>2 DEF AttemptType

\* The charges of a plan are finitely many natural numbers.
LEMMA ChargesTyped ==
  ASSUME SegmentTyped, NEW p \in Plans
  PROVE  /\ IsFiniteSet(Segments \X (1..MaxPerSegment))
         /\ \A x \in Segments \X (1..MaxPerSegment) : Charges(p)[x] \in Nat
<1>1. IsFiniteSet(Segments \X (1..MaxPerSegment))
  <2>1. IsFiniteSet(1..MaxPerSegment)
    BY FS_Interval, PositiveLimits
  <2>2. IsFiniteSet(Segments)
    BY SegmentsFinite DEF SegmentTyped
  <2>. QED
    BY <2>1, <2>2, FS_Product
<1>2. ASSUME NEW x \in Segments \X (1..MaxPerSegment) PROVE Charges(p)[x] \in Nat
  <2>1. /\ x[1] \in Segments /\ x[2] \in Nat /\ x[2] >= 1
        /\ attempts[p][x[1]] \in Seq(AttemptType)
    BY PositiveLimits DEF SegmentTyped
  <2>2. x[2] <= Len(attempts[p][x[1]]) => attempts[p][x[1]][x[2]].seconds \in Nat
    BY <2>1, SecondsTyped
  <2>. QED
    BY <2>2 DEF Charges
<1>. QED
  BY <1>1, <1>2

\* So is their sum.
LEMMA SpentTyped ==
  ASSUME SegmentInv, NEW p \in Plans
  PROVE  Spent(p) \in Nat
<1>1. SegmentTyped
  BY DEF SegmentInv
<1>. QED
  BY <1>1, ChargesTyped, SumTyped DEF Spent

----------------------------------------------------------------------------
(* The steps of a run. *)

\* One entry of the charges that grows no more than its plan has left.
LEMMA SpentBounded ==
  ASSUME SegmentInv, case' = case, NEW p \in Plans,
         attempts' \in [Plans -> [Segments -> Seq(AttemptType)]],
         NEW e \in Segments \X (1..MaxPerSegment),
         \A x \in Segments \X (1..MaxPerSegment) : x # e => Charges(p)'[x] = Charges(p)[x],
         NEW most \in Nat, Charges(p)'[e] <= Charges(p)[e] + most, Spent(p) + most <= PlanSeconds
  PROVE  Spent(p)' <= PlanSeconds
<1> DEFINE S == Segments \X (1..MaxPerSegment)
<1>1. Segments' = Segments
  BY DEF Segments, Plans
<1>2. IsFiniteSet(S)
  BY ChargesTyped DEF SegmentInv, SegmentTyped
<1>3. \A x \in S : Charges(p)[x] \in Nat
  BY ChargesTyped DEF SegmentInv
<1>4. ASSUME NEW x \in S PROVE Charges(p)'[x] \in Nat
  <2>1. /\ x[1] \in Segments /\ x[2] \in Nat /\ x[2] >= 1
        /\ attempts'[p][x[1]] \in Seq(AttemptType)
    BY PositiveLimits
  <2>2. x[2] <= Len(attempts'[p][x[1]]) => attempts'[p][x[1]][x[2]].seconds \in Nat
    BY <2>1, SecondsTyped
  <2>. QED
    BY <1>1, <2>2 DEF Charges
<1>5. Spent(p) = SumOver(Charges(p), S) /\ Spent(p)' = SumOver(Charges(p)', S)
  BY <1>1 DEF Spent
<1>6. e \in S /\ (\A x \in S : Charges(p)[x] \in Int /\ Charges(p)'[x] \in Int)
      /\ \A x \in S \ {e} : Charges(p)'[x] = Charges(p)[x]
  BY <1>3, <1>4
<1>7. SumOver(Charges(p)', S) = SumOver(Charges(p), S) - Charges(p)[e] + Charges(p)'[e]
  <2>1. PICK f, g, T : f = Charges(p) /\ g = Charges(p)' /\ T = S
    OBVIOUS
  <2> HIDE DEF S
  <2>2. IsFiniteSet(T)
    BY <1>2, <2>1
  <2>3. \A x \in T : f[x] \in Int /\ g[x] \in Int
    BY <1>6, <2>1
  <2>4. e \in T /\ \A x \in T \ {e} : g[x] = f[x]
    BY <1>6, <2>1
  <2>5. SumOver(g, T) = SumOver(f, T) - f[e] + g[e]
    BY <2>2, <2>3, <2>4, SumChangesAt, Z3
  <2>. QED
    BY <2>1, <2>5
<1> HIDE DEF S
<1>8. Spent(p) \in Int
  BY SpentTyped
<1>9. Charges(p)[e] \in Nat /\ Charges(p)'[e] \in Nat
  BY <1>3, <1>4, <1>6
<1>. QED
  BY <1>5, <1>7, <1>8, <1>9, PositiveLimits

\* The last attempt of the segment where a run stands becomes another entry.
EntryIs(p, a) ==
  /\ attempts' \in [Plans -> [Segments -> Seq(AttemptType)]]
  /\ \A q \in Plans, t \in Segments :
       ~(q = p /\ t = Here(p)) => attempts'[q][t] = attempts[q][t]
  /\ Len(attempts'[p][Here(p)]) = Len(Tries(p))
  /\ attempts'[p][Here(p)][Len(Tries(p))] = a
  /\ \A i \in 1..Len(Tries(p)) :
       i # Len(Tries(p)) => attempts'[p][Here(p)][i] = attempts[p][Here(p)][i]

\* An attempt that is settled or rejected keeps its request and costs no more.
LEMMA LastSettled ==
  ASSUME SegmentInv, UNCHANGED <<complete, delivery, case>>, DispatchInv',
         NEW p \in Plans, run[p].at \in Begun, Spares({Latest(p).request}),
         NEW a \in AttemptType, a.request = Latest(p).request,
         a.status \in {Latest(p).status} \cup Retried, a.seconds <= Latest(p).seconds,
         a.status \in Retried => job'[a.request] \in Stopped,
         EntryIs(p, a),
         NEW new \in [at: Steps, position: Nat], run' = [run EXCEPT ![p] = new],
         new.at # "off" => new.position = run[p].position
  PROVE  SegmentInv'
<1>0. PICK s, n : s = Here(p) /\ n = Len(Tries(p))
  OBVIOUS
<1>1. /\ run[p].at # "off" /\ run[p].position >= 1 /\ run[p].position <= Len(case.plans[p])
      /\ complete[p][s] = {}
  BY <1>0 DEF SegmentInv, VisitHolds, Begun
<1>2. s \in Segments /\ Tries(p) \in Seq(AttemptType) /\ n \in Nat \ {0} /\ n \in 1..n
  BY <1>0, <1>1, HereIs, LatestIs
<1>3. Latest(p) = attempts[p][s][n] /\ Tries(p) = attempts[p][s]
  BY <1>0 DEF Latest, Tries
<1>4. /\ Latest(p) \in AttemptType /\ Latest(p).request \in Made
      /\ Latest(p).request = Own(p, s, n) /\ Latest(p).status # "reused_render"
  BY <1>0, LatestIs
<1>5. \A q \in Plans, t \in Segments :
        ~(q = p /\ t = s) => attempts'[q][t] = attempts[q][t]
  BY <1>0 DEF EntryIs
<1>6. /\ attempts'[p][s] \in Seq(AttemptType) /\ Len(attempts'[p][s]) = n
      /\ attempts'[p][s][n] = a
      /\ \A i \in 1..n : i # n => attempts'[p][s][i] = attempts[p][s][i]
  BY <1>0, <1>2, <1>3 DEF EntryIs
<1>7. attempts' \in [Plans -> [Segments -> Seq(AttemptType)]]
  BY <1>0 DEF EntryIs
<1>8. Plans' = Plans /\ Segments' = Segments
  BY DEF Plans, Segments
<1>9. a.status # "reused_render"
  BY <1>0, <1>4 DEF Retried
<1>10. Made' = Made
  <2>1. ASSUME NEW q \in Plans, NEW t \in Segments
        PROVE  /\ Len(attempts'[q][t]) = Len(attempts[q][t])
               /\ \A i \in 1..Len(attempts[q][t]) :
                    attempts'[q][t][i].status # "reused_render" <=> attempts[q][t][i].status # "reused_render"
    <3>1. CASE q = p /\ t = s
      BY <1>0, <1>3, <1>4, <1>6, <1>9, <3>1
    <3>2. CASE ~(q = p /\ t = s)
      BY <1>0, <1>5, <3>2
    <3>. QED
      BY <1>0, <3>1, <3>2
  <2>. QED
    BY <1>0, <1>8, <2>1 DEF Made
<1>11. AttemptsHold(p, s)'
  <2>1. AttemptsHold(p, s)
    BY <1>0, <1>2 DEF SegmentInv
  <2>2. Len(attempts'[p][s]) <= MaxPerSegment /\ complete'[p][s] \subseteq Made'
    BY <1>0, <1>3, <1>6, <1>10, <2>1 DEF AttemptsHold
  <2>3. ASSUME NEW i \in 1..Len(attempts'[p][s])
        PROVE  LET b == attempts'[p][s][i] IN
               /\ b.request \in Made'
               /\ b.status # "reused_render" /\ b.request = Own(p, s, i)
               /\ i < Len(attempts'[p][s]) => b.status \in Retried
               /\ b.status \in Retried => job'[b.request] \in Stopped
    <3>1. CASE i = n
      BY <1>0, <1>2, <1>4, <1>6, <1>9, <1>10, <3>1
    <3>2. CASE i # n
      <4>1. i \in 1..Len(attempts[p][s]) /\ i < n /\ attempts'[p][s][i] = attempts[p][s][i]
        BY <1>0, <1>2, <1>3, <1>6, <3>2
      <4>2. /\ attempts[p][s][i].request \in Made
            /\ attempts[p][s][i].status # "reused_render" => attempts[p][s][i].request = Own(p, s, i)
            /\ attempts[p][s][i].status = "reused_render" => Len(attempts[p][s]) = 1
            /\ attempts[p][s][i].status \in Retried
            /\ job[attempts[p][s][i].request] \in Stopped
        BY <1>0, <1>3, <2>1, <4>1 DEF AttemptsHold
      <4>3. Made \subseteq Requests /\ \A r \in Requests : job[r] \in Stopped => job'[r] = job[r]
        BY DEF Made, Spares
      <4>. QED
        BY <1>0, <1>10, <4>1, <4>2, <4>3 DEF Retried
    <3>. QED
      BY <1>0, <3>1, <3>2
  <2>4. Own(p, s, 1)' = Own(p, s, 1) /\ \A i \in 1..n : Own(p, s, i)' = Own(p, s, i)
    BY DEF Own
  <2>. QED
    BY <1>0, <1>6, <2>2, <2>3 DEF AttemptsHold, Own
<1>12. Spent(p)' <= PlanSeconds
  <2> DEFINE e == <<s, n>>
  <2>1. n \in 1..MaxPerSegment
    BY <1>0, <1>2, <1>3 DEF SegmentInv, AttemptsHold
  <2>2. e \in Segments \X (1..MaxPerSegment)
    BY <1>0, <1>2, <2>1
  <2>3. ASSUME NEW x \in Segments \X (1..MaxPerSegment), x # e
        PROVE  Charges(p)'[x] = Charges(p)[x]
    <3>1. x[1] \in Segments /\ x[2] \in Nat /\ x[2] >= 1 /\ (x[1] = s => x[2] # n)
      BY <1>0, <2>3, SegmentAssumption
    <3>2. CASE x[1] = s
      <4>1. Len(attempts'[p][x[1]]) = Len(attempts[p][x[1]])
            /\ (x[2] <= n => attempts'[p][x[1]][x[2]] = attempts[p][x[1]][x[2]])
        BY <1>0, <1>2, <1>3, <1>6, <3>1, <3>2
      <4>2. Len(attempts[p][x[1]]) = n
        BY <1>0, <1>3, <3>2
      <4>. QED
        BY <1>0, <1>8, <4>1, <4>2 DEF Charges
    <3>3. CASE x[1] # s
      <4>1. attempts'[p][x[1]] = attempts[p][x[1]]
        BY <1>0, <1>5, <3>1, <3>3
      <4>. QED
        BY <1>0, <1>8, <4>1 DEF Charges
    <3>. QED
      BY <1>0, <3>2, <3>3
  <2>4. Charges(p)'[e] <= Charges(p)[e] + 0
    <3>1. Charges(p)[e] = Latest(p).seconds
      <4>1. e[2] <= Len(attempts[p][e[1]]) /\ attempts[p][e[1]][e[2]] = Latest(p)
        BY <1>0, <1>2, <1>3
      <4>. QED
        BY <1>0, <1>4, <2>2, <4>1 DEF Charges
    <3>2. Charges(p)'[e] = a.seconds
      <4>1. e[2] <= Len(attempts'[p][e[1]]) /\ attempts'[p][e[1]][e[2]] = a
        BY <1>0, <1>2, <1>6
      <4>. QED
        BY <1>0, <1>8, <1>9, <2>2, <4>1 DEF Charges
    <3>3. a.seconds \in Nat /\ Latest(p).seconds \in Nat
      BY <1>0, <1>4 DEF AttemptType
    <3> HIDE DEF e
    <3>. QED
      BY <1>0, <3>1, <3>2, <3>3
  <2>5. Spent(p) + 0 <= PlanSeconds
    <3>1. Spent(p) <= PlanSeconds
      BY DEF SegmentInv
    <3>. QED
      BY <1>0, <3>1, SpentTyped
  <2> HIDE DEF e
  <2>. QED
    BY <1>0, <1>7, <2>2, <2>3, <2>4, <2>5, SpentBounded
<1>13. run' \in [Plans -> [at: Steps, position: Nat]] /\ \A q \in Plans : VisitHolds(q)'
  <2>1. ASSUME NEW q \in Plans \ {p} PROVE attempts'[q] = attempts[q] /\ complete'[q] = complete[q]
    <3>1. attempts'[q] \in [Segments -> Seq(AttemptType)] /\ attempts[q] \in [Segments -> Seq(AttemptType)]
      BY <1>7 DEF SegmentInv, SegmentTyped
    <3>2. \A t \in Segments : attempts'[q][t] = attempts[q][t]
      BY <1>5
    <3>. QED
      BY <3>1, <3>2
  <2>3. case' = case /\ complete' = complete
    OBVIOUS
  <2>2. case.plans[p][run[p].position] = s /\ attempts'[p][s] # <<>>
    BY <1>0, <1>2, <1>6, EmptySeq DEF Here
  <2>4. new.at \in Begun => new.at # "off"
    BY DEF Begun
  <2>5. new.at # "off" => new.position = run[p].position
    OBVIOUS
  <2>6. /\ new.at # "off" => new.position >= 1
        /\ new.at \in Begun =>
             /\ new.position <= Len(case.plans[p])
             /\ attempts'[p][case.plans[p][new.position]] # <<>>
             /\ complete'[p][case.plans[p][new.position]] = {}
    BY <1>0, <1>1, <2>2, <2>3, <2>4, <2>5
  <2>. QED
    BY <2>1, <2>3, <2>6, RunMoves
<1>14. \A r \in Requests : job[r] \in Stopped => job'[r] = job[r]
  BY DEF Spares
<1>15. allocation' \subseteq Made' /\ \A r \in Made' : deadline'[r] > 0
  BY <1>0, <1>4, <1>10 DEF SegmentInv, Spares
<1>16. complete' \in [Plans -> [Segments -> SUBSET Requests]] /\ delivery' \in [Plans -> Nat]
  BY DEF SegmentInv, SegmentTyped
<1>17. \A q \in Plans, t \in Segments :
         ~(q = p /\ t = s) => attempts'[q][t] = attempts[q][t] /\ complete'[q][t] = complete[q][t]
  BY <1>0, <1>5
<1>18. case' = case
  OBVIOUS
<1>. QED
  BY <1>0, <1>2, <1>18, <1>7, <1>10, <1>11, <1>12, <1>13, <1>14, <1>15, <1>16, <1>17, GroupChanges

\* The smaller of two numbers is one of them.
LEMMA LeastOfTwo ==
  ASSUME NEW x \in Int, NEW y \in Int
  PROVE  \/ Min({x, y}) = x /\ x <= y
         \/ Min({x, y}) = y /\ y <= x
<1>1. \E z \in {x, y} : \A v \in {x, y} : z <= v
  OBVIOUS
<1>. QED
  BY <1>1 DEF Min

\* Nothing was tried yet where an intent is recorded, or the last try has stopped.
LEMMA AttemptKeeps ==
  ASSUME SegmentInv, NEW p \in Plans, Attempt(p)
  PROVE  SegmentInv'
<1>0. PICK s, n, seconds :
        s = Here(p) /\ n = Len(Tries(p)) + 1 /\ seconds = Min({PolicySeconds, Remaining(p)})
  OBVIOUS
<1>1. PICK r : r = Request(p)
  OBVIOUS
<1>2. /\ run[p].at = "visit" /\ run[p].at # "off" /\ run[p].position >= 1
      /\ run[p].position <= Len(case.plans[p])
      /\ complete[p][s] = {} /\ case' = case /\ delivery' = delivery /\ complete' = complete
  BY <1>0 DEF Attempt, Incomplete, Visiting, Alone, SegmentInv, VisitHolds
<1>3. /\ s \in Segments /\ Tries(p) = attempts[p][s] /\ attempts[p][s] \in Seq(AttemptType)
      /\ n \in Nat /\ n >= 1 /\ n <= MaxPerSegment /\ n = Len(attempts[p][s]) + 1
  BY <1>0, <1>2, HereIs, PositiveLimits DEF Attempt, Affordable, Tries
<1>4. r = Own(p, s, n) /\ r \in Requests
  BY <1>0, <1>1, <1>2, <1>3, HereIs DEF Request, Own
<1>5. Spent(p) \in Nat /\ Remaining(p) \in Int /\ Remaining(p) >= 1
      /\ Remaining(p) + Spent(p) <= PlanSeconds
  BY SpentTyped, PositiveLimits DEF Remaining, Consumed, Attempt, Affordable, SegmentInv, SegmentTyped
<1>6. seconds \in Nat /\ seconds >= 1 /\ seconds <= Remaining(p)
  <2>1. \/ seconds = PolicySeconds /\ PolicySeconds <= Remaining(p)
        \/ seconds = Remaining(p) /\ Remaining(p) <= PolicySeconds
    BY <1>0, <1>5, PositiveLimits, LeastOfTwo
  <2>. QED
    BY <1>5, <2>1, PositiveLimits
<1>7. r \notin Made
  <2>1. ASSUME NEW q \in Plans, NEW t \in Segments, NEW i \in 1..Len(attempts[q][t]), r = Own(q, t, i)
        PROVE  FALSE
    <3>1. q = p /\ t = s /\ i = n
      BY <1>4, <2>1 DEF Own
    <3>. QED
      BY <1>3, <3>1
  <2>. QED
    BY <2>1 DEF Made
<1>8. PICK a : a = [request |-> r, status |-> "open", seconds |-> seconds, charged |-> FALSE]
  OBVIOUS
<1>9. a \in AttemptType /\ a.status = "open" /\ a.request = r /\ a.seconds = seconds
  BY <1>4, <1>6, <1>8 DEF AttemptType
<1>10. deadline' = [deadline EXCEPT ![r] = seconds] /\ deadline'[r] = seconds
  BY <1>0, <1>1, <1>4 DEF Attempt, SegmentInv, DispatchInv, DispatchTyped
<1>11. attempts' = [attempts EXCEPT ![p][s] = Append(attempts[p][s], a)]
  BY <1>0, <1>1, <1>8, <1>10 DEF Attempt
<1>12. /\ attempts'[p][s] = Append(attempts[p][s], a)
       /\ \A q \in Plans, t \in Segments : ~(q = p /\ t = s) => attempts'[q][t] = attempts[q][t]
       /\ \A q \in Plans : q # p => attempts'[q] = attempts[q]
  BY <1>3, <1>11 DEF SegmentInv, SegmentTyped
<1>13. /\ attempts'[p][s] \in Seq(AttemptType) /\ Len(attempts'[p][s]) = n
       /\ attempts'[p][s][n] = a
       /\ \A i \in 1..n : i # n => attempts'[p][s][i] = attempts[p][s][i]
  BY <1>3, <1>9, <1>12, AppendProperties
<1>14. attempts' \in [Plans -> [Segments -> Seq(AttemptType)]]
  BY <1>3, <1>11, <1>13, <1>12 DEF SegmentInv, SegmentTyped
<1>15. Plans' = Plans /\ Segments' = Segments
  BY <1>2 DEF Plans, Segments
<1>16. Made' = Made \cup {r}
  <2>1. ASSUME NEW q \in Plans, NEW t \in Segments, NEW i \in 1..Len(attempts[q][t])
        PROVE  i \in 1..Len(attempts'[q][t]) /\ attempts'[q][t][i] = attempts[q][t][i]
    <3>1. CASE q = p /\ t = s
      BY <1>3, <1>13, <3>1
    <3>2. CASE ~(q = p /\ t = s)
      BY <1>12, <3>2
    <3>. QED
      BY <3>1, <3>2
  <2>2. ASSUME NEW q \in Plans, NEW t \in Segments, NEW i \in 1..Len(attempts'[q][t])
        PROVE  \/ i \in 1..Len(attempts[q][t]) /\ attempts'[q][t][i] = attempts[q][t][i]
               \/ q = p /\ t = s /\ i = n
    <3>1. CASE q = p /\ t = s
      BY <1>3, <1>13, <3>1
    <3>2. CASE ~(q = p /\ t = s)
      BY <1>12, <3>2
    <3>. QED
      BY <3>1, <3>2
  <2>3. Made \subseteq Made'
    BY <1>15, <2>1 DEF Made, Own
  <2>4. r \in Made'
    <3>1. n \in 1..Len(attempts'[p][s]) /\ attempts'[p][s][n].status # "reused_render"
      BY <1>3, <1>9, <1>13
    <3>. QED
      BY <1>3, <1>4, <1>15, <3>1 DEF Made, Own
  <2>5. ASSUME NEW m \in Made', m # r PROVE m \in Made
    <3>1. PICK q \in Plans, t \in Segments : \E i \in 1..Len(attempts'[q][t]) :
            attempts'[q][t][i].status # "reused_render" /\ m = Own(q, t, i)
      BY <1>15, <2>5 DEF Made, Own
    <3>2. PICK i \in 1..Len(attempts'[q][t]) :
            attempts'[q][t][i].status # "reused_render" /\ m = Own(q, t, i)
      BY <3>1
    <3>3. i \in 1..Len(attempts[q][t]) /\ attempts'[q][t][i] = attempts[q][t][i]
      BY <1>4, <2>2, <2>5, <3>2
    <3>4. m \in Requests
      BY <2>5 DEF Made
    <3>. QED
      BY <3>2, <3>3, <3>4 DEF Made
  <2>. QED
    BY <2>3, <2>4, <2>5
<1>17. /\ ledger' = ledger /\ allocation' = allocation /\ job' = job /\ sends' = sends
  BY DEF Attempt, providerVars
<1>18. DispatchInv'
  <2>1. allocation \subseteq Requests /\ r \notin allocation /\ \A q \in allocation : deadline'[q] = deadline[q]
    BY <1>7, <1>10 DEF SegmentInv, DispatchInv, DispatchTyped
  <2>2. SumOver(deadline', allocation) = SumOver(deadline, allocation)
    <3>1. IsFiniteSet(allocation)
      BY <2>1, SegmentAssumption, FS_Subset
    <3>. QED
      BY <2>1, <3>1, SumAgrees
  <2>3. AllocationHolds'
    BY <1>17, <2>2 DEF SegmentInv, DispatchInv, AllocationHolds
  <2>4. DispatchTyped'
    BY <1>4, <1>6, <1>10, <1>17 DEF SegmentInv, DispatchInv, DispatchTyped
  <2>5. \A q \in Requests : LedgerHolds(q)'
    BY <1>17 DEF SegmentInv, DispatchInv, LedgerHolds
  <2>. QED
    BY <2>3, <2>4, <2>5 DEF DispatchInv
<1>19. AttemptsHold(p, s)'
  <2>1. AttemptsHold(p, s)
    BY <1>3 DEF SegmentInv
  <2>2. ASSUME NEW i \in 1..Len(attempts'[p][s])
        PROVE  LET b == attempts'[p][s][i] IN
               /\ b.request \in Made'
               /\ b.status # "reused_render" /\ b.request = Own(p, s, i)
               /\ i < Len(attempts'[p][s]) => b.status \in Retried
               /\ b.status \in Retried => job'[b.request] \in Stopped
    <3>1. CASE i = n
      BY <1>4, <1>9, <1>13, <1>16, <3>1 DEF Retried
    <3>2. CASE i # n
      <4>1. i \in 1..Len(attempts[p][s]) /\ attempts'[p][s][i] = attempts[p][s][i]
        BY <1>3, <1>13, <3>2
      <4>2. /\ attempts[p][s][i].request \in Made
            /\ attempts[p][s][i].status # "reused_render" /\ attempts[p][s][i].request = Own(p, s, i)
            /\ attempts[p][s][i].status \in Retried => job[attempts[p][s][i].request] \in Stopped
        BY <1>2, <2>1, <4>1 DEF AttemptsHold
      <4>3. attempts[p][s][i].status \in Retried
        <5>1. CASE i < Len(attempts[p][s])
          BY <2>1, <4>1, <5>1 DEF AttemptsHold
        <5>2. CASE i = Len(attempts[p][s])
          <6>1. attempts[p][s] # <<>> /\ Latest(p) = attempts[p][s][i]
            BY <1>0, <1>3, <4>1, <5>2, EmptySeq DEF Latest
          <6>. QED
            BY <1>3, <6>1 DEF Attempt, NeedsAttempt
        <5>. QED
          BY <1>3, <4>1, <5>1, <5>2
      <4>. QED
        BY <1>16, <1>17, <4>1, <4>2, <4>3
    <3>. QED
      BY <3>1, <3>2
  <2>3. Len(attempts'[p][s]) <= MaxPerSegment /\ complete'[p][s] \subseteq Made'
    BY <1>2, <1>3, <1>13, <2>1 DEF AttemptsHold
  <2>. QED
    BY <2>2, <2>3 DEF AttemptsHold, Own
<1>20. Spent(p)' <= PlanSeconds
  <2>1. PICK e : e = <<s, n>>
    OBVIOUS
  <2>2. e \in Segments \X (1..MaxPerSegment) /\ e[1] = s /\ e[2] = n
    BY <1>3, <2>1, PositiveLimits
  <2>3. ASSUME NEW x \in Segments \X (1..MaxPerSegment), x # e
        PROVE  Charges(p)'[x] = Charges(p)[x]
    <3>1. x[1] \in Segments /\ x[2] \in Nat /\ x[2] >= 1 /\ (x[1] = s => x[2] # n)
      BY <2>1, <2>3, PositiveLimits
    <3>2. CASE x[1] = s
      <4>1. /\ x[2] <= Len(attempts'[p][x[1]]) <=> x[2] <= Len(attempts[p][x[1]])
            /\ x[2] <= Len(attempts[p][x[1]]) => attempts'[p][x[1]][x[2]] = attempts[p][x[1]][x[2]]
        BY <1>3, <1>13, <3>1, <3>2
      <4>. QED
        BY <1>15, <4>1 DEF Charges
    <3>3. CASE x[1] # s
      <4>1. attempts'[p][x[1]] = attempts[p][x[1]]
        BY <1>12, <3>1, <3>3
      <4>. QED
        BY <1>15, <4>1 DEF Charges
    <3>. QED
      BY <3>2, <3>3
  <2>4. Charges(p)[e] = 0
    <3>1. ~(e[2] <= Len(attempts[p][e[1]]))
      BY <1>3, <2>2
    <3>. QED
      BY <2>2, <3>1 DEF Charges
  <2>5. Charges(p)'[e] = seconds
    <3>1. e[2] <= Len(attempts'[p][e[1]]) /\ attempts'[p][e[1]][e[2]] = a
      BY <1>3, <1>13, <2>2
    <3>. QED
      BY <1>9, <1>15, <2>2, <3>1 DEF Charges
  <2>6. Charges(p)'[e] <= Charges(p)[e] + seconds /\ Spent(p) + seconds <= PlanSeconds
    BY <1>5, <1>6, <2>4, <2>5, PositiveLimits
  <2>. QED
    BY <1>2, <1>6, <1>14, <2>2, <2>3, <2>6, SpentBounded
<1>21. run' \in [Plans -> [at: Steps, position: Nat]] /\ \A q \in Plans : VisitHolds(q)'
  <2>1. PICK new : new = [at |-> "submit", position |-> run[p].position]
    OBVIOUS
  <2>2. run[p] \in [at: Steps, position: Nat]
    BY DEF SegmentInv, SegmentTyped
  <2>3. new \in [at: Steps, position: Nat] /\ new.at = "submit" /\ new.position = run[p].position
    BY <2>1, <2>2 DEF Steps
  <2>4. run' = [run EXCEPT ![p] = new]
    <3>1. [run[p] EXCEPT !.at = "submit"] = new
      BY <2>1, <2>2
    <3>. QED
      BY <3>1 DEF Attempt, Goes
  <2>5. case.plans[p][new.position] = s /\ attempts'[p][s] # <<>> /\ complete'[p][s] = {}
    <3>1. Append(attempts[p][s], a) # <<>>
      BY <1>3, <1>9, AppendProperties
    <3>2. case.plans[p][new.position] = s
      BY <1>0, <2>3 DEF Here
    <3>. QED
      BY <1>2, <1>12, <3>1, <3>2
  <2>6. \A q \in Plans \ {p} : attempts'[q] = attempts[q] /\ complete'[q] = complete[q]
    BY <1>2, <1>12
  <2>7. /\ new.at # "off" => new.position >= 1
        /\ new.at \in Begun =>
             /\ new.position <= Len(case.plans[p])
             /\ attempts'[p][case.plans[p][new.position]] # <<>>
             /\ complete'[p][case.plans[p][new.position]] = {}
    BY <1>2, <2>3, <2>5
  <2>8. case' = case
    BY <1>2
  <2>. QED
    BY <2>3, <2>4, <2>6, <2>7, <2>8, RunMoves
<1>22. allocation' \subseteq Made' /\ \A q \in Made' : deadline'[q] > 0
  <2>1. allocation \subseteq Made /\ \A q \in Made : deadline[q] > 0 /\ q \in Requests
    BY DEF SegmentInv, Made
  <2>2. \A q \in Requests : q # r => deadline'[q] = deadline[q]
    BY <1>10 DEF SegmentInv, DispatchInv, DispatchTyped
  <2>. QED
    BY <1>6, <1>7, <1>10, <1>16, <1>17, <2>1, <2>2
<1>23. complete' \in [Plans -> [Segments -> SUBSET Requests]] /\ delivery' \in [Plans -> Nat]
  BY <1>2 DEF SegmentInv, SegmentTyped
<1>24. /\ Made \subseteq Made' /\ \A q \in Requests : job[q] \in Stopped => job'[q] = job[q]
       /\ \A q \in Plans, t \in Segments :
            ~(q = p /\ t = s) => attempts'[q][t] = attempts[q][t] /\ complete'[q][t] = complete[q][t]
  BY <1>2, <1>12, <1>16, <1>17
<1>. QED
  BY <1>2, <1>3, <1>14, <1>18, <1>19, <1>20, <1>21, <1>22, <1>23, <1>24, GroupChanges

\* One entry of a table changes.
LEMMA OneEntry ==
  ASSUME NEW A, NEW B, NEW C, NEW f \in [A -> [B -> C]], NEW x \in A, NEW y \in B, NEW v \in C,
         NEW g, g = [f EXCEPT ![x][y] = v]
  PROVE  /\ g \in [A -> [B -> C]] /\ g[x][y] = v
         /\ \A q \in A, u \in B : ~(q = x /\ u = y) => g[q][u] = f[q][u]
         /\ \A q \in A : q # x => g[q] = f[q]
<1>1. f[x] \in [B -> C]
  OBVIOUS
<1>2. PICK row : row = [f[x] EXCEPT ![y] = v]
  OBVIOUS
<1>3. row \in [B -> C] /\ row[y] = v /\ \A u \in B : u # y => row[u] = f[x][u]
  BY <1>1, <1>2
<1>4. g = [f EXCEPT ![x] = row]
  BY <1>2
<1>5. g \in [A -> [B -> C]] /\ g[x] = row /\ \A q \in A : q # x => g[q] = f[q]
  BY <1>3, <1>4
<1>. QED
  BY <1>3, <1>5

\* An assignment to the last attempt makes it another entry.
LEMMA EntryChanged ==
  ASSUME SegmentInv, NEW p \in Plans, run[p].at \in Begun, NEW a \in AttemptType,
         attempts' = [attempts EXCEPT ![p][Here(p)][Len(Tries(p))] = a]
  PROVE  EntryIs(p, a)
<1>1. /\ run[p].at # "off" /\ run[p].position <= Len(case.plans[p])
  BY DEF SegmentInv, VisitHolds, Begun
<1>2. PICK s, n, old : s = Here(p) /\ n = Len(Tries(p)) /\ old = Tries(p)
  OBVIOUS
<1>3. /\ s \in Segments /\ old \in Seq(AttemptType) /\ n \in 1..Len(old) /\ n = Len(old)
      /\ old = attempts[p][s]
  BY <1>1, <1>2, HereIs, LatestIs DEF Tries
<1>4. PICK changed : changed = [old EXCEPT ![n] = a]
  OBVIOUS
<1>5. /\ changed \in Seq(AttemptType) /\ Len(changed) = n /\ changed[n] = a
      /\ \A i \in 1..n : i # n => changed[i] = old[i]
  BY <1>3, <1>4, ExceptSeq
<1>6. attempts' = [attempts EXCEPT ![p][s] = changed]
  BY <1>2, <1>3, <1>4
<1>7. /\ attempts' \in [Plans -> [Segments -> Seq(AttemptType)]] /\ attempts'[p][s] = changed
      /\ \A q \in Plans, t \in Segments : ~(q = p /\ t = s) => attempts'[q][t] = attempts[q][t]
  <2>1. attempts \in [Plans -> [Segments -> Seq(AttemptType)]]
    BY DEF SegmentInv, SegmentTyped
  <2>2. s \in Segments /\ changed \in Seq(AttemptType)
    BY <1>3, <1>5
  <2>3. PICK f, g : f = attempts /\ g = attempts'
    OBVIOUS
  <2>4. f \in [Plans -> [Segments -> Seq(AttemptType)]] /\ g = [f EXCEPT ![p][s] = changed]
    BY <1>6, <2>1, <2>3
  <2>5. /\ g \in [Plans -> [Segments -> Seq(AttemptType)]] /\ g[p][s] = changed
        /\ \A q \in Plans, t \in Segments : ~(q = p /\ t = s) => g[q][t] = f[q][t]
    BY <2>2, <2>4, OneEntry
  <2>. QED
    BY <2>3, <2>5
<1>. QED
  BY <1>2, <1>3, <1>5, <1>7 DEF EntryIs

\* A reused render is an attempt that costs nothing and is no request of the plan.
LEMMA ReuseKeeps ==
  ASSUME SegmentInv, NEW p \in Plans, Reuse(p)
  PROVE  SegmentInv'
<1>0. PICK s : s = Here(p)
  OBVIOUS
<1>1. /\ run[p].at = "visit" /\ run[p].at # "off" /\ run[p].position <= Len(case.plans[p])
      /\ attempts[p][s] = <<>> /\ case' = case /\ delivery' = delivery
  BY <1>0 DEF Reuse, Visiting, Alone, Tries
<1>2. s \in Segments
  BY <1>0, <1>1, HereIs
<1>3. ASSUME NEW r \in Reusable(p)
      PROVE  r \in Made /\ r \in Requests
  <2>1. PICK q \in Plans : r \in complete[q][s]
    BY <1>0, <1>3 DEF Reusable
  <2>2. AttemptsHold(q, s)
    BY <1>2 DEF SegmentInv
  <2>. QED
    BY <2>1, <2>2 DEF AttemptsHold, Made
<1>4. ASSUME NEW r \in Reusable(p), FetchRaises(r), Leaves(p), UNCHANGED <<attempts, complete>>
      PROVE  SegmentInv'
  <2>1. DispatchInv' /\ Spares({r})
    BY <1>3, <1>4, OthersKeep DEF SegmentInv
  <2>2. {r} \subseteq Made
    BY <1>3
  <2>. QED
    BY <1>1, <1>4, <2>1, <2>2, RunLeaves
<1>5. ASSUME NEW r \in Reusable(p), FetchedAll({r}), run' = run,
             complete' = [complete EXCEPT ![p][Here(p)] = {r}],
             attempts' = [attempts EXCEPT ![p][Here(p)] =
               <<[request |-> r, status |-> "reused_render",
                  seconds |-> deadline[r], charged |-> TRUE]>>]
      PROVE  SegmentInv'
  <2>1. PICK a : a = [request |-> r, status |-> "reused_render",
                      seconds |-> deadline[r], charged |-> TRUE]
    OBVIOUS
  <2>2. a \in AttemptType /\ a.status = "reused_render" /\ a.request = r
    BY <1>3, <1>5, <2>1 DEF AttemptType, SegmentInv, DispatchInv, DispatchTyped
  <2>3. <<a>> \in Seq(AttemptType) /\ Len(<<a>>) = 1 /\ <<a>>[1] = a
    BY <2>2
  <2>4. attempts' = [attempts EXCEPT ![p][s] = <<a>>] /\ complete' = [complete EXCEPT ![p][s] = {r}]
    BY <1>0, <1>5, <2>1
  <2>5. /\ attempts' \in [Plans -> [Segments -> Seq(AttemptType)]] /\ attempts'[p][s] = <<a>>
        /\ complete' \in [Plans -> [Segments -> SUBSET Requests]] /\ complete'[p][s] = {r}
        /\ \A q \in Plans, t \in Segments :
             ~(q = p /\ t = s) => attempts'[q][t] = attempts[q][t] /\ complete'[q][t] = complete[q][t]
        /\ \A q \in Plans : q # p => attempts'[q] = attempts[q] /\ complete'[q] = complete[q]
    <3>1. /\ attempts \in [Plans -> [Segments -> Seq(AttemptType)]]
          /\ complete \in [Plans -> [Segments -> SUBSET Requests]]
      BY DEF SegmentInv, SegmentTyped
    <3>2. {r} \in SUBSET Requests
      BY <1>3
    <3>3. /\ attempts' \in [Plans -> [Segments -> Seq(AttemptType)]] /\ attempts'[p][s] = <<a>>
          /\ \A q \in Plans, t \in Segments : ~(q = p /\ t = s) => attempts'[q][t] = attempts[q][t]
          /\ \A q \in Plans : q # p => attempts'[q] = attempts[q]
      BY <1>2, <2>3, <2>4, <3>1, OneEntry
    <3>4. /\ complete' \in [Plans -> [Segments -> SUBSET Requests]] /\ complete'[p][s] = {r}
          /\ \A q \in Plans, t \in Segments : ~(q = p /\ t = s) => complete'[q][t] = complete[q][t]
          /\ \A q \in Plans : q # p => complete'[q] = complete[q]
      BY <1>2, <2>4, <3>1, <3>2, OneEntry
    <3>. QED
      BY <3>3, <3>4
  <2>6. DispatchInv' /\ Spares({})
    BY <1>3, <1>5, FetchedKeeps DEF SegmentInv
  <2>7. Plans' = Plans /\ Segments' = Segments
    BY <1>1 DEF Plans, Segments
  <2>8. Len(attempts[p][s]) = 0
    BY <1>1
  <2>9. Made' = Made
    <3>1. ASSUME NEW q \in Plans, NEW t \in Segments, NEW i \in 1..Len(attempts'[q][t]),
                 attempts'[q][t][i].status # "reused_render"
          PROVE  i \in 1..Len(attempts[q][t]) /\ attempts'[q][t][i] = attempts[q][t][i]
      <4>1. CASE q = p /\ t = s
        <5>1. i = 1 /\ attempts'[q][t][i] = a
          <6>1. attempts'[q][t] = <<a>>
            BY <2>5, <4>1
          <6>2. i \in 1..1
            BY <2>3, <6>1
          <6>. QED
            BY <2>3, <6>1, <6>2
        <5>. QED
          BY <2>2, <3>1, <5>1
      <4>2. CASE ~(q = p /\ t = s)
        <5>1. attempts'[q][t] = attempts[q][t]
          BY <2>5, <4>2
        <5>. QED
          BY <5>1
      <4>. QED
        BY <4>1, <4>2
    <3>2. ASSUME NEW q \in Plans, NEW t \in Segments, NEW i \in 1..Len(attempts[q][t])
          PROVE  i \in 1..Len(attempts'[q][t]) /\ attempts'[q][t][i] = attempts[q][t][i]
      <4>1. CASE q = p /\ t = s
        BY <2>8, <4>1
      <4>2. CASE ~(q = p /\ t = s)
        <5>1. attempts'[q][t] = attempts[q][t]
          BY <2>5, <4>2
        <5>. QED
          BY <5>1
      <4>. QED
        BY <4>1, <4>2
    <3>. QED
      BY <2>7, <3>1, <3>2 DEF Made, Own
  <2>10. AttemptsHold(p, s)'
    <3>1. \A i \in 1..Len(attempts'[p][s]) : i = 1 /\ attempts'[p][s][i] = a
      BY <2>3, <2>5
    <3>. QED
      BY <1>3, <2>2, <2>3, <2>5, <2>9, <3>1, PositiveLimits DEF AttemptsHold, Retried
  <2>11. Spent(p)' <= PlanSeconds
    <3>1. ASSUME NEW x \in Segments \X (1..MaxPerSegment) PROVE Charges(p)'[x] = Charges(p)[x]
      <4>1. x[1] \in Segments /\ x[2] \in Nat /\ x[2] >= 1
        BY PositiveLimits
      <4>2. CASE x[1] = s
        <5>1. /\ x[2] <= Len(attempts'[p][x[1]]) => attempts'[p][x[1]][x[2]].status = "reused_render"
              /\ ~(x[2] <= Len(attempts[p][x[1]]))
          <6>1. x[2] <= 1 => x[2] = 1
            BY <4>1
          <6>. QED
            BY <2>2, <2>3, <2>5, <2>8, <4>1, <4>2, <6>1
        <5>. QED
          BY <2>7, <5>1 DEF Charges
      <4>3. CASE x[1] # s
        <5>1. attempts'[p][x[1]] = attempts[p][x[1]]
          BY <2>5, <4>1, <4>3
        <5>. QED
          BY <2>7, <5>1 DEF Charges
      <4>. QED
        BY <4>2, <4>3
    <3>2. Charges(p)' = Charges(p)
      BY <2>7, <3>1 DEF Charges
    <3>3. Spent(p)' = Spent(p)
      BY <2>7, <3>2 DEF Spent
    <3>. QED
      BY <3>3 DEF SegmentInv
  <2>12. run' \in [Plans -> [at: Steps, position: Nat]]
    BY <1>5 DEF SegmentInv, SegmentTyped
  <2>13. ASSUME NEW q \in Plans PROVE VisitHolds(q)'
    <3>1. VisitHolds(q)
      BY DEF SegmentInv
    <3>2. CASE q = p
      BY <1>1, <1>5, <3>1, <3>2 DEF VisitHolds, Begun
    <3>3. CASE q # p
      <4>1. attempts'[q] = attempts[q] /\ complete'[q] = complete[q]
        BY <2>5, <3>3
      <4>. QED
        BY <1>1, <1>5, <3>1, <4>1 DEF VisitHolds, Tries, Here
    <3>. QED
      BY <3>2, <3>3
  <2>14. /\ Made \subseteq Made' /\ allocation' \subseteq Made'
         /\ \A q \in Made' : deadline'[q] > 0
         /\ \A q \in Requests : job[q] \in Stopped => job'[q] = job[q]
    BY <2>6, <2>9 DEF Spares, SegmentInv
  <2>15. delivery' \in [Plans -> Nat] /\ DispatchInv'
    BY <1>1, <2>6 DEF SegmentInv, SegmentTyped
  <2>. QED
    BY <1>1, <1>2, <2>5, <2>10, <2>11, <2>12, <2>13, <2>14, <2>15, GroupChanges
<1>. QED
  BY <1>4, <1>5 DEF Reuse

\* A complete segment is collected again.
LEMMA RecheckKeeps ==
  ASSUME SegmentInv, NEW p \in Plans, Recheck(p)
  PROVE  SegmentInv'
<1>1. /\ run[p].at # "off" /\ run[p].position <= Len(case.plans[p])
      /\ UNCHANGED <<attempts, complete, delivery, case>>
  BY DEF Recheck, Visiting, Alone, groupVars
<1>2. complete[p][Here(p)] \subseteq Made /\ Made \subseteq Requests
  <2>1. AttemptsHold(p, Here(p))
    BY <1>1, HereIs DEF SegmentInv
  <2>. QED
    BY <2>1 DEF AttemptsHold, Made
<1>3. ASSUME FetchedAll(complete[p][Here(p)]), Advances(p) PROVE SegmentInv'
  <2>1. DispatchInv' /\ Spares({}) /\ {} \subseteq Made
    BY <1>2, <1>3, FetchedKeeps DEF SegmentInv
  <2>. QED
    BY <1>1, <1>3, <2>1, RunAdvances
<1>4. ASSUME NEW r \in complete[p][Here(p)], FetchRaises(r), Leaves(p) PROVE SegmentInv'
  <2>1. r \in Requests /\ {r} \subseteq Made
    BY <1>2
  <2>2. DispatchInv' /\ Spares({r})
    BY <1>4, <2>1, OthersKeep DEF SegmentInv
  <2>. QED
    BY <1>1, <1>4, <2>1, <2>2, RunLeaves
<1>. QED
  BY <1>3, <1>4 DEF Recheck

\* Steps of a run that neither dispatch nor record anything.
LEMMA IdleStepsKeep ==
  ASSUME SegmentInv, NEW p \in Plans,
         RunStarts(p) \/ StopsAtPause(p) \/ OverBudget(p) \/ Resumes(p) \/ Completes(p) \/ Dies(p)
  PROVE  SegmentInv'
<1>1. UNCHANGED <<transport, ledgerVars, providerVars>> /\ UNCHANGED <<attempts, complete, delivery, case>>
  BY DEF RunStarts, StopsAtPause, OverBudget, Resumes, Completes, Dies, dispatchVars, groupVars, Alone
<1>2. DispatchInv' /\ Spares({}) /\ {} \subseteq Made
  BY <1>1, DispatchStays DEF SegmentInv
<1>3. CASE RunStarts(p)
  <2>1. PICK new : new = [at |-> "visit", position |-> 1]
    OBVIOUS
  <2>2. /\ new \in [at: Steps, position: Nat] /\ new.at = "visit" /\ new.position >= 1
        /\ new.at \notin Begun
    BY <2>1 DEF Steps, Begun
  <2>3. run' = [run EXCEPT ![p] = new]
    BY <1>3, <2>1 DEF RunStarts
  <2>. QED
    BY <1>1, <1>2, <2>2, <2>3, OneRunMoves
<1>4. CASE StopsAtPause(p) \/ OverBudget(p) \/ Completes(p) \/ Dies(p)
  <2>1. Leaves(p)
    BY <1>4 DEF StopsAtPause, OverBudget, Completes, Dies
  <2>. QED
    BY <1>1, <1>2, <2>1, RunLeaves
<1>5. CASE Resumes(p)
  <2>1. /\ run[p].at # "off" /\ run[p].position <= Len(case.plans[p]) /\ Tries(p) # <<>>
        /\ complete[p][Here(p)] = {} /\ Goes(p, "observe") /\ "observe" \in Begun
    BY <1>5 DEF Resumes, Incomplete, Visiting, NeedsAttempt, Begun
  <2>. QED
    BY <1>1, <1>2, <2>1, RunGoes
<1>. QED
  BY <1>3, <1>4, <1>5

\* The intent that was recorded is sent, found or left.
LEMMA SubmitKeeps ==
  ASSUME SegmentInv, NEW p \in Plans, Submit(p)
  PROVE  SegmentInv'
<1>1. PICK r : r = Latest(p).request
  OBVIOUS
<1>2. /\ run[p].at \in Begun /\ run[p].at # "off" /\ run[p].position <= Len(case.plans[p])
      /\ UNCHANGED <<attempts, complete, delivery, case>>
  BY DEF Submit, Visiting, Begun, Alone, groupVars
<1>3. Tries(p) # <<>> /\ complete[p][Here(p)] = {}
  BY <1>2 DEF SegmentInv, VisitHolds
<1>4. r \in Requests /\ {r} \subseteq Made /\ DispatchInv
  BY <1>1, <1>2, LatestIs DEF Made, SegmentInv
<1>5. CASE (SubmitSends(r) \/ SubmitKnown(r)) /\ Goes(p, "observe")
  <2>1. DispatchInv' /\ Spares({r})
    BY <1>4, <1>5, SendsKeep, OthersKeep
  <2>2. "observe" \in Begun
    BY DEF Begun
  <2>. QED
    BY <1>2, <1>3, <1>4, <1>5, <2>1, <2>2, RunGoes
<1>6. CASE SubmitStops(r) /\ Leaves(p)
  <2>1. DispatchInv' /\ Spares({r})
    BY <1>4, <1>6, StopsKeep
  <2>. QED
    BY <1>2, <1>4, <1>6, <2>1, RunLeaves
<1>. QED
  BY <1>1, <1>5, <1>6 DEF Submit

\* An end that is recorded is the end of the job.
LEMMA ObserveKeeps ==
  ASSUME SegmentInv, NEW p \in Plans, Observe(p)
  PROVE  SegmentInv'
<1>1. PICK r : r = Latest(p).request
  OBVIOUS
<1>2. /\ run[p].at \in Begun /\ UNCHANGED <<complete, delivery, case>>
  BY DEF Observe, Visiting, Begun, Alone
<1>3. r \in Requests /\ {r} \subseteq Made /\ DispatchInv /\ Latest(p) \in AttemptType
  BY <1>1, <1>2, LatestIs DEF Made, SegmentInv
<1>4. ASSUME StatusRaises(r) \/ Status(r), Leaves(p), attempts' = attempts PROVE SegmentInv'
  <2>1. DispatchInv' /\ Spares({r})
    BY <1>3, <1>4, StatusKeeps, OthersKeep
  <2>. QED
    BY <1>2, <1>3, <1>4, <2>1, RunLeaves
<1>5. ASSUME NEW provider, provider = ledger'[r].provider, Status(r), Settle(p, provider),
             \/ Leaves(p)
             \/ Goes(p, "accept")
      PROVE  SegmentInv'
  <2>1. DispatchInv' /\ Spares({r})
    BY <1>3, <1>5, StatusKeeps
  <2>2. PICK spent \in 0..Latest(p).seconds :
          attempts' = [attempts EXCEPT ![p][Here(p)][Len(Tries(p))] =
            [request |-> @.request,
             status |-> IF provider \in Retried THEN provider ELSE @.status,
             seconds |-> IF @.charged THEN @.seconds ELSE spent, charged |-> TRUE]]
    BY <1>5 DEF Settle
  <2>3. PICK a : a = [request |-> Latest(p).request,
                      status |-> IF provider \in Retried THEN provider ELSE Latest(p).status,
                      seconds |-> IF Latest(p).charged THEN Latest(p).seconds ELSE spent,
                      charged |-> TRUE]
    OBVIOUS
  <2>4. attempts' = [attempts EXCEPT ![p][Here(p)][Len(Tries(p))] = a]
    BY <2>2, <2>3 DEF Latest, Tries
  <2>5. /\ a \in AttemptType /\ a.request = r /\ a.seconds <= Latest(p).seconds
        /\ a.status \in {Latest(p).status} \cup Retried
        /\ a.status = IF provider \in Retried THEN provider ELSE Latest(p).status
    BY <1>1, <1>3, <2>3 DEF AttemptType, Retried
  <2>6. EntryIs(p, a)
    BY <1>2, <2>4, <2>5, EntryChanged
  <2>7. a.status \in Retried => job'[a.request] \in Stopped
    <3>1. CASE provider \in Retried
      <4>1. LedgerHolds(r)'
        BY <1>3, <2>1 DEF DispatchInv
      <4>. QED
        BY <1>5, <2>5, <3>1, <4>1 DEF LedgerHolds, Retried, Ended, Stopped
    <3>2. CASE Latest(p).status \in Retried
      <4>1. job[r] \in Stopped
        <5>1. /\ run[p].at # "off" /\ run[p].position <= Len(case.plans[p])
          BY <1>2 DEF SegmentInv, VisitHolds, Begun
        <5>2. AttemptsHold(p, Here(p)) /\ Len(Tries(p)) \in 1..Len(Tries(p))
          BY <1>2, <5>1, HereIs, LatestIs DEF SegmentInv
        <5>. QED
          BY <1>1, <3>2, <5>2 DEF AttemptsHold, Latest, Tries
      <4>. QED
        BY <1>3, <2>1, <2>5, <4>1 DEF Spares
    <3>. QED
      BY <2>5, <3>1, <3>2
  <2>8. PICK new : new = IF Leaves(p) THEN [at |-> "off", position |-> 0]
                                      ELSE [at |-> "accept", position |-> run[p].position]
    OBVIOUS
  <2>9. /\ run[p] \in [at: Steps, position: Nat]
        /\ [run[p] EXCEPT !.at = "accept"] = [at |-> "accept", position |-> run[p].position]
    BY DEF SegmentInv, SegmentTyped
  <2>10. new \in [at: Steps, position: Nat] /\ (new.at # "off" => new.position = run[p].position)
    BY <2>8, <2>9 DEF Steps
  <2>11. run' = [run EXCEPT ![p] = new]
    BY <1>5, <2>8, <2>9 DEF Leaves, Goes
  <2>12. case' = case /\ complete' = complete /\ delivery' = delivery
    BY <1>2
  <2>. QED
    BY <1>1, <1>2, <2>1, <2>5, <2>6, <2>7, <2>10, <2>11, <2>12, LastSettled
<1>. QED
  BY <1>1, <1>4, <1>5 DEF Observe

\* A result is accepted, or rejected after its job has ended.
LEMMA AcceptKeeps ==
  ASSUME SegmentInv, NEW p \in Plans, Accept(p)
  PROVE  SegmentInv'
<1>1. PICK r, s : r = Latest(p).request /\ s = Here(p)
  OBVIOUS
<1>2. /\ run[p].at \in Begun /\ run[p].at # "off" /\ run[p].position <= Len(case.plans[p])
      /\ UNCHANGED <<delivery, case>>
  BY DEF Accept, Visiting, Begun, Alone
<1>3. /\ r \in Requests /\ {r} \subseteq Made /\ DispatchInv /\ Latest(p) \in AttemptType
      /\ s \in Segments
  BY <1>1, <1>2, LatestIs, HereIs DEF Made, SegmentInv
<1>4. CASE FetchRaises(r) /\ Leaves(p) /\ UNCHANGED <<attempts, complete>>
  <2>1. DispatchInv' /\ Spares({r})
    BY <1>3, <1>4, OthersKeep
  <2>. QED
    BY <1>2, <1>3, <1>4, <2>1, RunLeaves
<1>5. CASE /\ FetchedAll({r}) /\ complete' = [complete EXCEPT ![p][Here(p)] = {r}]
           /\ Advances(p) /\ UNCHANGED attempts
  <2>1. DispatchInv' /\ Spares({})
    BY <1>3, <1>5, FetchedKeeps
  <2>2. complete' = [complete EXCEPT ![p][s] = {r}]
    BY <1>1, <1>5
  <2>3. /\ complete' \in [Plans -> [Segments -> SUBSET Requests]] /\ complete'[p][s] = {r}
        /\ \A q \in Plans, t \in Segments : ~(q = p /\ t = s) => complete'[q][t] = complete[q][t]
        /\ \A q \in Plans : q # p => complete'[q] = complete[q]
    BY <1>3, <2>2 DEF SegmentInv, SegmentTyped
  <2>4. Plans' = Plans /\ Segments' = Segments
    BY <1>2 DEF Plans, Segments
  <2>5. Made' = Made /\ Made \subseteq Requests
    BY <1>5, <2>4 DEF Made, Own
  <2>6. AttemptsHold(p, s)'
    <3>1. AttemptsHold(p, s)
      BY <1>3 DEF SegmentInv
    <3>. QED
      BY <1>3, <1>5, <2>1, <2>3, <2>5, <3>1 DEF AttemptsHold, Spares
  <2>7. Spent(p)' <= PlanSeconds
    <3>1. Charges(p)' = Charges(p)
      BY <1>5, <2>4 DEF Charges
    <3>2. Spent(p)' = Spent(p)
      BY <2>4, <3>1 DEF Spent
    <3>. QED
      BY <3>2 DEF SegmentInv
  <2>8. PICK new : new = [at |-> "visit", position |-> run[p].position + 1]
    OBVIOUS
  <2>9. /\ new \in [at: Steps, position: Nat] /\ new.at = "visit" /\ new.position >= 1
        /\ new.at \notin Begun /\ run' = [run EXCEPT ![p] = new]
    BY <1>5, <2>8 DEF Steps, Begun, Advances, SegmentInv, SegmentTyped
  <2>10. case' = case /\ \A q \in Plans \ {p} : attempts'[q] = attempts[q] /\ complete'[q] = complete[q]
    BY <1>2, <1>5, <2>3
  <2>11. run' \in [Plans -> [at: Steps, position: Nat]] /\ \A q \in Plans : VisitHolds(q)'
    BY <2>9, <2>10, RunMoves
  <2>12. /\ Made \subseteq Made' /\ allocation' \subseteq Made'
         /\ \A q \in Made' : deadline'[q] > 0
         /\ \A q \in Requests : job[q] \in Stopped => job'[q] = job[q]
    BY <2>1, <2>5 DEF Spares, SegmentInv
  <2>13. delivery' \in [Plans -> Nat] /\ attempts' \in [Plans -> [Segments -> Seq(AttemptType)]]
    BY <1>2, <1>5 DEF SegmentInv, SegmentTyped
  <2>14. \A q \in Plans, t \in Segments :
           ~(q = p /\ t = s) => attempts'[q][t] = attempts[q][t] /\ complete'[q][t] = complete[q][t]
    BY <1>5, <2>3
  <2>. QED
    BY <1>3, <2>1, <2>3, <2>6, <2>7, <2>10, <2>11, <2>12, <2>13, <2>14, GroupChanges
<1>6. CASE /\ FetchRejected(r)
           /\ attempts' = [attempts EXCEPT ![p][Here(p)][Len(Tries(p))].status = "failed"]
           /\ Leaves(p) /\ UNCHANGED complete
  <2>1. DispatchInv' /\ Spares({r}) /\ job[r] = "rejected" /\ job' = job
    BY <1>3, <1>6, OthersKeep DEF FetchRejected, Heard, dispatchVars, providerVars
  <2>2. PICK a : a = [Latest(p) EXCEPT !.status = "failed"]
    OBVIOUS
  <2>3. /\ a \in AttemptType /\ a.request = r /\ a.seconds = Latest(p).seconds
        /\ a.status = "failed" /\ Latest(p).seconds \in Nat
    BY <1>1, <1>3, <2>2 DEF AttemptType
  <2>4. attempts' = [attempts EXCEPT ![p][Here(p)][Len(Tries(p))] = a]
    BY <1>6, <2>2 DEF Latest, Tries
  <2>5. EntryIs(p, a)
    BY <1>2, <2>3, <2>4, EntryChanged
  <2>6. PICK new : new = [at |-> "off", position |-> 0]
    OBVIOUS
  <2>7. /\ new \in [at: Steps, position: Nat] /\ new.at = "off" /\ run' = [run EXCEPT ![p] = new]
    BY <1>6, <2>6 DEF Steps, Leaves
  <2>8. /\ a.status \in {Latest(p).status} \cup Retried /\ a.seconds <= Latest(p).seconds
        /\ a.status \in Retried => job'[a.request] \in Stopped
    BY <2>1, <2>3 DEF Retried, Stopped
  <2>9. case' = case /\ complete' = complete /\ delivery' = delivery
    BY <1>2, <1>6
  <2>. QED
    BY <1>1, <1>2, <2>1, <2>3, <2>5, <2>7, <2>8, <2>9, LastSettled
<1>. QED
  BY <1>1, <1>4, <1>5, <1>6 DEF Accept

\* Delivery collects the complete segments and charges its own time.
LEMMA AssembleKeeps ==
  ASSUME SegmentInv, NEW p \in Plans, Assemble(p)
  PROVE  SegmentInv'
<1>1. UNCHANGED <<attempts, complete, case, run>>
  BY DEF Assemble
<1>2. delivery' \in [Plans -> Nat]
  <2>1. PICK spent \in 0..Remaining(p) + 1 : delivery' = [delivery EXCEPT ![p] = @ + spent]
    BY DEF Assemble
  <2>2. spent \in Nat
    BY SpentTyped, PositiveLimits DEF Remaining, Consumed, SegmentInv, SegmentTyped
  <2>. QED
    BY <2>1, <2>2 DEF SegmentInv, SegmentTyped
<1>3. DispatchInv' /\ Spares({})
  <2>1. CASE UNCHANGED <<transport, ledgerVars, providerVars>>
    BY <2>1, DispatchStays DEF SegmentInv
  <2>2. CASE FetchedAll(UNION {complete[p][case.plans[p][i]] : i \in 1..Len(case.plans[p])})
    <3>1. PICK R : R = UNION {complete[p][case.plans[p][i]] : i \in 1..Len(case.plans[p])}
      OBVIOUS
    <3>2. \A i \in 1..Len(case.plans[p]) : case.plans[p][i] \in Segments
      BY DEF Segments
    <3>3. \A t \in Segments : complete[p][t] \subseteq Requests
      BY DEF SegmentInv, SegmentTyped
    <3>4. R \subseteq Requests
      BY <3>1, <3>2, <3>3
    <3>. QED
      BY <2>2, <3>1, <3>4, FetchedKeeps DEF SegmentInv
  <2>. QED
    BY <2>1, <2>2 DEF Assemble, dispatchVars
<1>4. \A q \in Plans : VisitHolds(q)'
  BY <1>1 DEF SegmentInv, VisitHolds, Tries, Here
<1>5. run' \in [Plans -> [at: Steps, position: Nat]] /\ {} \subseteq Made
  BY <1>1 DEF SegmentInv, SegmentTyped
<1>. QED
  BY <1>1, <1>2, <1>3, <1>4, <1>5, GroupStays

\* What operators and the provider do to a recorded request.
LEMMA RecordedMade ==
  ASSUME SegmentInv, NEW r \in Recorded
  PROVE  r \in Made /\ r \in Requests
<1>1. PICK p \in Plans, s \in Segments : \E i \in 1..Len(attempts[p][s]) : r = attempts[p][s][i].request
  BY DEF Recorded
<1>2. AttemptsHold(p, s)
  BY DEF SegmentInv
<1>. QED
  BY <1>1, <1>2 DEF AttemptsHold, Made

\* An operator's command or a step of the provider.
LEMMA OutsideKeeps ==
  ASSUME SegmentInv, NEW r \in Recorded,
         CancelCommand(r) \/ DispatchCommand(r) \/ Provider(r) \/ Activation(r)
  PROVE  SegmentInv'
<1>1. r \in Requests /\ {r} \subseteq Made /\ DispatchInv
  BY RecordedMade DEF SegmentInv
<1>2. UNCHANGED <<groupVars, case, run>>
  BY DEF CancelCommand, DispatchCommand, Provider, Activation
<1>3. ASSUME DispatchInv', Spares({r}) PROVE SegmentInv'
  BY <1>1, <1>2, <1>3, BesideRuns
<1>4. CASE FetchedAll({r})
  <2>1. DispatchInv' /\ Spares({})
    BY <1>1, <1>4, FetchedKeeps
  <2>. QED
    BY <1>3, <2>1 DEF Spares
<1>5. CASE Status(r)
  BY <1>1, <1>3, <1>5, StatusKeeps
<1>6. CASE Recover(r) \/ Cancel(r)
  BY <1>1, <1>3, <1>6, OthersKeep
<1>7. CASE SubmitSends(r)
  BY <1>1, <1>3, <1>7, SendsKeep
<1>8. CASE SubmitStops(r)
  BY <1>1, <1>3, <1>8, StopsKeep
<1>9. CASE JobArrives(r) \/ JobEnds(r) \/ Activate(r)
  BY <1>1, <1>3, <1>9, ProviderKeeps
<1>. QED
  BY <1>4, <1>5, <1>6, <1>7, <1>8, <1>9 DEF CancelCommand, DispatchCommand, Provider, Activation

\* The pause markers touch nothing else.
LEMMA MarkersKeep ==
  ASSUME SegmentInv, UNCHANGED <<transport, ledgerVars, providerVars>>, UNCHANGED <<groupVars, case, run>>
  PROVE  SegmentInv'
<1>1. DispatchInv' /\ Spares({}) /\ {} \subseteq Made
  BY DispatchStays DEF SegmentInv
<1>. QED
  BY <1>1, BesideRuns

\* The invariant holds initially and is kept by every step.
LEMMA SegmentInvInitially ==
  ASSUME SegmentInit
  PROVE  SegmentInv
<1>1. \A p \in Plans, s \in Segments : attempts[p][s] = <<>> /\ complete[p][s] = {}
  BY DEF SegmentInit
<1>2. Made = {} /\ allocation = {}
  BY <1>1 DEF Made, SegmentInit, DispatchInit
<1>3. SegmentTyped
  <2>1. [at |-> "off", position |-> 0] \in [at: Steps, position: Nat]
    BY DEF Steps
  <2>2. <<>> \in Seq(AttemptType)
    BY EmptySeq
  <2>. QED
    BY <2>1, <2>2 DEF SegmentTyped, SegmentInit
<1>4. DispatchInv
  <2>1. DispatchTyped
    BY DEF DispatchTyped, SegmentInit, DispatchInit
  <2>2. AllocationHolds
    BY <1>2, SumEmpty, PositiveLimits DEF AllocationHolds
  <2>3. \A r \in Requests : LedgerHolds(r)
    BY DEF LedgerHolds, SegmentInit, DispatchInit, Ended
  <2>. QED
    BY <2>1, <2>2, <2>3 DEF DispatchInv
<1>5. ASSUME NEW p \in Plans, NEW s \in Segments PROVE AttemptsHold(p, s)
  <2>1. Len(attempts[p][s]) = 0
    BY <1>1
  <2>. QED
    BY <1>1, <2>1, PositiveLimits DEF AttemptsHold
<1>6. ASSUME NEW p \in Plans PROVE VisitHolds(p) /\ Spent(p) <= PlanSeconds
  <2>1. run[p].at = "off"
    BY DEF SegmentInit
  <2>2. \A x \in Segments \X (1..MaxPerSegment) : Charges(p)[x] = 0
    <3>1. \A x \in Segments \X (1..MaxPerSegment) :
            x[1] \in Segments /\ x[2] \in Nat /\ x[2] >= 1 /\ Len(attempts[p][x[1]]) = 0
      BY <1>1, PositiveLimits
    <3>. QED
      BY <3>1 DEF Charges
  <2>3. Spent(p) = 0
    BY <1>3, <2>2, ChargesTyped, SumOfZeros DEF Spent
  <2>. QED
    BY <2>1, <2>3, PositiveLimits DEF VisitHolds, Begun
<1>. QED
  BY <1>2, <1>3, <1>4, <1>5, <1>6 DEF SegmentInv

LEMMA SegmentInvKept ==
  ASSUME SegmentInv, [SegmentNext]_segmentVars
  PROVE  SegmentInv'
<1>1. ASSUME NEW p \in Plans, RunStep(p) PROVE SegmentInv'
  BY <1>1, ReuseKeeps, RecheckKeeps, AttemptKeeps, IdleStepsKeep, SubmitKeeps, ObserveKeeps, AcceptKeeps
     DEF RunStep
<1>2. ASSUME NEW p \in Plans, Pause(p) \/ Resume(p) PROVE SegmentInv'
  BY <1>2, MarkersKeep DEF Pause, Resume, dispatchVars
<1>3. CASE UNCHANGED segmentVars
  BY <1>3, MarkersKeep DEF segmentVars, dispatchVars
<1>. QED
  BY <1>1, <1>2, <1>3, IdleStepsKeep, AssembleKeeps, OutsideKeeps DEF SegmentNext

\* An attempt that is not the first was made for a first one that was sent and has stopped.
LEMMA EarlierStopped ==
  ASSUME SegmentInv, NEW p \in Plans, NEW s \in Segments, NEW i \in 1..Len(attempts[p][s]),
         attempts[p][s][i].status # "reused_render", NEW j \in 1..Len(attempts[p][s]), j < i
  PROVE  job[Own(p, s, j)] \in Stopped /\ Own(p, s, j) \in Made
<1>1. AttemptsHold(p, s)
  BY DEF SegmentInv
<1>2. Len(attempts[p][s]) \in Nat
  BY LenProperties DEF SegmentInv, SegmentTyped
<1>3. j < Len(attempts[p][s]) /\ Len(attempts[p][s]) # 1
  BY <1>2
<1>4. attempts[p][s][j].status \in Retried /\ attempts[p][s][j].status # "reused_render"
  BY <1>1, <1>3 DEF AttemptsHold
<1>. QED
  BY <1>1, <1>4 DEF AttemptsHold

\* Two live jobs of a work are one.
LEMMA LiveJobsAgree ==
  ASSUME SegmentInv, NEW r \in Requests, NEW q \in Requests, WorkOf[r] = WorkOf[q],
         job[r] \in {"pending", "coming", "running"}, job[q] \in {"pending", "coming", "running"}
  PROVE  r = q
<1> DEFINE IsOwn(m, p, s, i) ==
      /\ p \in Plans /\ s \in Segments /\ i \in 1..Len(attempts[p][s])
      /\ attempts[p][s][i].status # "reused_render" /\ m = Own(p, s, i)
<1>1. \A m \in Requests : job[m] # "none" => m \in allocation
  BY DEF SegmentInv, DispatchInv, LedgerHolds
<1>2. \A m, l \in allocation : ClaimOf[m] = ClaimOf[l] => m = l
  BY DEF SegmentInv, DispatchInv, AllocationHolds
<1>3. r \in allocation /\ q \in allocation /\ allocation \subseteq Made
  BY <1>1 DEF SegmentInv
<1>4. PICK p1, s1, i1 : IsOwn(r, p1, s1, i1)
  BY <1>3 DEF Made
<1>5. PICK p2, s2, i2 : IsOwn(q, p2, s2, i2)
  BY <1>3 DEF Made
<1>6. /\ Len(attempts[p1][s1]) \in Nat /\ Len(attempts[p2][s2]) \in Nat
      /\ i1 \in Nat /\ i1 >= 1 /\ i2 \in Nat /\ i2 >= 1
  BY <1>4, <1>5, LenProperties DEF SegmentInv, SegmentTyped
<1>7. ASSUME NEW m \in Requests, NEW p, NEW s, NEW i, IsOwn(m, p, s, i), i \in Nat, i >= 1,
             m \in allocation, Len(attempts[p][s]) \in Nat
      PROVE  /\ Own(p, s, 1) \in allocation /\ Own(p, s, 1) \in Requests
             /\ WorkOf[Own(p, s, 1)] = WorkOf[m] /\ Own(p, s, 1).attempt = 1
  <2>1. Own(p, s, 1) \in allocation
    <3>1. CASE i = 1
      BY <1>7, <3>1
    <3>2. CASE i # 1
      <4>1. job[Own(p, s, 1)] \in Stopped /\ Own(p, s, 1) \in Made
        <5>1. 1 \in 1..Len(attempts[p][s]) /\ 1 < i
          BY <1>7, <3>2
        <5>. QED
          BY <1>7, <5>1, EarlierStopped
      <4>. QED
        BY <1>1, <4>1 DEF Stopped, Ended, Made
    <3>. QED
      BY <3>1, <3>2
  <2>2. Own(p, s, 1) \in Requests
    BY <2>1 DEF SegmentInv, DispatchInv, DispatchTyped
  <2>3. /\ Own(p, s, 1).plan = m.plan /\ Own(p, s, 1).segment = m.segment
        /\ Own(p, s, 1).attempt = 1
    BY <1>7 DEF Own
  <2>4. WorkOf[Own(p, s, 1)] = WorkOf[m]
    BY <2>2, <2>3, SegmentAssumption
  <2>. QED
    BY <2>1, <2>2, <2>3, <2>4
<1>8. /\ Own(p1, s1, 1) \in allocation /\ Own(p1, s1, 1) \in Requests
      /\ WorkOf[Own(p1, s1, 1)] = WorkOf[r] /\ Own(p1, s1, 1).attempt = 1
  BY <1>3, <1>4, <1>6, <1>7
<1>9. /\ Own(p2, s2, 1) \in allocation /\ Own(p2, s2, 1) \in Requests
      /\ WorkOf[Own(p2, s2, 1)] = WorkOf[q] /\ Own(p2, s2, 1).attempt = 1
  BY <1>3, <1>5, <1>6, <1>7
<1>10. ClaimOf[Own(p1, s1, 1)] = ClaimOf[Own(p2, s2, 1)]
  BY <1>8, <1>9, SegmentAssumption
<1>11. p1 = p2 /\ s1 = s2
  <2>1. Own(p1, s1, 1) = Own(p2, s2, 1)
    BY <1>2, <1>8, <1>9, <1>10
  <2>. QED
    BY <2>1 DEF Own
<1>12. ~(i1 < i2) /\ ~(i2 < i1)
  <2>1. CASE i1 < i2
    <3>1. job[Own(p2, s2, i1)] \in Stopped
      BY <1>4, <1>5, <1>11, <2>1, EarlierStopped
    <3>. QED
      BY <1>4, <1>11, <3>1 DEF Stopped, Ended
  <2>2. CASE i2 < i1
    <3>1. job[Own(p1, s1, i2)] \in Stopped
      BY <1>4, <1>5, <1>11, <2>2, EarlierStopped
    <3>. QED
      BY <1>5, <1>11, <3>1 DEF Stopped, Ended
  <2>. QED
    BY <2>1, <2>2
<1>13. i1 = i2
  BY <1>6, <1>12
<1>. QED
  BY <1>4, <1>5, <1>11, <1>13

\* The provider works on one attempt of a segment at a time and gets a request at
\* most once, whatever dies, whatever is lost and whoever cancels, also for two
\* plans that share the segment (OneLiveJob).
THEOREM SegmentsLiveOnce == SegmentSpec => []OneLiveJob
<1>1. SegmentInv => OneLiveJob
  <2>1. ASSUME SegmentInv, NEW r \in Requests PROVE sends[r] <= 1
    BY <2>1 DEF SegmentInv, DispatchInv, LedgerHolds
  <2>. QED
    BY <2>1, LiveJobsAgree DEF OneLiveJob
<1>. QED
  BY <1>1, SegmentInvInitially, SegmentInvKept, PTL DEF SegmentSpec

\* What was sent is a recorded attempt of its plan with its deadline in the
\* allocation, and neither the allocation nor what the renders of a plan are
\* charged exceeds its limit (SpendIsRecorded).
THEOREM SegmentsAreCharged == SegmentSpec => []SpendIsRecorded
<1>1. SegmentInv => SpendIsRecorded
  <2> SUFFICES ASSUME SegmentInv PROVE SpendIsRecorded
    OBVIOUS
  <2>1. ASSUME NEW r \in Requests, job[r] # "none"
        PROVE  r \in Recorded /\ r \in allocation /\ deadline[r] > 0
    <3>1. r \in allocation /\ r \in Made /\ deadline[r] > 0
      BY <2>1 DEF SegmentInv, DispatchInv, LedgerHolds
    <3>2. PICK p \in Plans, s \in Segments : \E i \in 1..Len(attempts[p][s]) :
            attempts[p][s][i].status # "reused_render" /\ r = Own(p, s, i)
      BY <3>1 DEF Made
    <3>3. PICK i \in 1..Len(attempts[p][s]) :
            attempts[p][s][i].status # "reused_render" /\ r = Own(p, s, i)
      BY <3>2
    <3>4. attempts[p][s][i].request = r
      BY <3>3 DEF SegmentInv, AttemptsHold
    <3>5. r \in UNION {{attempts[p][t][k].request : k \in 1..Len(attempts[p][t])} : t \in Segments}
      BY <3>3, <3>4
    <3>6. r \in Recorded
      BY <3>5 DEF Recorded
    <3>. QED
      BY <3>1, <3>6
  <2>2. SumOver(deadline, allocation) <= MaxSeconds /\ \A p \in Plans : Spent(p) <= PlanSeconds
    BY DEF SegmentInv, DispatchInv, AllocationHolds
  <2>. QED
    BY <2>1, <2>2 DEF SpendIsRecorded
<1>. QED
  BY <1>1, SegmentInvInitially, SegmentInvKept, PTL DEF SegmentSpec
=============================================================================
