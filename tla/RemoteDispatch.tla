--------------------------- MODULE RemoteDispatch ---------------------------
(***************************************************************************)
(* The durable dispatch of remote requests, remote/v2_dispatch.py, under    *)
(* the operator's allocation, remote/budget.py.  A call of submit or        *)
(* update holds the lock .v2-submit from its first read to its last write,  *)
(* so a call is one step; it may be cut short between two of its writes,    *)
(* and the provider goes on by itself.                                      *)
(*                                                                         *)
(* Three kinds of transport differ in what they can tell: "plain" (local,   *)
(* ssh) never finds a lost submission but reads the job's status by the     *)
(* request's name; "native" (native ssh, command, a private notebook of     *)
(* its own) finds it; "saved" (one saved notebook for all requests) needs   *)
(* the recorded identity, knows its newest version only, refuses a cancel   *)
(* and may wait for an operator to start the job.                           *)
(***************************************************************************)
EXTENDS Sums, Sequences, FiniteSets, FiniteSetsExt

CONSTANTS
  Requests,        \* sealed requests
  WorkOf,          \* the job and segment a request is for
  ClaimOf,         \* its work and attempt number
  MaxSubmissions, MaxSeconds    \* limits of the allocation

Transports == {"plain", "native", "saved"}

VARIABLES
  transport,       \* of the operator's profile
  deadline,        \* seconds sealed in a request; 0 before it is prepared
  ledger,          \* ledger.json of a request: status, known remote, provider
  allocation,      \* requests reserved in the allocation file
  accepted, recovered,   \* results published under these names
  job,             \* the provider's job
  sends,           \* how often the provider received the request
  slot,            \* the request of the saved notebook's newest version
  faults           \* bound: cut calls, lost replies and silent answers to come

ledgerVars == <<deadline, ledger, allocation, accepted, recovered>>
providerVars == <<job, sends, slot>>
dispatchVars == <<transport, ledgerVars, providerVars, faults>>

Unresolved == {"submission_unknown", "awaiting_activation"}
Ended == {"failed", "cancelled"}
Absent == {"none", "coming", "pending"}

LedgerType ==
  [status: {"none", "torn", "prepared", "submitted", "running", "unknown",
            "remote_completed", "remote_failed", "remote_cancelled",
            "cancel_requested", "cancel_unsupported", "recovery_review_required",
            "verified", "recovered_verified"} \cup Unresolved,
   known: BOOLEAN, provider: {"unknown", "running", "completed"} \cup Ended]

DispatchInit ==
  /\ deadline = [r \in Requests |-> 0]
  /\ ledger = [r \in Requests |-> [status |-> "none", known |-> FALSE, provider |-> "unknown"]]
  /\ allocation = {} /\ accepted = {} /\ recovered = {}
  /\ job = [r \in Requests |-> "none"] /\ sends = [r \in Requests |-> 0] /\ slot = {}

Fault == faults > 0 /\ faults' = faults - 1

----------------------------------------------------------------------------
(* submit.                                                                 *)

\* A changed attempt waits for an unresolved submission of the same work.
Blocked(r) ==
  \E q \in Requests \ {r} : WorkOf[q] = WorkOf[r] /\ ledger[q].status \in Unresolved

OpenableAgain(r) ==
  \/ ledger[r].status = "none" /\ ~Blocked(r)
  \/ ledger[r].status \in {"prepared", "submission_unknown"}

Openable(r) ==
  \/ ledger[r].status = "none" /\ ~Blocked(r)
  \/ ledger[r].status = "prepared"

\* adapter.prepare refuses a notebook whose newest version still runs.
SlotBusy == transport = "saved" /\ \E q \in slot : job[q] = "running"

\* budget.reserve: one request per claim, and the whole deadline of each.
AllocatesByCount(r) ==
  /\ ~\E q \in allocation : q # r /\ ClaimOf[q] = ClaimOf[r]
  /\ r \in allocation \/ Cardinality(allocation) < MaxSubmissions

Allocates(r) ==
  /\ ~\E q \in allocation : q # r /\ ClaimOf[q] = ClaimOf[r]
  /\ \/ r \in allocation
     \/ /\ Cardinality(allocation) < MaxSubmissions
        /\ SumOver(deadline, allocation) + deadline[r] <= MaxSeconds

Marked(r, status) == ledger' = [ledger EXCEPT ![r].status = status]

Received(r, at) ==
  /\ job' = [job EXCEPT ![r] = at]
  /\ sends' = [sends EXCEPT ![r] = @ + 1]
  /\ slot' = IF transport = "saved" /\ at = "running" THEN {r} ELSE slot

\* The call raises before the provider is asked.
SubmitStops(r) ==
  /\ \/ /\ ledger[r].status = "torn" \/ (ledger[r].status = "none" /\ Blocked(r))
        /\ UNCHANGED <<ledger, allocation, faults>>
     \/ /\ Openable(r) /\ Marked(r, "prepared")
        /\ \/ SlotBusy \/ ~Allocates(r) \/ ledger[r].status = "prepared"
           \/ faults > 0
        /\ faults' = IF SlotBusy \/ ~Allocates(r) \/ ledger[r].status = "prepared"
                     THEN faults ELSE faults - 1
        /\ UNCHANGED allocation
     \/ /\ ledger[r].status = "none" /\ ~Blocked(r) /\ Marked(r, "torn")
        /\ Fault /\ UNCHANGED allocation
     \/ /\ Openable(r) /\ ~SlotBusy /\ Allocates(r) /\ Marked(r, "prepared")
        /\ allocation' = allocation \cup {r} /\ Fault
  /\ UNCHANGED <<transport, deadline, accepted, recovered, providerVars>>

\* The reservation and the unknown submission are on disk before the call.
SubmitSends(r) ==
  /\ Openable(r) /\ ~SlotBusy /\ Allocates(r)
  /\ allocation' = allocation \cup {r}
  /\ \/ /\ ledger' = [ledger EXCEPT ![r].status = "submitted", ![r].known = TRUE]
        /\ Received(r, "running") /\ UNCHANGED faults
     \/ /\ Marked(r, "submission_unknown") /\ Fault
        /\ Received(r, "running") \/ Received(r, "coming") \/ UNCHANGED providerVars
     \/ /\ transport = "saved" /\ Marked(r, "awaiting_activation")
        /\ job' = [job EXCEPT ![r] = "pending"] /\ UNCHANGED <<sends, slot, faults>>
  /\ UNCHANGED <<transport, deadline, accepted, recovered>>

\* A request that got further is left alone.
SubmitKnown(r) ==
  ledger[r].status \notin {"none", "torn", "prepared"} /\ UNCHANGED dispatchVars

----------------------------------------------------------------------------
(* update.                                                                 *)

FoundUnknownOnly(r) ==
  /\ ledger[r].status = "submission_unknown"
  /\ transport # "plain" /\ job[r] \notin Absent
  /\ transport = "saved" => r \in slot

Found(r) ==
  /\ ledger[r].status \in Unresolved
  /\ transport # "plain" /\ job[r] \notin Absent
  /\ transport = "saved" => r \in slot

Reconciled(r) ==
  IF Found(r) THEN [ledger[r] EXCEPT !.status = "submitted", !.known = TRUE] ELSE ledger[r]

\* What the adapter says of a job; a native host calls an absent one queued.
Truth(r) ==
  IF transport = "saved" /\ r \notin slot THEN {"unknown"}
  ELSE CASE job[r] \in Absent -> IF transport = "native" THEN {"unknown", "running"} ELSE {"unknown"}
         [] job[r] \in {"passed", "rejected"} -> {"completed"}
         [] OTHER -> {job[r]}

Askable(r) ==
  /\ ledger[r].status \notin {"none", "torn"}
  /\ transport = "saved" => Reconciled(r).known

Answers(r, answer) ==
  \/ answer \in Truth(r) /\ UNCHANGED faults
  \/ answer = "unknown" /\ Fault

\* A newer version of the saved notebook says nothing about an older result.
Kept(r) == transport = "saved" /\ ledger[r].status \in {"verified", "recovered_verified"}

Told(entry, answer) ==
  [entry EXCEPT !.provider = answer,
     !.status = IF answer = "failed" THEN "remote_failed"
                ELSE IF answer = "cancelled" THEN "remote_cancelled"
                ELSE IF answer = "completed" /\ @ # "verified" THEN "remote_completed"
                ELSE IF @ \in {"verified", "recovered_verified", "submission_unknown"} THEN @
                ELSE answer]

Waits(r) == ledger[r].status = "awaiting_activation" /\ ~Found(r)

Status(r) ==
  /\ \/ /\ Kept(r) \/ Waits(r)
        /\ UNCHANGED <<ledger, faults>>
     \/ /\ ~Kept(r) /\ ~Waits(r) /\ Askable(r)
        /\ \E answer \in {"unknown", "running", "completed"} \cup Ended :
             /\ Answers(r, answer)
             /\ ledger' = [ledger EXCEPT ![r] = Told(Reconciled(r), answer)]
  /\ UNCHANGED <<transport, deadline, allocation, accepted, recovered, providerVars>>

StatusRaises(r) ==
  /\ \/ ~Kept(r) /\ ~Waits(r) /\ ~Askable(r) /\ UNCHANGED faults
     \/ Fault
  /\ UNCHANGED <<transport, ledgerVars, providerVars>>

\* fetch hears how the job ended; an unresolved submission must be found.
Heard(r, ends) ==
  /\ ~Kept(r) /\ Askable(r) /\ (ledger[r].status \in Unresolved => Found(r))
  /\ Truth(r) # {"unknown"} /\ job[r] \in ends

\* A result can be collected: it is complete, and it passes every check.
Collectable(r) == Heard(r, {"passed"}) \/ (Kept(r) /\ r \in accepted)

FetchedAll(R) ==
  /\ \A r \in R : Collectable(r)
  /\ accepted' = accepted \cup R
  /\ ledger' = [r \in Requests |->
       IF r \in R THEN [Reconciled(r) EXCEPT !.status = "verified", !.provider = "completed"]
       ELSE ledger[r]]
  /\ UNCHANGED <<transport, deadline, allocation, recovered, providerVars, faults>>

\* The worker's outputs do not pass the parent's checks.
FetchRejected(r) ==
  Heard(r, {"rejected"}) /\ UNCHANGED dispatchVars

FetchRaises(r) ==
  /\ \/ /\ ~Collectable(r) /\ ~Heard(r, {"rejected"} \cup Ended)
        /\ UNCHANGED <<ledger, accepted, faults>>
     \/ Fault /\ UNCHANGED <<ledger, accepted>>
     \/ Collectable(r) /\ Fault /\ accepted' = accepted \cup {r} /\ UNCHANGED ledger
     \/ /\ Heard(r, Ended)
        /\ ledger' = [ledger EXCEPT ![r] =
             [Reconciled(r) EXCEPT !.status = "recovery_review_required", !.provider = job[r]]]
        /\ UNCHANGED <<accepted, faults>>
  /\ UNCHANGED <<transport, deadline, allocation, recovered, providerVars>>

\* fetch --recover: complete evidence of a job that did not end as completed.
Recover(r) ==
  /\ Heard(r, Ended)
  /\ recovered' = recovered \cup {r}
  /\ ledger' = [ledger EXCEPT ![r] =
       [Reconciled(r) EXCEPT !.status = "recovered_verified", !.provider = job[r]]]
  /\ UNCHANGED <<transport, deadline, allocation, accepted, providerVars, faults>>

Cancel(r) ==
  /\ ledger[r].status \notin {"none", "torn"}
  /\ \/ transport # "saved" /\ Marked(r, "cancel_requested")
     \/ transport # "plain" /\ Marked(r, "cancel_unsupported")
  /\ UNCHANGED <<transport, deadline, allocation, accepted, recovered, providerVars, faults>>

----------------------------------------------------------------------------
(* The provider, which nothing in the repository schedules.                *)

JobArrives(r) ==
  /\ job[r] = "coming"
  /\ job' = [job EXCEPT ![r] = "running"]
  /\ slot' = IF transport = "saved" THEN {r} ELSE slot
  /\ UNCHANGED <<transport, ledgerVars, sends, faults>>

Activate(r) ==
  /\ job[r] = "pending" /\ ~SlotBusy
  /\ Received(r, "running")
  /\ UNCHANGED <<transport, ledgerVars, faults>>

JobEnds(r) ==
  /\ job[r] = "running"
  /\ \E end \in {"passed", "rejected"} \cup Ended : job' = [job EXCEPT ![r] = end]
  /\ UNCHANGED <<transport, ledgerVars, sends, slot, faults>>
=============================================================================
