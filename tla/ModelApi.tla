------------------------------ MODULE ModelApi ------------------------------
(***************************************************************************)
(* Requests to a hosted model, remote/model_api.py, and the gate that       *)
(* closes a connection after a failure, remote/onboarding.py.  A run holds  *)
(* the connection's lock and its request's; the other commands hold only    *)
(* the request's.  A command may be killed between any two steps.           *)
(***************************************************************************)
EXTENDS Integers, FiniteSets

CONSTANTS
  ApiRequests,      \* request ids, all under one profile and binding
  MaxApiDeaths,     \* bound: killed commands
  MaxRechecks       \* bound: runs that reopen a paused connection

VARIABLES
  api,             \* the profile and the requests used, fixed at the start
  apiLedger,       \* ledger.json of each request
  published,       \* requests with an "accepted" folder
  connection,      \* status of the connection's state file
  caller,          \* where the command that holds the request's lock stands
  posts,           \* submissions the provider received
  apiJob,          \* what the provider does with the request
  apiDeaths, rechecks

apiVars == <<api, apiLedger, published, connection, caller, posts, apiJob, apiDeaths, rechecks>>

Shut == {"paused", "checking"}

NoCall == [at |-> "off", by |-> "none", leaves |-> "ready"]

ApiInit ==
  /\ apiLedger = [r \in ApiRequests |-> [is |-> "none", status |-> "none", job |-> FALSE]]
  /\ published = {} /\ connection = "configured"
  /\ caller = [r \in ApiRequests |-> NoCall]
  /\ posts = [r \in ApiRequests |-> 0] /\ apiJob = [r \in ApiRequests |-> "none"]
  /\ apiDeaths = 0 /\ rechecks = 0

StatusOf(r) == apiLedger[r].status
Keeps(r, status) == apiLedger' = [apiLedger EXCEPT ![r].status = status]
Calls(r, step) == caller' = [caller EXCEPT ![r].at = step]

\* The command ends, a run still has the connection's state to write.
Quits(r, status) ==
  caller' = [caller EXCEPT ![r] =
    IF @.by = "run" THEN [@ EXCEPT !.at = "settle", !.leaves = status] ELSE NoCall]

At(r, step) == caller[r].at = step

----------------------------------------------------------------------------
(* connection_attempt and the start of a command.                          *)

Refuses(status) == status \in Shut

Connect(r) ==
  /\ \A q \in ApiRequests : caller[q].by # "run"
  /\ At(r, "off")
  /\ \/ ~Refuses(connection) /\ UNCHANGED rechecks
     \/ Refuses(connection) /\ rechecks < MaxRechecks /\ rechecks' = rechecks + 1
  /\ connection' = "checking"
  /\ caller' = [caller EXCEPT ![r] = [NoCall EXCEPT !.at = "open", !.by = "run"]]
  /\ UNCHANGED <<apiLedger, published, posts, apiJob>>

\* status and fetch
ObserveApi(r) ==
  /\ At(r, "off") /\ apiLedger[r].is = "kept"
  /\ caller' = [caller EXCEPT ![r] = [NoCall EXCEPT !.at = "open", !.by = "status"]]
  /\ UNCHANGED <<apiLedger, published, connection, posts, apiJob, rechecks>>

MakeApiIntent(r) ==
  /\ \/ /\ At(r, "open") /\ apiLedger[r].is = "none"
        /\ apiLedger' = [apiLedger EXCEPT ![r].is = "torn"] /\ Calls(r, "write")
     \/ /\ At(r, "open") /\ apiLedger[r].is = "torn"
        /\ Quits(r, "paused") /\ UNCHANGED apiLedger
     \/ /\ At(r, "write")
        /\ apiLedger' = [apiLedger EXCEPT ![r].is = "kept", ![r].status = "prepared"]
        /\ Calls(r, "open")
  /\ UNCHANGED <<published, connection, posts, apiJob, rechecks>>

\* A published result completes the ledger of a command that was killed.
RecoverApi(r) ==
  /\ At(r, "open") /\ r \in published
  /\ Keeps(r, "completed") /\ Quits(r, "ready")
  /\ UNCHANGED <<published, connection, posts, apiJob, rechecks>>

Standing(r) == At(r, "open") /\ apiLedger[r].is = "kept" /\ r \notin published

ReturnsAtOnce(status) == status \in {"submission_unknown", "failed", "cancelled"}

ReturnApi(r) ==
  /\ Standing(r)
  /\ \/ ReturnsAtOnce(StatusOf(r))
     \/ StatusOf(r) = "prepared" /\ caller[r].by # "run"
  /\ Quits(r, IF StatusOf(r) = "submission_unknown" THEN "paused" ELSE "ready")
  /\ UNCHANGED <<apiLedger, published, connection, posts, apiJob, rechecks>>

\* Without a credential the request stays prepared; the doubt is durable
\* before the POST.
DoubtsAfterwards(r) == UNCHANGED apiLedger
Doubts(r) == Keeps(r, "submission_unknown")

BeginPost(r) ==
  /\ Standing(r) /\ StatusOf(r) = "prepared" /\ caller[r].by = "run"
  /\ \/ Quits(r, "paused") /\ UNCHANGED apiLedger
     \/ api.extended /\ Quits(r, "paused") /\ Keeps(r, "failed")
     \/ Calls(r, "post") /\ Doubts(r)
  /\ UNCHANGED <<published, connection, posts, apiJob, rechecks>>

GoPoll(r) ==
  /\ Standing(r) /\ StatusOf(r) \notin {"submission_unknown", "failed", "cancelled", "prepared"}
  /\ Calls(r, "poll")
  /\ UNCHANGED <<apiLedger, published, connection, posts, apiJob, rechecks>>

----------------------------------------------------------------------------
(* The POST, polling, fetching and publication.                            *)

Reaches(r) ==
  /\ posts' = [posts EXCEPT ![r] = @ + 1]
  /\ apiJob' = [apiJob EXCEPT ![r] = IF api.async THEN "running" ELSE "completed"]

\* Every failure here, a result that is no use included, leaves the doubt.
PostApi(r) ==
  /\ At(r, "post")
  /\ \/ /\ Reaches(r)
        /\ IF api.async
           THEN /\ apiLedger' = [apiLedger EXCEPT ![r].status = "submitted", ![r].job = TRUE]
                /\ Calls(r, "poll")
           ELSE Calls(r, "publish") /\ UNCHANGED apiLedger
     \/ /\ Reaches(r) \/ UNCHANGED <<posts, apiJob>>
        /\ Quits(r, "paused") /\ UNCHANGED apiLedger
  /\ UNCHANGED <<published, connection, rechecks>>

\* A lost or refused observation: credentials, and on extended profiles the
\* network and the deadline, leave a job that is known as it is.
FailsObserving(r) ==
  /\ \/ apiLedger[r].job /\ UNCHANGED apiLedger
     \/ Keeps(r, "failed")
  /\ Quits(r, "paused")

PollApi(r) ==
  /\ At(r, "poll")
  /\ \/ FailsObserving(r)
     \/ /\ apiLedger[r].job \/ api.byRequest
        /\ apiJob[r] = "running" /\ Keeps(r, "running")
        /\ Calls(r, "poll") \/ Quits(r, "ready")
     \/ /\ apiLedger[r].job \/ api.byRequest
        /\ apiJob[r] \in {"failed", "cancelled"}
        /\ Keeps(r, IF api.extended THEN apiJob[r] ELSE "failed") /\ Quits(r, "paused")
     \/ /\ apiLedger[r].job \/ api.byRequest
        /\ apiJob[r] = "completed" /\ Keeps(r, "remote_completed") /\ Calls(r, "fetch")
  /\ UNCHANGED <<published, connection, posts, apiJob, rechecks>>

FetchApi(r) ==
  /\ At(r, "fetch")
  /\ \/ FailsObserving(r)
     \/ Calls(r, "publish") /\ UNCHANGED apiLedger
  /\ UNCHANGED <<published, connection, posts, apiJob, rechecks>>

PublishApi(r) ==
  /\ At(r, "publish") /\ published' = published \cup {r} /\ Calls(r, "complete")
  /\ UNCHANGED <<apiLedger, connection, posts, apiJob, rechecks>>

CompleteApi(r) ==
  /\ At(r, "complete") /\ Keeps(r, "completed") /\ Quits(r, "ready")
  /\ UNCHANGED <<published, connection, posts, apiJob, rechecks>>

\* What the run leaves behind is written after its ledger.
SettleConnection(r) ==
  /\ At(r, "settle") /\ connection' = caller[r].leaves
  /\ caller' = [caller EXCEPT ![r] = NoCall]
  /\ UNCHANGED <<apiLedger, published, posts, apiJob, rechecks>>

----------------------------------------------------------------------------
(* cancel and reconcile; neither looks at how far the request is, except   *)
(* that extended profiles leave an ended one alone.                        *)

Addressable(r) ==
  /\ At(r, "off") /\ apiLedger[r].is = "kept" /\ r \notin published
  /\ api.extended => StatusOf(r) \notin {"failed", "cancelled"}

CancelApi(r) ==
  /\ "cancel" \in api.routes /\ Addressable(r) /\ (apiLedger[r].job \/ api.byRequest)
  /\ \/ UNCHANGED apiJob
     \/ apiJob[r] = "running" /\ apiJob' = [apiJob EXCEPT ![r] = "cancelled"]
  /\ Keeps(r, "cancel_requested") \/ UNCHANGED apiLedger
  /\ UNCHANGED <<published, connection, caller, posts, rechecks>>

\* The provider knows the request by its id; the command goes on to poll.
ReconcileApi(r) ==
  /\ "reconcile" \in api.routes /\ Addressable(r) /\ posts[r] > 0
  /\ apiLedger' = [apiLedger EXCEPT ![r].status = "submitted", ![r].job = TRUE]
  /\ caller' = [caller EXCEPT ![r] = [NoCall EXCEPT !.at = "poll", !.by = "status"]]
  /\ UNCHANGED <<published, connection, posts, apiJob, rechecks>>

ApiJobEnds(r) ==
  /\ apiJob[r] = "running"
  /\ \E how \in {"completed", "failed"} : apiJob' = [apiJob EXCEPT ![r] = how]
  /\ UNCHANGED <<apiLedger, published, connection, caller, posts, rechecks>>

CallerDies(r) ==
  /\ ~At(r, "off") /\ apiDeaths < MaxApiDeaths /\ apiDeaths' = apiDeaths + 1
  /\ caller' = [caller EXCEPT ![r] = NoCall]
  /\ UNCHANGED <<apiLedger, published, connection, posts, apiJob, rechecks>>

ApiCommand(r) ==
  \/ Connect(r) \/ ObserveApi(r) \/ MakeApiIntent(r) \/ RecoverApi(r) \/ ReturnApi(r)
  \/ BeginPost(r) \/ GoPoll(r) \/ PostApi(r) \/ PollApi(r) \/ FetchApi(r) \/ PublishApi(r)
  \/ CompleteApi(r) \/ SettleConnection(r) \/ CancelApi(r) \/ ReconcileApi(r)

ApiNext ==
  /\ UNCHANGED api
  /\ \E r \in api.requests :
       \/ (ApiCommand(r) \/ ApiJobEnds(r)) /\ UNCHANGED apiDeaths
       \/ CallerDies(r)

ApiSpec == api.requests \subseteq ApiRequests /\ ApiInit /\ [][ApiNext]_apiVars

----------------------------------------------------------------------------
(* Properties.                                                             *)

\* The provider receives a request id at most once, however replies get lost,
\* commands are killed, connections reopened, and requests cancelled, observed
\* and reconciled in between (model_api.py "_run_api").
PostedOnce == \A r \in ApiRequests : posts[r] <= 1

\* After a submission whose outcome is not known, also one whose command was
\* killed, nothing more is sent on the connection until an operator rechecks
\* it, while other requests' commands go on (model_api.py "run_api",
\* onboarding.py "connection_attempt").
DoubtClosesConnection ==
  rechecks = 0 =>
    \A r \in ApiRequests :
      StatusOf(r) = "submission_unknown" =>
        /\ connection \in Shut
        /\ \A q \in ApiRequests \ {r} : caller[q].by # "run"

\* A submission in doubt is neither repeated nor followed by others.
DoubtIsKept == PostedOnce /\ DoubtClosesConnection
=============================================================================
