--------------------------- MODULE MCResourcePool ---------------------------
(* A worker with two devices and some of four requests for TLC.            *)
EXTENDS ResourcePool, TLC

CONSTANTS a, b, c, w, big, small, svc, aux, m1, m2

Asks(id, model, resident, workspace, mode, eligible, lease) ==
  [resident_id |-> id, model |-> model, resident_mb |-> resident, workspace_mb |-> workspace,
   mode |-> mode, eligible |-> eligible, lease_seconds |-> lease]

\* a and b share a service, and fit on big together unless c left its own service there;
\* c wants a device for itself; w names the same service with another model and asks for
\* all of big, which other processes use too.
TicketOf ==
  Restrict(
  a :> Asks(svc, m1, 2, 1, "shared", {big}, 1)
    @@ b :> Asks(svc, m1, 2, 2, "shared", {small, big}, 1)
    @@ c :> Asks(aux, m2, 1, 1, "exclusive", {big, small}, 1)
    @@ w :> Asks(svc, m2, 5, 1, "exclusive", {big}, 1),
  TicketIds)

Preferred == <<small, big>>
Megabytes == big :> 6 @@ small :> 4
Held == big :> 1 @@ small :> 0
TwoOne == big :> 2 @@ small :> 1
=============================================================================
