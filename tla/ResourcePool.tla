---------------------------- MODULE ResourcePool ----------------------------
(***************************************************************************)
(* Cooperative admission of jobs to the devices of one worker              *)
(* (resource_pool.py), and the tasks and model services it admits.         *)
(*                                                                         *)
(* Every operation holds the file lock from its reading of the state file  *)
(* to its last write, so it is one step.  release and cancel_queued write  *)
(* a history record first and the state file second: the parameter saved   *)
(* is FALSE when the process dies between the two.  An operation that      *)
(* raises before it saves leaves no trace and has no step.                 *)
(*                                                                         *)
(* A lease says nothing about the task: tasks and model services start and *)
(* stop on their own, and the adapters that confirm a stop or measure the  *)
(* memory tell the truth.                                                  *)
(***************************************************************************)
EXTENDS Sums, Sequences, FiniteSets, FiniteSetsExt

CONSTANTS
  TicketIds,      \* request ids
  Ticket,         \* [TicketIds -> ticket], what each request asks for
  DeviceOrder,    \* sequence of the authority's devices
  Vram, Slots,    \* [device -> Nat], the authority's vram_mb and slots
  Total,          \* [device -> Nat], the memory the host observes
  Foreign,        \* [device -> Nat], memory that processes outside the pool hold
  MaxBypasses, MaxQueued, MaxResidentModels, MaxLease,   \* the authority's limits
  MaxNow          \* bound: the clock

Devices == Range(DeviceOrder)

ASSUME PoolAssumption ==
  /\ IsFiniteSet(TicketIds)
  /\ DeviceOrder \in Seq(Devices) /\ Cardinality(Devices) = Len(DeviceOrder)
  /\ \A f \in {Vram, Slots, Total, Foreign} : f \in [Devices -> Nat]
  /\ \A d \in Devices : Vram[d] > 0 /\ Slots[d] > 0 /\ Foreign[d] <= Total[d]
  /\ MaxBypasses \in Nat /\ MaxNow \in Nat
  /\ \A n \in {MaxQueued, MaxResidentModels, MaxLease} : n \in Nat \ {0}
  /\ DOMAIN Ticket = TicketIds
  /\ \A r \in TicketIds :
       /\ Ticket[r].resident_mb \in Nat \ {0} /\ Ticket[r].workspace_mb \in Nat
       /\ Ticket[r].mode \in {"shared", "exclusive"}
       /\ Ticket[r].lease_seconds \in 1..MaxLease
       /\ Ticket[r].eligible \subseteq Devices
       /\ \E d \in Ticket[r].eligible :
            Ticket[r].resident_mb + Ticket[r].workspace_mb <= Vram[d]

VARIABLES
  pool,       \* the state file: tickets, claims, residents, epoch and sequence
  history,    \* the history file of every request
  now,        \* the clock
  task,       \* the task of every request, as the host sees it
  loaded      \* the model services that hold memory

poolVars == <<pool, history, now, task, loaded>>

----------------------------------------------------------------------------
(* The state file.                                                         *)

With(f, x, v) == [y \in DOMAIN f \cup {x} |-> IF y = x THEN v ELSE f[y]]
Without(f, S) == Restrict(f, DOMAIN f \ S)

\* The identity of a resident model service on a device.
ResidentKey(d, t) == [uuid |-> d, resident_id |-> t.resident_id, model |-> t.model]

ClaimsOn(s, d) == {r \in DOMAIN s.claims : s.claims[r].uuid = d}
ResidentsOn(s, d) == {k \in DOMAIN s.residents : k.uuid = d}

ResidentMb(s) == [k \in DOMAIN s.residents |-> s.residents[k].resident_mb]
WorkspaceMb == [r \in TicketIds |-> Ticket[r].workspace_mb]

Reserved(s, d) ==
  SumOver(ResidentMb(s), ResidentsOn(s, d)) + SumOver(WorkspaceMb, ClaimsOn(s, d))

\* An expired item is unknown from then on.
Lapse(item, live) ==
  IF item.state = live /\ item.lease_until <= now
  THEN [item EXCEPT !.state = "unknown"] ELSE item

ExpiredFreed ==
  LET over == {r \in DOMAIN pool.tickets :
                 history[r] # "none"
                   \/ (r \in DOMAIN pool.claims /\ pool.claims[r].lease_until <= now)}
  IN [pool EXCEPT
        !.tickets = Without(@, over),
        !.claims = Without(@, over),
        !.residents = [k \in DOMAIN @ |-> Lapse(@[k], "resident")]]

\* What every operation but enqueue does first: finish the stops and the
\* cancellations that history records, then let the expired leases lapse.
Expired ==
  LET over == {r \in DOMAIN pool.tickets : history[r] # "none"}
      claims == Without(pool.claims, over)
  IN [pool EXCEPT
        !.tickets = Without(@, over),
        !.claims = [r \in DOMAIN claims |-> Lapse(claims[r], "running")],
        !.residents = [k \in DOMAIN @ |-> Lapse(@[k], "resident")]]

\* Otherwise every operation but enqueue fails for ever.
Intact == \A r \in DOMAIN pool.tickets \cap DOMAIN pool.claims : history[r] # "cancelled"

----------------------------------------------------------------------------
(* Does a ticket fit a device?                                             *)

\* The model service of this name runs another model.
ModelChanged(s, t) ==
  \E k \in DOMAIN s.residents : k.resident_id = t.resident_id /\ k.model # t.model

ClosedByClaims(s, d) ==
  \/ \E r \in ClaimsOn(s, d) : s.claims[r].state = "unknown"
  \/ Cardinality(ClaimsOn(s, d)) >= Slots[d]
  \/ \E r \in ClaimsOn(s, d) : Ticket[r].mode = "exclusive"

Closed(s, d) ==
  \/ \E r \in ClaimsOn(s, d) : s.claims[r].state = "unknown"
  \/ \E k \in ResidentsOn(s, d) : s.residents[k].state = "unknown"
  \/ Cardinality(ClaimsOn(s, d)) >= Slots[d]
  \/ \E r \in ClaimsOn(s, d) : Ticket[r].mode = "exclusive"

SizeChanged(s, t, d) ==
  LET k == ResidentKey(d, t)
  IN k \in DOMAIN s.residents /\ s.residents[k].resident_mb # t.resident_mb

Excluded(s, t, d) ==
  \/ t.mode = "exclusive"
       /\ (ClaimsOn(s, d) # {} \/ ResidentsOn(s, d) \ {ResidentKey(d, t)} # {})
  \/ ResidentKey(d, t) \notin DOMAIN s.residents
       /\ Cardinality(DOMAIN s.residents) >= MaxResidentModels

Required(s, t, d) ==
  t.workspace_mb + IF ResidentKey(d, t) \in DOMAIN s.residents THEN 0 ELSE t.resident_mb

OutstandingNone(s, d, seen) == 0

\* Reservations that the host does not show as used are still to come.
Outstanding(s, d, seen) ==
  IF Reserved(s, d) > seen.managed_used_mb THEN Reserved(s, d) - seen.managed_used_mb ELSE 0

HasRoom(s, t, d, seen) ==
  /\ Reserved(s, d) + Required(s, t, d) <= Vram[d]
  /\ Reserved(s, d) + Required(s, t, d) <= seen.total_mb
  /\ Required(s, t, d) + Outstanding(s, d, seen) <= seen.free_mb

\* One round of the loop over the devices.
Verdict(s, t, d, seen) ==
  IF Closed(s, d) THEN "continue"
  ELSE IF SizeChanged(s, t, d) THEN "MODEL_CHANGED"
  ELSE IF Excluded(s, t, d) THEN "continue"
  ELSE IF seen.managed_used_mb > Reserved(s, d) THEN "MEMORY_VIOLATION"
  ELSE IF HasRoom(s, t, d, seen) THEN "fits" ELSE "continue"

\* The loop: the first device with another verdict than continue decides.
Fit(s, t, observed) ==
  LET deciding == {i \in DOMAIN DeviceOrder :
                     /\ DeviceOrder[i] \in t.eligible \cap DOMAIN observed
                     /\ Verdict(s, t, DeviceOrder[i], observed[DeviceOrder[i]]) # "continue"}
      first == DeviceOrder[Min(deciding)]
  IN IF ModelChanged(s, t) THEN [verdict |-> "MODEL_CHANGED"]
     ELSE IF deciding = {} THEN [verdict |-> "queued"]
     ELSE [verdict |-> Verdict(s, t, first, observed[first]), uuid |-> first]

----------------------------------------------------------------------------
(* The host.                                                               *)

\* The memory that admitted work holds on a device.
ManagedUse(d) ==
  SumOver([m \in loaded |-> m.mb], {m \in loaded : m.key.uuid = d})
    + SumOver(WorkspaceMb, {r \in TicketIds : task[r].phase = "using" /\ task[r].key.uuid = d})

\* An inventory of some devices; on some the host can attribute the used memory.
Inventories ==
  UNION {
    {[d \in shown |->
        [total_mb |-> Total[d],
         free_mb |-> Total[d] - Foreign[d] - ManagedUse(d),
         managed_used_mb |-> IF d \in attributed THEN ManagedUse(d) ELSE 0]] :
       attributed \in SUBSET shown} :
    shown \in SUBSET Devices}

----------------------------------------------------------------------------
(* The operations.                                                         *)

PoolInit ==
  /\ pool = [tickets |-> <<>>, claims |-> <<>>, residents |-> <<>>, epoch |-> 0, sequence |-> 0]
  /\ history = [r \in TicketIds |-> "none"]
  /\ now = 0
  /\ task = [r \in TicketIds |-> [phase |-> "none"]]
  /\ loaded = {}

\* inspect, and what remains of an admit, a renew or a renew_resident that is refused.
Inspect ==
  /\ Intact
  /\ pool' = Expired
  /\ UNCHANGED <<history, now, task, loaded>>

\* enqueue: alone in not finishing what history records.
Enqueue(r) ==
  /\ history[r] = "none"
  /\ r \notin DOMAIN pool.tickets
  /\ Cardinality(DOMAIN pool.tickets) < MaxQueued
  /\ pool' = [pool EXCEPT
       !.sequence = @ + 1,
       !.tickets = With(@, r, [order |-> pool.sequence + 1, bypasses |-> 0])]
  /\ UNCHANGED <<history, now, task, loaded>>

\* Queued tickets before r that could use device d.
Older(s, r, d) ==
  {o \in DOMAIN s.tickets \ DOMAIN s.claims :
     s.tickets[o].order < s.tickets[r].order /\ d \in Ticket[o].eligible}

Contenders(s, r, d, seen) ==
  {o \in Older(s, r, d) :
     Fit(s, Ticket[o], [x \in {d} |-> seen]).verdict # "MODEL_CHANGED"}

FairUnlimited(s, r, d, seen) ==
  \A o \in Contenders(s, r, d, seen) :
    Fit(s, Ticket[o], [x \in {d} |-> seen]).verdict = "queued"

\* r may not pass a ticket that fits too or has been passed often enough.
Fair(s, r, d, seen) ==
  \A o \in Contenders(s, r, d, seen) :
    /\ Fit(s, Ticket[o], [x \in {d} |-> seen]).verdict = "queued"
    /\ s.tickets[o].bypasses < MaxBypasses

Later(x, y) == IF x > y THEN x ELSE y

\* The resident of a new claim: reused with a longer lease, or a new one.
Residence(s, t, d, until) ==
  LET k == ResidentKey(d, t)
  IN IF k \in DOMAIN s.residents
     THEN [s.residents[k] EXCEPT !.lease_until = Later(@, until)]
     ELSE [resident_mb |-> t.resident_mb, epoch |-> s.epoch + 1,
           state |-> "resident", lease_until |-> until]

Granted(s, r, d, seen) ==
  LET t == Ticket[r]
      k == ResidentKey(d, t)
      until == now + t.lease_seconds
      host == Residence(s, t, d, until)
      passed == Contenders(s, r, d, seen)
  IN [tickets |-> [o \in DOMAIN s.tickets |->
                     [s.tickets[o] EXCEPT !.bypasses = IF o \in passed THEN @ + 1 ELSE @]],
      claims |-> With(s.claims, r, [uuid |-> d, key |-> k, epoch |-> s.epoch + 1,
                                    resident_epoch |-> host.epoch,
                                    state |-> "running", lease_until |-> until]),
      residents |-> With(s.residents, k, host),
      epoch |-> s.epoch + 1,
      sequence |-> s.sequence]

\* admit: the worker is told the claim and may start.
Admit(r) ==
  /\ Intact
  /\ r \in DOMAIN pool.tickets \ DOMAIN pool.claims /\ history[r] = "none"
  /\ \E observed \in Inventories :
       LET s == Expired
           choice == Fit(s, Ticket[r], observed)
       IN /\ choice.verdict = "fits"
          /\ Fair(s, r, choice.uuid, observed[choice.uuid])
          /\ pool' = Granted(s, r, choice.uuid, observed[choice.uuid])
          /\ task' = [task EXCEPT ![r] =
                        [phase |-> "admitted", key |-> ResidentKey(choice.uuid, Ticket[r])]]
          /\ UNCHANGED <<history, now, loaded>>

\* renew: only while both the claim and its resident are known.
Renew(r, seconds) ==
  LET s == Expired
      k == s.claims[r].key
      until == now + seconds
  IN /\ Intact
     /\ r \in DOMAIN s.claims
     /\ s.claims[r].state = "running" /\ s.residents[k].state = "resident"
     /\ pool' = [s EXCEPT !.claims[r].lease_until = until,
                          !.residents[k].lease_until = Later(@, until)]
     /\ UNCHANGED <<history, now, task, loaded>>

\* release: the adapter confirms that the task has stopped.
Release(r, saved) ==
  LET s == Expired
  IN /\ Intact
     /\ r \in DOMAIN s.claims
     /\ history[r] = "none"
     /\ task[r].phase = "stopped"
     /\ history' = [history EXCEPT ![r] = "released"]
     /\ pool' = IF saved THEN [s EXCEPT !.claims = Without(@, {r}), !.tickets = Without(@, {r})]
                ELSE pool
     /\ UNCHANGED <<now, task, loaded>>

CancelQueued(r, saved) ==
  LET s == Expired
  IN /\ Intact
     /\ r \in DOMAIN s.tickets \ DOMAIN s.claims
     /\ history[r] = "none"
     /\ history' = [history EXCEPT ![r] = "cancelled"]
     /\ pool' = IF saved THEN [s EXCEPT !.tickets = Without(@, {r})] ELSE pool
     /\ UNCHANGED <<now, task, loaded>>

\* evict: the adapter confirms that the model service has stopped.
Evict(k) ==
  LET s == Expired
  IN /\ Intact
     /\ k \in DOMAIN s.residents
     /\ \A r \in DOMAIN s.claims : s.claims[r].key # k
     /\ \A m \in loaded : m.key # k
     /\ pool' = [s EXCEPT !.residents = Without(@, {k})]
     /\ UNCHANGED <<history, now, task, loaded>>

RenewResident(k, seconds) ==
  LET s == Expired
  IN /\ Intact
     /\ k \in DOMAIN s.residents
     /\ s.residents[k].state = "resident"
     /\ pool' = [s EXCEPT !.residents[k].lease_until = Later(@, now + seconds)]
     /\ UNCHANGED <<history, now, task, loaded>>

----------------------------------------------------------------------------
(* The clock, the tasks and the model services.                            *)

Tick ==
  /\ now < MaxNow
  /\ now' = now + 1
  /\ UNCHANGED <<pool, history, task, loaded>>

\* An admitted task starts, at any time, and has its model service loaded.
Start(r) ==
  /\ task[r].phase = "admitted"
  /\ task' = [task EXCEPT ![r].phase = "using"]
  /\ loaded' = loaded \cup {[key |-> task[r].key, mb |-> Ticket[r].resident_mb]}
  /\ UNCHANGED <<pool, history, now>>

\* A task ends or dies, or never starts.
TaskStops(r) ==
  /\ task[r].phase \in {"admitted", "using"}
  /\ task' = [task EXCEPT ![r].phase = "stopped"]
  /\ UNCHANGED <<pool, history, now, loaded>>

ServiceStops(m) ==
  /\ loaded' = loaded \ {m}
  /\ UNCHANGED <<pool, history, now, task>>

PoolNext ==
  \/ Inspect
  \/ \E r \in TicketIds : Enqueue(r)
  \/ \E r \in TicketIds : Admit(r)
  \/ \E r \in DOMAIN pool.claims, seconds \in 1..MaxLease : Renew(r, seconds)
  \/ \E r \in DOMAIN pool.claims, saved \in BOOLEAN : Release(r, saved)
  \/ \E r \in DOMAIN pool.tickets, saved \in BOOLEAN : CancelQueued(r, saved)
  \/ \E k \in DOMAIN pool.residents : Evict(k)
  \/ \E k \in DOMAIN pool.residents, seconds \in 1..MaxLease : RenewResident(k, seconds)
  \/ Tick
  \/ \E r \in TicketIds : Start(r)
  \/ \E r \in TicketIds : TaskStops(r)
  \/ \E m \in loaded : ServiceStops(m)

PoolSpec == PoolInit /\ [][PoolNext]_poolVars

----------------------------------------------------------------------------
(* What the pool promises.                                                 *)

\* A device is never promised beyond its memory, what other processes hold on it
\* included and whatever part of the promises is in use when it is measured; nor
\* beyond its slots, nor next to an exclusive claim; the pool never promises more
\* model services than its limit (_fit, resource_pool.py:147-176).
ReservationsFit ==
  /\ Cardinality(DOMAIN pool.residents) <= MaxResidentModels
  /\ \A d \in Devices :
       /\ Reserved(pool, d) <= Vram[d]
       /\ Reserved(pool, d) + Foreign[d] <= Total[d]
       /\ Cardinality(ClaimsOn(pool, d)) <= Slots[d]
       /\ \A r \in ClaimsOn(pool, d) :
            Ticket[r].mode = "exclusive" =>
              /\ ClaimsOn(pool, d) = {r}
              /\ ResidentsOn(pool, d) = {pool.claims[r].key}

\* Whatever runs or may still start on the host has its place in the state file, at
\* the lease's end too, and after a release or a cancellation that was interrupted:
\* a record of the history is about work that is over or never began
\* (resource_pool.py:3-5, 83-96, 270-274).
TasksAreReserved ==
  /\ \A r \in TicketIds :
       task[r].phase \in {"admitted", "using"} =>
         r \in DOMAIN pool.claims /\ pool.claims[r].key = task[r].key
  /\ \A m \in loaded : m.key \in DOMAIN pool.residents
                         /\ pool.residents[m.key].resident_mb = m.mb
  /\ \A r \in TicketIds :
       /\ history[r] = "cancelled" => r \notin DOMAIN pool.claims /\ task[r].phase = "none"
       /\ history[r] = "released" => task[r].phase = "stopped"

\* A ticket is passed on a device it waits for at most max_bypasses times: each claim
\* that passes it is counted, unless its model service has been replaced meanwhile
\* (admit, resource_pool.py:195-205).
OvertakingIsCounted ==
  [][\A r \in DOMAIN pool'.claims \ DOMAIN pool.claims :
       LET d == pool'.claims[r].uuid
       IN \A o \in Older(pool, r, d) :
            \/ history[o] # "none"
            \/ ModelChanged(pool, Ticket[o]) \/ SizeChanged(pool, Ticket[o], d)
            \/ /\ pool.tickets[o].bypasses < MaxBypasses
               /\ pool'.tickets[o].bypasses = pool.tickets[o].bypasses + 1]_poolVars

\* No job is admitted to a device on which a lease has run out, whoever looked at the
\* pool since, until the stop of the task or of the service is confirmed
\* (_expire and _fit, resource_pool.py:97-101, 160).
LapsedDeviceStaysClosed ==
  [][\A r \in DOMAIN pool'.claims \ DOMAIN pool.claims :
       LET d == pool'.claims[r].uuid
       IN /\ \A q \in ClaimsOn(pool, d) :
               history[q] = "none" => pool.claims[q].lease_until > now
          /\ \A k \in ResidentsOn(pool, d) : pool.residents[k].lease_until > now]_poolVars

=============================================================================
