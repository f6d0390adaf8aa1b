----------------------------- MODULE PoolProofs -----------------------------
(* Theorems about the pool of a worker's GPUs, for every number of devices, *)
(* requests and leases.                                                     *)
EXTENDS ResourcePool, SumLemmas

HostKeys == {ResidentKey(d, Ticket[r]) : d \in Devices, r \in TicketIds}
TicketRecords == [order: Nat, bypasses: Nat]
ClaimRecords ==
  [uuid: Devices, key: HostKeys, epoch: Nat, resident_epoch: Nat,
   state: {"running", "unknown"}, lease_until: Nat]
ResidentRecords == [resident_mb: Nat, epoch: Nat, state: {"resident", "unknown"}, lease_until: Nat]
TaskRecords == {[phase |-> "none"]} \cup [phase: {"admitted", "using", "stopped"}, key: HostKeys]

\* A state file: every claim has its ticket and the model service it asked for.
IsState(s) ==
  /\ DOMAIN s = {"tickets", "claims", "residents", "epoch", "sequence"}
  /\ s.epoch \in Nat /\ s.sequence \in Nat
  /\ DOMAIN s.tickets \subseteq TicketIds
  /\ \A r \in DOMAIN s.tickets : s.tickets[r] \in TicketRecords
  /\ DOMAIN s.claims \subseteq DOMAIN s.tickets
  /\ \A r \in DOMAIN s.claims :
       /\ s.claims[r] \in ClaimRecords
       /\ s.claims[r].key = ResidentKey(s.claims[r].uuid, Ticket[r])
       /\ s.claims[r].key \in DOMAIN s.residents
       /\ s.residents[s.claims[r].key].resident_mb = Ticket[r].resident_mb
  /\ DOMAIN s.residents \subseteq HostKeys /\ IsFiniteSet(DOMAIN s.residents)
  /\ \A k \in DOMAIN s.residents : s.residents[k] \in ResidentRecords

\* ReservationsFit, of any state file.
StateFits(s) ==
  /\ Cardinality(DOMAIN s.residents) <= MaxResidentModels
  /\ \A d \in Devices :
       /\ Reserved(s, d) <= Vram[d]
       /\ Reserved(s, d) + Foreign[d] <= Total[d]
       /\ Cardinality(ClaimsOn(s, d)) <= Slots[d]
       /\ \A r \in ClaimsOn(s, d) :
            Ticket[r].mode = "exclusive" =>
              /\ ClaimsOn(s, d) = {r}
              /\ ResidentsOn(s, d) = {s.claims[r].key}

\* What is claimed and resident in t is so in s.
Narrows(s, t) ==
  /\ DOMAIN t.claims \subseteq DOMAIN s.claims
  /\ \A r \in DOMAIN t.claims : t.claims[r].uuid = s.claims[r].uuid /\ t.claims[r].key = s.claims[r].key
  /\ DOMAIN t.residents \subseteq DOMAIN s.residents
  /\ \A k \in DOMAIN t.residents : t.residents[k].resident_mb = s.residents[k].resident_mb

PoolInv ==
  /\ IsState(pool) /\ StateFits(pool) /\ now \in Nat
  /\ history \in [TicketIds -> {"none", "cancelled", "released"}]
  /\ task \in [TicketIds -> TaskRecords]
  /\ IsFiniteSet(loaded) /\ \A m \in loaded : m \in [key: HostKeys, mb: Nat]
  /\ TasksAreReserved
  /\ \A r \in TicketIds : history[r] = "none" /\ r \notin DOMAIN pool.claims => task[r].phase = "none"

LEMMA KeyOnDevice == \A k \in HostKeys : k.uuid \in Devices
BY DEF HostKeys, ResidentKey

LEMMA StateFinite ==
  ASSUME NEW s, IsState(s), NEW d
  PROVE  /\ IsFiniteSet(ClaimsOn(s, d)) /\ ClaimsOn(s, d) \subseteq TicketIds
         /\ IsFiniteSet(ResidentsOn(s, d)) /\ ResidentsOn(s, d) \subseteq DOMAIN s.residents
<1>1. ClaimsOn(s, d) \subseteq TicketIds /\ ResidentsOn(s, d) \subseteq DOMAIN s.residents
  BY DEF IsState, ClaimsOn, ResidentsOn
<1>. QED
  BY <1>1, FS_Subset, PoolAssumption DEF IsState

LEMMA TicketNumbers ==
  \A r \in TicketIds : /\ WorkspaceMb[r] = Ticket[r].workspace_mb
                      /\ Ticket[r].workspace_mb \in Nat /\ Ticket[r].resident_mb \in Nat
                      /\ Ticket[r].eligible \subseteq Devices /\ Ticket[r].lease_seconds \in Nat
BY PoolAssumption DEF WorkspaceMb

LEMMA ReservedTyped ==
  ASSUME NEW s, IsState(s), NEW d
  PROVE  /\ SumOver(ResidentMb(s), ResidentsOn(s, d)) \in Nat
         /\ SumOver(WorkspaceMb, ClaimsOn(s, d)) \in Nat
         /\ Reserved(s, d) \in Nat
<1>1. \A k \in ResidentsOn(s, d) : ResidentMb(s)[k] \in Nat
  BY StateFinite DEF IsState, ResidentMb, ResidentRecords
<1>2. \A r \in ClaimsOn(s, d) : WorkspaceMb[r] \in Nat
  BY StateFinite, TicketNumbers
<1>3. SumOver(ResidentMb(s), ResidentsOn(s, d)) \in Nat
  BY <1>1, StateFinite, SumTyped
<1>4. SumOver(WorkspaceMb, ClaimsOn(s, d)) \in Nat
  BY <1>2, StateFinite, SumTyped
<1>. QED
  BY <1>3, <1>4 DEF Reserved

(* A narrower state file fits too. *)
LEMMA NarrowFits ==
  ASSUME NEW s, NEW t, IsState(s), IsState(t), StateFits(s), Narrows(s, t)
  PROVE  StateFits(t)
<1>1. Cardinality(DOMAIN t.residents) <= MaxResidentModels
  <2>1. /\ Cardinality(DOMAIN t.residents) <= Cardinality(DOMAIN s.residents)
        /\ Cardinality(DOMAIN t.residents) \in Nat /\ Cardinality(DOMAIN s.residents) \in Nat
    BY FS_Subset, FS_CardinalityType DEF IsState, Narrows
  <2>. QED
    BY <2>1, PoolAssumption DEF StateFits
<1>2. ASSUME NEW d \in Devices
      PROVE  /\ Reserved(t, d) <= Vram[d]
             /\ Reserved(t, d) + Foreign[d] <= Total[d]
             /\ Cardinality(ClaimsOn(t, d)) <= Slots[d]
             /\ \A r \in ClaimsOn(t, d) :
                  Ticket[r].mode = "exclusive" =>
                    /\ ClaimsOn(t, d) = {r}
                    /\ ResidentsOn(t, d) = {t.claims[r].key}
  <2>1. ClaimsOn(t, d) \subseteq ClaimsOn(s, d) /\ ResidentsOn(t, d) \subseteq ResidentsOn(s, d)
    BY DEF ClaimsOn, ResidentsOn, Narrows
  <2>2. SumOver(ResidentMb(t), ResidentsOn(t, d)) <= SumOver(ResidentMb(s), ResidentsOn(s, d))
    <3>1. \A k \in ResidentsOn(t, d) : ResidentMb(t)[k] = ResidentMb(s)[k]
      BY <2>1, StateFinite DEF ResidentMb, Narrows
    <3>2. SumOver(ResidentMb(t), ResidentsOn(t, d)) = SumOver(ResidentMb(s), ResidentsOn(t, d))
      BY <3>1, StateFinite, SumAgrees
    <3>3. \A k \in ResidentsOn(s, d) : ResidentMb(s)[k] \in Nat
      BY StateFinite DEF IsState, ResidentMb, ResidentRecords
    <3>4. SumOver(ResidentMb(s), ResidentsOn(t, d)) <= SumOver(ResidentMb(s), ResidentsOn(s, d))
      BY <2>1, <3>3, StateFinite, SumOfPart
    <3>. QED
      BY <3>2, <3>4
  <2>3. SumOver(WorkspaceMb, ClaimsOn(t, d)) <= SumOver(WorkspaceMb, ClaimsOn(s, d))
    <3>1. \A r \in ClaimsOn(s, d) : WorkspaceMb[r] \in Nat
      BY StateFinite, TicketNumbers
    <3>. QED
      BY <2>1, <3>1, StateFinite, SumOfPart
  <2>4. Reserved(t, d) <= Reserved(s, d) /\ Reserved(t, d) \in Nat /\ Reserved(s, d) \in Nat
    BY <2>2, <2>3, ReservedTyped DEF Reserved
  <2>5. Vram[d] \in Nat /\ Foreign[d] \in Nat /\ Total[d] \in Nat /\ Slots[d] \in Nat
    BY PoolAssumption
  <2>6. Reserved(t, d) <= Vram[d] /\ Reserved(t, d) + Foreign[d] <= Total[d]
    BY <2>4, <2>5 DEF StateFits
  <2>7. /\ Cardinality(ClaimsOn(t, d)) <= Cardinality(ClaimsOn(s, d))
        /\ Cardinality(ClaimsOn(t, d)) \in Nat /\ Cardinality(ClaimsOn(s, d)) \in Nat
    BY <2>1, StateFinite, FS_Subset, FS_CardinalityType
  <2>8. Cardinality(ClaimsOn(t, d)) <= Slots[d]
    BY <2>5, <2>7 DEF StateFits
  <2>9. ASSUME NEW r \in ClaimsOn(t, d), Ticket[r].mode = "exclusive"
        PROVE  ClaimsOn(t, d) = {r} /\ ResidentsOn(t, d) = {t.claims[r].key}
    <3>1. r \in ClaimsOn(s, d)
      BY <2>1
    <3>2. ClaimsOn(s, d) = {r} /\ ResidentsOn(s, d) = {s.claims[r].key}
      BY <2>9, <3>1 DEF StateFits
    <3>3. r \in DOMAIN t.claims /\ t.claims[r].uuid = d
      BY DEF ClaimsOn
    <3>4. t.claims[r].key = s.claims[r].key
      BY <3>3 DEF Narrows
    <3>5. t.claims[r].key = ResidentKey(d, Ticket[r]) /\ t.claims[r].key \in DOMAIN t.residents
      BY <3>3 DEF IsState
    <3>6. t.claims[r].key \in ResidentsOn(t, d)
      BY <3>5 DEF ResidentsOn, ResidentKey
    <3>. QED
      BY <2>1, <3>2, <3>4, <3>6
  <2>. QED
    BY <2>6, <2>8, <2>9
<1>. QED
  BY <1>1, <1>2 DEF StateFits

(* What Expired leaves of the state file. *)
LEMMA ExpiredShape ==
  ASSUME PoolInv
  PROVE  /\ DOMAIN Expired = {"tickets", "claims", "residents", "epoch", "sequence"}
         /\ Expired.epoch = pool.epoch /\ Expired.sequence = pool.sequence
         /\ DOMAIN Expired.tickets = {r \in DOMAIN pool.tickets : history[r] = "none"}
         /\ \A r \in DOMAIN Expired.tickets : Expired.tickets[r] = pool.tickets[r]
         /\ DOMAIN Expired.claims = {r \in DOMAIN pool.claims : history[r] = "none"}
         /\ \A r \in DOMAIN Expired.claims : Expired.claims[r] = Lapse(pool.claims[r], "running")
         /\ DOMAIN Expired.residents = DOMAIN pool.residents
         /\ \A k \in DOMAIN Expired.residents : Expired.residents[k] = Lapse(pool.residents[k], "resident")
<1> DEFINE over == {r \in DOMAIN pool.tickets : history[r] # "none"}
           claims == Without(pool.claims, over)
<1>1. DOMAIN pool = {"tickets", "claims", "residents", "epoch", "sequence"}
      /\ DOMAIN pool.claims \subseteq DOMAIN pool.tickets
  BY DEF PoolInv, IsState
<1>2. DOMAIN claims = {r \in DOMAIN pool.claims : history[r] = "none"}
      /\ \A r \in DOMAIN claims : claims[r] = pool.claims[r]
  BY <1>1 DEF Without, Restrict
<1>3. DOMAIN Without(pool.tickets, over) = {r \in DOMAIN pool.tickets : history[r] = "none"}
      /\ \A r \in DOMAIN Without(pool.tickets, over) : Without(pool.tickets, over)[r] = pool.tickets[r]
  BY DEF Without, Restrict
<1>4. Expired = [pool EXCEPT !.tickets = Without(pool.tickets, over),
                             !.claims = [r \in DOMAIN claims |-> Lapse(claims[r], "running")],
                             !.residents = [k \in DOMAIN pool.residents |-> Lapse(pool.residents[k], "resident")]]
  BY <1>1 DEF Expired
<1> HIDE DEF over, claims
<1>5. /\ DOMAIN Expired = {"tickets", "claims", "residents", "epoch", "sequence"}
      /\ Expired.epoch = pool.epoch /\ Expired.sequence = pool.sequence
      /\ Expired.tickets = Without(pool.tickets, over)
      /\ Expired.claims = [r \in DOMAIN claims |-> Lapse(claims[r], "running")]
      /\ Expired.residents = [k \in DOMAIN pool.residents |-> Lapse(pool.residents[k], "resident")]
  BY <1>1, <1>4
<1>. QED
  BY <1>2, <1>3, <1>5

LEMMA LapseKeeps ==
  /\ \A c \in ClaimRecords : /\ Lapse(c, "running") \in ClaimRecords
                             /\ Lapse(c, "running").uuid = c.uuid /\ Lapse(c, "running").key = c.key
  /\ \A h \in ResidentRecords : /\ Lapse(h, "resident") \in ResidentRecords
                                /\ Lapse(h, "resident").resident_mb = h.resident_mb
<1>1. ASSUME NEW c \in ClaimRecords
      PROVE  /\ Lapse(c, "running") \in ClaimRecords
             /\ Lapse(c, "running").uuid = c.uuid /\ Lapse(c, "running").key = c.key
  BY DEF Lapse, ClaimRecords
<1>2. ASSUME NEW h \in ResidentRecords
      PROVE  Lapse(h, "resident") \in ResidentRecords /\ Lapse(h, "resident").resident_mb = h.resident_mb
  BY DEF Lapse, ResidentRecords
<1>. QED
  BY <1>1, <1>2

LEMMA ExpiredState ==
  ASSUME PoolInv
  PROVE  IsState(Expired) /\ Narrows(pool, Expired) /\ StateFits(Expired)
<1>1. IsState(pool) /\ StateFits(pool)
  BY DEF PoolInv
<1>2. \A r \in DOMAIN Expired.claims :
        /\ r \in DOMAIN pool.claims /\ Expired.claims[r] \in ClaimRecords
        /\ Expired.claims[r].uuid = pool.claims[r].uuid /\ Expired.claims[r].key = pool.claims[r].key
  BY <1>1, ExpiredShape, LapseKeeps DEF IsState
<1>3. \A k \in DOMAIN Expired.residents :
        /\ k \in DOMAIN pool.residents /\ Expired.residents[k] \in ResidentRecords
        /\ Expired.residents[k].resident_mb = pool.residents[k].resident_mb
  BY <1>1, ExpiredShape, LapseKeeps DEF IsState
<1>4. Narrows(pool, Expired)
  BY <1>2, <1>3, ExpiredShape DEF Narrows
<1>5. IsState(Expired)
  <2>1. \A r \in DOMAIN Expired.claims :
          /\ Expired.claims[r].key = ResidentKey(Expired.claims[r].uuid, Ticket[r])
          /\ Expired.claims[r].key \in DOMAIN Expired.residents
          /\ Expired.residents[Expired.claims[r].key].resident_mb = Ticket[r].resident_mb
    BY <1>1, <1>2, <1>3, ExpiredShape DEF IsState
  <2>2. DOMAIN Expired.claims \subseteq DOMAIN Expired.tickets /\ DOMAIN Expired.tickets \subseteq TicketIds
        /\ \A r \in DOMAIN Expired.tickets : Expired.tickets[r] \in TicketRecords
    BY <1>1, ExpiredShape DEF IsState
  <2>. QED
    BY <1>1, <1>2, <1>3, <2>1, <2>2, ExpiredShape DEF IsState
<1>. QED
  BY <1>1, <1>4, <1>5, NarrowFits

----------------------------------------------------------------------------
(* Steps that narrow the state file, or leave it.                          *)

LEMMA PoolNarrows ==
  ASSUME PoolInv, IsState(pool'), Narrows(pool, pool'), UNCHANGED <<now, task, loaded>>,
         history' \in [TicketIds -> {"none", "cancelled", "released"}],
         \A r \in DOMAIN pool.claims \ DOMAIN pool'.claims :
           task[r].phase \notin {"admitted", "using"} /\ history'[r] # "none",
         \A m \in loaded : m.key \in DOMAIN pool'.residents,
         \A r \in TicketIds :
           \/ history'[r] = history[r]
           \/ history[r] = "none" /\ history'[r] = "cancelled" /\ r \notin DOMAIN pool.claims
           \/ history'[r] = "released" /\ task[r].phase = "stopped"
  PROVE  PoolInv'
<1>1. StateFits(pool') /\ now' \in Nat /\ task' \in [TicketIds -> TaskRecords]
      /\ IsFiniteSet(loaded') /\ \A m \in loaded' : m \in [key: HostKeys, mb: Nat]
  BY NarrowFits DEF PoolInv
<1>2. ASSUME NEW r \in TicketIds, task'[r].phase \in {"admitted", "using"}
      PROVE  r \in DOMAIN pool'.claims /\ pool'.claims[r].key = task'[r].key
  BY <1>2 DEF PoolInv, TasksAreReserved, Narrows
<1>3. \A m \in loaded' : m.key \in DOMAIN pool'.residents /\ pool'.residents[m.key].resident_mb = m.mb
  BY DEF PoolInv, TasksAreReserved, Narrows
<1>4. \A r \in TicketIds :
        /\ history'[r] = "cancelled" => r \notin DOMAIN pool'.claims /\ task'[r].phase = "none"
        /\ history'[r] = "released" => task'[r].phase = "stopped"
  BY DEF PoolInv, TasksAreReserved, Narrows
<1>5. \A r \in TicketIds : history'[r] = "none" /\ r \notin DOMAIN pool'.claims => task'[r].phase = "none"
  BY DEF PoolInv
<1>6. TasksAreReserved'
  BY <1>2, <1>3, <1>4 DEF TasksAreReserved
<1>. QED
  BY <1>1, <1>5, <1>6 DEF PoolInv

LEMMA NarrowsChain ==
  ASSUME NEW s, NEW t, NEW u, Narrows(s, t), Narrows(t, u)
  PROVE  Narrows(s, u)
BY DEF Narrows

\* A request whose claim lapses out of the file has stopped.
LEMMA DroppedIsOver ==
  ASSUME PoolInv, NEW r \in DOMAIN pool.claims \ DOMAIN Expired.claims
  PROVE  r \in TicketIds /\ history[r] # "none" /\ task[r].phase = "stopped"
<1>1. r \in TicketIds /\ history[r] # "none"
  BY ExpiredShape DEF PoolInv, IsState
<1>. QED
  BY <1>1 DEF PoolInv, TasksAreReserved

LEMMA InspectKeeps == ASSUME PoolInv, Inspect PROVE PoolInv'
<1>1. pool' = Expired /\ UNCHANGED <<history, now, task, loaded>>
  BY DEF Inspect
<1>2. IsState(pool') /\ Narrows(pool, pool')
  BY <1>1, ExpiredState
<1>3. \A r \in DOMAIN pool.claims \ DOMAIN pool'.claims :
        task[r].phase \notin {"admitted", "using"} /\ history'[r] # "none"
  BY <1>1, DroppedIsOver
<1>4. \A m \in loaded : m.key \in DOMAIN pool'.residents
  BY <1>1, ExpiredShape DEF PoolInv, TasksAreReserved
<1>5. history' \in [TicketIds -> {"none", "cancelled", "released"}] /\ \A r \in TicketIds : history'[r] = history[r]
  BY <1>1 DEF PoolInv
<1>. QED
  BY <1>1, <1>2, <1>3, <1>4, <1>5, PoolNarrows

LEMMA EnqueueKeeps == ASSUME PoolInv, NEW r \in TicketIds, Enqueue(r) PROVE PoolInv'
<1> DEFINE record == [order |-> pool.sequence + 1, bypasses |-> 0]
<1>1. IsState(pool) /\ record \in TicketRecords
  BY DEF PoolInv, IsState, TicketRecords
<1> HIDE DEF record
<1>2. pool' = [pool EXCEPT !.sequence = @ + 1, !.tickets = With(pool.tickets, r, record)]
      /\ UNCHANGED <<history, now, task, loaded>>
  BY <1>1 DEF Enqueue, record, IsState
<1>3. /\ DOMAIN pool' = {"tickets", "claims", "residents", "epoch", "sequence"}
      /\ pool'.claims = pool.claims /\ pool'.residents = pool.residents /\ pool'.epoch = pool.epoch
      /\ pool'.sequence = pool.sequence + 1 /\ pool'.tickets = With(pool.tickets, r, record)
  BY <1>1, <1>2 DEF IsState
<1>4. DOMAIN pool'.tickets = DOMAIN pool.tickets \cup {r}
      /\ \A o \in DOMAIN pool'.tickets : pool'.tickets[o] \in TicketRecords
  BY <1>1, <1>3 DEF With, IsState
<1>5. IsState(pool')
  BY <1>1, <1>3, <1>4 DEF IsState
<1>6. Narrows(pool, pool')
  BY <1>3 DEF Narrows
<1>7. history' \in [TicketIds -> {"none", "cancelled", "released"}] /\ \A o \in TicketIds : history'[o] = history[o]
      /\ \A m \in loaded : m.key \in DOMAIN pool'.residents
  BY <1>2, <1>3 DEF PoolInv, TasksAreReserved
<1>8. DOMAIN pool.claims \ DOMAIN pool'.claims = {}
  BY <1>3
<1>. QED
  BY <1>2, <1>5, <1>6, <1>7, <1>8, PoolNarrows

(* Leases are renewed. *)
LEMMA RenewKeeps ==
  ASSUME PoolInv, NEW r \in DOMAIN pool.claims, NEW seconds \in 1..MaxLease, Renew(r, seconds)
  PROVE  PoolInv'
<1> DEFINE s == Expired
           k == s.claims[r].key
           claim == [s.claims[r] EXCEPT !.lease_until = now + seconds]
           host == [s.residents[k] EXCEPT !.lease_until = Later(s.residents[k].lease_until, now + seconds)]
<1>1. IsState(s) /\ Narrows(pool, s) /\ r \in DOMAIN s.claims /\ k \in DOMAIN s.residents
  BY ExpiredState DEF Renew, IsState
<1>2. now + seconds \in Nat
  BY PoolAssumption DEF PoolInv
<1>3. claim \in ClaimRecords /\ claim.key = s.claims[r].key /\ claim.uuid = s.claims[r].uuid
  BY <1>1, <1>2 DEF IsState, ClaimRecords
<1>4. host \in ResidentRecords /\ host.resident_mb = s.residents[k].resident_mb
  BY <1>1, <1>2 DEF IsState, ResidentRecords, Later
<1>5. pool' = [s EXCEPT !.claims = [s.claims EXCEPT ![r] = claim], !.residents = [s.residents EXCEPT ![k] = host]]
      /\ UNCHANGED <<history, now, task, loaded>>
  BY <1>1 DEF Renew, IsState
<1> HIDE DEF claim, host, s
<1>6. /\ DOMAIN pool' = {"tickets", "claims", "residents", "epoch", "sequence"}
      /\ pool'.claims = [s.claims EXCEPT ![r] = claim] /\ pool'.residents = [s.residents EXCEPT ![k] = host]
      /\ pool'.epoch = s.epoch /\ pool'.sequence = s.sequence /\ pool'.tickets = s.tickets
  BY <1>1, <1>5 DEF IsState
<1>7. /\ DOMAIN pool'.claims = DOMAIN s.claims /\ DOMAIN pool'.residents = DOMAIN s.residents
      /\ \A o \in DOMAIN s.claims : /\ pool'.claims[o] \in ClaimRecords
                                    /\ pool'.claims[o].uuid = s.claims[o].uuid
                                    /\ pool'.claims[o].key = s.claims[o].key
      /\ \A h \in DOMAIN s.residents : /\ pool'.residents[h] \in ResidentRecords
                                       /\ pool'.residents[h].resident_mb = s.residents[h].resident_mb
  BY <1>1, <1>3, <1>4, <1>6 DEF IsState
<1>8. IsState(pool')
  BY <1>1, <1>6, <1>7 DEF IsState
<1>9. Narrows(pool, pool')
  <2>1. Narrows(s, pool')
    BY <1>7 DEF Narrows
  <2>. QED
    BY <1>1, <2>1, NarrowsChain
<1>10. \A o \in DOMAIN pool.claims \ DOMAIN pool'.claims :
         task[o].phase \notin {"admitted", "using"} /\ history'[o] # "none"
  BY <1>5, <1>7, DroppedIsOver DEF s
<1>11. \A m \in loaded : m.key \in DOMAIN pool'.residents
  BY <1>7, ExpiredShape DEF PoolInv, TasksAreReserved, s
<1>12. history' \in [TicketIds -> {"none", "cancelled", "released"}] /\ \A o \in TicketIds : history'[o] = history[o]
  BY <1>5 DEF PoolInv
<1>. QED
  BY <1>5, <1>8, <1>9, <1>10, <1>11, <1>12, PoolNarrows

LEMMA RenewResidentKeeps ==
  ASSUME PoolInv, NEW k \in DOMAIN pool.residents, NEW seconds \in 1..MaxLease, RenewResident(k, seconds)
  PROVE  PoolInv'
<1> DEFINE s == Expired
           host == [s.residents[k] EXCEPT !.lease_until = Later(s.residents[k].lease_until, now + seconds)]
<1>1. IsState(s) /\ Narrows(pool, s) /\ k \in DOMAIN s.residents
  BY ExpiredState DEF RenewResident
<1>2. now + seconds \in Nat
  BY PoolAssumption DEF PoolInv
<1>3. host \in ResidentRecords /\ host.resident_mb = s.residents[k].resident_mb
  BY <1>1, <1>2 DEF IsState, ResidentRecords, Later
<1>4. pool' = [s EXCEPT !.residents = [s.residents EXCEPT ![k] = host]] /\ UNCHANGED <<history, now, task, loaded>>
  BY <1>1 DEF RenewResident, IsState
<1> HIDE DEF host, s
<1>5. /\ DOMAIN pool' = {"tickets", "claims", "residents", "epoch", "sequence"}
      /\ pool'.claims = s.claims /\ pool'.residents = [s.residents EXCEPT ![k] = host]
      /\ pool'.epoch = s.epoch /\ pool'.sequence = s.sequence /\ pool'.tickets = s.tickets
  BY <1>1, <1>4 DEF IsState
<1>6. /\ DOMAIN pool'.residents = DOMAIN s.residents
      /\ \A h \in DOMAIN s.residents : /\ pool'.residents[h] \in ResidentRecords
                                       /\ pool'.residents[h].resident_mb = s.residents[h].resident_mb
  BY <1>1, <1>3, <1>5 DEF IsState
<1>7. IsState(pool')
  BY <1>1, <1>5, <1>6 DEF IsState
<1>8. Narrows(pool, pool')
  <2>1. Narrows(s, pool')
    BY <1>5, <1>6 DEF Narrows
  <2>. QED
    BY <1>1, <2>1, NarrowsChain
<1>9. \A o \in DOMAIN pool.claims \ DOMAIN pool'.claims :
        task[o].phase \notin {"admitted", "using"} /\ history'[o] # "none"
  BY <1>4, <1>5, DroppedIsOver DEF s
<1>10. \A m \in loaded : m.key \in DOMAIN pool'.residents
  BY <1>6, ExpiredShape DEF PoolInv, TasksAreReserved, s
<1>11. history' \in [TicketIds -> {"none", "cancelled", "released"}] /\ \A o \in TicketIds : history'[o] = history[o]
  BY <1>4 DEF PoolInv
<1>. QED
  BY <1>4, <1>7, <1>8, <1>9, <1>10, <1>11, PoolNarrows

LEMMA ReleaseKeeps ==
  ASSUME PoolInv, NEW r \in DOMAIN pool.claims, NEW saved \in BOOLEAN, Release(r, saved)
  PROVE  PoolInv'
<1> DEFINE s == Expired
<1>1. IsState(s) /\ Narrows(pool, s) /\ r \in DOMAIN s.claims /\ r \in TicketIds
  BY ExpiredState DEF Release, IsState, PoolInv
<1>2. /\ history' \in [TicketIds -> {"none", "cancelled", "released"}] /\ history'[r] = "released"
      /\ \A o \in TicketIds \ {r} : history'[o] = history[o]
      /\ task[r].phase = "stopped" /\ UNCHANGED <<now, task, loaded>>
  BY <1>1 DEF Release, PoolInv
<1>3. CASE saved
  <2>1. pool' = [s EXCEPT !.claims = Without(s.claims, {r}), !.tickets = Without(s.tickets, {r})]
    BY <1>1, <1>3 DEF Release, IsState
  <2> HIDE DEF s
  <2>2. /\ DOMAIN pool' = {"tickets", "claims", "residents", "epoch", "sequence"}
        /\ pool'.claims = Without(s.claims, {r}) /\ pool'.residents = s.residents
        /\ pool'.epoch = s.epoch /\ pool'.sequence = s.sequence /\ pool'.tickets = Without(s.tickets, {r})
    BY <1>1, <2>1 DEF IsState
  <2>3. /\ DOMAIN pool'.claims = DOMAIN s.claims \ {r} /\ DOMAIN pool'.tickets = DOMAIN s.tickets \ {r}
        /\ \A o \in DOMAIN s.claims \ {r} : pool'.claims[o] = s.claims[o]
        /\ \A o \in DOMAIN s.tickets \ {r} : pool'.tickets[o] = s.tickets[o]
    BY <2>2 DEF Without, Restrict
  <2>4. IsState(pool')
    BY <1>1, <2>2, <2>3 DEF IsState
  <2>5. Narrows(pool, pool')
    <3>1. Narrows(s, pool')
      BY <2>2, <2>3 DEF Narrows
    <3>. QED
      BY <1>1, <3>1, NarrowsChain
  <2>6. \A o \in DOMAIN pool.claims \ DOMAIN pool'.claims :
          task[o].phase \notin {"admitted", "using"} /\ history'[o] # "none"
    <3> SUFFICES ASSUME NEW o \in DOMAIN pool.claims \ DOMAIN pool'.claims
                 PROVE  task[o].phase \notin {"admitted", "using"} /\ history'[o] # "none"
      OBVIOUS
    <3>1. CASE o = r
      BY <1>2, <3>1
    <3>2. CASE o # r
      BY <1>2, <2>3, <3>2, DroppedIsOver DEF s
    <3>. QED
      BY <3>1, <3>2
  <2>7. \A m \in loaded : m.key \in DOMAIN pool'.residents
    BY <2>2, ExpiredShape DEF PoolInv, TasksAreReserved, s
  <2>. QED
    BY <1>2, <2>4, <2>5, <2>6, <2>7, PoolNarrows
<1>4. CASE ~saved
  <2>1. pool' = pool
    BY <1>4 DEF Release
  <2>2. IsState(pool') /\ Narrows(pool, pool') /\ DOMAIN pool.claims \ DOMAIN pool'.claims = {}
    BY <2>1 DEF PoolInv, Narrows
  <2>3. \A m \in loaded : m.key \in DOMAIN pool'.residents
    BY <2>1 DEF PoolInv, TasksAreReserved
  <2>. QED
    BY <1>2, <2>2, <2>3, PoolNarrows
<1>. QED
  BY <1>3, <1>4

LEMMA CancelKeeps ==
  ASSUME PoolInv, NEW r \in DOMAIN pool.tickets, NEW saved \in BOOLEAN, CancelQueued(r, saved)
  PROVE  PoolInv'
<1> DEFINE s == Expired
<1>1. IsState(s) /\ Narrows(pool, s) /\ r \in DOMAIN s.tickets \ DOMAIN s.claims /\ r \in TicketIds
  BY ExpiredState DEF CancelQueued, IsState, PoolInv
<1>2. r \notin DOMAIN pool.claims
  BY <1>1, ExpiredShape DEF CancelQueued
<1>3. /\ history' \in [TicketIds -> {"none", "cancelled", "released"}] /\ history'[r] = "cancelled"
      /\ history[r] = "none" /\ \A o \in TicketIds \ {r} : history'[o] = history[o]
      /\ UNCHANGED <<now, task, loaded>>
  BY <1>1 DEF CancelQueued, PoolInv
<1>4. CASE saved
  <2>1. pool' = [s EXCEPT !.tickets = Without(s.tickets, {r})]
    BY <1>1, <1>4 DEF CancelQueued, IsState
  <2> HIDE DEF s
  <2>2. /\ DOMAIN pool' = {"tickets", "claims", "residents", "epoch", "sequence"}
        /\ pool'.claims = s.claims /\ pool'.residents = s.residents
        /\ pool'.epoch = s.epoch /\ pool'.sequence = s.sequence /\ pool'.tickets = Without(s.tickets, {r})
    BY <1>1, <2>1 DEF IsState
  <2>3. /\ DOMAIN pool'.tickets = DOMAIN s.tickets \ {r}
        /\ \A o \in DOMAIN s.tickets \ {r} : pool'.tickets[o] = s.tickets[o]
    BY <2>2 DEF Without, Restrict
  <2>4. IsState(pool')
    BY <1>1, <2>2, <2>3 DEF IsState
  <2>5. Narrows(pool, pool')
    <3>1. Narrows(s, pool')
      BY <2>2 DEF Narrows
    <3>. QED
      BY <1>1, <3>1, NarrowsChain
  <2>6. \A o \in DOMAIN pool.claims \ DOMAIN pool'.claims :
          task[o].phase \notin {"admitted", "using"} /\ history'[o] # "none"
    BY <1>2, <1>3, <2>2, DroppedIsOver DEF s
  <2>7. \A m \in loaded : m.key \in DOMAIN pool'.residents
    BY <2>2, ExpiredShape DEF PoolInv, TasksAreReserved, s
  <2>. QED
    BY <1>2, <1>3, <2>4, <2>5, <2>6, <2>7, PoolNarrows
<1>5. CASE ~saved
  <2>1. pool' = pool
    BY <1>5 DEF CancelQueued
  <2>2. IsState(pool') /\ Narrows(pool, pool') /\ DOMAIN pool.claims \ DOMAIN pool'.claims = {}
    BY <2>1 DEF PoolInv, Narrows
  <2>3. \A m \in loaded : m.key \in DOMAIN pool'.residents
    BY <2>1 DEF PoolInv, TasksAreReserved
  <2>. QED
    BY <1>2, <1>3, <2>2, <2>3, PoolNarrows
<1>. QED
  BY <1>4, <1>5

LEMMA EvictKeeps ==
  ASSUME PoolInv, NEW k \in DOMAIN pool.residents, Evict(k)
  PROVE  PoolInv'
<1> DEFINE s == Expired
<1>1. IsState(s) /\ Narrows(pool, s)
  BY ExpiredState
<1>2. pool' = [s EXCEPT !.residents = Without(s.residents, {k})] /\ UNCHANGED <<history, now, task, loaded>>
      /\ \A r \in DOMAIN s.claims : s.claims[r].key # k
  BY <1>1 DEF Evict, IsState
<1> HIDE DEF s
<1>3. /\ DOMAIN pool' = {"tickets", "claims", "residents", "epoch", "sequence"}
      /\ pool'.claims = s.claims /\ pool'.residents = Without(s.residents, {k})
      /\ pool'.epoch = s.epoch /\ pool'.sequence = s.sequence /\ pool'.tickets = s.tickets
  BY <1>1, <1>2 DEF IsState
<1>4. /\ DOMAIN pool'.residents = DOMAIN s.residents \ {k}
      /\ \A h \in DOMAIN s.residents \ {k} : pool'.residents[h] = s.residents[h]
  BY <1>3 DEF Without, Restrict
<1>5. IsFiniteSet(DOMAIN pool'.residents)
  BY <1>1, <1>4, FS_Subset DEF IsState
<1>6. IsState(pool')
  BY <1>1, <1>2, <1>3, <1>4, <1>5 DEF IsState
<1>7. Narrows(pool, pool')
  <2>1. Narrows(s, pool')
    BY <1>3, <1>4 DEF Narrows
  <2>. QED
    BY <1>1, <2>1, NarrowsChain
<1>8. \A o \in DOMAIN pool.claims \ DOMAIN pool'.claims :
        task[o].phase \notin {"admitted", "using"} /\ history'[o] # "none"
  BY <1>2, <1>3, DroppedIsOver DEF s
<1>9. \A m \in loaded : m.key \in DOMAIN pool'.residents
  BY <1>4, ExpiredShape DEF PoolInv, TasksAreReserved, s, Evict
<1>10. history' \in [TicketIds -> {"none", "cancelled", "released"}] /\ \A o \in TicketIds : history'[o] = history[o]
  BY <1>2 DEF PoolInv
<1>. QED
  BY <1>2, <1>6, <1>7, <1>8, <1>9, <1>10, PoolNarrows

----------------------------------------------------------------------------
(* The clock, the tasks and the model services.                            *)

LEMMA HostKeeps ==
  ASSUME PoolInv, UNCHANGED <<pool, history>>, now' \in Nat, task' \in [TicketIds -> TaskRecords],
         IsFiniteSet(loaded'), \A m \in loaded' : m \in [key: HostKeys, mb: Nat],
         \A m \in loaded' : m.key \in DOMAIN pool.residents /\ pool.residents[m.key].resident_mb = m.mb,
         \A r \in TicketIds :
           \/ task'[r] = task[r]
           \/ /\ task[r].phase \in {"admitted", "using"} /\ task'[r].phase \in {"using", "stopped"}
              /\ task'[r].key = task[r].key
  PROVE  PoolInv'
<1>1. IsState(pool') /\ StateFits(pool') /\ history' \in [TicketIds -> {"none", "cancelled", "released"}]
  BY DEF PoolInv
<1>2. TasksAreReserved'
  <2>1. \A r \in TicketIds : task'[r].phase \in {"admitted", "using"} =>
          r \in DOMAIN pool'.claims /\ pool'.claims[r].key = task'[r].key
    BY DEF PoolInv, TasksAreReserved
  <2>2. \A r \in TicketIds :
          /\ history'[r] = "cancelled" => r \notin DOMAIN pool'.claims /\ task'[r].phase = "none"
          /\ history'[r] = "released" => task'[r].phase = "stopped"
    BY DEF PoolInv, TasksAreReserved
  <2>. QED
    BY <2>1, <2>2 DEF TasksAreReserved
<1>3. \A r \in TicketIds : history'[r] = "none" /\ r \notin DOMAIN pool'.claims => task'[r].phase = "none"
  BY DEF PoolInv
<1>. QED
  BY <1>1, <1>2, <1>3 DEF PoolInv

LEMMA TaskTyped ==
  ASSUME PoolInv, NEW r \in TicketIds, task[r].phase # "none"
  PROVE  task[r] \in [phase: {"admitted", "using", "stopped"}, key: HostKeys]
BY DEF PoolInv, TaskRecords

LEMMA StartKeeps == ASSUME PoolInv, NEW r \in TicketIds, Start(r) PROVE PoolInv'
<1> DEFINE service == [key |-> task[r].key, mb |-> Ticket[r].resident_mb]
           record == [task[r] EXCEPT !.phase = "using"]
<1>1. task[r] \in [phase: {"admitted", "using", "stopped"}, key: HostKeys] /\ task[r].phase = "admitted"
  BY TaskTyped DEF Start
<1>2. record \in TaskRecords /\ record.phase = "using" /\ record.key = task[r].key
  BY <1>1 DEF TaskRecords
<1>3. service \in [key: HostKeys, mb: Nat]
  BY <1>1, TicketNumbers
<1>4. service.key \in DOMAIN pool.residents /\ pool.residents[service.key].resident_mb = service.mb
  BY <1>1 DEF PoolInv, TasksAreReserved, IsState
<1>5. task' = [task EXCEPT ![r] = record] /\ loaded' = loaded \cup {service} /\ UNCHANGED <<pool, history, now>>
  BY DEF Start
<1> HIDE DEF service, record
<1>6. task' \in [TicketIds -> TaskRecords] /\ now' \in Nat /\ IsFiniteSet(loaded')
  BY <1>2, <1>5, FS_AddElement DEF PoolInv
<1>7. \A m \in loaded' : /\ m \in [key: HostKeys, mb: Nat]
                         /\ m.key \in DOMAIN pool.residents /\ pool.residents[m.key].resident_mb = m.mb
  BY <1>3, <1>4, <1>5 DEF PoolInv, TasksAreReserved
<1>8. \A o \in TicketIds :
        \/ task'[o] = task[o]
        \/ /\ task[o].phase \in {"admitted", "using"} /\ task'[o].phase \in {"using", "stopped"}
           /\ task'[o].key = task[o].key
  BY <1>1, <1>2, <1>5 DEF PoolInv
<1>. QED
  BY <1>5, <1>6, <1>7, <1>8, HostKeeps

LEMMA TaskStopsKeeps == ASSUME PoolInv, NEW r \in TicketIds, TaskStops(r) PROVE PoolInv'
<1> DEFINE record == [task[r] EXCEPT !.phase = "stopped"]
<1>1. task[r] \in [phase: {"admitted", "using", "stopped"}, key: HostKeys] /\ task[r].phase \in {"admitted", "using"}
  BY TaskTyped DEF TaskStops
<1>2. record \in TaskRecords /\ record.phase = "stopped" /\ record.key = task[r].key
  BY <1>1 DEF TaskRecords
<1>3. task' = [task EXCEPT ![r] = record] /\ UNCHANGED <<pool, history, now, loaded>>
  BY DEF TaskStops
<1> HIDE DEF record
<1>4. task' \in [TicketIds -> TaskRecords] /\ now' \in Nat /\ IsFiniteSet(loaded')
  BY <1>2, <1>3 DEF PoolInv
<1>5. \A m \in loaded' : /\ m \in [key: HostKeys, mb: Nat]
                         /\ m.key \in DOMAIN pool.residents /\ pool.residents[m.key].resident_mb = m.mb
  BY <1>3 DEF PoolInv, TasksAreReserved
<1>6. \A o \in TicketIds :
        \/ task'[o] = task[o]
        \/ /\ task[o].phase \in {"admitted", "using"} /\ task'[o].phase \in {"using", "stopped"}
           /\ task'[o].key = task[o].key
  BY <1>1, <1>2, <1>3 DEF PoolInv
<1>. QED
  BY <1>3, <1>4, <1>5, <1>6, HostKeeps

LEMMA TickKeeps == ASSUME PoolInv, Tick PROVE PoolInv'
<1>1. now' \in Nat /\ UNCHANGED <<pool, history, task, loaded>>
  BY DEF Tick, PoolInv
<1>. QED
  BY <1>1, HostKeeps DEF PoolInv, TasksAreReserved

LEMMA ServiceStopsKeeps == ASSUME PoolInv, NEW m \in loaded, ServiceStops(m) PROVE PoolInv'
<1>1. loaded' \in SUBSET loaded /\ UNCHANGED <<pool, history, now, task>>
  BY DEF ServiceStops
<1>2. IsFiniteSet(loaded')
  BY <1>1, FS_Subset DEF PoolInv
<1>. QED
  BY <1>1, <1>2, HostKeeps DEF PoolInv, TasksAreReserved

----------------------------------------------------------------------------
(* Admission.                                                              *)

(* The device that _fit chooses. *)
LEMMA FitChosen ==
  ASSUME NEW s, NEW t, NEW observed, NEW choice, choice = Fit(s, t, observed),
         choice.verdict \notin {"queued", "MODEL_CHANGED"}
  PROVE  /\ choice.uuid \in Devices /\ choice.uuid \in t.eligible /\ choice.uuid \in DOMAIN observed
         /\ choice.verdict = Verdict(s, t, choice.uuid, observed[choice.uuid])
         /\ ~ModelChanged(s, t)
<1> DEFINE deciding == {i \in DOMAIN DeviceOrder :
                     /\ DeviceOrder[i] \in t.eligible \cap DOMAIN observed
                     /\ Verdict(s, t, DeviceOrder[i], observed[DeviceOrder[i]]) # "continue"}
           first == DeviceOrder[Min(deciding)]
<1>1. choice = IF ModelChanged(s, t) THEN [verdict |-> "MODEL_CHANGED"]
               ELSE IF deciding = {} THEN [verdict |-> "queued"]
               ELSE [verdict |-> Verdict(s, t, first, observed[first]), uuid |-> first]
  BY DEF Fit
<1> HIDE DEF deciding, first
<1>2. ~ModelChanged(s, t) /\ deciding # {}
        /\ choice = [verdict |-> Verdict(s, t, first, observed[first]), uuid |-> first]
  BY <1>1
<1>3. deciding \subseteq Nat
  BY PoolAssumption DEF deciding
<1>4. Min(deciding) \in deciding
  BY <1>2, <1>3, LeastNumber DEF Min
<1>5. first \in t.eligible /\ first \in DOMAIN observed /\ first \in Devices
  <2>1. first = DeviceOrder[Min(deciding)] /\ Min(deciding) \in DOMAIN DeviceOrder
        /\ first \in t.eligible \cap DOMAIN observed
    BY <1>4 DEF deciding, first
  <2>. QED
    BY <2>1 DEF Devices, Range
<1>. QED
  BY <1>2, <1>5

(* What an inventory shows of a device. *)
LEMMA InventoryShows ==
  ASSUME NEW observed \in Inventories, NEW d \in DOMAIN observed
  PROVE  /\ d \in Devices /\ observed[d].total_mb = Total[d]
         /\ observed[d].free_mb = Total[d] - Foreign[d] - ManagedUse(d)
         /\ observed[d].managed_used_mb \in {0, ManagedUse(d)}
<1>1. PICK shown \in SUBSET Devices : \E attributed \in SUBSET shown :
        observed = [e \in shown |->
          [total_mb |-> Total[e],
           free_mb |-> Total[e] - Foreign[e] - ManagedUse(e),
           managed_used_mb |-> IF e \in attributed THEN ManagedUse(e) ELSE 0]]
  BY DEF Inventories
<1>. QED
  BY <1>1

LEMMA ManagedUseTyped ==
  ASSUME PoolInv, NEW d
  PROVE  ManagedUse(d) \in Nat
<1> DEFINE mbs == [m \in loaded |-> m.mb]
           used == {m \in loaded : m.key.uuid = d}
           users == {r \in TicketIds : task[r].phase = "using" /\ task[r].key.uuid = d}
<1>1. IsFiniteSet(used) /\ IsFiniteSet(users)
  BY FS_Subset, PoolAssumption DEF PoolInv
<1>2. \A m \in used : mbs[m] \in Nat
  BY DEF PoolInv
<1>3. \A r \in users : WorkspaceMb[r] \in Nat
  BY TicketNumbers
<1>4. ManagedUse(d) = SumOver(mbs, used) + SumOver(WorkspaceMb, users)
  BY DEF ManagedUse
<1> HIDE DEF mbs, used, users
<1>5. SumOver(mbs, used) \in Nat
  BY <1>1, <1>2, SumTyped
<1>6. SumOver(WorkspaceMb, users) \in Nat
  BY <1>1, <1>3, SumTyped
<1>. QED
  BY <1>4, <1>5, <1>6

LEMMA FitsMeans ==
  ASSUME NEW s, NEW t, NEW d, NEW seen, Verdict(s, t, d, seen) = "fits"
  PROVE  /\ ~Closed(s, d) /\ ~SizeChanged(s, t, d) /\ ~Excluded(s, t, d)
         /\ ~(seen.managed_used_mb > Reserved(s, d)) /\ HasRoom(s, t, d, seen)
BY DEF Verdict

LEMMA LaterTyped == \A x, y \in Nat : Later(x, y) \in Nat
BY DEF Later

(* What a grant makes of the state file. *)
LEMMA GrantShape ==
  ASSUME NEW s, IsState(s), now \in Nat, NEW r \in DOMAIN s.tickets \ DOMAIN s.claims, NEW d \in Devices, NEW seen,
         ~SizeChanged(s, Ticket[r], d), NEW t, t = Granted(s, r, d, seen),
         NEW k, k = ResidentKey(d, Ticket[r])
  PROVE  /\ IsState(t) /\ k \in HostKeys /\ k.uuid = d
         /\ DOMAIN t.claims = DOMAIN s.claims \cup {r} /\ t.claims[r].uuid = d /\ t.claims[r].key = k
         /\ \A o \in DOMAIN s.claims : t.claims[o] = s.claims[o]
         /\ DOMAIN t.residents = DOMAIN s.residents \cup {k}
         /\ t.residents[k].resident_mb = Ticket[r].resident_mb
         /\ \A h \in DOMAIN s.residents : t.residents[h].resident_mb = s.residents[h].resident_mb
<1> DEFINE until == now + Ticket[r].lease_seconds
           host == Residence(s, Ticket[r], d, until)
           claim == [uuid |-> d, key |-> k, epoch |-> s.epoch + 1, resident_epoch |-> host.epoch,
                     state |-> "running", lease_until |-> until]
           passed == Contenders(s, r, d, seen)
<1>1. r \in TicketIds /\ until \in Nat /\ s.epoch + 1 \in Nat
  BY TicketNumbers DEF IsState
<1>2. k \in HostKeys /\ k.uuid = d
  BY <1>1 DEF HostKeys, ResidentKey
<1>3. host \in ResidentRecords /\ host.resident_mb = Ticket[r].resident_mb
  <2>1. CASE k \in DOMAIN s.residents
    <3>1. host = [s.residents[k] EXCEPT !.lease_until = Later(s.residents[k].lease_until, until)]
      BY <2>1 DEF Residence
    <3>2. s.residents[k] \in ResidentRecords /\ s.residents[k].resident_mb = Ticket[r].resident_mb
      BY <2>1 DEF IsState, SizeChanged
    <3>3. Later(s.residents[k].lease_until, until) \in Nat
      BY <1>1, <3>2, LaterTyped DEF ResidentRecords
    <3>. QED
      BY <3>1, <3>2, <3>3 DEF ResidentRecords
  <2>2. CASE k \notin DOMAIN s.residents
    <3>1. host = [resident_mb |-> Ticket[r].resident_mb, epoch |-> s.epoch + 1,
                  state |-> "resident", lease_until |-> until]
      BY <2>2 DEF Residence
    <3>. QED
      BY <1>1, <3>1, TicketNumbers DEF ResidentRecords
  <2>. QED
    BY <2>1, <2>2
<1>4. claim \in ClaimRecords /\ claim.uuid = d /\ claim.key = k
  BY <1>1, <1>2, <1>3 DEF ClaimRecords, ResidentRecords
<1>5. t = [tickets |-> [o \in DOMAIN s.tickets |->
                          [s.tickets[o] EXCEPT !.bypasses = IF o \in passed THEN @ + 1 ELSE @]],
           claims |-> With(s.claims, r, claim), residents |-> With(s.residents, k, host),
           epoch |-> s.epoch + 1, sequence |-> s.sequence]
  BY DEF Granted
<1> HIDE DEF claim, host, passed
<1>6. /\ DOMAIN t = {"tickets", "claims", "residents", "epoch", "sequence"}
      /\ t.tickets = [o \in DOMAIN s.tickets |->
                        [s.tickets[o] EXCEPT !.bypasses = IF o \in passed THEN @ + 1 ELSE @]]
      /\ t.claims = With(s.claims, r, claim) /\ t.residents = With(s.residents, k, host)
      /\ t.epoch = s.epoch + 1 /\ t.sequence = s.sequence
  BY <1>5
<1>7. /\ DOMAIN t.claims = DOMAIN s.claims \cup {r} /\ t.claims[r] = claim
      /\ \A o \in DOMAIN s.claims : t.claims[o] = s.claims[o]
  BY <1>6 DEF With
<1>8. /\ DOMAIN t.residents = DOMAIN s.residents \cup {k} /\ t.residents[k] = host
      /\ \A h \in DOMAIN s.residents \ {k} : t.residents[h] = s.residents[h]
  BY <1>6 DEF With
<1>9. \A h \in DOMAIN s.residents : t.residents[h].resident_mb = s.residents[h].resident_mb
  BY <1>3, <1>8 DEF SizeChanged
<1>10. DOMAIN t.tickets = DOMAIN s.tickets /\ \A o \in DOMAIN s.tickets : t.tickets[o] \in TicketRecords
  <2>1. \A o \in DOMAIN s.tickets : s.tickets[o] \in TicketRecords
    BY DEF IsState
  <2>. QED
    BY <1>6, <2>1 DEF TicketRecords
<1>11. IsFiniteSet(DOMAIN t.residents) /\ DOMAIN t.residents \subseteq HostKeys
       /\ \A h \in DOMAIN t.residents : t.residents[h] \in ResidentRecords
  BY <1>2, <1>3, <1>8, FS_AddElement DEF IsState
<1>12. \A o \in DOMAIN t.claims :
         /\ t.claims[o] \in ClaimRecords /\ t.claims[o].key = ResidentKey(t.claims[o].uuid, Ticket[o])
         /\ t.claims[o].key \in DOMAIN t.residents
         /\ t.residents[t.claims[o].key].resident_mb = Ticket[o].resident_mb
  <2> SUFFICES ASSUME NEW o \in DOMAIN t.claims
               PROVE  /\ t.claims[o] \in ClaimRecords /\ t.claims[o].key = ResidentKey(t.claims[o].uuid, Ticket[o])
                      /\ t.claims[o].key \in DOMAIN t.residents
                      /\ t.residents[t.claims[o].key].resident_mb = Ticket[o].resident_mb
    OBVIOUS
  <2>1. CASE o = r
    BY <1>3, <1>4, <1>7, <1>8, <2>1
  <2>2. CASE o # r
    BY <1>7, <1>8, <1>9, <2>2 DEF IsState
  <2>. QED
    BY <2>1, <2>2
<1>13. DOMAIN t.claims \subseteq DOMAIN t.tickets /\ DOMAIN t.tickets \subseteq TicketIds
       /\ t.epoch \in Nat /\ t.sequence \in Nat
  BY <1>1, <1>6, <1>7, <1>10 DEF IsState
<1>14. IsState(t)
  BY <1>6, <1>10, <1>11, <1>12, <1>13 DEF IsState
<1>. QED
  BY <1>2, <1>3, <1>4, <1>7, <1>8, <1>9, <1>14

(* The memory a grant promises in addition is what the ticket requires. *)
LEMMA GrantReserves ==
  ASSUME NEW s, IsState(s), now \in Nat, NEW r \in DOMAIN s.tickets \ DOMAIN s.claims, NEW d \in Devices, NEW seen,
         ~SizeChanged(s, Ticket[r], d), NEW t, t = Granted(s, r, d, seen), NEW k, k = ResidentKey(d, Ticket[r])
  PROVE  /\ ClaimsOn(t, d) = ClaimsOn(s, d) \cup {r} /\ r \notin ClaimsOn(s, d)
         /\ ResidentsOn(t, d) = ResidentsOn(s, d) \cup {k}
         /\ Reserved(t, d) = Reserved(s, d) + Required(s, Ticket[r], d)
         /\ \A e \in Devices \ {d} : /\ ClaimsOn(t, e) = ClaimsOn(s, e)
                                     /\ ResidentsOn(t, e) = ResidentsOn(s, e)
                                     /\ Reserved(t, e) = Reserved(s, e)
<1>1. /\ IsState(t) /\ k \in HostKeys /\ k.uuid = d
      /\ DOMAIN t.claims = DOMAIN s.claims \cup {r} /\ t.claims[r].uuid = d /\ t.claims[r].key = k
      /\ \A o \in DOMAIN s.claims : t.claims[o] = s.claims[o]
      /\ DOMAIN t.residents = DOMAIN s.residents \cup {k}
      /\ t.residents[k].resident_mb = Ticket[r].resident_mb
      /\ \A h \in DOMAIN s.residents : t.residents[h].resident_mb = s.residents[h].resident_mb
  BY GrantShape
<1>2. ClaimsOn(t, d) = ClaimsOn(s, d) \cup {r} /\ r \notin ClaimsOn(s, d)
      /\ ResidentsOn(t, d) = ResidentsOn(s, d) \cup {k}
  BY <1>1 DEF ClaimsOn, ResidentsOn
<1>3. \A e \in Devices \ {d} : ClaimsOn(t, e) = ClaimsOn(s, e) /\ ResidentsOn(t, e) = ResidentsOn(s, e)
  BY <1>1 DEF ClaimsOn, ResidentsOn
<1>4. \A e : /\ \A h \in ResidentsOn(s, e) : ResidentMb(s)[h] = ResidentMb(t)[h] /\ ResidentMb(s)[h] \in Int
             /\ IsFiniteSet(ResidentsOn(s, e)) /\ IsFiniteSet(ClaimsOn(s, e))
             /\ \A o \in ClaimsOn(s, e) : WorkspaceMb[o] \in Int
  <2> TAKE e
  <2>1. ResidentsOn(s, e) \subseteq DOMAIN s.residents /\ ClaimsOn(s, e) \subseteq TicketIds
        /\ IsFiniteSet(ResidentsOn(s, e)) /\ IsFiniteSet(ClaimsOn(s, e))
    BY StateFinite
  <2>2. \A h \in DOMAIN s.residents : ResidentMb(s)[h] = ResidentMb(t)[h] /\ ResidentMb(s)[h] \in Int
    BY <1>1 DEF ResidentMb, IsState, ResidentRecords
  <2>3. \A o \in TicketIds : WorkspaceMb[o] \in Int
    BY TicketNumbers
  <2>. QED
    BY <2>1, <2>2, <2>3
<1>5. ASSUME NEW e \in Devices \ {d} PROVE Reserved(t, e) = Reserved(s, e)
  <2>1. SumOver(ResidentMb(t), ResidentsOn(s, e)) = SumOver(ResidentMb(s), ResidentsOn(s, e))
    BY <1>4, SumAgrees
  <2>. QED
    BY <1>3, <2>1 DEF Reserved
<1>6. r \in TicketIds /\ WorkspaceMb[r] = Ticket[r].workspace_mb /\ Ticket[r].workspace_mb \in Nat
      /\ Ticket[r].resident_mb \in Nat
  BY TicketNumbers DEF IsState
<1>7. SumOver(WorkspaceMb, ClaimsOn(t, d)) = SumOver(WorkspaceMb, ClaimsOn(s, d)) + Ticket[r].workspace_mb
  <2>1. WorkspaceMb[r] \in Int
    BY <1>6
  <2>2. SumOver(WorkspaceMb, ClaimsOn(s, d) \cup {r}) = SumOver(WorkspaceMb, ClaimsOn(s, d)) + WorkspaceMb[r]
    BY <1>2, <1>4, <2>1, SumAdd
  <2>. QED
    BY <1>2, <1>6, <2>2
<1>8. SumOver(ResidentMb(t), ResidentsOn(t, d)) =
        SumOver(ResidentMb(s), ResidentsOn(s, d)) + IF k \in DOMAIN s.residents THEN 0 ELSE Ticket[r].resident_mb
  <2>1. CASE k \in DOMAIN s.residents
    <3>1. ResidentsOn(t, d) = ResidentsOn(s, d)
      BY <1>1, <1>2, <2>1 DEF ResidentsOn
    <3>2. SumOver(ResidentMb(t), ResidentsOn(s, d)) = SumOver(ResidentMb(s), ResidentsOn(s, d))
      BY <1>4, SumAgrees
    <3>3. SumOver(ResidentMb(s), ResidentsOn(s, d)) \in Nat
      BY ReservedTyped
    <3>. QED
      BY <2>1, <3>1, <3>2, <3>3
  <2>2. CASE k \notin DOMAIN s.residents
    <3>1. k \notin ResidentsOn(s, d) /\ ResidentMb(t)[k] = Ticket[r].resident_mb
      BY <1>1, <2>2 DEF ResidentsOn, ResidentMb
    <3>2. \A x \in ResidentsOn(s, d) : ResidentMb(s)[x] \in Int /\ ResidentMb(t)[x] = ResidentMb(s)[x]
      BY <1>4
    <3>3. IsFiniteSet(ResidentsOn(s, d)) /\ ResidentMb(t)[k] \in Int
      BY <1>4, <1>6, <3>1
    <3>4. SumOver(ResidentMb(t), ResidentsOn(s, d) \cup {k})
            = SumOver(ResidentMb(s), ResidentsOn(s, d)) + ResidentMb(t)[k]
      BY <3>1, <3>2, <3>3, SumGrows
    <3>. QED
      BY <1>2, <2>2, <3>1, <3>4
  <2>. QED
    BY <2>1, <2>2
<1>9. SumOver(WorkspaceMb, ClaimsOn(s, d)) \in Nat /\ SumOver(ResidentMb(s), ResidentsOn(s, d)) \in Nat
  BY ReservedTyped
<1>10. Reserved(t, d) = Reserved(s, d) + Required(s, Ticket[r], d)
  BY <1>6, <1>7, <1>8, <1>9 DEF Reserved, Required
<1>. QED
  BY <1>2, <1>3, <1>5, <1>10

(* A grant fits when _fit says so: what it promises was free and unpromised. *)
LEMMA GrantFits ==
  ASSUME PoolInv, NEW s, s = Expired, NEW r \in DOMAIN s.tickets \ DOMAIN s.claims,
         NEW observed \in Inventories, NEW d \in DOMAIN observed,
         Verdict(s, Ticket[r], d, observed[d]) = "fits",
         NEW t, t = Granted(s, r, d, observed[d])
  PROVE  IsState(t) /\ StateFits(t)
<1> DEFINE seen == observed[d]
           k == ResidentKey(d, Ticket[r])
<1>1. IsState(s) /\ StateFits(s) /\ now \in Nat
  BY ExpiredState DEF PoolInv
<1>2. /\ d \in Devices /\ seen.total_mb = Total[d]
      /\ seen.free_mb = Total[d] - Foreign[d] - ManagedUse(d)
      /\ seen.managed_used_mb \in {0, ManagedUse(d)} /\ ManagedUse(d) \in Nat
  BY InventoryShows, ManagedUseTyped
<1>3. /\ ~Closed(s, d) /\ ~SizeChanged(s, Ticket[r], d) /\ ~Excluded(s, Ticket[r], d)
      /\ ~(seen.managed_used_mb > Reserved(s, d)) /\ HasRoom(s, Ticket[r], d, seen)
  BY FitsMeans
<1> HIDE DEF seen, k
<1>4. IsState(t) /\ DOMAIN t.residents = DOMAIN s.residents \cup {k} /\ k.uuid = d
      /\ DOMAIN t.claims = DOMAIN s.claims \cup {r} /\ t.claims[r].key = k
      /\ \A o \in DOMAIN s.claims : t.claims[o] = s.claims[o]
  BY <1>1, <1>2, <1>3, GrantShape DEF seen, k
<1>5. /\ ClaimsOn(t, d) = ClaimsOn(s, d) \cup {r} /\ r \notin ClaimsOn(s, d)
      /\ ResidentsOn(t, d) = ResidentsOn(s, d) \cup {k}
      /\ Reserved(t, d) = Reserved(s, d) + Required(s, Ticket[r], d)
      /\ \A e \in Devices \ {d} : /\ ClaimsOn(t, e) = ClaimsOn(s, e)
                                  /\ ResidentsOn(t, e) = ResidentsOn(s, e)
                                  /\ Reserved(t, e) = Reserved(s, e)
  BY <1>1, <1>2, <1>3, GrantReserves DEF seen, k
<1>6. /\ Reserved(s, d) \in Nat /\ Required(s, Ticket[r], d) \in Nat
      /\ Vram[d] \in Nat /\ Foreign[d] \in Nat /\ Total[d] \in Nat /\ Slots[d] \in Nat /\ MaxResidentModels \in Nat
  <2>1. r \in TicketIds
    BY <1>1 DEF IsState
  <2>2. Required(s, Ticket[r], d) \in Nat
    BY <2>1, TicketNumbers DEF Required
  <2>. QED
    BY <1>1, <1>2, <2>2, ReservedTyped, PoolAssumption
<1>7. Reserved(t, d) <= Vram[d] /\ Reserved(t, d) + Foreign[d] <= Total[d]
  BY <1>2, <1>3, <1>5, <1>6 DEF HasRoom, Outstanding
<1>8. Cardinality(DOMAIN t.residents) <= MaxResidentModels
  <2>1. CASE k \in DOMAIN s.residents
    <3>1. DOMAIN t.residents = DOMAIN s.residents
      BY <1>4, <2>1
    <3>. QED
      BY <1>1, <3>1 DEF StateFits
  <2>2. CASE k \notin DOMAIN s.residents
    <3>1. ~(Cardinality(DOMAIN s.residents) >= MaxResidentModels)
      BY <1>3, <2>2 DEF Excluded, k
    <3>2. Cardinality(DOMAIN s.residents) \in Nat
          /\ Cardinality(DOMAIN s.residents \cup {k}) = Cardinality(DOMAIN s.residents) + 1
      BY <1>1, <2>2, FS_AddElement, FS_CardinalityType DEF IsState
    <3>. QED
      BY <1>4, <1>6, <3>1, <3>2
  <2>. QED
    BY <2>1, <2>2
<1>9. Cardinality(ClaimsOn(t, d)) <= Slots[d]
  <2>1. ~(Cardinality(ClaimsOn(s, d)) >= Slots[d])
    BY <1>3 DEF Closed
  <2>2. Cardinality(ClaimsOn(s, d)) \in Nat
        /\ Cardinality(ClaimsOn(s, d) \cup {r}) = Cardinality(ClaimsOn(s, d)) + 1
    BY <1>1, <1>5, StateFinite, FS_AddElement, FS_CardinalityType
  <2>. QED
    BY <1>5, <1>6, <2>1, <2>2
<1>10. ASSUME NEW o \in ClaimsOn(t, d), Ticket[o].mode = "exclusive"
       PROVE  ClaimsOn(t, d) = {o} /\ ResidentsOn(t, d) = {t.claims[o].key}
  <2>1. o = r
    BY <1>3, <1>5, <1>10 DEF Closed
  <2>2. ClaimsOn(s, d) = {} /\ ResidentsOn(s, d) \ {k} = {}
    BY <1>3, <1>10, <2>1 DEF Excluded, k
  <2>. QED
    BY <1>4, <1>5, <2>1, <2>2
<1>11. ASSUME NEW e \in Devices \ {d}
       PROVE  /\ Reserved(t, e) <= Vram[e] /\ Reserved(t, e) + Foreign[e] <= Total[e]
              /\ Cardinality(ClaimsOn(t, e)) <= Slots[e]
              /\ \A o \in ClaimsOn(t, e) : Ticket[o].mode = "exclusive" =>
                   ClaimsOn(t, e) = {o} /\ ResidentsOn(t, e) = {t.claims[o].key}
  <2>1. \A o \in ClaimsOn(s, e) : t.claims[o] = s.claims[o]
    BY <1>4 DEF ClaimsOn
  <2>. QED
    BY <1>1, <1>5, <2>1 DEF StateFits
<1>12. \A e \in Devices :
         /\ Reserved(t, e) <= Vram[e] /\ Reserved(t, e) + Foreign[e] <= Total[e]
         /\ Cardinality(ClaimsOn(t, e)) <= Slots[e]
         /\ \A o \in ClaimsOn(t, e) : Ticket[o].mode = "exclusive" =>
              ClaimsOn(t, e) = {o} /\ ResidentsOn(t, e) = {t.claims[o].key}
  <2> SUFFICES ASSUME NEW e \in Devices
               PROVE  /\ Reserved(t, e) <= Vram[e] /\ Reserved(t, e) + Foreign[e] <= Total[e]
                      /\ Cardinality(ClaimsOn(t, e)) <= Slots[e]
                      /\ \A o \in ClaimsOn(t, e) : Ticket[o].mode = "exclusive" =>
                           ClaimsOn(t, e) = {o} /\ ResidentsOn(t, e) = {t.claims[o].key}
    OBVIOUS
  <2>1. CASE e = d
    BY <1>7, <1>9, <1>10, <2>1
  <2>2. CASE e # d
    BY <1>11, <2>2
  <2>. QED
    BY <2>1, <2>2
<1>. QED
  BY <1>4, <1>8, <1>12 DEF StateFits

(* The step of admit: a claim is granted where _fit put the ticket. *)
LEMMA AdmitChoice ==
  ASSUME PoolInv, NEW r \in TicketIds, Admit(r)
  PROVE  \E observed \in Inventories : \E d \in DOMAIN observed :
           /\ Verdict(Expired, Ticket[r], d, observed[d]) = "fits" /\ d \in Devices /\ d \in Ticket[r].eligible
           /\ ~ModelChanged(Expired, Ticket[r])
           /\ Fair(Expired, r, d, observed[d])
           /\ r \in DOMAIN Expired.tickets \ DOMAIN Expired.claims
           /\ pool' = Granted(Expired, r, d, observed[d])
           /\ task' = [task EXCEPT ![r] = [phase |-> "admitted", key |-> ResidentKey(d, Ticket[r])]]
           /\ UNCHANGED <<history, now, loaded>>
<1> DEFINE choice(observed) == Fit(Expired, Ticket[r], observed)
<1>1. PICK observed \in Inventories :
        /\ choice(observed).verdict = "fits"
        /\ Fair(Expired, r, choice(observed).uuid, observed[choice(observed).uuid])
        /\ pool' = Granted(Expired, r, choice(observed).uuid, observed[choice(observed).uuid])
        /\ task' = [task EXCEPT ![r] =
                      [phase |-> "admitted", key |-> ResidentKey(choice(observed).uuid, Ticket[r])]]
        /\ UNCHANGED <<history, now, loaded>>
  BY DEF Admit
<1>2. r \in DOMAIN pool.tickets \ DOMAIN pool.claims /\ history[r] = "none"
  BY DEF Admit
<1>3. r \in DOMAIN Expired.tickets \ DOMAIN Expired.claims
  BY <1>2, ExpiredShape
<1>4. PICK d : d = choice(observed).uuid
  OBVIOUS
<1>5. /\ d \in Devices /\ d \in Ticket[r].eligible /\ d \in DOMAIN observed
      /\ choice(observed).verdict = Verdict(Expired, Ticket[r], d, observed[d])
      /\ ~ModelChanged(Expired, Ticket[r])
  BY <1>1, <1>4, FitChosen
<1>. QED
  BY <1>1, <1>3, <1>4, <1>5

LEMMA AdmitKeeps ==
  ASSUME PoolInv, NEW r \in TicketIds, Admit(r)
  PROVE  PoolInv'
<1>1. PICK observed \in Inventories : \E d \in DOMAIN observed :
        /\ Verdict(Expired, Ticket[r], d, observed[d]) = "fits" /\ d \in Devices /\ d \in Ticket[r].eligible
        /\ r \in DOMAIN Expired.tickets \ DOMAIN Expired.claims
        /\ pool' = Granted(Expired, r, d, observed[d])
        /\ task' = [task EXCEPT ![r] = [phase |-> "admitted", key |-> ResidentKey(d, Ticket[r])]]
        /\ UNCHANGED <<history, now, loaded>>
  BY AdmitChoice
<1>2. PICK d \in DOMAIN observed :
        /\ Verdict(Expired, Ticket[r], d, observed[d]) = "fits" /\ d \in Devices /\ d \in Ticket[r].eligible
        /\ r \in DOMAIN Expired.tickets \ DOMAIN Expired.claims
        /\ pool' = Granted(Expired, r, d, observed[d])
        /\ task' = [task EXCEPT ![r] = [phase |-> "admitted", key |-> ResidentKey(d, Ticket[r])]]
        /\ UNCHANGED <<history, now, loaded>>
  BY <1>1
<1> DEFINE s == Expired
           k == ResidentKey(d, Ticket[r])
           record == [phase |-> "admitted", key |-> k]
<1>3. IsState(s) /\ Narrows(pool, s) /\ now \in Nat /\ DOMAIN s.residents = DOMAIN pool.residents
  BY ExpiredState, ExpiredShape DEF PoolInv
<1>4. IsState(pool') /\ StateFits(pool')
  BY <1>2, GrantFits
<1>5. ~SizeChanged(s, Ticket[r], d)
  BY <1>2, FitsMeans
<1>6. /\ k \in HostKeys /\ DOMAIN pool'.claims = DOMAIN s.claims \cup {r} /\ pool'.claims[r].key = k
      /\ \A o \in DOMAIN s.claims : pool'.claims[o] = s.claims[o]
      /\ DOMAIN pool'.residents = DOMAIN s.residents \cup {k}
      /\ \A h \in DOMAIN s.residents : pool'.residents[h].resident_mb = s.residents[h].resident_mb
  BY <1>2, <1>3, <1>5, GrantShape
<1>7. history[r] = "none" /\ DOMAIN s.claims = {o \in DOMAIN pool.claims : history[o] = "none"}
  BY <1>2, ExpiredShape
<1>8. record \in TaskRecords /\ record.phase = "admitted" /\ record.key = k
  BY <1>6 DEF TaskRecords
<1> HIDE DEF s, k, record
<1>9. task'[r] = record /\ task' \in [TicketIds -> TaskRecords]
      /\ \A o \in TicketIds \ {r} : task'[o] = task[o]
  BY <1>2, <1>8 DEF PoolInv, record, k
<1>10. ASSUME NEW o \in TicketIds, task'[o].phase \in {"admitted", "using"}
       PROVE  o \in DOMAIN pool'.claims /\ pool'.claims[o].key = task'[o].key
  <2>1. CASE o = r
    BY <1>6, <1>8, <1>9, <2>1
  <2>2. CASE o # r
    <3>1. o \in DOMAIN pool.claims /\ pool.claims[o].key = task[o].key
      BY <1>9, <1>10, <2>2 DEF PoolInv, TasksAreReserved
    <3>2. o \in DOMAIN s.claims
      BY <1>9, <1>10, <2>2, <3>1, DroppedIsOver DEF s
    <3>. QED
      BY <1>3, <1>6, <1>9, <2>2, <3>1, <3>2 DEF Narrows
  <2>. QED
    BY <2>1, <2>2
<1>11. \A m \in loaded' : m.key \in DOMAIN pool'.residents /\ pool'.residents[m.key].resident_mb = m.mb
  BY <1>2, <1>3, <1>6 DEF PoolInv, TasksAreReserved, Narrows
<1>12. ASSUME NEW o \in TicketIds
       PROVE  /\ history'[o] = "cancelled" => o \notin DOMAIN pool'.claims /\ task'[o].phase = "none"
              /\ history'[o] = "released" => task'[o].phase = "stopped"
              /\ history'[o] = "none" /\ o \notin DOMAIN pool'.claims => task'[o].phase = "none"
  BY <1>2, <1>6, <1>7, <1>9 DEF PoolInv, TasksAreReserved
<1>13. TasksAreReserved'
  BY <1>10, <1>11, <1>12 DEF TasksAreReserved
<1>. QED
  BY <1>2, <1>4, <1>9, <1>12, <1>13 DEF PoolInv

----------------------------------------------------------------------------
(* The theorems.                                                           *)

LEMMA PoolStarts == PoolInit => PoolInv
<1> SUFFICES ASSUME PoolInit PROVE PoolInv
  OBVIOUS
<1>1. /\ DOMAIN pool = {"tickets", "claims", "residents", "epoch", "sequence"}
      /\ pool.epoch = 0 /\ pool.sequence = 0
      /\ DOMAIN pool.tickets = {} /\ DOMAIN pool.claims = {} /\ DOMAIN pool.residents = {}
  BY DEF PoolInit
<1>2. IsState(pool)
  BY <1>1, FS_EmptySet DEF IsState
<1>3. Cardinality(DOMAIN pool.residents) <= MaxResidentModels
  BY <1>1, FS_EmptySet, PoolAssumption
<1>4. ASSUME NEW d \in Devices
      PROVE  /\ Reserved(pool, d) = 0 /\ ClaimsOn(pool, d) = {} /\ Cardinality(ClaimsOn(pool, d)) = 0
  <2>1. ClaimsOn(pool, d) = {} /\ ResidentsOn(pool, d) = {}
    BY <1>1 DEF ClaimsOn, ResidentsOn
  <2>. QED
    BY <2>1, SumEmpty, FS_EmptySet DEF Reserved
<1>5. StateFits(pool)
  BY <1>3, <1>4, PoolAssumption DEF StateFits
<1>6. [phase |-> "none"] \in TaskRecords
  BY DEF TaskRecords
<1>7. now \in Nat /\ history \in [TicketIds -> {"none", "cancelled", "released"}]
      /\ task \in [TicketIds -> TaskRecords] /\ IsFiniteSet(loaded) /\ loaded = {}
      /\ \A r \in TicketIds : task[r].phase = "none" /\ history[r] = "none"
  BY <1>6, FS_EmptySet DEF PoolInit
<1>8. TasksAreReserved
  BY <1>7 DEF TasksAreReserved
<1>. QED
  BY <1>2, <1>5, <1>7, <1>8 DEF PoolInv

LEMMA PoolStep == PoolInv /\ [PoolNext]_poolVars => PoolInv'
<1> SUFFICES ASSUME PoolInv, [PoolNext]_poolVars PROVE PoolInv'
  OBVIOUS
<1>1. CASE Inspect \/ Tick
  BY <1>1, InspectKeeps, TickKeeps
<1>2. CASE \E r \in TicketIds : Enqueue(r) \/ Admit(r) \/ Start(r) \/ TaskStops(r)
  BY <1>2, EnqueueKeeps, AdmitKeeps, StartKeeps, TaskStopsKeeps
<1>3. CASE \E r \in DOMAIN pool.claims, seconds \in 1..MaxLease : Renew(r, seconds)
  BY <1>3, RenewKeeps
<1>4. CASE \E r \in DOMAIN pool.claims, saved \in BOOLEAN : Release(r, saved)
  BY <1>4, ReleaseKeeps
<1>5. CASE \E r \in DOMAIN pool.tickets, saved \in BOOLEAN : CancelQueued(r, saved)
  BY <1>5, CancelKeeps
<1>6. CASE \E k \in DOMAIN pool.residents : Evict(k)
  BY <1>6, EvictKeeps
<1>7. CASE \E k \in DOMAIN pool.residents, seconds \in 1..MaxLease : RenewResident(k, seconds)
  BY <1>7, RenewResidentKeeps
<1>8. CASE \E m \in loaded : ServiceStops(m)
  BY <1>8, ServiceStopsKeeps
<1>9. CASE UNCHANGED poolVars
  BY <1>9, HostKeeps DEF poolVars, PoolInv, TasksAreReserved
<1>. QED
  BY <1>1, <1>2, <1>3, <1>4, <1>5, <1>6, <1>7, <1>8, <1>9 DEF PoolNext

LEMMA PoolReached == PoolSpec => []PoolInv
BY PoolStarts, PoolStep, PTL DEF PoolSpec

(***************************************************************************)
(* Whatever runs or may still start on the host has its place in the state  *)
(* file, whichever leases have run out and wherever an operation died.      *)
(***************************************************************************)
THEOREM TasksKeepTheirPlace == PoolSpec => []TasksAreReserved
<1>1. PoolInv => TasksAreReserved
  BY DEF PoolInv
<1>. QED
  BY <1>1, PoolReached, PTL

(***************************************************************************)
(* A device is never promised beyond its memory or its slots, nor next to   *)
(* an exclusive claim, whatever the inventories showed.                     *)
(***************************************************************************)
THEOREM PromisesFit == PoolSpec => []ReservationsFit
<1>1. PoolInv => ReservationsFit
  BY DEF PoolInv, StateFits, ReservationsFit
<1>. QED
  BY <1>1, PoolReached, PTL

(* Claims come by admission only. *)
LEMMA ClaimsAreAdmitted ==
  ASSUME PoolInv, PoolNext, NEW r \in DOMAIN pool'.claims \ DOMAIN pool.claims
  PROVE  Admit(r)
<1>1. IsState(pool) /\ IsState(Expired) /\ DOMAIN Expired.claims \subseteq DOMAIN pool.claims
  BY ExpiredState DEF PoolInv, Narrows
<1> DEFINE s == Expired
<1>2. ASSUME Inspect \/ Tick \/ (\E q \in TicketIds : Start(q) \/ TaskStops(q)) \/ (\E m \in loaded : ServiceStops(m))
      PROVE  FALSE
  BY <1>1, <1>2 DEF Inspect, Tick, Start, TaskStops, ServiceStops
<1>3. ASSUME NEW q \in TicketIds, Enqueue(q) PROVE FALSE
  BY <1>1, <1>3 DEF Enqueue, IsState
<1>4. ASSUME NEW q \in DOMAIN pool.claims, NEW seconds \in 1..MaxLease, Renew(q, seconds) PROVE FALSE
  <2>1. DOMAIN pool'.claims = DOMAIN s.claims
    BY <1>1, <1>4 DEF Renew, IsState
  <2>. QED
    BY <1>1, <2>1
<1>5. ASSUME NEW q \in DOMAIN pool.claims, NEW saved \in BOOLEAN, Release(q, saved) PROVE FALSE
  <2>1. CASE saved
    <3>1. pool' = [s EXCEPT !.claims = Without(s.claims, {q}), !.tickets = Without(s.tickets, {q})]
      BY <1>1, <1>5, <2>1 DEF Release, IsState
    <3>2. pool'.claims = Without(s.claims, {q})
      BY <1>1, <3>1 DEF IsState
    <3>. QED
      BY <1>1, <3>2 DEF Without, Restrict
  <2>2. CASE ~saved
    BY <1>5, <2>2 DEF Release
  <2>. QED
    BY <2>1, <2>2
<1>6. ASSUME NEW q \in DOMAIN pool.tickets, NEW saved \in BOOLEAN, CancelQueued(q, saved) PROVE FALSE
  <2>1. pool'.claims = s.claims \/ pool' = pool
    BY <1>1, <1>6 DEF CancelQueued, IsState
  <2>. QED
    BY <1>1, <2>1
<1>7. ASSUME NEW k \in DOMAIN pool.residents, Evict(k) PROVE FALSE
  <2>1. pool'.claims = s.claims
    BY <1>1, <1>7 DEF Evict, IsState
  <2>. QED
    BY <1>1, <2>1
<1>8. ASSUME NEW k \in DOMAIN pool.residents, NEW seconds \in 1..MaxLease, RenewResident(k, seconds) PROVE FALSE
  <2>1. pool'.claims = s.claims
    BY <1>1, <1>8 DEF RenewResident, IsState
  <2>. QED
    BY <1>1, <2>1
<1>9. ASSUME NEW q \in TicketIds, Admit(q) PROVE q = r
  <2>1. PICK observed \in Inventories : \E d \in DOMAIN observed :
          /\ Verdict(Expired, Ticket[q], d, observed[d]) = "fits" /\ d \in Devices
          /\ q \in DOMAIN Expired.tickets \ DOMAIN Expired.claims
          /\ pool' = Granted(Expired, q, d, observed[d])
    BY <1>9, AdmitChoice
  <2>2. PICK d \in DOMAIN observed :
          /\ Verdict(Expired, Ticket[q], d, observed[d]) = "fits" /\ d \in Devices
          /\ q \in DOMAIN Expired.tickets \ DOMAIN Expired.claims
          /\ pool' = Granted(Expired, q, d, observed[d])
    BY <2>1
  <2>3. ~SizeChanged(Expired, Ticket[q], d) /\ now \in Nat
    BY <2>2, FitsMeans DEF PoolInv
  <2>4. DOMAIN pool'.claims = DOMAIN Expired.claims \cup {q}
    BY <1>1, <2>2, <2>3, GrantShape
  <2>. QED
    BY <1>1, <2>4
<1>. QED
  BY <1>2, <1>3, <1>4, <1>5, <1>6, <1>7, <1>8, <1>9 DEF PoolNext

(* What the admission of r says of the device it came to. *)
LEMMA AdmittedTo ==
  ASSUME PoolInv, PoolNext, NEW r \in DOMAIN pool'.claims \ DOMAIN pool.claims
  PROVE  \E seen :
           /\ r \in DOMAIN Expired.tickets \ DOMAIN Expired.claims /\ r \in TicketIds
           /\ ~Closed(Expired, pool'.claims[r].uuid)
           /\ Fair(Expired, r, pool'.claims[r].uuid, seen)
           /\ pool' = Granted(Expired, r, pool'.claims[r].uuid, seen)
<1>1. Admit(r) /\ r \in TicketIds
  <2>1. Admit(r)
    BY ClaimsAreAdmitted
  <2>. QED
    BY <2>1 DEF Admit, PoolInv, IsState
<1>2. PICK observed \in Inventories : \E d \in DOMAIN observed :
        /\ Verdict(Expired, Ticket[r], d, observed[d]) = "fits" /\ d \in Devices
        /\ Fair(Expired, r, d, observed[d])
        /\ r \in DOMAIN Expired.tickets \ DOMAIN Expired.claims
        /\ pool' = Granted(Expired, r, d, observed[d])
  BY <1>1, AdmitChoice
<1>3. PICK d \in DOMAIN observed :
        /\ Verdict(Expired, Ticket[r], d, observed[d]) = "fits" /\ d \in Devices
        /\ Fair(Expired, r, d, observed[d])
        /\ r \in DOMAIN Expired.tickets \ DOMAIN Expired.claims
        /\ pool' = Granted(Expired, r, d, observed[d])
  BY <1>2
<1>4. ~SizeChanged(Expired, Ticket[r], d) /\ ~Closed(Expired, d) /\ now \in Nat
  BY <1>3, FitsMeans DEF PoolInv
<1>5. pool'.claims[r].uuid = d
  BY <1>3, <1>4, ExpiredState, GrantShape
<1>. QED
  BY <1>1, <1>3, <1>4, <1>5

(***************************************************************************)
(* Nothing is admitted to a device on which a lease has run out.            *)
(***************************************************************************)
THEOREM LapsedStaysClosed == PoolSpec => LapsedDeviceStaysClosed
<1>1. ASSUME PoolInv, PoolNext, NEW r \in DOMAIN pool'.claims \ DOMAIN pool.claims
      PROVE  LET d == pool'.claims[r].uuid
             IN /\ \A q \in ClaimsOn(pool, d) : history[q] = "none" => pool.claims[q].lease_until > now
                /\ \A k \in ResidentsOn(pool, d) : pool.residents[k].lease_until > now
  <2>1. PICK d : d = pool'.claims[r].uuid
    OBVIOUS
  <2>2. ~Closed(Expired, d)
    BY <1>1, <2>1, AdmittedTo
  <2>3. ASSUME NEW q \in ClaimsOn(pool, d), history[q] = "none" PROVE pool.claims[q].lease_until > now
    <3>1. q \in DOMAIN pool.claims /\ pool.claims[q].uuid = d /\ pool.claims[q] \in ClaimRecords
      BY <1>1 DEF ClaimsOn, PoolInv, IsState
    <3>2. q \in DOMAIN Expired.claims /\ Expired.claims[q] = Lapse(pool.claims[q], "running")
      BY <1>1, <2>3, <3>1, ExpiredShape
    <3>3. q \in ClaimsOn(Expired, d)
      BY <3>1, <3>2, LapseKeeps DEF ClaimsOn
    <3>4. Expired.claims[q].state # "unknown"
      BY <2>2, <3>3 DEF Closed
    <3>5. ~(pool.claims[q].state = "running" /\ pool.claims[q].lease_until <= now)
          /\ pool.claims[q].state = "running"
      BY <3>1, <3>2, <3>4 DEF Lapse, ClaimRecords
    <3>. QED
      BY <1>1, <3>1, <3>5 DEF ClaimRecords, PoolInv
  <2>4. ASSUME NEW k \in ResidentsOn(pool, d) PROVE pool.residents[k].lease_until > now
    <3>1. k \in DOMAIN pool.residents /\ k.uuid = d /\ pool.residents[k] \in ResidentRecords
      BY <1>1 DEF ResidentsOn, PoolInv, IsState
    <3>2. k \in ResidentsOn(Expired, d) /\ Expired.residents[k] = Lapse(pool.residents[k], "resident")
      BY <1>1, <3>1, ExpiredShape DEF ResidentsOn
    <3>3. Expired.residents[k].state # "unknown"
      BY <2>2, <3>2 DEF Closed
    <3>4. ~(pool.residents[k].state = "resident" /\ pool.residents[k].lease_until <= now)
          /\ pool.residents[k].state = "resident"
      BY <3>1, <3>2, <3>3 DEF Lapse, ResidentRecords
    <3>. QED
      BY <1>1, <3>1, <3>4 DEF ResidentRecords, PoolInv
  <2>. QED
    BY <2>1, <2>3, <2>4
<1> DEFINE Closes == \A r \in DOMAIN pool'.claims \ DOMAIN pool.claims :
             LET d == pool'.claims[r].uuid
             IN /\ \A q \in ClaimsOn(pool, d) : history[q] = "none" => pool.claims[q].lease_until > now
                /\ \A k \in ResidentsOn(pool, d) : pool.residents[k].lease_until > now
<1>2. PoolInv /\ [PoolNext]_poolVars => [Closes]_poolVars
  BY <1>1
<1>. QED
  BY <1>2, PoolReached, PTL DEF PoolSpec, LapsedDeviceStaysClosed

(***************************************************************************)
(* A claim that passes an older ticket on a device is counted against it,   *)
(* and none passes one that has been passed max_bypasses times.             *)
(***************************************************************************)
THEOREM OvertakingCounted == PoolSpec => OvertakingIsCounted
<1>1. ASSUME PoolInv, PoolNext, NEW r \in DOMAIN pool'.claims \ DOMAIN pool.claims,
             NEW d, d = pool'.claims[r].uuid, NEW o \in Older(pool, r, d), history[o] = "none",
             ~ModelChanged(pool, Ticket[o]), ~SizeChanged(pool, Ticket[o], d)
      PROVE  /\ pool.tickets[o].bypasses < MaxBypasses
             /\ pool'.tickets[o].bypasses = pool.tickets[o].bypasses + 1
  <2>1. PICK seen :
          /\ r \in DOMAIN Expired.tickets \ DOMAIN Expired.claims
          /\ Fair(Expired, r, d, seen)
          /\ pool' = Granted(Expired, r, d, seen)
    BY <1>1, AdmittedTo
  <2>2. /\ o \in DOMAIN pool.tickets /\ o \notin DOMAIN pool.claims /\ d \in Ticket[o].eligible
        /\ pool.tickets[o].order < pool.tickets[r].order
    BY <1>1 DEF Older
  <2>3. /\ o \in DOMAIN Expired.tickets /\ o \notin DOMAIN Expired.claims
        /\ Expired.tickets[o] = pool.tickets[o] /\ Expired.tickets[r] = pool.tickets[r]
        /\ DOMAIN Expired.residents = DOMAIN pool.residents
        /\ \A k \in DOMAIN pool.residents : Expired.residents[k].resident_mb = pool.residents[k].resident_mb
    BY <1>1, <2>1, <2>2, ExpiredShape, ExpiredState DEF Narrows
  <2>4. o \in Older(Expired, r, d)
    BY <2>2, <2>3 DEF Older
  <2>5. ~ModelChanged(Expired, Ticket[o]) /\ ~SizeChanged(Expired, Ticket[o], d)
    BY <1>1, <2>3 DEF ModelChanged, SizeChanged
  <2>6. Fit(Expired, Ticket[o], [x \in {d} |-> seen]).verdict # "MODEL_CHANGED"
    <3> DEFINE observed == [x \in {d} |-> seen]
               t == Ticket[o]
               deciding == {i \in DOMAIN DeviceOrder :
                              /\ DeviceOrder[i] \in t.eligible \cap DOMAIN observed
                              /\ Verdict(Expired, t, DeviceOrder[i], observed[DeviceOrder[i]]) # "continue"}
               first == DeviceOrder[Min(deciding)]
    <3>1. Fit(Expired, t, observed) =
            IF deciding = {} THEN [verdict |-> "queued"]
            ELSE [verdict |-> Verdict(Expired, t, first, observed[first]), uuid |-> first]
      BY <2>5 DEF Fit
    <3>2. deciding # {} => first = d
      <4>1. deciding \subseteq Nat
        BY PoolAssumption
      <4>2. deciding # {} => Min(deciding) \in deciding
        <5> HIDE DEF deciding
        <5>. QED
          BY <4>1, LeastNumber DEF Min
      <4>. QED
        BY <4>2
    <3>3. Verdict(Expired, t, d, seen) # "MODEL_CHANGED"
      BY <2>5 DEF Verdict
    <3>4. observed[d] = seen
      OBVIOUS
    <3> HIDE DEF deciding, first, observed, t
    <3>5. Fit(Expired, t, observed).verdict # "MODEL_CHANGED"
      BY <3>1, <3>2, <3>3, <3>4
    <3>. QED
      BY <3>5 DEF t, observed
  <2>7. o \in Contenders(Expired, r, d, seen)
    BY <2>4, <2>6 DEF Contenders
  <2>8. Expired.tickets[o].bypasses < MaxBypasses
    BY <2>1, <2>7 DEF Fair
  <2>9. pool'.tickets[o] = [pool.tickets[o] EXCEPT !.bypasses = pool.tickets[o].bypasses + 1]
    BY <2>1, <2>3, <2>7 DEF Granted
  <2>10. pool.tickets[o] \in TicketRecords
    BY <1>1, <2>2 DEF PoolInv, IsState
  <2>. QED
    BY <2>3, <2>8, <2>9, <2>10 DEF TicketRecords
<1> DEFINE Counts == \A r \in DOMAIN pool'.claims \ DOMAIN pool.claims :
       LET d == pool'.claims[r].uuid
       IN \A o \in Older(pool, r, d) :
            \/ history[o] # "none"
            \/ ModelChanged(pool, Ticket[o]) \/ SizeChanged(pool, Ticket[o], d)
            \/ /\ pool.tickets[o].bypasses < MaxBypasses
               /\ pool'.tickets[o].bypasses = pool.tickets[o].bypasses + 1
<1>2. PoolInv /\ [PoolNext]_poolVars => [Counts]_poolVars
  BY <1>1
<1>. QED
  BY <1>2, PoolReached, PTL DEF PoolSpec, OvertakingIsCounted
=============================================================================
