---------------------------- MODULE StoreMigration ----------------------------
(***************************************************************************)
(* The cutover from a pair of JSON files to an indexed store.  The command *)
(* imports what a manifest declared, if the files still are what was       *)
(* declared when their locks are held; it then seals the imported          *)
(* database, publishes a receipt, retires the files one by one and         *)
(* activates the store.  It may die between any two steps, which frees the *)
(* locks; a second command finishes a sealed cutover.  The batch and the   *)
(* operators of JsonProduction go on beside it, as far as locks and        *)
(* retirement markers let them.                                            *)
(***************************************************************************)
EXTENDS JsonProduction

CONSTANTS Targets,      \* directories a store may be built in
          MaxCutovers   \* bound on the migrations that are started

VARIABLES
  target,      \* of every target: the activation, what was imported, whether the receipt is
               \* there, whether the intent beside it is for another manifest, and whether the
               \* store has reserved anything since
  registered,  \* the target the authority's registry names
  cutover,     \* the running command
  cutovers     \* how many were started

migrationVars == <<target, registered, cutover, cutovers>>
allVars == <<jsonVars, migrationVars>>
jsonButLocks == <<case, documents, retired, saved, run, job, replaced, expired>>

Identity == [flow |-> flow, book |-> book]
Nothing == [flow |-> {}]
NoTarget == [activation |-> "none", imported |-> Nothing, receipt |-> FALSE,
             otherIntent |-> FALSE, worked |-> FALSE]
NoCutover == [pc |-> "off"]
Step(pc) == cutover.pc = pc
Moves(pc) == cutover' = [cutover EXCEPT !.pc = pc]
Stops == cutover' = NoCutover /\ locked' = FALSE

Quiescent == /\ \A t \in TaskSet : ~IsLive(t)
             /\ Cardinality(Held) = SumOver([t \in TaskSet |-> flow.tasks[t].tries], TaskSet)

\* The sources are validated before their locks are taken: they are what the operator's
\* manifest declares, and nothing in them is open.
Migrate(d) ==
  /\ Step("off") /\ "migrate" \in beside /\ cutovers < MaxCutovers /\ Quiescent
  /\ cutover' = [pc |-> "lock", target |-> d, of |-> Identity, recovers |-> FALSE]
  /\ cutovers' = cutovers + 1
  /\ UNCHANGED <<jsonVars, target, registered>>

\* store-recover: the intent and the receipt in the target name one manifest.
Recover(d) ==
  /\ Step("off") /\ target[d].receipt /\ ~target[d].otherIntent
  /\ cutover' = [pc |-> "lock", target |-> d, of |-> target[d].imported, recovers |-> TRUE]
  /\ UNCHANGED <<jsonVars, target, registered, cutovers>>

\* The files are what was declared, under the locks that every writer takes.
AsValidated == TRUE
StillDeclared == cutover.of = Identity
Recoverable(d) == /\ registered = {d} /\ ~target[d].worked
                  /\ target[d].activation \in {"sealed_prepared", "active"}
Lock ==
  /\ Step("lock") /\ ~locked
  /\ \/ /\ StillDeclared /\ (cutover.recovers => Recoverable(cutover.target))
        /\ locked' = TRUE
        /\ Moves(IF cutover.recovers THEN "retire" ELSE "create")
     \/ /\ ~(StillDeclared /\ (cutover.recovers => Recoverable(cutover.target)))
        /\ Stops
  /\ UNCHANGED <<jsonButLocks, target, registered, cutovers>>

\* The intent is published first, over an older one; then a new database, in a directory that
\* has none, for an authority that has none.
Create ==
  LET d == cutover.target
      creates == registered = {} /\ target[d].activation = "none"
  IN /\ Step("create")
     /\ target' = [target EXCEPT ![d].otherIntent = target[d].imported \notin {Nothing, cutover.of},
                                 ![d].activation = IF creates THEN "building" ELSE @]
     /\ IF creates THEN Moves("register") /\ UNCHANGED locked ELSE Stops
     /\ UNCHANGED <<jsonButLocks, registered, cutovers>>

\* The registry is locked from the look at it until this entry.
Register ==
  /\ Step("register")
  /\ registered' = {cutover.target} /\ Moves("import")
  /\ UNCHANGED <<jsonVars, target, cutovers>>

\* One transaction, which ends in the sealed state; an accepted artifact must be the one that
\* was accepted, and the imported costs must fit.
Importable == /\ AcceptedNow \cap replaced = {}
              /\ Units(cutover.of.book) + CleanupUnits <= TotalUnits
              /\ Units(cutover.of.book) <= RouteLimit
Import ==
  /\ Step("import")
  /\ IF Importable
     THEN /\ target' = [target EXCEPT ![cutover.target].activation = "sealed_prepared",
                                      ![cutover.target].imported = cutover.of]
          /\ Moves("receipt") /\ UNCHANGED locked
     ELSE Stops /\ UNCHANGED target
  /\ UNCHANGED <<jsonButLocks, registered, cutovers>>

PublishReceipt ==
  /\ Step("receipt")
  /\ target' = [target EXCEPT ![cutover.target].receipt = TRUE] /\ Moves("retire")
  /\ UNCHANGED <<jsonVars, registered, cutovers>>

Retire(file) ==
  /\ Step("retire") /\ file \notin retired
  /\ retired' = retired \cup {file}
  /\ UNCHANGED <<case, documents, locked, saved, run, job, replaced, expired, migrationVars>>

Activate ==
  /\ Step("retire") /\ retired = Files
  /\ target' = [target EXCEPT ![cutover.target].activation = "active"]
  /\ Stops
  /\ UNCHANGED <<jsonButLocks, registered, cutovers>>

CutoverDies ==
  /\ ~Step("off") /\ Stops
  /\ UNCHANGED <<jsonButLocks, target, registered, cutovers>>

\* An active store goes its own way.
StoreWorks(d) ==
  /\ target[d].activation = "active" /\ registered = {d} /\ ~target[d].worked
  /\ target' = [target EXCEPT ![d].worked = TRUE]
  /\ UNCHANGED <<jsonVars, registered, cutover, cutovers>>

MigrationStep ==
  \/ Lock \/ Create \/ Register \/ Import \/ PublishReceipt \/ Activate \/ CutoverDies
  \/ \E file \in Files : Retire(file)
  \/ \E d \in Targets : Migrate(d) \/ Recover(d) \/ StoreWorks(d)

MigrationInit ==
  /\ JsonInit
  /\ target = [d \in Targets |-> NoTarget]
  /\ registered = {} /\ cutover = NoCutover /\ cutovers = 0

MigrationNext == (JsonNext /\ UNCHANGED migrationVars) \/ MigrationStep
MigrationSpec == MigrationInit /\ [][MigrationNext]_allVars

\* Never two authorities: once a store is active, both files are retired for good as they were
\* imported, nothing of them is open, no batch is about to send for them, and no other target
\* can ever become active.
OneAuthority ==
  \A d \in Targets : target[d].activation = "active" =>
    /\ retired = Files /\ Identity = target[d].imported
    /\ Quiescent /\ ~At("submit")
    /\ \A other \in Targets \ {d} : target[other].activation \in {"none", "building"}
=============================================================================
