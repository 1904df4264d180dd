----------------------------- MODULE RedloopAdmin -----------------------------
(***************************************************************************)
(* RedloopStore with the two administrative calls that change keys without   *)
(* a script: purge_failed (redis_store/counts.rs) selects ids in one round   *)
(* trip and deletes them in another; list_workers (redis_store/workers.rs)   *)
(* first prunes, reading last_seen, then the configurations, then deleting,  *)
(* and then reads last_seen, configurations and lease counts for its answer. *)
(* Every script may run between two round trips, and the process that runs   *)
(* them may stop after any of them.                                          *)
(*                                                                          *)
(* Callers read one clock here: staleness is about how much later one call   *)
(* is than another.                                                          *)
(***************************************************************************)
EXTENDS RedloopStore

CONSTANT StaleAfter  \* max(24 hours, 10 * lease_duration)

ASSUME StaleAssumption == StaleAfter \in Nat /\ StaleAfter > LeaseDuration

VARIABLES
    clock,
    purge,      \* ids selected by a purge that has not deleted them yet
    prune       \* where a list_workers stands, what it has read

adminVars == <<vars, clock, purge, prune>>

IdlePrune == [at |-> "idle", now |-> 0, seen |-> [w \in Workers |-> Nil], stale |-> {}]

AdminInit ==
    /\ Init
    /\ clock \in {t \in Times : \A u \in Times : t <= u}
    /\ purge = {}
    /\ prune = IdlePrune

FailedJobs == {j \in Jobs : In(failed, j)}

\* FailedSelector::JobId, OlderThan and All
Selections ==
    {{j} : j \in FailedJobs} \cup {{j \in FailedJobs : failed[j] < t} : t \in Times} \cup {FailedJobs}

PurgeSelect ==
    /\ purge = {}
    /\ purge' \in Selections \ {{}}
    /\ UNCHANGED <<vars, clock, prune>>

\* Mutant: the HDEL is missing.
PurgeDelete_KeepsFailures ==
    /\ purge # {}
    /\ failed' = [j \in Jobs |-> IF j \in purge THEN Nil ELSE failed[j]]
    /\ purge' = {}
    /\ UNCHANGED <<ready, scheduled, leases, failures, rerun, registry, clock, prune>>

\* MULTI: ZREM failed, HDEL failures, for every id selected before
PurgeDelete ==
    /\ purge # {}
    /\ failed' = [j \in Jobs |-> IF j \in purge THEN Nil ELSE failed[j]]
    /\ failures' = [j \in Jobs |-> IF j \in purge THEN 0 ELSE failures[j]]
    /\ purge' = {}
    /\ UNCHANGED <<ready, scheduled, leases, rerun, registry, clock, prune>>

\* a step of list_workers that only reads
Reads(p) == prune' = p /\ UNCHANGED <<vars, clock, purge>>

\* the prune is over, or all but: what it read is not used again
Pruned == [IdlePrune EXCEPT !.at = "list", !.now = prune.now]

PruneReadSeen ==
    /\ prune.at = "idle"
    /\ \E w \in Workers : last_seen[w] # Nil
    /\ Reads([IdlePrune EXCEPT !.at = "configs", !.now = clock, !.seen = last_seen])

\* no worker is known: nothing to prune
PruneNothing ==
    /\ prune.at = "idle"
    /\ \A w \in Workers : last_seen[w] = Nil
    /\ Reads([IdlePrune EXCEPT !.at = "list", !.now = clock])

\* Mutant: workers without a record are kept, whatever their age.
Stale_OnlyUnknown(w) == prune.seen[w] # Nil /\ w \notin workers_config

Stale(w) == /\ prune.seen[w] # Nil
            /\ w \in workers_config => prune.now - prune.seen[w] > StaleAfter

PruneReadConfigs ==
    LET stale == {w \in Workers : Stale(w)} IN
    /\ prune.at = "configs"
    /\ Reads(IF stale = {} THEN Pruned ELSE [Pruned EXCEPT !.at = "cleanup", !.stale = stale])

\* Mutant: the HDEL of the configuration is missing.
PruneCleanup_KeepsConfig ==
    /\ prune.at = "cleanup"
    /\ last_seen' = [w \in Workers |-> IF w \in prune.stale THEN Nil ELSE last_seen[w]]
    /\ workers_leases' = [w \in Workers |-> IF w \in prune.stale THEN 0 ELSE workers_leases[w]]
    /\ prune' = Pruned
    /\ UNCHANGED <<placement, leased, lease_meta, workers_config, failures, rerun, cfg, clock, purge>>

\* MULTI: ZREM last_seen, HDEL config, HDEL leases, for every stale worker
PruneCleanup ==
    /\ prune.at = "cleanup"
    /\ last_seen' = [w \in Workers |-> IF w \in prune.stale THEN Nil ELSE last_seen[w]]
    /\ workers_config' = workers_config \ prune.stale
    /\ workers_leases' = [w \in Workers |-> IF w \in prune.stale THEN 0 ELSE workers_leases[w]]
    /\ prune' = Pruned
    /\ UNCHANGED <<placement, leased, lease_meta, failures, rerun, cfg, clock, purge>>

\* ZRANGE last_seen, for the answer; without a worker it is empty
ListSeen ==
    /\ prune.at = "list"
    /\ Reads(IF \A w \in Workers : last_seen[w] = Nil THEN IdlePrune
             ELSE [prune EXCEPT !.at = "records", !.seen = last_seen])

\* HMGET config: a worker without a record is left out
Reported == {w \in workers_config : prune.seen[w] # Nil}

\* the rest of the answer, HMGET leases, is one more read
ListRecords == prune.at = "records" /\ Reads(IdlePrune)

\* the process running them stops, or its command times out, between two
\* round trips
PurgeStops == purge # {} /\ purge' = {} /\ UNCHANGED <<vars, clock, prune>>
PruneStops == prune.at # "idle" /\ prune' = IdlePrune /\ UNCHANGED <<vars, clock, purge>>

\* any time may pass between two calls
Tick ==
    /\ \E t \in Times : t > clock /\ clock' = t
    /\ UNCHANGED <<vars, purge, prune>>

\* the steps of RedloopStore at the common clock; schedules lie ahead of it
ScriptStep ==
    /\ \/ \E j \in Jobs : ClientStep(j, clock)
       \/ \E w \in Workers, capacity \in Capacities : Reserve(w, clock, capacity)
       \/ \E j \in Jobs, w \in Workers, t \in Tokens : HolderStep(j, w, t, clock)
       \/ \E limit \in ReapLimits : ReapExpired(clock, limit)
       \/ \E j \in Jobs : OperatorStep(j, clock)
    /\ UNCHANGED <<clock, purge, prune>>

AdminNext ==
    \/ ScriptStep
    \/ Tick
    \/ PurgeSelect
    \/ PurgeDelete
    \/ PruneReadSeen
    \/ PruneNothing
    \/ PruneReadConfigs
    \/ PruneCleanup
    \/ ListSeen
    \/ ListRecords
    \/ PurgeStops
    \/ PruneStops

AdminSpec == AdminInit /\ [][AdminNext]_adminVars

-----------------------------------------------------------------------------
\* Properties.  FailuresWithinBudget of RedloopStore is checked under AdminSpec
\* too: a purge that was overtaken between its round trips leaves no counter
\* behind.

\* Deleting the count of a pruned worker and later decrementing it can only
\* lose leases from the count: list_workers never reports a lease that does
\* not exist.
LeaseCountsNeverExceed ==
    \A w \in Workers : workers_leases[w] <= Cardinality(LeasesOf(w))

\* A worker with a configuration record or a lease count has a last_seen entry:
\* prune finds workers by that entry alone, so a record without one would never
\* be removed.  Reserve, heartbeat and a prune overtaken by either all write
\* some of the three.
RecordsArePrunable ==
    \A w \in Workers : w \in workers_config \/ workers_leases[w] > 0 => last_seen[w] # Nil

\* list_workers reports only workers whose last heartbeat is recent: what it
\* reads after the prune is not older than what the prune looked at, although
\* heartbeats, reservations and other prunes go on between its six round trips.
ListsOnlyRecentWorkers ==
    prune.at = "records" => \A w \in Reported : prune.now - prune.seen[w] <= StaleAfter

\* "purge_failed returns the number of failed jobs deleted" (api.md:210): the
\* code returns the number of ids it had selected.
PurgeReportsDeleted ==
    [][PurgeDelete => Cardinality({j \in Jobs : In(failed, j) /\ ~In(failed, j)'})
                        = Cardinality(purge)]_adminVars

\* "Inactive worker records ... must be pruned after max(24 hours, 10 x
\* lease_duration)" (redis-layout.md:123-127): the records a prune removes are
\* those of a worker that has been silent that long.
PrunesOnlyInactive ==
    [][PruneCleanup => \A w \in prune.stale :
          last_seen[w] = Nil \/ clock - last_seen[w] > StaleAfter]_adminVars
=============================================================================
