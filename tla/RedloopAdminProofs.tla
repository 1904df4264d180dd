-------------------------- MODULE RedloopAdminProofs --------------------------
(***************************************************************************)
(* What survives the administrative calls that write without a script,      *)
(* proved for any number of jobs, workers and clocks.                        *)
(*                                                                          *)
(* A script keeps everything about one job's keys (KeysInv), and keeps a     *)
(* lease count that is too small too small (CountsKeep): the scripts' lemmas *)
(* were stated from KeysInv alone because a prune breaks the equality.  What *)
(* is new is the two transactions, which write what an earlier round trip    *)
(* selected: they need only what holds in every state, never what held when  *)
(* the selection was made.  The answer of list_workers is the exception: it  *)
(* rests on what was read, and PruneInv carries each reading to the next.    *)
(***************************************************************************)
EXTENDS RedloopAdmin, RedloopHistoryProofs

\* What every interleaving of scripts, purges and prunes keeps.
AdminInv ==
    /\ KeysInv
    /\ \A j \in Jobs : JobBudget(j)
    /\ LeaseCountsNeverExceed
    /\ RecordsArePrunable
    /\ clock \in Times

\* What scripts do to the registry: an entry is left alone or set to now, and a
\* worker that gets a record or a lease is set to now.
Registers(now) ==
    \A w \in Workers :
        /\ last_seen'[w] \in {last_seen[w], now}
        /\ w \in workers_config' \/ workers_leases'[w] > 0 =>
              w \in workers_config \/ workers_leases[w] > 0 \/ last_seen'[w] = now

LEMMA UnregisteredStep ==
  ASSUME KeysInv, UNCHANGED <<last_seen, workers_config>>,
         \A w \in Workers : workers_leases'[w] > 0 => workers_leases[w] > 0,
         NEW now
  PROVE  Registers(now)
BY DEF Registers

\* Ending a lease only lowers counts.
LEMMA EndLeaseLowers ==
  ASSUME KeysInv, NEW j \in Jobs, lease_meta[j] # Nil, EndLease(j)
  PROVE  \A w \in Workers : workers_leases'[w] > 0 => workers_leases[w] > 0
<1>1. lease_meta[j].worker \in Workers /\ workers_leases \in [Workers -> Nat]
  BY DEF KeysInv, TypeOK
<1>2. QED
  BY <1>1 DEF EndLease, Decremented

LEMMA ScriptRegisters ==
  ASSUME KeysInv, clock \in Times, ScriptStep
  PROVE  Registers(clock)
<1>1. TypeOK
  BY DEF KeysInv
<1>2. ASSUME NEW j \in Jobs, ClientStep(j, clock) PROVE Registers(clock)
  <2>1. UNCHANGED <<last_seen, workers_config, workers_leases>>
    BY <1>2 DEF ClientStep, EnqueueImmediate, EnqueueScheduled, Reschedule, leases, registry
  <2>2. QED
    BY <2>1, UnregisteredStep
<1>3. ASSUME NEW w \in Workers, NEW capacity \in Capacities, Reserve(w, clock, capacity)
      PROVE  Registers(clock)
  <2>1. /\ last_seen' = [last_seen EXCEPT ![w] = clock]
        /\ workers_config' = workers_config \cup {w}
        /\ \A v \in Workers \ {w} : workers_leases'[v] = workers_leases[v]
    BY <1>1, <1>3 DEF Reserve, TypeOK
  <2>2. QED
    BY <1>1, <2>1 DEF Registers, TypeOK
<1>4. ASSUME NEW j \in Jobs, NEW w \in Workers, NEW t \in Tokens, HolderStep(j, w, t, clock)
      PROVE  Registers(clock)
  <2>1. CASE Heartbeat(j, w, t, clock)
    BY <1>1, <2>1 DEF Heartbeat, Registers, TypeOK
  <2>2. CASE ~Heartbeat(j, w, t, clock)
    <3>1. Holds(j, w, t) /\ EndLease(j) /\ UNCHANGED registry
      BY <1>4, <2>2 DEF HolderStep, Ack, CompleteAndReschedule, FailOrRetry
    <3>2. lease_meta[j] # Nil
      BY <3>1 DEF Holds, KeysInv, JobInv
    <3>3. QED
      BY <3>1, <3>2, EndLeaseLowers, UnregisteredStep DEF registry
  <2>3. QED
    BY <2>1, <2>2
<1>5. ASSUME NEW limit \in ReapLimits, ReapExpired(clock, limit) PROVE Registers(clock)
  <2> DEFINE Lost(w) == Cardinality(Reaped(clock, limit) \cap LeasesOf(w))
  <2>1. \A w \in Workers : workers_leases'[w] =
          IF workers_leases[w] <= Lost(w) THEN 0 ELSE workers_leases[w] - Lost(w)
    BY <1>5 DEF ReapExpired
  <2>2. UNCHANGED <<last_seen, workers_config>>
    BY <1>5 DEF ReapExpired, registry
  <2>3. \A w \in Workers : Lost(w) \in Nat
    <3>1. \A w \in Workers : Reaped(clock, limit) \cap LeasesOf(w) \subseteq Jobs
      BY DEF LeasesOf
    <3>2. QED
      BY <3>1, JobsAssumption, FS_Subset, FS_CardinalityType
  <2> HIDE DEF Lost
  <2>4. \A w \in Workers : workers_leases'[w] > 0 => workers_leases[w] > 0
    BY <1>1, <2>1, <2>3 DEF TypeOK
  <2>5. QED
    BY <2>2, <2>4, UnregisteredStep
<1>6. ASSUME NEW j \in Jobs, OperatorStep(j, clock) PROVE Registers(clock)
  <2>1. CASE UNCHANGED <<leases, registry>>
    BY <2>1, UnregisteredStep DEF leases, registry
  <2>2. CASE lease_meta[j] # Nil /\ EndLease(j) /\ UNCHANGED registry
    BY <2>2, EndLeaseLowers, UnregisteredStep DEF registry
  <2>3. QED
    BY <1>6, <2>1, <2>2 DEF OperatorStep, Cancel, Requeue, ForceRetry, ForceAck, ForceFail
<1>7. QED
  BY <1>2, <1>3, <1>4, <1>5, <1>6 DEF ScriptStep

\* A script under the common clock is a step of the store.
LEMMA ScriptIsNext == clock \in Times /\ ScriptStep => Next
BY DEF ScriptStep, Next

\* Every other step is one of the two transactions, or only reads.
LEMMA AdminSteps ==
  ASSUME [AdminNext]_adminVars
  PROVE  ScriptStep \/ PurgeDelete \/ PruneCleanup \/ UNCHANGED vars
BY DEF AdminNext, adminVars, Tick, PurgeSelect, PruneReadSeen, PruneNothing, PruneReadConfigs,
       ListSeen, ListRecords, PurgeStops, PruneStops, Reads

\* The clock only runs through Times.
LEMMA ClockStays ==
  ASSUME clock \in Times, [AdminNext]_adminVars
  PROVE  clock' \in Times /\ clock <= clock'
<1>1. clock' = clock \/ (clock' \in Times /\ clock' > clock)
  BY DEF AdminNext, adminVars, ScriptStep, Tick, PurgeSelect, PurgeDelete, PruneReadSeen,
         PruneNothing, PruneReadConfigs, PruneCleanup, ListSeen, ListRecords, PurgeStops,
         PruneStops, Reads
<1>2. clock \in Int /\ \A t \in Times : t \in Int
  BY TimesAssumption
<1>3. CASE clock' \in Times /\ clock' > clock
  <2>1. clock' \in Int
    BY <1>2, <1>3
  <2>2. QED
    BY <1>2, <1>3, <2>1
<1>4. QED
  BY <1>1, <1>2, <1>3

-----------------------------------------------------------------------------
\* The two transactions

\* A purge deletes the failed jobs among those it selected, and the counters of
\* all of them: one that is not failed any more is where a script put it.
LEMMA PurgeEffect ==
  ASSUME KeysInv, PurgeDelete
  PROVE  /\ KeysInv'
         /\ \A j \in Jobs : CurrentState(j)' =
               IF j \in purge /\ CurrentState(j) = "failed" THEN "none" ELSE CurrentState(j)
         /\ \A j \in Jobs : failures'[j] = IF j \in purge THEN 0 ELSE failures[j]
         /\ \A j \in Jobs : j \in purge => CurrentState(j)' # "failed"
         /\ rerun' = rerun /\ cfg' = cfg
<1>1. /\ failed' = [j \in Jobs |-> IF j \in purge THEN Nil ELSE failed[j]]
      /\ failures' = [j \in Jobs |-> IF j \in purge THEN 0 ELSE failures[j]]
      /\ UNCHANGED <<ready, scheduled, leased, lease_meta, workers_leases, rerun,
                     last_seen, workers_config, cfg>>
  BY DEF PurgeDelete, leases, registry
<1>2. TypeOK'
  BY <1>1, LimitsAssumption DEF KeysInv, TypeOK, Placement
<1>3. ASSUME NEW j \in Jobs
      PROVE  /\ JobInv(j)'
             /\ CurrentState(j)' = IF j \in purge /\ CurrentState(j) = "failed"
                                   THEN "none" ELSE CurrentState(j)
             /\ j \in purge => CurrentState(j)' # "failed"
  <2>1. JobInv(j) /\ failed'[j] \in {Nil, failed[j]} /\ (j \in purge => failed'[j] = Nil)
        /\ (j \notin purge => failed'[j] = failed[j])
    BY <1>1 DEF KeysInv
  <2>2. JobInv(j)'
    BY <1>1, <2>1 DEF JobInv, In
  <2>3. QED
    BY <1>1, <2>1, <2>2 DEF JobInv, In, CurrentState
<1>4. QED
  BY <1>1, <1>2, <1>3 DEF KeysInv

\* A prune writes the registry and the counts, and only lowers those.
LEMMA CleanupEffect ==
  ASSUME KeysInv, PruneCleanup
  PROVE  /\ KeysInv'
         /\ UNCHANGED <<ready, scheduled, leased, failed, lease_meta, failures, rerun, cfg>>
         /\ workers_config' = workers_config \ prune.stale
         /\ \A w \in Workers :
               /\ last_seen'[w] = IF w \in prune.stale THEN Nil ELSE last_seen[w]
               /\ workers_leases'[w] = IF w \in prune.stale THEN 0 ELSE workers_leases[w]
<1>1. /\ UNCHANGED <<ready, scheduled, leased, failed, lease_meta, failures, rerun, cfg>>
      /\ last_seen' = [w \in Workers |-> IF w \in prune.stale THEN Nil ELSE last_seen[w]]
      /\ workers_config' = workers_config \ prune.stale
      /\ workers_leases' = [w \in Workers |-> IF w \in prune.stale THEN 0 ELSE workers_leases[w]]
  BY DEF PruneCleanup, placement
<1>2. TypeOK'
  BY <1>1 DEF KeysInv, TypeOK, Placement
<1>3. \A j \in Jobs : JobInv(j)'
  BY <1>1 DEF KeysInv, JobInv, In
<1>4. QED
  BY <1>1, <1>2, <1>3 DEF KeysInv

-----------------------------------------------------------------------------

LEMMA InitAdminInv == AdminInit => AdminInv
<1> SUFFICES ASSUME AdminInit PROVE AdminInv
  OBVIOUS
<1>1. Init /\ clock \in Times
  BY DEF AdminInit
<1>2. \A j \in Jobs : JobBudget(j)
  BY <1>1 DEF Init, JobBudget, CurrentState, In
<1>3. LeaseCountsNeverExceed
  <2>1. \A w \in Workers : workers_leases[w] = Cardinality(LeasesOf(w))
    BY <1>1, InitStoreInv DEF StoreInv, LeaseCountsMatch
  <2>2. \A w \in Workers : workers_leases[w] \in Nat
    BY <1>1 DEF Init
  <2>3. QED
    BY <2>1, <2>2 DEF LeaseCountsNeverExceed
<1>4. RecordsArePrunable
  BY <1>1 DEF Init, RecordsArePrunable
<1>5. QED
  BY <1>1, <1>2, <1>3, <1>4, InitKeysInv DEF AdminInv

LEMMA NextAdminInv ==
  ASSUME AdminInv, [AdminNext]_adminVars
  PROVE  AdminInv'
<1>1. /\ KeysInv /\ TypeOK /\ LeaseCountsNeverExceed /\ RecordsArePrunable
      /\ \A j \in Jobs : JobBudget(j)
      /\ clock \in Times /\ clock' \in Times
  BY ClockStays DEF AdminInv, KeysInv
<1>2. ASSUME ScriptStep PROVE AdminInv'
  <2>1. KeysInv' /\ CountsKeep /\ \A j \in Jobs : JobBudget(j)'
    BY <1>1, <1>2, ScriptIsNext, NextKeysInv, NextJobBudget
  <2>2. LeaseCountsNeverExceed'
    BY <1>1, <2>1 DEF LeaseCountsNeverExceed, CountsKeep, CountKeeps
  <2>3. RecordsArePrunable'
    <3>1. Registers(clock)
      BY <1>1, <1>2, ScriptRegisters
    <3>2. clock # Nil
      BY <1>1, TimesAssumption, NilAssumption DEF Scores
    <3>3. QED
      BY <1>1, <3>1, <3>2 DEF Registers, RecordsArePrunable
  <2>4. QED
    BY <1>1, <2>1, <2>2, <2>3 DEF AdminInv
<1>3. ASSUME PurgeDelete PROVE AdminInv'
  <2>1. KeysInv' /\ \A j \in Jobs : JobBudget(j)'
    BY <1>1, <1>3, PurgeEffect DEF JobBudget
  <2>2. UNCHANGED <<lease_meta, workers_leases, workers_config, last_seen>>
    BY <1>3 DEF PurgeDelete, leases, registry
  <2>3. LeaseCountsNeverExceed'
    BY <1>1, <2>2 DEF LeaseCountsNeverExceed, LeasesOf
  <2>4. RecordsArePrunable'
    BY <1>1, <2>2 DEF RecordsArePrunable
  <2>5. QED
    BY <1>1, <2>1, <2>3, <2>4 DEF AdminInv
<1>4. ASSUME PruneCleanup PROVE AdminInv'
  <2>1. KeysInv' /\ \A j \in Jobs : JobBudget(j)'
    BY <1>1, <1>4, CleanupEffect DEF JobBudget, CurrentState, In
  <2>2. LeaseCountsNeverExceed'
    <3>1. ASSUME NEW w \in Workers PROVE workers_leases'[w] <= Cardinality(LeasesOf(w)')
      <4>1. LeasesOf(w)' = LeasesOf(w)
        BY <1>1, <1>4, CleanupEffect DEF LeasesOf
      <4>2. Cardinality(LeasesOf(w)) \in Nat
        BY JobsAssumption, FS_Subset, FS_CardinalityType DEF LeasesOf
      <4>3. workers_leases'[w] \in {0, workers_leases[w]}
        BY <1>1, <1>4, CleanupEffect
      <4>4. workers_leases[w] <= Cardinality(LeasesOf(w))
        BY <1>1 DEF LeaseCountsNeverExceed
      <4>5. QED
        BY <4>1, <4>2, <4>3, <4>4
    <3>2. QED
      BY <3>1 DEF LeaseCountsNeverExceed
  <2>3. RecordsArePrunable'
    BY <1>1, <1>4, CleanupEffect DEF RecordsArePrunable
  <2>4. QED
    BY <1>1, <2>1, <2>2, <2>3 DEF AdminInv
<1>5. ASSUME UNCHANGED vars PROVE AdminInv'
  <2>1. KeysInv'
    BY <1>1, <1>5, KeysUnchanged
  <2>2. LeaseCountsNeverExceed' /\ RecordsArePrunable'
    BY <1>1, <1>5 DEF vars, LeaseCountsNeverExceed, LeasesOf, RecordsArePrunable
  <2>3. \A j \in Jobs : JobBudget(j)'
    BY <1>1, <1>5 DEF vars, JobBudget, CurrentState, In
  <2>4. QED
    BY <1>1, <2>1, <2>2, <2>3 DEF AdminInv
<1>6. QED
  BY <1>2, <1>3, <1>4, <1>5, AdminSteps

\* Administrative calls included, the invariant holds in every reachable state.
THEOREM AdminInvHolds == AdminSpec => []AdminInv
BY InitAdminInv, NextAdminInv, PTL DEF AdminSpec

\* Purges leave no counter behind: the retry budget holds under them too.
THEOREM AdminBudgetHolds == AdminSpec => []FailuresWithinBudget
<1>1. AdminInv => FailuresWithinBudget
  BY BudgetByJob DEF AdminInv, Budget
<1>2. QED
  BY <1>1, AdminInvHolds, PTL

\* However a prune and the scripts overtake each other, no worker is counted
\* more leases than it holds.
THEOREM LeaseCountsNeverExceedHolds == AdminSpec => []LeaseCountsNeverExceed
<1>1. AdminInv => LeaseCountsNeverExceed
  BY DEF AdminInv
<1>2. QED
  BY <1>1, AdminInvHolds, PTL

\* No worker record escapes the prune: a worker with a configuration or a lease
\* count has the last_seen entry by which it is found.
THEOREM RecordsArePrunableHolds == AdminSpec => []RecordsArePrunable
<1>1. AdminInv => RecordsArePrunable
  BY DEF AdminInv
<1>2. QED
  BY <1>1, AdminInvHolds, PTL

\* A purge is JobLifecycle's Discard of the jobs that are still failed; a prune
\* is a step the abstract life does not see.
THEOREM AdminImplementsLifecycle == AdminSpec => ImplementsLifecycle
<1>1. AdminInit => Lifecycle!Init
  BY DEF AdminInit, Init, Lifecycle!Init, CurrentState, In
<1>2. ASSUME AdminInv, [AdminNext]_adminVars
      PROVE  [Lifecycle!Next]_(Lifecycle!lifecycle)
  <2>1. KeysInv /\ clock \in Times
    BY <1>2 DEF AdminInv
  <2>2. ASSUME ScriptStep PROVE [Lifecycle!Next]_(Lifecycle!lifecycle)
    BY <2>1, <2>2, ScriptIsNext, StepRefines
  <2>3. ASSUME PurgeDelete PROVE Lifecycle!Next
    <3> DEFINE state == [j \in Jobs |-> CurrentState(j)]
               S == {j \in Jobs : j \in purge /\ CurrentState(j) = "failed"}
    <3>1. /\ \A j \in Jobs : CurrentState(j)' = IF j \in S THEN "none" ELSE CurrentState(j)
          /\ rerun' = rerun
      BY <2>1, <2>3, PurgeEffect
    <3>2. state' = [j \in Jobs |-> IF j \in S THEN "none" ELSE state[j]]
      BY <3>1
    <3>3. \A j \in S : state[j] \in {"scheduled", "failed"}
      OBVIOUS
    <3>4. S \in SUBSET Jobs
      OBVIOUS
    <3> HIDE DEF S
    <3>5. Lifecycle!Discard(S)
      BY <3>1, <3>2, <3>3 DEF Lifecycle!Discard
    <3>6. QED
      BY <3>4, <3>5 DEF Lifecycle!Next
  <2>4. ASSUME PruneCleanup \/ UNCHANGED vars PROVE UNCHANGED Lifecycle!lifecycle
    <3>1. UNCHANGED <<ready, scheduled, leased, failed, rerun>>
      BY <2>1, <2>4, CleanupEffect DEF vars
    <3>2. QED
      BY <3>1 DEF Lifecycle!lifecycle, CurrentState, In
  <2>5. QED
    BY <1>2, <2>2, <2>3, <2>4, AdminSteps
<1>3. QED
  BY <1>1, <1>2, AdminInvHolds, PTL DEF AdminSpec, ImplementsLifecycle, Lifecycle!Spec

\* Purge and prune consume no rerun request: also beside them one is consumed
\* only by the end of its lease, with a job that is ready, or one more counted
\* failure, to show for it.
THEOREM AdminRerunNotLostHolds == AdminSpec => RerunNotLost
<1>1. AdminInv /\ [AdminNext]_adminVars => RerunKept
  <2> SUFFICES ASSUME AdminInv, [AdminNext]_adminVars PROVE RerunKept
    OBVIOUS
  <2>1. KeysInv /\ clock \in Times
    BY DEF AdminInv
  <2>2. ASSUME ScriptStep PROVE RerunKept
    BY <2>1, <2>2, ScriptIsNext, NextRerunKept
  <2>3. ASSUME PurgeDelete \/ PruneCleanup \/ UNCHANGED vars PROVE rerun' = rerun
    BY <2>1, <2>3, PurgeEffect, CleanupEffect DEF vars
  <2>4. QED
    BY <2>2, <2>3, AdminSteps DEF RerunKept
<1>2. UNCHANGED adminVars => UNCHANGED vars
  BY DEF adminVars
<1>3. QED
  BY <1>1, <1>2, AdminInvHolds, PTL DEF AdminSpec, RerunNotLost, RerunKept

-----------------------------------------------------------------------------
\* The answer of list_workers

\* An entry that was read, or is read now, is not older than a prune tolerates.
Recent(entry) == entry # Nil => prune.now - entry <= StaleAfter

\* What each round trip of list_workers knows: a worker's entry is the one it
\* read or a later one, and after the prune every entry is recent, because the
\* clock of whoever writes one is not behind the clock of the prune.
PruneInv ==
    /\ KeysInv
    /\ clock \in Times
    /\ prune.now \in Nat /\ prune.now <= clock
    /\ prune.seen \in [Workers -> Scores \cup {Nil}]
    /\ prune.at = "configs" => \A w \in Workers :
          last_seen[w] # Nil => last_seen[w] = prune.seen[w] \/ last_seen[w] >= prune.now
    /\ prune.at = "cleanup" => \A w \in Workers \ prune.stale : Recent(last_seen[w])
    /\ prune.at = "list" => \A w \in Workers : Recent(last_seen[w])
    /\ prune.at = "records" => \A w \in Workers : Recent(prune.seen[w])

\* An entry written at the common clock is recent.
LEMMA NewEntriesAreRecent ==
  ASSUME PruneInv, NEW w \in Workers, last_seen'[w] \in {Nil, last_seen[w], clock},
         prune' = prune
  PROVE  /\ Recent(last_seen[w]) => Recent(last_seen[w])'
         /\ (last_seen[w] # Nil => last_seen[w] = prune.seen[w] \/ last_seen[w] >= prune.now)
            => (last_seen'[w] # Nil => last_seen'[w] = prune.seen[w] \/ last_seen'[w] >= prune.now)
BY TimesAssumption, StaleAssumption, NilAssumption DEF PruneInv, Recent, Scores

\* While list_workers waits for its next answer, entries only get newer.
LEMMA PruneWaits ==
  ASSUME PruneInv, KeysInv', clock' \in Times, clock <= clock', prune' = prune,
         \A w \in Workers : last_seen'[w] \in {Nil, last_seen[w], clock}
  PROVE  PruneInv'
<1>1. prune.now <= clock'
  BY TimesAssumption DEF PruneInv
<1>2. ASSUME prune.at = "configs", NEW w \in Workers, last_seen'[w] # Nil
      PROVE  last_seen'[w] = prune.seen[w] \/ last_seen'[w] >= prune.now
  BY <1>2, NewEntriesAreRecent DEF PruneInv
<1>3. ASSUME prune.at = "cleanup", NEW w \in Workers \ prune.stale PROVE Recent(last_seen[w])'
  BY <1>3, NewEntriesAreRecent DEF PruneInv
<1>4. ASSUME prune.at = "list", NEW w \in Workers PROVE Recent(last_seen[w])'
  BY <1>4, NewEntriesAreRecent DEF PruneInv
<1>5. ASSUME prune.at = "records", NEW w \in Workers PROVE Recent(prune.seen[w])'
  BY <1>5 DEF PruneInv, Recent
<1>6. QED
  BY <1>1, <1>2, <1>3, <1>4, <1>5 DEF PruneInv

LEMMA NextPruneInv ==
  ASSUME PruneInv, [AdminNext]_adminVars
  PROVE  PruneInv'
<1>1. /\ KeysInv /\ clock \in Times /\ clock' \in Times /\ clock <= clock'
      /\ clock \in Nat /\ 0 <= clock
      /\ last_seen \in [Workers -> Scores \cup {Nil}]
  BY ClockStays, TimesAssumption DEF PruneInv, KeysInv, TypeOK
<1>2. KeysInv'
  BY <1>1, AdminSteps, ScriptIsNext, NextKeysInv, PurgeEffect, CleanupEffect, KeysUnchanged
<1>3. ASSUME ScriptStep PROVE PruneInv'
  <2>1. prune' = prune
    BY <1>3 DEF ScriptStep
  <2>2. QED
    BY <1>1, <1>2, <1>3, <2>1, ScriptRegisters, PruneWaits DEF Registers
<1>4. ASSUME last_seen' = last_seen, prune' = prune PROVE PruneInv'
  BY <1>1, <1>2, <1>4, PruneWaits
<1>5. ASSUME prune' = IdlePrune PROVE PruneInv'
  BY <1>1, <1>2, <1>5 DEF PruneInv, IdlePrune
<1>6. ASSUME PruneReadSeen PROVE PruneInv'
  BY <1>1, <1>2, <1>6 DEF PruneReadSeen, Reads, PruneInv, IdlePrune, vars
<1>7. ASSUME PruneNothing PROVE PruneInv'
  BY <1>1, <1>2, <1>7 DEF PruneNothing, Reads, PruneInv, IdlePrune, vars, Recent
<1>8. ASSUME PruneReadConfigs PROVE PruneInv'
  <2> DEFINE stale == {w \in Workers : Stale(w)}
  <2>1. /\ prune' \in {Pruned, [Pruned EXCEPT !.at = "cleanup", !.stale = stale]}
        /\ prune' = Pruned => stale = {}
        /\ prune.at = "configs" /\ UNCHANGED <<last_seen, clock>>
    BY <1>8 DEF PruneReadConfigs, Reads, vars, Pruned, IdlePrune
  <2>2. ASSUME NEW w \in Workers \ stale, last_seen[w] # Nil
        PROVE  prune.now - last_seen[w] <= StaleAfter
    <3>1. last_seen[w] \in Nat /\ prune.now \in Nat
      BY <1>1, <2>2 DEF Scores, PruneInv
    <3>2. CASE last_seen[w] = prune.seen[w]
      BY <2>2, <3>1, <3>2, StaleAssumption, NilAssumption DEF Stale, Scores
    <3>3. CASE last_seen[w] >= prune.now
      BY <3>1, <3>3, StaleAssumption
    <3>4. QED
      BY <2>1, <2>2, <3>2, <3>3 DEF PruneInv
  <2> HIDE DEF stale
  <2>3. /\ prune'.now = prune.now /\ prune'.seen \in [Workers -> Scores \cup {Nil}]
        /\ \/ prune'.at = "list" /\ stale = {}
           \/ prune'.at = "cleanup" /\ prune'.stale = stale
    <3>1. Pruned.at = "list" /\ Pruned.now = prune.now
          /\ Pruned.seen \in [Workers -> Scores \cup {Nil}]
      BY DEF Pruned, IdlePrune
    <3>2. /\ DOMAIN Pruned = {"at", "now", "seen", "stale"}
      BY DEF Pruned, IdlePrune
    <3> HIDE DEF Pruned
    <3>3. CASE prune' = [Pruned EXCEPT !.at = "cleanup", !.stale = stale]
      <4>1. prune'.at = "cleanup"
        BY <3>2, <3>3
      <4>2. prune'.stale = stale
        BY <3>2, <3>3
      <4>3. prune'.now = Pruned.now
        BY <3>2, <3>3
      <4>4. prune'.seen = Pruned.seen
        BY <3>2, <3>3
      <4>5. QED
        BY <3>1, <4>1, <4>2, <4>3, <4>4
    <3>4. QED
      BY <2>1, <3>1, <3>3
  <2>4. QED
    BY <1>1, <1>2, <2>1, <2>2, <2>3 DEF PruneInv, Recent
<1>9. ASSUME PruneCleanup PROVE PruneInv'
  <2>1. /\ prune' = Pruned /\ prune.at = "cleanup" /\ clock' = clock
        /\ \A w \in Workers : last_seen'[w] = IF w \in prune.stale THEN Nil ELSE last_seen[w]
    BY <1>1, <1>9, CleanupEffect DEF PruneCleanup
  <2>2. /\ prune'.at = "list" /\ prune'.now = prune.now
        /\ prune'.seen \in [Workers -> Scores \cup {Nil}]
    BY <2>1 DEF Pruned, IdlePrune
  <2>3. QED
    BY <1>1, <1>2, <2>1, <2>2 DEF PruneInv, Recent
<1>10. ASSUME ListSeen PROVE PruneInv'
  <2>1. prune.at = "list" /\ UNCHANGED <<last_seen, clock>>
        /\ prune' \in {IdlePrune, [prune EXCEPT !.at = "records", !.seen = last_seen]}
    BY <1>10 DEF ListSeen, Reads, vars
  <2>2. CASE prune' = [prune EXCEPT !.at = "records", !.seen = last_seen]
    <3>1. prune'.at = "records" /\ prune'.now = prune.now /\ prune'.seen = last_seen
      BY <2>2
    <3>2. QED
      BY <1>1, <1>2, <2>1, <3>1 DEF PruneInv, Recent
  <2>3. QED
    BY <1>5, <2>1, <2>2
<1>11. QED
  BY <1>3, <1>4, <1>5, <1>6, <1>7, <1>8, <1>9, <1>10
     DEF AdminNext, adminVars, vars, Tick, PurgeSelect, PurgeDelete, ListRecords, PurgeStops,
         PruneStops, Reads, registry

\* list_workers answers with workers that were seen recently, whatever other
\* workers, purges and scripts do between its round trips.
THEOREM ListsOnlyRecentWorkersHolds == AdminSpec => []ListsOnlyRecentWorkers
<1>1. AdminInit => PruneInv
  <2> SUFFICES ASSUME AdminInit PROVE PruneInv
    OBVIOUS
  <2>1. KeysInv /\ clock \in Times /\ prune = IdlePrune
    BY InitKeysInv DEF AdminInit
  <2>2. QED
    BY <2>1, TimesAssumption DEF PruneInv, IdlePrune
<1>2. PruneInv /\ [AdminNext]_adminVars => PruneInv'
  BY NextPruneInv
<1>3. PruneInv => ListsOnlyRecentWorkers
  BY DEF PruneInv, ListsOnlyRecentWorkers, Reported, Recent, KeysInv, TypeOK
<1>4. QED
  BY <1>1, <1>2, <1>3, PTL DEF AdminSpec
=============================================================================
