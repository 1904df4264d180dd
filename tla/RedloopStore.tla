----------------------------- MODULE RedloopStore -----------------------------
(***************************************************************************)
(* One redloop namespace as its Redis keys hold it, and the Lua scripts     *)
(* that are the only multi-key writers of those keys                        *)
(* (crates/redloop/src/redis_store/scripts).  Redis runs a script           *)
(* atomically, so every script, with every branch and early return it has,  *)
(* is one action.  A call the script rejects writes nothing: it is a        *)
(* stuttering step, and the action is simply not enabled for it.            *)
(*                                                                          *)
(* A ZSET is a total function from jobs to a score, Nil for a job that is   *)
(* not a member.  Scores, times and durations share one unit.  Every        *)
(* script takes `now` from its caller; callers' clocks are not              *)
(* synchronised, so two calls may carry any two times.                      *)
(***************************************************************************)
EXTENDS Integers, FiniteSets

CONSTANTS
    Jobs,           \* job ids, as numbers: their order is the ZSET tie-break
    Workers,        \* worker ids
    Tokens,         \* lease tokens (UUIDs drawn by the caller of reserve)
    Nil,            \* "not a member" / "no field"
    Times,          \* values `now` and `schedule_at` may take
    LeaseDuration,  \* WorkerConfig.lease_duration
    Capacities,     \* capacities a reserve call may ask for
    ReapLimits,     \* limits a reap call may carry
    Policies,       \* retry policies a worker may be configured with
    PolicyOf,       \* the policy each worker was configured with
    RetryDelay,     \* delay before retry n under a policy (module RetryPolicy)
    MaxFailures     \* bound on the failure counter

Scores == Nat

ASSUME JobsAssumption == Jobs \subseteq Nat /\ IsFiniteSet(Jobs)
ASSUME NilAssumption == Nil \notin Scores /\ Nil \notin Policies
                        /\ Nil \notin [worker : Workers, token : Tokens]
ASSUME TimesAssumption == Times \subseteq Nat \ {0} /\ LeaseDuration \in Nat \ {0}
ASSUME LimitsAssumption == /\ Capacities \subseteq Nat \ {0}
                           /\ ReapLimits \subseteq Nat \ {0}
                           /\ MaxFailures \in Nat \ {0}
ASSUME PolicyAssumption ==
    /\ \A p \in Policies : /\ p.kind \in {"never", "count", "infinite"}
                           /\ p.max_retries \in Nat
    /\ PolicyOf \in [Workers -> Policies]
    /\ RetryDelay \in [Policies -> [1 .. MaxFailures -> Nat]]

VARIABLES
    ready, scheduled, leased, failed,   \* ZSETs: Jobs -> score or Nil
    lease_meta,                         \* holder of each lease, or Nil
    failures,                           \* failure counter, 0 when absent
    rerun,                              \* jobs with a rerun request
    last_seen,                          \* workers:last_seen
    workers_config,                     \* workers with a workers:config record
    workers_leases,                     \* workers:leases, 0 when absent
    cfg                                 \* the namespace's retry policy

placement == <<ready, scheduled, failed>>
leases == <<leased, lease_meta, workers_leases>>
registry == <<last_seen, workers_config, cfg>>
vars == <<ready, scheduled, leased, failed, lease_meta, failures, rerun,
          last_seen, workers_config, workers_leases, cfg>>

-----------------------------------------------------------------------------
\* Redis commands and the scripts' local helpers

ZAdd(z, j, score) == [z EXCEPT ![j] = score]
ZRem(z, j) == [z EXCEPT ![j] = Nil]
In(z, j) == z[j] # Nil

\* Mutants: the field is deleted one lease too early; only the last lease is
\* subtracted.
Decremented_Early(n) == IF n <= 2 THEN 0 ELSE n - 1
Decremented_LastOnly(n) == IF n <= 1 THEN 0 ELSE n

\* HINCRBY -1, then HDEL when the result is not positive
Decremented(n) == IF n <= 1 THEN 0 ELSE n - 1

CurrentState(j) ==
    IF In(ready, j) THEN "ready"
    ELSE IF In(scheduled, j) THEN "scheduled"
    ELSE IF In(leased, j) THEN "leased"
    ELSE IF In(failed, j) THEN "failed"
    ELSE "none"

\* a target at or before now, or none given (0), is "ready now"
Target(at, now) ==
    IF at <= now THEN [state |-> "ready", score |-> now]
                 ELSE [state |-> "scheduled", score |-> at]

ActivationScore(j) == IF In(ready, j) THEN ready[j] ELSE scheduled[j]

\* Mutant: the old placement is left behind.
Moved_AddOnly(z, name, j, from, to, score) == IF name = to THEN ZAdd(z, j, score) ELSE z

\* one waiting or failed ZSET after job j leaves set `from` and enters set `to`
Moved(z, name, j, from, to, score) ==
    IF name = to THEN ZAdd(z, j, score) ELSE IF name = from THEN ZRem(z, j) ELSE z

Move(j, from, to, score) ==
    /\ ready' = Moved(ready, "ready", j, from, to, score)
    /\ scheduled' = Moved(scheduled, "scheduled", j, from, to, score)
    /\ failed' = Moved(failed, "failed", j, from, to, score)

\* Mutants: the counter is deleted on every move; it is decremented, not deleted.
ClearedFailures_Always(j, state) == [failures EXCEPT ![j] = 0]
ClearedFailures_Decremented(j, state) == [failures EXCEPT ![j] = @ - 1]

\* leaving `failed` also drops the failure counter
ClearedFailures(j, state) ==
    IF state = "failed" THEN [failures EXCEPT ![j] = 0] ELSE failures

\* Mutant: the token is not compared.
Holds_AnyToken(j, w, t) == /\ lease_meta[j] # Nil /\ lease_meta[j].worker = w
                           /\ In(leased, j)

Holds(j, w, t) == /\ lease_meta[j] = [worker |-> w, token |-> t]
                  /\ In(leased, j)

\* Mutant: the SREM is missing.
ForgetRerun_Skipped(j) == UNCHANGED rerun

\* SREM rerun, in every script that changes where a job is
ForgetRerun(j) == rerun' = rerun \ {j}

\* Mutant: the HDEL of lease_meta is missing.
EndLease_KeepsMeta(j) ==
    /\ leased' = ZRem(leased, j)
    /\ workers_leases' = [workers_leases EXCEPT ![lease_meta[j].worker] = Decremented(@)]
    /\ UNCHANGED lease_meta

\* what every script that ends a lease writes to the lease keys
EndLease(j) ==
    /\ leased' = ZRem(leased, j)
    /\ lease_meta' = ZRem(lease_meta, j)
    /\ workers_leases' = [workers_leases EXCEPT ![lease_meta[j].worker] = Decremented(@)]

\* Mutant: the request is dropped with the mark.
RequeueIfRerun_Dropped(j, now) == UNCHANGED placement

\* a successful lease's rerun request makes the job ready again
RequeueIfRerun(j, now) ==
    IF j \in rerun THEN Move(j, "leased", "ready", now) ELSE UNCHANGED placement

-----------------------------------------------------------------------------
\* enqueue_or_reschedule.lua

EnqueueImmediate(j, now) ==
    LET state == CurrentState(j) IN
    \/ /\ state = "leased"
       /\ rerun' = rerun \cup {j}
       /\ UNCHANGED <<placement, leases, failures, registry>>
    \/ /\ state \in {"none", "scheduled", "failed"}
       /\ Move(j, state, "ready", now)
       /\ failures' = ClearedFailures(j, state)
       /\ IF state = "none" THEN UNCHANGED rerun ELSE ForgetRerun(j)
       /\ UNCHANGED <<leases, registry>>

ShouldReplace(mode, new, old) ==
    /\ mode = "earlier" => new < old
    /\ mode = "later" => new > old

EnqueueScheduled(j, at, mode, now) ==
    LET state == CurrentState(j)
        target == Target(at, now)
    IN  /\ state # "leased"
        /\ state \in {"ready", "scheduled"} =>
              /\ <<state, ActivationScore(j)>> # <<target.state, target.score>>
              /\ ShouldReplace(mode, target.score, ActivationScore(j))
        /\ Move(j, state, target.state, target.score)
        /\ failures' = ClearedFailures(j, state)
        /\ ForgetRerun(j)
        /\ UNCHANGED <<leases, registry>>

Reschedule(j, at, now) ==
    LET state == CurrentState(j)
        target == Target(at, now)
    IN  /\ state \in {"ready", "scheduled"}
        /\ <<state, ActivationScore(j)>> # <<target.state, target.score>>
        /\ Move(j, state, target.state, target.score)
        /\ ForgetRerun(j)
        /\ UNCHANGED <<leases, failures, registry>>

-----------------------------------------------------------------------------
\* reserve.lua.  The loop takes, one at a time, the candidate with the lowest
\* score, `ready` before `scheduled` on a tie, then the lower member; module
\* ScriptLoops checks that it ends with exactly the set Reserved.

Due(now) == {j \in Jobs : In(ready, j) \/ (In(scheduled, j) /\ scheduled[j] <= now)}

TakenBefore(a, b) ==
    \/ ActivationScore(a) < ActivationScore(b)
    \/ /\ ActivationScore(a) = ActivationScore(b)
       /\ \/ In(ready, a) /\ ~In(ready, b)
          \/ (In(ready, a) <=> In(ready, b)) /\ a < b

Reserved(now, capacity) ==
    {j \in Due(now) : Cardinality({k \in Due(now) : TakenBefore(k, j)}) < capacity}

\* UUIDs the caller drew.  The store keeps no memory of a token after its
\* lease, so a token no lease uses now stands for one never drawn before.
FreshTokens == Tokens \ {lease_meta[j].token : j \in {k \in Jobs : lease_meta[k] # Nil}}

TokenAssignments(S) ==
    {f \in [S -> FreshTokens] : \A a, b \in S : f[a] = f[b] => a = b}

\* Mutant: a mismatch is not noticed.
PolicyAccepted_Always(w) == TRUE

\* the first worker to reserve fixes the namespace's policy
PolicyAccepted(w) == cfg \in {Nil, PolicyOf[w]}

Reserve(w, now, capacity) ==
    LET S == Reserved(now, capacity) IN
    /\ PolicyAccepted(w)
    /\ cfg' = PolicyOf[w]
    /\ last_seen' = [last_seen EXCEPT ![w] = now]
    /\ workers_config' = workers_config \cup {w}
    /\ ready' = [j \in Jobs |-> IF j \in S THEN Nil ELSE ready[j]]
    /\ scheduled' = [j \in Jobs |-> IF j \in S /\ ~In(ready, j) THEN Nil ELSE scheduled[j]]
    /\ leased' = [j \in Jobs |-> IF j \in S THEN now + LeaseDuration ELSE leased[j]]
    /\ \E token \in TokenAssignments(S) :
          lease_meta' = [j \in Jobs |-> IF j \in S THEN [worker |-> w, token |-> token[j]]
                                                  ELSE lease_meta[j]]
    /\ workers_leases' = [workers_leases EXCEPT ![w] = @ + Cardinality(S)]
    /\ UNCHANGED <<failed, failures, rerun>>

-----------------------------------------------------------------------------
\* heartbeat.lua, ack.lua, complete_and_reschedule.lua, fail_or_retry.lua

Heartbeat(j, w, t, now) ==
    /\ Holds(j, w, t)
    /\ leased' = ZAdd(leased, j, now + LeaseDuration)
    /\ last_seen' = [last_seen EXCEPT ![w] = now]
    /\ UNCHANGED <<placement, lease_meta, workers_leases, failures, rerun, workers_config, cfg>>

Ack(j, w, t, now) ==
    /\ Holds(j, w, t)
    /\ EndLease(j)
    /\ RequeueIfRerun(j, now)
    /\ failures' = [failures EXCEPT ![j] = 0]
    /\ ForgetRerun(j)
    /\ UNCHANGED registry

CompleteAndReschedule(j, w, t, at, now) ==
    LET target == Target(IF j \in rerun THEN 0 ELSE at, now) IN
    /\ Holds(j, w, t)
    /\ EndLease(j)
    /\ Move(j, "leased", target.state, target.score)
    /\ failures' = [failures EXCEPT ![j] = 0]
    /\ ForgetRerun(j)
    /\ UNCHANGED registry

\* Mutant: one retry more than the policy grants.
ShouldRetry_OneMore(kind, policy, count) ==
    /\ kind # "terminal"
    /\ \/ policy.kind = "infinite"
       \/ policy.kind = "count" /\ count <= policy.max_retries + 1

ShouldRetry(kind, policy, count) ==
    /\ kind # "terminal"
    /\ \/ policy.kind = "infinite"
       \/ policy.kind = "count" /\ count <= policy.max_retries

FailOrRetry(j, w, t, kind, now) ==
    LET policy == PolicyOf[w]
        count == failures[j] + 1
        delay == RetryDelay[policy][count]
    IN  /\ Holds(j, w, t)
        /\ failures[j] < MaxFailures
        /\ EndLease(j)
        /\ failures' = [failures EXCEPT ![j] = count]
        /\ IF ~ShouldRetry(kind, policy, count) THEN Move(j, "leased", "failed", now)
           ELSE IF delay = 0 THEN Move(j, "leased", "ready", now)
           ELSE Move(j, "leased", "scheduled", now + delay)
        /\ ForgetRerun(j)
        /\ UNCHANGED registry

-----------------------------------------------------------------------------
\* reap_expired.lua: up to `limit` leases, lowest deadline first

\* Mutants: a lease that expires now is not expired yet; the deadline is not
\* looked at.
Expired_Strictly(now) == {j \in Jobs : In(leased, j) /\ leased[j] < now}
Expired_All(now) == {j \in Jobs : In(leased, j)}

Expired(now) == {j \in Jobs : In(leased, j) /\ leased[j] <= now}
ExpiresBefore(a, b) == leased[a] < leased[b] \/ (leased[a] = leased[b] /\ a < b)
Reaped(now, limit) ==
    {j \in Expired(now) : Cardinality({k \in Expired(now) : ExpiresBefore(k, j)}) < limit}

LeasesOf(w) == {j \in Jobs : lease_meta[j] # Nil /\ lease_meta[j].worker = w}

ReapExpired(now, limit) ==
    LET S == Reaped(now, limit) IN
    /\ S # {}
    /\ leased' = [j \in Jobs |-> IF j \in S THEN Nil ELSE leased[j]]
    /\ lease_meta' = [j \in Jobs |-> IF j \in S THEN Nil ELSE lease_meta[j]]
    /\ ready' = [j \in Jobs |-> IF j \in S THEN now ELSE ready[j]]
    /\ rerun' = rerun \ S
    /\ workers_leases' =
          [w \in Workers |->
              LET n == Cardinality(S \cap LeasesOf(w)) IN
              IF workers_leases[w] <= n THEN 0 ELSE workers_leases[w] - n]
    /\ UNCHANGED <<scheduled, failed, failures, registry>>

-----------------------------------------------------------------------------
\* operator_transition.lua

Cancel(j) ==
    LET state == CurrentState(j) IN
    /\ state \in {"scheduled", "failed"}
    /\ Move(j, state, "none", 0)
    /\ failures' = [failures EXCEPT ![j] = 0]
    /\ ForgetRerun(j)
    /\ UNCHANGED <<leases, registry>>

\* requeue and retry_now are the same branch of the script
Requeue(j, now) ==
    LET state == CurrentState(j) IN
    /\ state \in {"scheduled", "failed"}
    /\ Move(j, state, "ready", now)
    /\ failures' = ClearedFailures(j, state)
    /\ ForgetRerun(j)
    /\ UNCHANGED <<leases, registry>>

ForceRetry(j, now) ==
    /\ CurrentState(j) = "failed"
    /\ Move(j, "failed", "ready", now)
    /\ failures' = [failures EXCEPT ![j] = 0]
    /\ ForgetRerun(j)
    /\ UNCHANGED <<leases, registry>>

ForceAck(j, now) ==
    /\ CurrentState(j) = "leased" /\ lease_meta[j] # Nil
    /\ EndLease(j)
    /\ RequeueIfRerun(j, now)
    /\ failures' = [failures EXCEPT ![j] = 0]
    /\ ForgetRerun(j)
    /\ UNCHANGED registry

ForceFail(j, now) ==
    /\ CurrentState(j) = "leased" /\ lease_meta[j] # Nil
    /\ failures[j] < MaxFailures
    /\ EndLease(j)
    /\ Move(j, "leased", "failed", now)
    /\ failures' = [failures EXCEPT ![j] = @ + 1]
    /\ ForgetRerun(j)
    /\ UNCHANGED registry

-----------------------------------------------------------------------------

Init ==
    /\ ready = [j \in Jobs |-> Nil]
    /\ scheduled = [j \in Jobs |-> Nil]
    /\ leased = [j \in Jobs |-> Nil]
    /\ failed = [j \in Jobs |-> Nil]
    /\ lease_meta = [j \in Jobs |-> Nil]
    /\ failures = [j \in Jobs |-> 0]
    /\ rerun = {}
    /\ last_seen = [w \in Workers |-> Nil]
    /\ workers_config = {}
    /\ workers_leases = [w \in Workers |-> 0]
    /\ cfg = Nil

ClientStep(j, now) ==
    \/ EnqueueImmediate(j, now)
    \/ \E at \in Times, mode \in {"replace", "earlier", "later"} : EnqueueScheduled(j, at, mode, now)
    \/ \E at \in Times \cup {0} : Reschedule(j, at, now)

HolderStep(j, w, t, now) ==
    \/ Heartbeat(j, w, t, now)
    \/ Ack(j, w, t, now)
    \/ \E at \in Times \cup {0} : CompleteAndReschedule(j, w, t, at, now)
    \/ \E kind \in {"retryable", "terminal"} : FailOrRetry(j, w, t, kind, now)

OperatorStep(j, now) ==
    \/ Cancel(j)
    \/ Requeue(j, now)
    \/ ForceRetry(j, now)
    \/ ForceAck(j, now)
    \/ ForceFail(j, now)

Next ==
    \E now \in Times :
        \/ \E j \in Jobs : ClientStep(j, now)
        \/ \E w \in Workers, capacity \in Capacities : Reserve(w, now, capacity)
        \/ \E j \in Jobs, w \in Workers, t \in Tokens : HolderStep(j, w, t, now)
        \/ \E limit \in ReapLimits : ReapExpired(now, limit)
        \/ \E j \in Jobs : OperatorStep(j, now)

Spec == Init /\ [][Next]_vars

-----------------------------------------------------------------------------
\* Properties

Placement == [Jobs -> Scores \cup {Nil}]

\* Every key holds what its readers parse: scores are times, counters are
\* naturals, a lease record names a worker and a token.
TypeOK ==
    /\ ready \in Placement
    /\ scheduled \in Placement
    /\ leased \in Placement
    /\ failed \in Placement
    /\ lease_meta \in [Jobs -> [worker : Workers, token : Tokens] \cup {Nil}]
    /\ failures \in [Jobs -> 0 .. MaxFailures]
    /\ rerun \subseteq Jobs
    /\ last_seen \in [Workers -> Scores \cup {Nil}]
    /\ workers_config \subseteq Workers
    /\ workers_leases \in [Workers -> Nat]
    /\ cfg \in Policies \cup {Nil}

\* A job is in at most one of ready, scheduled, leased and failed, although
\* no script checks more than the first set it finds the job in
\* (docs/protocol/redloop/redis-layout.md:176).
SingleMembership ==
    \A j \in Jobs :
        /\ In(ready, j) => ~In(scheduled, j) /\ ~In(leased, j) /\ ~In(failed, j)
        /\ In(scheduled, j) => ~In(leased, j) /\ ~In(failed, j)
        /\ In(leased, j) => ~In(failed, j)

\* The leased ZSET and the lease_meta hash describe the same leases: otherwise
\* get_job fails with InvalidData, and a lease nobody holds can only expire.
LeaseHasHolder == \A j \in Jobs : In(leased, j) <=> lease_meta[j] # Nil

\* A rerun request exists only beside the lease it waits for, so it can
\* neither outlive the lease nor start a run nobody asked for
\* (redis-layout.md:181-183).
RerunOnlyWhileLeased == \A j \in rerun : In(leased, j)

\* workers:leases counts the jobs leased to each worker (redis-layout.md:221).
\* Eight scripts move it in five places; one missed or doubled change drifts
\* for good.
LeaseCountsMatch == \A w \in Workers : workers_leases[w] = Cardinality(LeasesOf(w))

\* Every lease is held under the namespace's one retry policy, although
\* fail_or_retry trusts the policy its caller sends
\* (docs/protocol/redloop/README.md:120).
OnePolicy ==
    \A j \in Jobs : lease_meta[j] # Nil => PolicyOf[lease_meta[j].worker] = cfg

\* A job that is not failed has consumed no more of its retry budget than the
\* policy grants, and a job that left the queue leaves no counter behind for
\* its next life.
FailuresWithinBudget ==
    \A j \in Jobs :
        /\ failures[j] > 0 => CurrentState(j) # "none" /\ cfg # Nil
        /\ failures[j] > 0 /\ CurrentState(j) # "failed" =>
              /\ cfg.kind # "never"
              /\ cfg.kind = "count" => failures[j] <= cfg.max_retries

\* A failed job has failed at least once, and at most once more than the
\* budget: the counter a reader of the failed list sees is a real history.
FailedHasHistory ==
    \A j \in Jobs : In(failed, j) =>
        /\ failures[j] >= 1
        /\ cfg.kind = "count" => failures[j] <= cfg.max_retries + 1

\* The failure history of a job falls only when the job leaves `failed`, a
\* lease of it ends, or it leaves the queue: a waiting job never gets retries
\* back (README.md:118-119).
FailureHistoryKept ==
    [][\A j \in Jobs : failures'[j] < failures[j] =>
          \/ In(failed, j)
          \/ In(leased, j) /\ ~In(leased, j)'
          \/ CurrentState(j)' = "none"]_vars

\* A rerun request is consumed only by the end of its lease, and then the job
\* either is ready for the run that was asked for (api.md:197-199), or the run
\* failed and the failure is counted: no end of a lease, early or late, drops
\* the request without one or the other to show for it.
RerunNotLost ==
    [][\A j \in rerun : j \notin rerun' =>
          /\ ~In(leased, j)'
          /\ \/ CurrentState(j)' = "ready"
             \/ CurrentState(j)' \in {"scheduled", "failed"} /\ failures'[j] > failures[j]]_vars

\* The store implements the abstract life of its jobs: whatever the scripts do
\* to four sets, a counter and a mark, a reader sees each job make only the
\* moves JobLifecycle allows.
Lifecycle == INSTANCE JobLifecycle WITH
    state <- [j \in Jobs |-> CurrentState(j)], again <- rerun

ImplementsLifecycle == Lifecycle!Spec
=============================================================================
