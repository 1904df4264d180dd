-------------------------- MODULE RedloopHistoryProofs --------------------------
(***************************************************************************)
(* What the steps of RedloopStore do to one job's life, proved for every    *)
(* namespace: the store implements JobLifecycle, rerun requests are not      *)
(* lost, the retry budget is kept.                                          *)
(*                                                                          *)
(* LEMMA StepEffect reads every script once and says what it does to the     *)
(* things these properties mention; each theorem then follows from the six   *)
(* kinds of step it names, whatever script took the step.                   *)
(***************************************************************************)
EXTENDS RedloopStoreProofs

\* The retry budget with its counters, the inductive form of
\* FailuresWithinBudget and FailedHasHistory.
Budget == FailuresWithinBudget /\ FailedHasHistory

\* Every other job keeps its state and its counter.
OnlyJob(j) ==
    /\ \A k \in Jobs \ {j} : CurrentState(k)' = CurrentState(k) /\ failures'[k] = failures[k]
    /\ cfg' = cfg

\* A job that is not leased is moved, or leaves the queue.
Moves(j) ==
    /\ OnlyJob(j)
    /\ UNCHANGED <<lease_meta, rerun>>
    /\ CurrentState(j) # "leased"
    /\ \/ CurrentState(j)' \in {"ready", "scheduled"}
       \/ /\ CurrentState(j)' = "none" /\ failures'[j] = 0
          /\ CurrentState(j) \in {"scheduled", "failed"}
    /\ failures'[j] \in {0, failures[j]}
    /\ CurrentState(j) = "failed" => failures'[j] = 0
    /\ failures'[j] # failures[j] => \/ CurrentState(j) = "failed"
                                     \/ CurrentState(j)' = "none"

\* A leased job is asked to run again.
AsksAgain(j) ==
    /\ \A k \in Jobs : CurrentState(k)' = CurrentState(k)
    /\ CurrentState(j) = "leased"
    /\ rerun' = rerun \cup {j}
    /\ UNCHANGED <<lease_meta, failures, cfg>>

\* A lease ends, by success or by failure.
Ends(j) ==
    /\ OnlyJob(j)
    /\ lease_meta' = ZRem(lease_meta, j)
    /\ rerun' = rerun \ {j}
    /\ CurrentState(j) = "leased"
    /\ \/ /\ CurrentState(j)' \in IF j \in rerun THEN {"ready"} ELSE {"none", "ready", "scheduled"}
          /\ failures'[j] = 0
       \/ /\ CurrentState(j)' \in {"ready", "scheduled", "failed"}
          /\ failures'[j] = failures[j] + 1
          /\ CurrentState(j)' # "failed" => ShouldRetry("retryable", cfg, failures'[j])

\* A lease is renewed.
Renews ==
    /\ \A k \in Jobs : CurrentState(k)' = CurrentState(k)
    /\ UNCHANGED <<lease_meta, failures, rerun, cfg>>

\* A worker reserves the jobs of S.
Starts(S, w) ==
    /\ S \subseteq Jobs
    /\ \A j \in S : CurrentState(j) \in {"ready", "scheduled"} /\ CurrentState(j)' = "leased"
    /\ \A j \in Jobs \ S : CurrentState(j)' = CurrentState(j) /\ lease_meta'[j] = lease_meta[j]
    /\ \E token \in TokenAssignments(S) :
          \A j \in S : lease_meta'[j] = [worker |-> w, token |-> token[j]]
    /\ cfg \in {Nil, cfg'} /\ cfg' \in Policies
    /\ UNCHANGED <<failures, rerun>>

\* The leases of S expired and are reaped.
Expires(S) ==
    /\ S \subseteq Jobs
    /\ \A j \in S : CurrentState(j) = "leased" /\ CurrentState(j)' = "ready" /\ lease_meta'[j] = Nil
    /\ \A j \in Jobs \ S : CurrentState(j)' = CurrentState(j) /\ lease_meta'[j] = lease_meta[j]
    /\ rerun' = rerun \ S
    /\ UNCHANGED <<failures, cfg>>

\* A step that leaves a job's keys alone leaves its state alone.
LEMMA OthersKeepState ==
  ASSUME NEW j \in Jobs, OthersUnchanged(j),
         \A k \in Jobs \ {j} : failures'[k] = failures[k]
  PROVE  OnlyJob(j)
BY DEF OthersUnchanged, OnlyJob, CurrentState, In

\* Moving a job that is not leased, as a reader of the keys sees it.
LEMMA MoveIsMoves ==
  ASSUME KeysInv, NEW j \in Jobs, NEW to \in {"ready", "scheduled", "none"}, NEW score \in Nat,
         CurrentState(j) # "leased", Move(j, CurrentState(j), to, score),
         rerun' = rerun \/ rerun' = rerun \ {j}, UNCHANGED <<leases, registry>>,
         \/ failures' = ClearedFailures(j, CurrentState(j))
         \/ failures' = failures /\ CurrentState(j) # "failed"
         \/ /\ failures' = [failures EXCEPT ![j] = 0]
            /\ CurrentState(j) = "failed" \/ to = "none",
         to = "none" => /\ CurrentState(j) \in {"scheduled", "failed"}
                        /\ failures' = [failures EXCEPT ![j] = 0]
  PROVE  Moves(j)
<1>1. TypeOK /\ JobInv(j)
  BY DEF KeysInv
<1>2. ~In(leased, j) /\ j \notin rerun
  BY <1>1, StateIsPlacement DEF JobInv
<1>3. CurrentState(j)' = to
  <2>1. /\ In(ready, j)' <=> to = "ready"
        /\ In(scheduled, j)' <=> to = "scheduled"
        /\ ~In(failed, j)'
    BY <1>1, MoveEffect, StateIsPlacement
  <2>2. ~In(leased, j)'
    BY <1>2 DEF leases, In
  <2>3. QED
    BY <2>1, <2>2 DEF CurrentState
<1>4. /\ \A k \in Jobs \ {j} : failures'[k] = failures[k]
      /\ failures'[j] \in {0, failures[j]}
      /\ CurrentState(j) = "failed" => failures'[j] = 0
      /\ failures'[j] # failures[j] => CurrentState(j) = "failed" \/ to = "none"
      /\ to = "none" => failures'[j] = 0
  BY <1>1 DEF TypeOK, ClearedFailures
<1>5. OthersUnchanged(j)
  BY <1>1, MoveEffect DEF OthersUnchanged, leases, registry
<1>6. QED
  BY <1>2, <1>3, <1>4, <1>5, OthersKeepState DEF Moves, leases

\* Ending a lease and putting the job in `to`, or nowhere, as a reader sees it.
LEMMA EndLeaseState ==
  ASSUME KeysInv, NEW j \in Jobs, NEW to \in {"ready", "scheduled", "failed", "none"},
         NEW score \in Nat, lease_meta[j] # Nil, EndLease(j), Move(j, "leased", to, score),
         rerun' = rerun \ {j}, UNCHANGED registry,
         \A k \in Jobs \ {j} : failures'[k] = failures[k]
  PROVE  /\ OnlyJob(j)
         /\ lease_meta' = ZRem(lease_meta, j)
         /\ CurrentState(j) = "leased" /\ CurrentState(j)' = to
<1>1. TypeOK /\ JobInv(j)
  BY DEF KeysInv
<1>2. CurrentState(j) = "leased"
  BY <1>1, StateIsPlacement DEF JobInv
<1>3. CurrentState(j)' = to
  <2>1. /\ In(ready, j)' <=> to = "ready"
        /\ In(scheduled, j)' <=> to = "scheduled"
        /\ In(failed, j)' <=> to = "failed"
    BY <1>1, <1>2, MoveEffect, StateIsPlacement
  <2>2. ~In(leased, j)'
    BY EndLeaseCounts DEF In
  <2>3. QED
    BY <2>1, <2>2 DEF CurrentState
<1>4. OthersUnchanged(j)
  BY <1>1, MoveEffect, EndLeaseCounts DEF OthersUnchanged, registry
<1>5. QED
  BY <1>2, <1>3, <1>4, OthersKeepState DEF EndLease

LEMMA ClientEffect ==
  ASSUME KeysInv, NEW j \in Jobs, NEW now \in Times, ClientStep(j, now)
  PROVE  Moves(j) \/ AsksAgain(j)
<1>1. now \in Nat /\ TypeOK /\ JobInv(j)
  BY TimesAssumption DEF KeysInv
<1>2. ASSUME NEW at \in Times \cup {0}
      PROVE  /\ Target(at, now).state \in {"ready", "scheduled"}
             /\ Target(at, now).score \in Nat
  BY <1>1, TimesAssumption DEF Target
<1>3. CASE EnqueueImmediate(j, now)
  <2>1. CASE CurrentState(j) = "leased"
    BY <1>3, <2>1 DEF EnqueueImmediate, AsksAgain, CurrentState, In, placement, leases, registry
  <2>2. CASE CurrentState(j) # "leased"
    <3>1. /\ Move(j, CurrentState(j), "ready", now)
          /\ failures' = ClearedFailures(j, CurrentState(j))
          /\ rerun' = rerun \/ rerun' = rerun \ {j}
          /\ UNCHANGED <<leases, registry>>
      BY <1>3, <2>2 DEF EnqueueImmediate, ForgetRerun
    <3>2. QED
      BY <1>1, <2>2, <3>1, MoveIsMoves
  <2>3. QED
    BY <2>1, <2>2
<1>4. CASE \E at \in Times, mode \in {"replace", "earlier", "later"} :
             EnqueueScheduled(j, at, mode, now)
  <2>1. PICK at \in Times, mode \in {"replace", "earlier", "later"} :
             EnqueueScheduled(j, at, mode, now)
    BY <1>4
  <2>2. /\ CurrentState(j) # "leased"
        /\ Move(j, CurrentState(j), Target(at, now).state, Target(at, now).score)
        /\ failures' = ClearedFailures(j, CurrentState(j))
        /\ rerun' = rerun \ {j}
        /\ UNCHANGED <<leases, registry>>
    BY <2>1 DEF EnqueueScheduled, ForgetRerun
  <2>3. QED
    BY <1>2, <2>2, MoveIsMoves
<1>5. CASE \E at \in Times \cup {0} : Reschedule(j, at, now)
  <2>1. PICK at \in Times \cup {0} : Reschedule(j, at, now)
    BY <1>5
  <2>2. /\ CurrentState(j) # "leased" /\ CurrentState(j) # "failed"
        /\ Move(j, CurrentState(j), Target(at, now).state, Target(at, now).score)
        /\ rerun' = rerun \ {j} /\ failures' = failures
        /\ UNCHANGED <<leases, registry>>
    BY <2>1 DEF Reschedule, ForgetRerun
  <2>3. QED
    BY <1>2, <2>2, MoveIsMoves
<1>6. QED
  BY <1>3, <1>4, <1>5 DEF ClientStep

LEMMA HolderEffect ==
  ASSUME KeysInv, NEW j \in Jobs, NEW w \in Workers, NEW t \in Tokens, NEW now \in Times,
         HolderStep(j, w, t, now)
  PROVE  Renews \/ Ends(j)
<1>1. now \in Nat /\ TypeOK /\ JobInv(j) /\ LeaseDuration \in Nat
  BY TimesAssumption DEF KeysInv
<1>2. Holds(j, w, t) /\ lease_meta[j] # Nil /\ PolicyOf[w] = cfg
  <2>1. Holds(j, w, t)
    BY DEF HolderStep, Heartbeat, Ack, CompleteAndReschedule, FailOrRetry
  <2>2. QED
    BY <1>1, <2>1, NilAssumption DEF Holds, JobInv
<1>3. ASSUME NEW k \in Jobs \ {j}, NEW n, failures' = [failures EXCEPT ![j] = n]
      PROVE  failures'[k] = failures[k]
  BY <1>1, <1>3 DEF TypeOK
<1>4. CASE Heartbeat(j, w, t, now)
  <2>1. /\ leased' = ZAdd(leased, j, now + LeaseDuration)
        /\ UNCHANGED <<placement, lease_meta, failures, rerun, cfg>>
    BY <1>4 DEF Heartbeat
  <2>2. now + LeaseDuration # Nil
    BY <1>1, NilAssumption DEF Scores
  <2>3. \A k \in Jobs : In(leased, k)' <=> In(leased, k)
    BY <1>1, <1>2, <2>1, <2>2 DEF In, ZAdd, TypeOK, Placement, JobInv
  <2>4. QED
    BY <2>1, <2>3 DEF Renews, CurrentState, In, placement
<1>5. CASE Ack(j, w, t, now)
  <2>1. /\ EndLease(j)
        /\ \/ Move(j, "leased", "ready", now)
           \/ j \notin rerun /\ Move(j, "leased", "none", 0)
        /\ failures' = [failures EXCEPT ![j] = 0]
        /\ rerun' = rerun \ {j}
        /\ UNCHANGED registry
    BY <1>5, NoMove DEF Ack, RequeueIfRerun, ForgetRerun
  <2>2. failures'[j] = 0
    BY <1>1, <2>1 DEF TypeOK
  <2>3. QED
    BY <1>1, <1>2, <1>3, <2>1, <2>2, EndLeaseState DEF Ends
<1>6. CASE \E at \in Times \cup {0} : CompleteAndReschedule(j, w, t, at, now)
  <2>1. PICK at \in Times \cup {0} : CompleteAndReschedule(j, w, t, at, now)
    BY <1>6
  <2> DEFINE target == Target(IF j \in rerun THEN 0 ELSE at, now)
  <2>2. /\ EndLease(j)
        /\ Move(j, "leased", target.state, target.score)
        /\ failures' = [failures EXCEPT ![j] = 0]
        /\ rerun' = rerun \ {j}
        /\ UNCHANGED registry
    BY <2>1 DEF CompleteAndReschedule, ForgetRerun
  <2>3. /\ target.state \in {"ready", "scheduled"} /\ target.score \in Nat
        /\ j \in rerun => target.state = "ready"
    BY <1>1, TimesAssumption DEF Target
  <2>4. failures'[j] = 0
    BY <1>1, <2>2 DEF TypeOK
  <2> HIDE DEF target
  <2>5. QED
    BY <1>2, <1>3, <2>2, <2>3, <2>4, EndLeaseState DEF Ends
<1>7. CASE \E kind \in {"retryable", "terminal"} : FailOrRetry(j, w, t, kind, now)
  <2>1. PICK kind \in {"retryable", "terminal"} : FailOrRetry(j, w, t, kind, now)
    BY <1>7
  <2> DEFINE count == failures[j] + 1
             delay == RetryDelay[cfg][count]
  <2>2. /\ EndLease(j)
        /\ failures[j] < MaxFailures
        /\ failures' = [failures EXCEPT ![j] = count]
        /\ \/ Move(j, "leased", "failed", now)
           \/ /\ ShouldRetry(kind, cfg, count)
              /\ \/ Move(j, "leased", "ready", now)
                 \/ Move(j, "leased", "scheduled", now + delay)
        /\ rerun' = rerun \ {j}
        /\ UNCHANGED registry
    BY <1>2, <2>1 DEF FailOrRetry, ForgetRerun
  <2>3. failures'[j] = count /\ count \in 1 .. MaxFailures
    BY <1>1, <2>2, LimitsAssumption DEF TypeOK
  <2>4. now + delay \in Nat
    <3>1. cfg \in Policies /\ RetryDelay \in [Policies -> [1 .. MaxFailures -> Nat]]
      BY <1>2, PolicyAssumption
    <3> HIDE DEF count
    <3>2. delay \in Nat
      BY <2>3, <3>1
    <3>3. QED
      BY <1>1, <3>2
  <2>5. ShouldRetry(kind, cfg, count) => ShouldRetry("retryable", cfg, count)
    BY DEF ShouldRetry
  <2> HIDE DEF count, delay
  <2>6. QED
    <3>1. CASE Move(j, "leased", "failed", now)
      BY <1>1, <1>2, <1>3, <2>2, <2>3, <3>1, EndLeaseState DEF Ends, count
    <3>2. CASE ShouldRetry(kind, cfg, count) /\ Move(j, "leased", "ready", now)
      BY <1>1, <1>2, <1>3, <2>2, <2>3, <2>5, <3>2, EndLeaseState DEF Ends, count
    <3>3. CASE ShouldRetry(kind, cfg, count) /\ Move(j, "leased", "scheduled", now + delay)
      BY <1>1, <1>2, <1>3, <2>2, <2>3, <2>4, <2>5, <3>3, EndLeaseState DEF Ends, count
    <3>4. QED
      BY <2>2, <3>1, <3>2, <3>3
<1>8. QED
  BY <1>4, <1>5, <1>6, <1>7 DEF HolderStep

LEMMA OperatorEffect ==
  ASSUME KeysInv, NEW j \in Jobs, NEW now \in Times, OperatorStep(j, now)
  PROVE  Moves(j) \/ Ends(j)
<1>1. now \in Nat /\ 0 \in Nat /\ TypeOK /\ JobInv(j)
  BY TimesAssumption DEF KeysInv
<1>2. ASSUME NEW k \in Jobs \ {j}, NEW n, failures' = [failures EXCEPT ![j] = n]
      PROVE  failures'[k] = failures[k]
  BY <1>1, <1>2 DEF TypeOK
<1>3. CASE Cancel(j)
  BY <1>1, <1>3, MoveIsMoves DEF Cancel, ForgetRerun
<1>4. CASE Requeue(j, now)
  BY <1>1, <1>4, MoveIsMoves DEF Requeue, ForgetRerun
<1>5. CASE ForceRetry(j, now)
  BY <1>1, <1>5, MoveIsMoves DEF ForceRetry, ForgetRerun
<1>6. CASE ForceAck(j, now)
  <2>1. /\ lease_meta[j] # Nil
        /\ EndLease(j)
        /\ \/ Move(j, "leased", "ready", now)
           \/ j \notin rerun /\ Move(j, "leased", "none", 0)
        /\ failures' = [failures EXCEPT ![j] = 0]
        /\ rerun' = rerun \ {j}
        /\ UNCHANGED registry
    BY <1>6, NoMove DEF ForceAck, RequeueIfRerun, ForgetRerun
  <2>2. failures'[j] = 0
    BY <1>1, <2>1 DEF TypeOK
  <2>3. QED
    BY <1>1, <1>2, <2>1, <2>2, EndLeaseState DEF Ends
<1>7. CASE ForceFail(j, now)
  <2>1. /\ lease_meta[j] # Nil
        /\ EndLease(j)
        /\ Move(j, "leased", "failed", now)
        /\ failures' = [failures EXCEPT ![j] = failures[j] + 1]
        /\ rerun' = rerun \ {j}
        /\ UNCHANGED registry
    BY <1>7 DEF ForceFail, ForgetRerun
  <2>2. failures'[j] = failures[j] + 1
    BY <1>1, <2>1 DEF TypeOK
  <2>3. QED
    BY <1>1, <1>2, <2>1, <2>2, EndLeaseState DEF Ends
<1>8. QED
  BY <1>3, <1>4, <1>5, <1>6, <1>7 DEF OperatorStep

LEMMA ReserveEffect ==
  ASSUME KeysInv, NEW w \in Workers, NEW now \in Times, NEW capacity \in Capacities,
         Reserve(w, now, capacity)
  PROVE  Starts(Reserved(now, capacity), w)
<1> DEFINE S == Reserved(now, capacity)
<1>1. TypeOK /\ now + LeaseDuration # Nil
  BY TimesAssumption, NilAssumption DEF KeysInv, Scores
<1>2. S \subseteq Jobs /\ \A j \in S : In(ready, j) \/ In(scheduled, j)
  BY DEF Reserved, Due
<1>3. PICK token \in TokenAssignments(S) :
         lease_meta' = [j \in Jobs |-> IF j \in S THEN [worker |-> w, token |-> token[j]]
                                                 ELSE lease_meta[j]]
  BY DEF Reserve
<1>4. /\ ready' = [j \in Jobs |-> IF j \in S THEN Nil ELSE ready[j]]
      /\ scheduled' = [j \in Jobs |-> IF j \in S /\ ~In(ready, j) THEN Nil ELSE scheduled[j]]
      /\ leased' = [j \in Jobs |-> IF j \in S THEN now + LeaseDuration ELSE leased[j]]
      /\ cfg \in {Nil, PolicyOf[w]} /\ cfg' = PolicyOf[w] /\ PolicyOf[w] \in Policies
      /\ UNCHANGED <<failed, failures, rerun>>
  BY PolicyAssumption DEF Reserve, PolicyAccepted
<1> HIDE DEF S
<1>5. ASSUME NEW j \in S
      PROVE  CurrentState(j) \in {"ready", "scheduled"} /\ CurrentState(j)' = "leased"
  <2>1. j \in Jobs /\ JobInv(j) /\ (In(ready, j) \/ In(scheduled, j))
    BY <1>2 DEF KeysInv
  <2>2. ~In(ready, j)' /\ ~In(scheduled, j)' /\ In(leased, j)'
    BY <1>1, <1>4, <2>1 DEF JobInv, In
  <2>3. QED
    BY <2>1, <2>2 DEF CurrentState
<1>6. ASSUME NEW j \in Jobs \ S
      PROVE  CurrentState(j)' = CurrentState(j) /\ lease_meta'[j] = lease_meta[j]
  BY <1>3, <1>4 DEF CurrentState, In
<1>7. \A j \in S : lease_meta'[j] = [worker |-> w, token |-> token[j]]
  BY <1>2, <1>3
<1>8. QED
  BY <1>2, <1>4, <1>5, <1>6, <1>7 DEF Starts, S

LEMMA ReapEffect ==
  ASSUME KeysInv, NEW now \in Times, NEW limit \in ReapLimits, ReapExpired(now, limit)
  PROVE  Expires(Reaped(now, limit))
<1> DEFINE S == Reaped(now, limit)
<1>1. now # Nil
  BY TimesAssumption, NilAssumption DEF Scores
<1>2. S \subseteq Jobs /\ \A j \in S : In(leased, j)
  BY DEF Reaped, Expired
<1>3. /\ leased' = [j \in Jobs |-> IF j \in S THEN Nil ELSE leased[j]]
      /\ lease_meta' = [j \in Jobs |-> IF j \in S THEN Nil ELSE lease_meta[j]]
      /\ ready' = [j \in Jobs |-> IF j \in S THEN now ELSE ready[j]]
      /\ rerun' = rerun \ S
      /\ UNCHANGED <<scheduled, failed, failures, cfg>>
  BY DEF ReapExpired, registry
<1> HIDE DEF S
<1>4. ASSUME NEW j \in S
      PROVE  /\ CurrentState(j) = "leased" /\ CurrentState(j)' = "ready"
             /\ lease_meta'[j] = Nil
  <2>1. j \in Jobs /\ JobInv(j) /\ In(leased, j)
    BY <1>2 DEF KeysInv
  <2>2. CurrentState(j) = "leased"
    BY <2>1, StateIsPlacement
  <2>3. In(ready, j)'
    BY <1>1, <1>3, <2>1 DEF In
  <2>4. QED
    BY <1>3, <2>1, <2>2, <2>3 DEF CurrentState
<1>5. ASSUME NEW j \in Jobs \ S
      PROVE  CurrentState(j)' = CurrentState(j) /\ lease_meta'[j] = lease_meta[j]
  BY <1>3 DEF CurrentState, In
<1>6. QED
  BY <1>2, <1>3, <1>4, <1>5 DEF Expires, S

\* Every step of the store is one of these six, or changes nothing they mention.
LEMMA StepEffect ==
  ASSUME KeysInv, [Next]_vars
  PROVE  \/ \E j \in Jobs : Moves(j) \/ AsksAgain(j) \/ Ends(j)
         \/ Renews
         \/ \E S \in SUBSET Jobs, w \in Workers : Starts(S, w)
         \/ \E S \in SUBSET Jobs : Expires(S)
<1>1. ASSUME NEW now \in Times, NEW w \in Workers, NEW capacity \in Capacities,
             Reserve(w, now, capacity)
      PROVE  \E S \in SUBSET Jobs : Starts(S, w)
  BY <1>1, ReserveEffect DEF Starts
<1>2. ASSUME NEW now \in Times, NEW limit \in ReapLimits, ReapExpired(now, limit)
      PROVE  \E S \in SUBSET Jobs : Expires(S)
  BY <1>2, ReapEffect DEF Expires
<1>3. CASE UNCHANGED vars
  BY <1>3 DEF vars, Renews, CurrentState, In
<1>4. QED
  BY <1>1, <1>2, <1>3, ClientEffect, HolderEffect, OperatorEffect DEF Next

-----------------------------------------------------------------------------

\* The budget of one job, over its state as a reader sees it.
JobBudget(j) ==
    /\ failures[j] > 0 => CurrentState(j) # "none" /\ cfg # Nil
    /\ failures[j] > 0 /\ CurrentState(j) # "failed" => ShouldRetry("retryable", cfg, failures[j])
    /\ CurrentState(j) = "failed" =>
          /\ failures[j] >= 1
          /\ cfg.kind = "count" => failures[j] <= cfg.max_retries + 1

\* JobBudget is the retry budget of one job.
LEMMA BudgetByJob == KeysInv => (Budget <=> \A j \in Jobs : JobBudget(j))
<1> SUFFICES ASSUME KeysInv, NEW j \in Jobs
             PROVE  /\ In(failed, j) <=> CurrentState(j) = "failed"
                    /\ cfg # Nil => /\ cfg.kind \in {"never", "count", "infinite"}
                                    /\ cfg.max_retries \in Nat
  BY DEF Budget, FailuresWithinBudget, FailedHasHistory, JobBudget, ShouldRetry
<1>1. In(failed, j) <=> CurrentState(j) = "failed"
  BY StateIsPlacement DEF KeysInv
<1>2. QED
  BY <1>1, PolicyAssumption DEF KeysInv, TypeOK

\* Every step keeps every job within its budget: only a failed attempt raises
\* the counter, and the job is then failed or within the policy that every
\* lease is held under.
LEMMA NextJobBudget ==
  ASSUME KeysInv, \A j \in Jobs : JobBudget(j), [Next]_vars
  PROVE  \A j \in Jobs : JobBudget(j)'
<1>1. TypeOK /\ TypeOK'
  BY NextKeysInv DEF KeysInv
<1> SUFFICES ASSUME NEW k \in Jobs PROVE JobBudget(k)'
  OBVIOUS
<1>2. JobBudget(k) /\ failures[k] \in Nat
  BY <1>1, LimitsAssumption DEF TypeOK
<1>3. CASE CurrentState(k)' = CurrentState(k) /\ failures'[k] = failures[k] /\ cfg' = cfg
  BY <1>2, <1>3 DEF JobBudget
<1>4. ASSUME NEW j \in Jobs, Moves(j) PROVE JobBudget(k)'
  <2>1. CASE k = j
    BY <1>2, <1>4, <2>1 DEF Moves, OnlyJob, JobBudget
  <2>2. CASE k # j
    BY <1>3, <1>4, <2>2 DEF Moves, OnlyJob
  <2>3. QED
    BY <2>1, <2>2
<1>5. ASSUME NEW j \in Jobs, Ends(j) PROVE JobBudget(k)'
  <2>1. CASE k = j /\ failures'[k] = 0
    BY <1>1, <1>2, <1>5, <2>1 DEF Ends, OnlyJob, JobBudget
  <2>2. CASE k = j /\ failures'[k] # 0
    <3>1. /\ CurrentState(k)' \in {"ready", "scheduled", "failed"}
          /\ failures'[k] = failures[k] + 1
          /\ CurrentState(k)' # "failed" => ShouldRetry("retryable", cfg, failures'[k])
          /\ CurrentState(k) = "leased" /\ cfg' = cfg
      BY <1>5, <2>2 DEF Ends, OnlyJob
    <3>2. cfg # Nil /\ cfg.max_retries \in Nat
      <4>1. In(leased, k) /\ lease_meta[k] # Nil
        BY <3>1, StateIsPlacement DEF KeysInv, JobInv
      <4>2. PolicyOf[lease_meta[k].worker] = cfg /\ lease_meta[k].worker \in Workers
        BY <1>1, <4>1 DEF KeysInv, JobInv, TypeOK
      <4>3. QED
        BY <4>2, PolicyAssumption, NilAssumption
    <3>3. cfg.kind = "count" => failures[k] <= cfg.max_retries
      BY <1>2, <3>1, <3>2 DEF JobBudget, ShouldRetry
    <3>4. QED
      BY <1>2, <3>1, <3>2, <3>3 DEF JobBudget
  <2>3. CASE k # j
    BY <1>3, <1>5, <2>3 DEF Ends, OnlyJob
  <2>4. QED
    BY <2>1, <2>2, <2>3
<1>6. ASSUME NEW j \in Jobs, AsksAgain(j) PROVE JobBudget(k)'
  BY <1>3, <1>6 DEF AsksAgain
<1>7. ASSUME Renews PROVE JobBudget(k)'
  BY <1>3, <1>7 DEF Renews
<1>8. ASSUME NEW S \in SUBSET Jobs, NEW w \in Workers, Starts(S, w) PROVE JobBudget(k)'
  <2>1. failures' = failures /\ cfg \in {Nil, cfg'} /\ cfg' \in Policies
    BY <1>8 DEF Starts
  <2>2. failures[k] > 0 => cfg' = cfg
    BY <1>2, <2>1 DEF JobBudget
  <2>3. CASE k \in S
    BY <1>2, <1>8, <2>1, <2>2, <2>3, NilAssumption DEF Starts, JobBudget
  <2>4. CASE k \notin S
    BY <1>2, <1>8, <2>1, <2>2, <2>4, NilAssumption DEF Starts, JobBudget
  <2>5. QED
    BY <2>3, <2>4
<1>9. ASSUME NEW S \in SUBSET Jobs, Expires(S) PROVE JobBudget(k)'
  <2>1. CASE k \in S
    BY <1>2, <1>9, <2>1 DEF Expires, JobBudget
  <2>2. CASE k \notin S
    BY <1>3, <1>9, <2>2 DEF Expires
  <2>3. QED
    BY <2>1, <2>2
<1>10. QED
  BY <1>4, <1>5, <1>6, <1>7, <1>8, <1>9, StepEffect

\* The budget, counter by counter, in every reachable state.
LEMMA JobBudgetHolds == Spec => [](KeysInv /\ \A j \in Jobs : JobBudget(j))
<1> DEFINE BudgetInv == KeysInv /\ \A j \in Jobs : JobBudget(j)
<1>1. Init => BudgetInv
  <2>1. Init => \A j \in Jobs : CurrentState(j) = "none" /\ failures[j] = 0
    BY DEF Init, CurrentState, In
  <2>2. QED
    BY <2>1, InitKeysInv DEF JobBudget
<1>2. BudgetInv /\ [Next]_vars => BudgetInv'
  BY NextKeysInv, NextJobBudget
<1>3. QED
  BY <1>1, <1>2, PTL DEF Spec

\* A job that is not failed has consumed no more of its retry budget than the
\* policy grants, for every policy and any operators.
THEOREM BudgetHolds == Spec => []FailuresWithinBudget
<1>1. (KeysInv /\ \A j \in Jobs : JobBudget(j)) => FailuresWithinBudget
  BY BudgetByJob DEF Budget
<1>2. QED
  BY <1>1, JobBudgetHolds, PTL

\* A failed job has a real history, of at most one failure more than the budget.
THEOREM FailedHasHistoryHolds == Spec => []FailedHasHistory
<1>1. (KeysInv /\ \A j \in Jobs : JobBudget(j)) => FailedHasHistory
  BY BudgetByJob DEF Budget
<1>2. QED
  BY <1>1, JobBudgetHolds, PTL

-----------------------------------------------------------------------------

\* The failure history of a job falls only when it leaves `failed`, a lease of
\* it ends, or it leaves the queue.
HistoryKept ==
    \A j \in Jobs : failures'[j] < failures[j] =>
        \/ In(failed, j)
        \/ In(leased, j) /\ ~In(leased, j)'
        \/ CurrentState(j)' = "none"

LEMMA NextHistoryKept ==
  ASSUME KeysInv, [Next]_vars
  PROVE  HistoryKept
<1> SUFFICES ASSUME NEW k \in Jobs, failures'[k] < failures[k]
             PROVE  \/ In(failed, k)
                    \/ In(leased, k) /\ ~In(leased, k)'
                    \/ CurrentState(k)' = "none"
  BY DEF HistoryKept
<1>1. /\ In(failed, k) <=> CurrentState(k) = "failed"
      /\ In(leased, k) <=> CurrentState(k) = "leased"
      /\ In(leased, k)' <=> CurrentState(k)' = "leased"
  BY NextKeysInv, StateIsPlacement DEF KeysInv, JobInv, CurrentState
<1>2. TypeOK /\ TypeOK' /\ failures[k] \in Nat /\ failures'[k] \in Nat
  BY NextKeysInv, LimitsAssumption DEF KeysInv, TypeOK
<1>3. PICK j \in Jobs : Moves(j) \/ Ends(j)
  BY <1>2, StepEffect DEF AsksAgain, Renews, Starts, Expires
<1>4. k = j
  BY <1>2, <1>3 DEF Moves, Ends, OnlyJob
<1>5. QED
  BY <1>1, <1>2, <1>3, <1>4 DEF Moves, Ends

\* A failure counter falls only at the end of what it counted.
THEOREM FailureHistoryKeptHolds == Spec => FailureHistoryKept
BY NextHistoryKept, KeysInvHolds, PTL DEF Spec, FailureHistoryKept, HistoryKept

\* A rerun request is consumed only by the end of its lease, and the job is then
\* ready, or has one failure more.
RerunKept ==
    \A j \in rerun : j \notin rerun' =>
        /\ ~In(leased, j)'
        /\ \/ CurrentState(j)' = "ready"
           \/ CurrentState(j)' \in {"scheduled", "failed"} /\ failures'[j] > failures[j]

LEMMA NextRerunKept ==
  ASSUME KeysInv, [Next]_vars
  PROVE  RerunKept
<1> DEFINE Served(j) == \/ CurrentState(j)' = "ready"
                        \/ CurrentState(j)' \in {"scheduled", "failed"} /\ failures'[j] > failures[j]
<1> SUFFICES ASSUME NEW k \in rerun, k \notin rerun'
             PROVE  ~In(leased, k)' /\ Served(k)
  BY DEF RerunKept
<1>1. k \in Jobs /\ failures[k] \in Nat
  BY LimitsAssumption DEF KeysInv, TypeOK
<1>2. In(leased, k)' <=> CurrentState(k)' = "leased"
  BY <1>1, NextKeysInv DEF KeysInv, JobInv, CurrentState
<1>3. \/ \E j \in Jobs : Ends(j)
      \/ \E S \in SUBSET Jobs : Expires(S)
  BY StepEffect DEF Moves, AsksAgain, Renews, Starts
<1>4. ASSUME NEW j \in Jobs, Ends(j) PROVE Served(k)
  <2>1. k = j
    BY <1>4 DEF Ends
  <2>2. \/ CurrentState(k)' = "ready"
        \/ /\ CurrentState(k)' \in {"ready", "scheduled", "failed"}
           /\ failures'[k] = failures[k] + 1
    BY <1>4, <2>1 DEF Ends
  <2>3. QED
    BY <1>1, <2>2
<1>5. ASSUME NEW S \in SUBSET Jobs, Expires(S) PROVE CurrentState(k)' = "ready"
  BY <1>5 DEF Expires
<1>6. QED
  BY <1>2, <1>3, <1>4, <1>5

\* A rerun request is consumed only by a step that ends its lease and leaves the
\* job ready, or out of the lease with one more failure counted.
THEOREM RerunNotLostHolds == Spec => RerunNotLost
BY NextRerunKept, KeysInvHolds, PTL DEF Spec, RerunNotLost, RerunKept

-----------------------------------------------------------------------------

\* The state of one job changes as JobLifecycle's Become says.
LEMMA OnlyJobBecomes ==
  ASSUME NEW j \in Jobs, OnlyJob(j)
  PROVE  Lifecycle!Become(j, CurrentState(j)')
BY DEF OnlyJob, Lifecycle!Become

\* Every step of the store is a step of JobLifecycle, or one it does not see.
LEMMA StepRefines ==
  ASSUME KeysInv, [Next]_vars
  PROVE  [Lifecycle!Next]_(Lifecycle!lifecycle)
<1> DEFINE state == [j \in Jobs |-> CurrentState(j)]
<1>1. ASSUME NEW j \in Jobs, Moves(j) PROVE Lifecycle!Request(j) \/ Lifecycle!Discard({j})
  <2>1. rerun' = rerun /\ Lifecycle!Become(j, CurrentState(j)') /\ state[j] # "leased"
    BY <1>1, OnlyJobBecomes DEF Moves
  <2>2. CASE CurrentState(j)' \in {"ready", "scheduled"}
    BY <2>1, <2>2 DEF Lifecycle!Request
  <2>3. CASE CurrentState(j)' = "none"
    <3>1. state[j] \in {"scheduled", "failed"}
      BY <1>1, <2>3 DEF Moves
    <3>2. state' = [k \in Jobs |-> IF k \in {j} THEN "none" ELSE state[k]]
      BY <1>1, <2>3 DEF Moves, OnlyJob
    <3>3. QED
      BY <2>1, <3>1, <3>2 DEF Lifecycle!Discard
  <2>4. QED
    BY <1>1, <2>2, <2>3 DEF Moves
<1>2. ASSUME NEW j \in Jobs, AsksAgain(j) PROVE Lifecycle!RequestAgain(j)
  BY <1>2 DEF AsksAgain, Lifecycle!RequestAgain
<1>3. ASSUME NEW j \in Jobs, Ends(j) PROVE Lifecycle!Succeed(j) \/ Lifecycle!Fail(j)
  <2>1. rerun' = rerun \ {j} /\ Lifecycle!Become(j, CurrentState(j)') /\ state[j] = "leased"
    BY <1>3, OnlyJobBecomes DEF Ends
  <2>2. \/ CurrentState(j)' \in IF j \in rerun THEN {"ready"} ELSE {"none", "ready", "scheduled"}
        \/ CurrentState(j)' \in {"ready", "scheduled", "failed"}
    BY <1>3 DEF Ends
  <2>3. QED
    BY <2>1, <2>2 DEF Lifecycle!Succeed, Lifecycle!Fail
<1>4. ASSUME Renews PROVE UNCHANGED Lifecycle!lifecycle
  BY <1>4 DEF Renews, Lifecycle!lifecycle
<1>5. ASSUME NEW S \in SUBSET Jobs, NEW w \in Workers, Starts(S, w) PROVE Lifecycle!Start(S)
  BY <1>5 DEF Starts, Lifecycle!Start
<1>6. ASSUME NEW S \in SUBSET Jobs, Expires(S) PROVE Lifecycle!Lose(S)
  BY <1>6 DEF Expires, Lifecycle!Lose
<1>7. ASSUME NEW j \in Jobs PROVE {j} \in SUBSET Jobs
  OBVIOUS
<1>8. QED
  BY <1>1, <1>2, <1>3, <1>4, <1>5, <1>6, <1>7, StepEffect DEF Lifecycle!Next

\* The store implements the abstract life of its jobs.
THEOREM StoreImplementsLifecycle == Spec => ImplementsLifecycle
<1>1. Init => Lifecycle!Init
  BY DEF Init, Lifecycle!Init, CurrentState, In
<1>2. KeysInv /\ [Next]_vars => [Lifecycle!Next]_(Lifecycle!lifecycle)
  BY StepRefines
<1>3. QED
  BY <1>1, <1>2, KeysInvHolds, PTL DEF Spec, ImplementsLifecycle, Lifecycle!Spec
=============================================================================
