-------------------------- MODULE RedloopStoreProofs --------------------------
(***************************************************************************)
(* The invariants of RedloopStore, proved for every namespace: any jobs,    *)
(* workers and tokens, any policies, any clocks.                            *)
(*                                                                          *)
(* Single membership is not inductive alone: reserve overwrites `leased`    *)
(* without looking at it, so it needs that a job it can take is not leased;  *)
(* the scripts that end a lease put the job in another set without looking,  *)
(* so they need that a job with a lease record is leased and nowhere else;   *)
(* and the counts need that every lease that disappears was counted for the  *)
(* worker its record names.  StoreInv is the conjunction.  All but the       *)
(* counts speak of one job at a time, which is what JobInv says; KeysInv is   *)
(* that part, and it does not need the counts to be right, which they are    *)
(* not after a prune (RedloopAdminProofs).                                   *)
(***************************************************************************)
EXTENDS RedloopStore, FiniteSetTheorems, TLAPS

JobInv(j) ==
    /\ In(ready, j) => ~In(scheduled, j) /\ ~In(leased, j) /\ ~In(failed, j)
    /\ In(scheduled, j) => ~In(leased, j) /\ ~In(failed, j)
    /\ In(leased, j) => ~In(failed, j)
    /\ In(leased, j) <=> lease_meta[j] # Nil
    /\ j \in rerun => In(leased, j)
    /\ lease_meta[j] # Nil => PolicyOf[lease_meta[j].worker] = cfg

KeysInv == TypeOK /\ \A j \in Jobs : JobInv(j)

StoreInv == KeysInv /\ LeaseCountsMatch

\* A step keeps the count of every worker right if it was right, and too small
\* if it was too small, as it may be after a prune.
CountKeeps(w) ==
    /\ workers_leases[w] = Cardinality(LeasesOf(w)) => workers_leases'[w] = Cardinality(LeasesOf(w)')
    /\ workers_leases[w] <= Cardinality(LeasesOf(w)) => workers_leases'[w] <= Cardinality(LeasesOf(w)')

CountsKeep == \A w \in Workers : CountKeeps(w)

\* What a step that touches one job leaves alone.
OthersUnchanged(j) ==
    /\ \A k \in Jobs \ {j} : /\ ready'[k] = ready[k] /\ scheduled'[k] = scheduled[k]
                             /\ leased'[k] = leased[k] /\ failed'[k] = failed[k]
                             /\ lease_meta'[k] = lease_meta[k]
                             /\ k \in rerun' <=> k \in rerun
    /\ cfg' = cfg

\* The initial state satisfies the invariant.
LEMMA InitStoreInv == Init => StoreInv
<1> SUFFICES ASSUME Init PROVE StoreInv
  OBVIOUS
<1>1. TypeOK
  BY LimitsAssumption DEF Init, TypeOK, Placement, Scores
<1>2. \A j \in Jobs : JobInv(j)
  BY DEF Init, JobInv, In
<1>3. LeaseCountsMatch
  <2>1. \A w \in Workers : LeasesOf(w) = {}
    BY DEF Init, LeasesOf
  <2>2. QED
    BY <2>1, FS_EmptySet DEF Init, LeaseCountsMatch
<1>4. QED
  BY <1>1, <1>2, <1>3 DEF StoreInv, KeysInv

LEMMA StoreKeys == StoreInv => KeysInv
BY DEF StoreInv

LEMMA InitKeysInv == Init => KeysInv
BY InitStoreInv, StoreKeys

\* Move(j, from, to, score) takes j out of `from` and puts it in `to`, and does
\* nothing else to the waiting and failed sets.
LEMMA MoveEffect ==
  ASSUME TypeOK, NEW j \in Jobs, NEW from, NEW to, NEW score \in Nat, Move(j, from, to, score)
  PROVE  /\ ready' \in Placement /\ scheduled' \in Placement /\ failed' \in Placement
         /\ \A k \in Jobs \ {j} : /\ ready'[k] = ready[k] /\ scheduled'[k] = scheduled[k]
                                  /\ failed'[k] = failed[k]
         /\ In(ready, j)' <=> to = "ready" \/ (In(ready, j) /\ from # "ready")
         /\ In(scheduled, j)' <=> to = "scheduled" \/ (In(scheduled, j) /\ from # "scheduled")
         /\ In(failed, j)' <=> to = "failed" \/ (In(failed, j) /\ from # "failed")
<1>1. ASSUME NEW z \in Placement, NEW name, NEW zz, zz = Moved(z, name, j, from, to, score)
      PROVE  /\ zz \in Placement
             /\ \A k \in Jobs \ {j} : zz[k] = z[k]
             /\ zz[j] # Nil <=> name = to \/ (z[j] # Nil /\ name # from)
  <2>1. CASE name = to
    BY <1>1, <2>1, NilAssumption DEF Moved, ZAdd, Placement, Scores
  <2>2. CASE name # to /\ name = from
    BY <1>1, <2>2 DEF Moved, ZRem, Placement
  <2>3. CASE name # to /\ name # from
    BY <1>1, <2>3 DEF Moved
  <2>4. QED
    BY <2>1, <2>2, <2>3
<1>2. QED
  BY <1>1 DEF Move, TypeOK, In

\* A job is in the state current_state finds it in, and in no other.
LEMMA StateIsPlacement ==
  ASSUME NEW j \in Jobs, JobInv(j)
  PROVE  /\ In(ready, j) <=> CurrentState(j) = "ready"
         /\ In(scheduled, j) <=> CurrentState(j) = "scheduled"
         /\ In(leased, j) <=> CurrentState(j) = "leased"
         /\ In(failed, j) <=> CurrentState(j) = "failed"
BY DEF JobInv, CurrentState

\* Ending the lease of one job takes it out of its holder's leases, and the
\* decrement keeps the count.
LEMMA EndLeaseCounts ==
  ASSUME KeysInv, NEW j \in Jobs, lease_meta[j] # Nil, EndLease(j)
  PROVE  /\ leased' \in Placement
         /\ lease_meta' \in [Jobs -> [worker : Workers, token : Tokens] \cup {Nil}]
         /\ workers_leases' \in [Workers -> Nat]
         /\ leased'[j] = Nil /\ lease_meta'[j] = Nil
         /\ \A k \in Jobs \ {j} : leased'[k] = leased[k] /\ lease_meta'[k] = lease_meta[k]
         /\ CountsKeep
<1> DEFINE v == lease_meta[j].worker
<1>1. v \in Workers
  BY DEF KeysInv, TypeOK
<1>2. /\ leased' \in Placement
      /\ lease_meta' \in [Jobs -> [worker : Workers, token : Tokens] \cup {Nil}]
      /\ leased'[j] = Nil /\ lease_meta'[j] = Nil
      /\ \A k \in Jobs \ {j} : leased'[k] = leased[k] /\ lease_meta'[k] = lease_meta[k]
  BY DEF KeysInv, TypeOK, EndLease, ZRem, Placement
<1>3. workers_leases' \in [Workers -> Nat]
  BY <1>1 DEF KeysInv, TypeOK, EndLease, Decremented
<1>4. ASSUME NEW w \in Workers PROVE CountKeeps(w)
  <2>1. IsFiniteSet(LeasesOf(w)) /\ Cardinality(LeasesOf(w)) \in Nat
    BY JobsAssumption, FS_Subset, FS_CardinalityType DEF LeasesOf
  <2>2. workers_leases[w] \in Nat
    BY DEF KeysInv, TypeOK
  <2>3. CASE w = v
    <3>1. j \in LeasesOf(w) /\ LeasesOf(w)' = LeasesOf(w) \ {j}
      BY <1>2, <2>3 DEF LeasesOf
    <3>2. Cardinality(LeasesOf(w)') = Cardinality(LeasesOf(w)) - 1
      BY <2>1, <3>1, FS_RemoveElement
    <3>3. Cardinality(LeasesOf(w)') \in Nat
      BY <2>1, <3>1, FS_RemoveElement, FS_CardinalityType
    <3>4. workers_leases'[w] = Decremented(workers_leases[w])
      BY <1>1, <2>3 DEF KeysInv, TypeOK, EndLease
    <3>5. QED
      BY <2>1, <2>2, <3>2, <3>3, <3>4 DEF Decremented, CountKeeps
  <2>4. CASE w # v
    <3>1. LeasesOf(w)' = LeasesOf(w)
      BY <1>2, <2>4 DEF LeasesOf
    <3>2. workers_leases'[w] = workers_leases[w]
      BY <1>1, <2>4 DEF KeysInv, TypeOK, EndLease
    <3>3. QED
      BY <3>1, <3>2 DEF CountKeeps
  <2>5. QED
    BY <2>3, <2>4
<1>5. QED
  BY <1>2, <1>3, <1>4 DEF CountsKeep

\* A step that touches one job keeps the invariant if it keeps that job's part.
LEMMA OneJobStep ==
  ASSUME KeysInv, NEW j \in Jobs, OthersUnchanged(j), TypeOK', JobInv(j)'
  PROVE  KeysInv'
<1>1. ASSUME NEW k \in Jobs \ {j} PROVE JobInv(k)'
  <2>1. JobInv(k)
    BY DEF KeysInv
  <2>2. QED
    BY <2>1 DEF OthersUnchanged, JobInv, In
<1>2. QED
  BY <1>1 DEF KeysInv

LEMMA CountsKept ==
  ASSUME UNCHANGED <<lease_meta, workers_leases>>
  PROVE  CountsKeep
BY DEF CountsKeep, CountKeeps, LeasesOf

\* Moving a job that is not leased from the state current_state found it in.
LEMMA PlacementStep ==
  ASSUME KeysInv, NEW j \in Jobs, NEW to \in {"ready", "scheduled", "none"}, NEW score \in Nat,
         CurrentState(j) # "leased", Move(j, CurrentState(j), to, score),
         rerun' = rerun \/ rerun' = rerun \ {j}, failures' \in [Jobs -> 0 .. MaxFailures],
         UNCHANGED <<leases, registry>>
  PROVE  KeysInv' /\ CountsKeep
<1>1. TypeOK /\ JobInv(j)
  BY DEF KeysInv
<1>2. TypeOK'
  BY <1>1, MoveEffect DEF TypeOK, leases, registry
<1>3. OthersUnchanged(j)
  BY <1>1, MoveEffect DEF OthersUnchanged, leases, registry
<1>4. JobInv(j)'
  <2>1. /\ ~In(leased, j) /\ lease_meta[j] = Nil /\ j \notin rerun
    BY <1>1, StateIsPlacement DEF JobInv
  <2>2. /\ In(ready, j)' <=> to = "ready"
        /\ In(scheduled, j)' <=> to = "scheduled"
        /\ ~In(failed, j)'
    BY <1>1, MoveEffect, StateIsPlacement
  <2>3. ~In(leased, j)' /\ lease_meta'[j] = Nil /\ j \notin rerun'
    BY <2>1 DEF leases, In
  <2>4. QED
    BY <2>2, <2>3 DEF JobInv
<1>5. CountsKeep
  BY CountsKept DEF leases
<1>6. QED
  BY <1>2, <1>3, <1>4, <1>5, OneJobStep

\* Ending a lease and putting the job in `to`, or nowhere.
LEMMA LeaseEndStep ==
  ASSUME KeysInv, NEW j \in Jobs, NEW to \in {"ready", "scheduled", "failed", "none"},
         NEW score \in Nat, lease_meta[j] # Nil, EndLease(j), Move(j, "leased", to, score),
         rerun' = rerun \ {j}, failures' \in [Jobs -> 0 .. MaxFailures], UNCHANGED registry
  PROVE  KeysInv' /\ CountsKeep
<1>1. TypeOK /\ JobInv(j)
  BY DEF KeysInv
<1>2. TypeOK'
  BY <1>1, MoveEffect, EndLeaseCounts DEF TypeOK, registry
<1>3. OthersUnchanged(j)
  BY <1>1, MoveEffect, EndLeaseCounts DEF OthersUnchanged, registry
<1>4. JobInv(j)'
  <2>1. ~In(ready, j) /\ ~In(scheduled, j) /\ ~In(failed, j)
    BY <1>1 DEF JobInv
  <2>2. /\ In(ready, j)' <=> to = "ready"
        /\ In(scheduled, j)' <=> to = "scheduled"
        /\ In(failed, j)' <=> to = "failed"
    BY <1>1, <2>1, MoveEffect
  <2>3. ~In(leased, j)' /\ lease_meta'[j] = Nil /\ j \notin rerun'
    BY EndLeaseCounts DEF In
  <2>4. QED
    BY <2>2, <2>3 DEF JobInv
<1>5. QED
  BY <1>2, <1>3, <1>4, EndLeaseCounts, OneJobStep

\* Not moving a leased job is moving it from `leased` to nowhere.
LEMMA NoMove ==
  ASSUME NEW j \in Jobs, UNCHANGED placement
  PROVE  Move(j, "leased", "none", 0)
BY DEF placement, Move, Moved

-----------------------------------------------------------------------------

LEMMA ClientStepKeys ==
  ASSUME KeysInv, NEW j \in Jobs, NEW now \in Times, ClientStep(j, now)
  PROVE  KeysInv' /\ CountsKeep
<1>1. now \in Nat /\ TypeOK /\ JobInv(j)
  BY TimesAssumption DEF KeysInv
<1>2. ClearedFailures(j, CurrentState(j)) \in [Jobs -> 0 .. MaxFailures]
  BY <1>1, LimitsAssumption DEF TypeOK, ClearedFailures
<1>3. ASSUME NEW at \in Times \cup {0}
      PROVE  /\ Target(at, now).state \in {"ready", "scheduled", "none"}
             /\ Target(at, now).score \in Nat
  BY <1>1, TimesAssumption DEF Target
<1>4. CASE EnqueueImmediate(j, now)
  <2>1. CASE CurrentState(j) = "leased"
    <3>1. /\ rerun' = rerun \cup {j}
          /\ UNCHANGED <<placement, leases, failures, registry>>
      BY <1>4, <2>1 DEF EnqueueImmediate
    <3>2. TypeOK'
      BY <1>1, <3>1 DEF TypeOK, placement, leases, registry
    <3>3. OthersUnchanged(j)
      BY <3>1 DEF OthersUnchanged, placement, leases, registry
    <3>4. JobInv(j)'
      BY <1>1, <2>1, <3>1, StateIsPlacement DEF JobInv, In, placement, leases, registry
    <3>5. CountsKeep
      BY <3>1, CountsKept DEF leases
    <3>6. QED
      BY <3>2, <3>3, <3>4, <3>5, OneJobStep
  <2>2. CASE CurrentState(j) # "leased"
    <3>1. /\ Move(j, CurrentState(j), "ready", now)
          /\ failures' = ClearedFailures(j, CurrentState(j))
          /\ rerun' = rerun \/ rerun' = rerun \ {j}
          /\ UNCHANGED <<leases, registry>>
      BY <1>4, <2>2 DEF EnqueueImmediate, ForgetRerun
    <3>2. QED
      BY <1>1, <1>2, <2>2, <3>1, PlacementStep
  <2>3. QED
    BY <2>1, <2>2
<1>5. CASE \E at \in Times, mode \in {"replace", "earlier", "later"} :
             EnqueueScheduled(j, at, mode, now)
  <2>1. PICK at \in Times, mode \in {"replace", "earlier", "later"} :
             EnqueueScheduled(j, at, mode, now)
    BY <1>5
  <2>2. /\ CurrentState(j) # "leased"
        /\ Move(j, CurrentState(j), Target(at, now).state, Target(at, now).score)
        /\ failures' = ClearedFailures(j, CurrentState(j))
        /\ rerun' = rerun \ {j}
        /\ UNCHANGED <<leases, registry>>
    BY <2>1 DEF EnqueueScheduled, ForgetRerun
  <2>3. QED
    BY <1>2, <1>3, <2>2, PlacementStep
<1>6. CASE \E at \in Times \cup {0} : Reschedule(j, at, now)
  <2>1. PICK at \in Times \cup {0} : Reschedule(j, at, now)
    BY <1>6
  <2>2. /\ CurrentState(j) # "leased"
        /\ Move(j, CurrentState(j), Target(at, now).state, Target(at, now).score)
        /\ rerun' = rerun \ {j}
        /\ failures' = failures
        /\ UNCHANGED <<leases, registry>>
    BY <2>1 DEF Reschedule, ForgetRerun
  <2>3. failures' \in [Jobs -> 0 .. MaxFailures]
    BY <1>1, <2>2 DEF TypeOK
  <2>4. QED
    BY <1>3, <2>2, <2>3, PlacementStep
<1>7. QED
  BY <1>4, <1>5, <1>6 DEF ClientStep

LEMMA HolderStepKeys ==
  ASSUME KeysInv, NEW j \in Jobs, NEW w \in Workers, NEW t \in Tokens, NEW now \in Times,
         HolderStep(j, w, t, now)
  PROVE  KeysInv' /\ CountsKeep
<1>1. now \in Nat /\ TypeOK /\ JobInv(j) /\ 0 \in 0 .. MaxFailures /\ LeaseDuration \in Nat
  BY TimesAssumption, LimitsAssumption DEF KeysInv
<1>2. Holds(j, w, t) /\ lease_meta[j] # Nil
  <2>1. Holds(j, w, t)
    BY DEF HolderStep, Heartbeat, Ack, CompleteAndReschedule, FailOrRetry
  <2>2. QED
    BY <2>1, NilAssumption DEF Holds
<1>3. [failures EXCEPT ![j] = 0] \in [Jobs -> 0 .. MaxFailures]
  BY <1>1 DEF TypeOK
<1>4. CASE Heartbeat(j, w, t, now)
  <2>1. /\ leased' = ZAdd(leased, j, now + LeaseDuration)
        /\ last_seen' = [last_seen EXCEPT ![w] = now]
        /\ UNCHANGED <<placement, lease_meta, workers_leases, failures, rerun, workers_config, cfg>>
    BY <1>4 DEF Heartbeat
  <2>2. now + LeaseDuration \in Nat /\ now + LeaseDuration # Nil
    BY <1>1, NilAssumption DEF Scores
  <2>3. TypeOK'
    BY <1>1, <2>1, <2>2 DEF TypeOK, Placement, Scores, ZAdd, placement
  <2>4. OthersUnchanged(j)
    BY <1>1, <2>1 DEF OthersUnchanged, ZAdd, placement, TypeOK, Placement
  <2>5. In(leased, j)' /\ In(leased, j)
    BY <1>1, <1>2, <2>1, <2>2 DEF In, ZAdd, TypeOK, Placement, JobInv
  <2>6. JobInv(j)'
    BY <1>1, <2>1, <2>5 DEF JobInv, In, placement
  <2>7. CountsKeep
    BY <2>1, CountsKept
  <2>8. QED
    BY <2>3, <2>4, <2>6, <2>7, OneJobStep
<1>5. CASE Ack(j, w, t, now)
  <2>1. /\ EndLease(j)
        /\ Move(j, "leased", "ready", now) \/ UNCHANGED placement
        /\ failures' = [failures EXCEPT ![j] = 0]
        /\ rerun' = rerun \ {j}
        /\ UNCHANGED registry
    BY <1>5 DEF Ack, RequeueIfRerun, ForgetRerun
  <2>2. QED
    BY <1>1, <1>2, <1>3, <2>1, NoMove, LeaseEndStep
<1>6. CASE \E at \in Times \cup {0} : CompleteAndReschedule(j, w, t, at, now)
  <2>1. PICK at \in Times \cup {0} : CompleteAndReschedule(j, w, t, at, now)
    BY <1>6
  <2> DEFINE target == Target(IF j \in rerun THEN 0 ELSE at, now)
  <2>2. /\ EndLease(j)
        /\ Move(j, "leased", target.state, target.score)
        /\ failures' = [failures EXCEPT ![j] = 0]
        /\ rerun' = rerun \ {j}
        /\ UNCHANGED registry
    BY <2>1 DEF CompleteAndReschedule, ForgetRerun
  <2>3. target.state \in {"ready", "scheduled", "failed", "none"} /\ target.score \in Nat
    BY <1>1, TimesAssumption DEF Target
  <2> HIDE DEF target
  <2>4. QED
    BY <1>2, <1>3, <2>2, <2>3, LeaseEndStep
<1>7. CASE \E kind \in {"retryable", "terminal"} : FailOrRetry(j, w, t, kind, now)
  <2>1. PICK kind \in {"retryable", "terminal"} : FailOrRetry(j, w, t, kind, now)
    BY <1>7
  <2> DEFINE count == failures[j] + 1
             delay == RetryDelay[PolicyOf[w]][count]
  <2>2. /\ EndLease(j)
        /\ failures[j] < MaxFailures
        /\ failures' = [failures EXCEPT ![j] = count]
        /\ \/ Move(j, "leased", "failed", now)
           \/ Move(j, "leased", "ready", now)
           \/ Move(j, "leased", "scheduled", now + delay)
        /\ rerun' = rerun \ {j}
        /\ UNCHANGED registry
    BY <2>1 DEF FailOrRetry, ForgetRerun
  <2>3. count \in 1 .. MaxFailures
    BY <1>1, <2>2, LimitsAssumption DEF TypeOK
  <2>4. delay \in Nat
    BY <2>3, PolicyAssumption
  <2>5. failures' \in [Jobs -> 0 .. MaxFailures]
    BY <1>1, <2>2, <2>3 DEF TypeOK
  <2> HIDE DEF delay
  <2>6. now + delay \in Nat
    BY <1>1, <2>4
  <2>7. QED
    BY <1>1, <1>2, <2>2, <2>5, <2>6, LeaseEndStep
<1>8. QED
  BY <1>4, <1>5, <1>6, <1>7 DEF HolderStep

LEMMA OperatorStepKeys ==
  ASSUME KeysInv, NEW j \in Jobs, NEW now \in Times, OperatorStep(j, now)
  PROVE  KeysInv' /\ CountsKeep
<1>1. now \in Nat /\ TypeOK /\ JobInv(j) /\ 0 \in 0 .. MaxFailures
  BY TimesAssumption, LimitsAssumption DEF KeysInv
<1>2. /\ [failures EXCEPT ![j] = 0] \in [Jobs -> 0 .. MaxFailures]
      /\ ClearedFailures(j, CurrentState(j)) \in [Jobs -> 0 .. MaxFailures]
  BY <1>1 DEF TypeOK, ClearedFailures
<1>3. CASE Cancel(j)
  BY <1>2, <1>3, PlacementStep DEF Cancel, ForgetRerun
<1>4. CASE Requeue(j, now)
  BY <1>1, <1>2, <1>4, PlacementStep DEF Requeue, ForgetRerun
<1>5. CASE ForceRetry(j, now)
  BY <1>1, <1>2, <1>5, PlacementStep DEF ForceRetry, ForgetRerun
<1>6. CASE ForceAck(j, now)
  <2>1. /\ lease_meta[j] # Nil
        /\ EndLease(j)
        /\ Move(j, "leased", "ready", now) \/ UNCHANGED placement
        /\ failures' = [failures EXCEPT ![j] = 0]
        /\ rerun' = rerun \ {j}
        /\ UNCHANGED registry
    BY <1>6 DEF ForceAck, RequeueIfRerun, ForgetRerun
  <2>2. QED
    BY <1>1, <1>2, <2>1, NoMove, LeaseEndStep
<1>7. CASE ForceFail(j, now)
  <2>1. /\ lease_meta[j] # Nil
        /\ failures[j] < MaxFailures
        /\ EndLease(j)
        /\ Move(j, "leased", "failed", now)
        /\ failures' = [failures EXCEPT ![j] = failures[j] + 1]
        /\ rerun' = rerun \ {j}
        /\ UNCHANGED registry
    BY <1>7 DEF ForceFail, ForgetRerun
  <2>2. failures' \in [Jobs -> 0 .. MaxFailures]
    BY <1>1, <2>1, LimitsAssumption DEF TypeOK
  <2>3. QED
    BY <1>1, <2>1, <2>2, LeaseEndStep
<1>8. QED
  BY <1>3, <1>4, <1>5, <1>6, <1>7 DEF OperatorStep

\* The jobs a reserve call can take are not leased, so leasing them adds new
\* leases and overwrites none.
LEMMA ReserveKeys ==
  ASSUME KeysInv, NEW w \in Workers, NEW now \in Times, NEW capacity \in Capacities,
         Reserve(w, now, capacity)
  PROVE  KeysInv' /\ CountsKeep
<1> DEFINE S == Reserved(now, capacity)
<1>1. TypeOK /\ now \in Nat /\ now + LeaseDuration \in Nat /\ now + LeaseDuration # Nil
  BY TimesAssumption, NilAssumption DEF KeysInv, Scores
<1>2. /\ S \subseteq Jobs
      /\ \A j \in S : In(ready, j) \/ In(scheduled, j)
  BY DEF Reserved, Due
<1>3. \A j \in S : ~In(leased, j) /\ ~In(failed, j) /\ lease_meta[j] = Nil /\ j \notin rerun
  BY <1>2 DEF KeysInv, JobInv
<1>4. PICK token \in TokenAssignments(S) :
         lease_meta' = [j \in Jobs |-> IF j \in S THEN [worker |-> w, token |-> token[j]]
                                                 ELSE lease_meta[j]]
  BY DEF Reserve
<1>5. \A j \in S : [worker |-> w, token |-> token[j]] \in [worker : Workers, token : Tokens]
  BY <1>4 DEF TokenAssignments, FreshTokens
<1>6. /\ ready' = [j \in Jobs |-> IF j \in S THEN Nil ELSE ready[j]]
      /\ scheduled' = [j \in Jobs |-> IF j \in S /\ ~In(ready, j) THEN Nil ELSE scheduled[j]]
      /\ leased' = [j \in Jobs |-> IF j \in S THEN now + LeaseDuration ELSE leased[j]]
      /\ workers_leases' = [workers_leases EXCEPT ![w] = workers_leases[w] + Cardinality(S)]
      /\ last_seen' = [last_seen EXCEPT ![w] = now]
      /\ workers_config' = workers_config \cup {w}
      /\ cfg \in {Nil, PolicyOf[w]} /\ cfg' = PolicyOf[w]
      /\ UNCHANGED <<failed, failures, rerun>>
  BY DEF Reserve, PolicyAccepted
<1> HIDE DEF S
<1>7. IsFiniteSet(S) /\ Cardinality(S) \in Nat
  BY <1>2, JobsAssumption, FS_Subset, FS_CardinalityType
<1>8. TypeOK'
  <2>1. ready' \in Placement /\ scheduled' \in Placement /\ leased' \in Placement
    BY <1>1, <1>6 DEF TypeOK, Placement, Scores
  <2>2. lease_meta' \in [Jobs -> [worker : Workers, token : Tokens] \cup {Nil}]
    BY <1>1, <1>4, <1>5 DEF TypeOK
  <2>3. workers_leases' \in [Workers -> Nat]
    BY <1>1, <1>6, <1>7 DEF TypeOK
  <2>4. cfg' \in Policies /\ last_seen' \in [Workers -> Scores \cup {Nil}]
    BY <1>1, <1>6, PolicyAssumption DEF TypeOK, Scores
  <2>5. QED
    BY <1>1, <1>6, <2>1, <2>2, <2>3, <2>4 DEF TypeOK
<1>9. ASSUME NEW j \in Jobs PROVE JobInv(j)'
  <2>1. JobInv(j)
    BY DEF KeysInv
  <2>2. CASE j \in S
    <3>1. lease_meta'[j] = [worker |-> w, token |-> token[j]]
      BY <1>4, <2>2
    <3>2. /\ ~In(ready, j)' /\ ~In(scheduled, j)' /\ ~In(failed, j)' /\ In(leased, j)'
      BY <1>1, <1>2, <1>3, <1>6, <2>1, <2>2 DEF JobInv, In
    <3>3. lease_meta'[j] # Nil /\ lease_meta'[j].worker = w
      BY <1>5, <2>2, <3>1, NilAssumption
    <3>4. QED
      BY <1>6, <3>2, <3>3 DEF JobInv
  <2>3. CASE j \notin S
    <3>1. lease_meta'[j] = lease_meta[j]
      BY <1>4, <2>3
    <3>2. cfg # Nil => cfg' = cfg
      BY <1>6
    <3>3. lease_meta[j] # Nil => cfg # Nil
      BY <1>1, <2>1, PolicyAssumption, NilAssumption DEF JobInv, TypeOK
    <3>4. QED
      BY <1>6, <2>1, <2>3, <3>1, <3>2, <3>3 DEF JobInv, In
  <2>4. QED
    BY <2>2, <2>3
<1>10. ASSUME NEW v \in Workers PROVE CountKeeps(v)
  <2>1. IsFiniteSet(LeasesOf(v)) /\ Cardinality(LeasesOf(v)) \in Nat
    BY JobsAssumption, FS_Subset, FS_CardinalityType DEF LeasesOf
  <2>2. workers_leases[v] \in Nat
    BY <1>1 DEF TypeOK
  <2>3. CASE v = w
    <3>1. LeasesOf(v)' = LeasesOf(v) \cup S
      BY <1>2, <1>4, <1>5, <2>3, NilAssumption DEF LeasesOf
    <3>2. LeasesOf(v) \cap S = {}
      BY <1>3 DEF LeasesOf
    <3>3. Cardinality(LeasesOf(v)') = Cardinality(LeasesOf(v)) + Cardinality(S) - 0
      BY <1>7, <2>1, <3>1, <3>2, FS_Union, FS_EmptySet
    <3>4. workers_leases'[v] = workers_leases[v] + Cardinality(S)
      BY <1>1, <1>6, <2>3 DEF TypeOK
    <3>5. QED
      BY <1>7, <2>1, <2>2, <3>3, <3>4 DEF CountKeeps
  <2>4. CASE v # w
    <3>1. LeasesOf(v)' = LeasesOf(v)
      BY <1>2, <1>3, <1>4, <1>5, <2>4, NilAssumption DEF LeasesOf
    <3>2. workers_leases'[v] = workers_leases[v]
      BY <1>1, <1>6, <2>4 DEF TypeOK
    <3>3. QED
      BY <3>1, <3>2 DEF CountKeeps
  <2>5. QED
    BY <2>3, <2>4
<1>11. QED
  BY <1>8, <1>9, <1>10 DEF KeysInv, CountsKeep

\* Only leased jobs are reaped, so making them ready gives no job two places,
\* and each of them was counted for the worker its record names.
LEMMA ReapExpiredKeys ==
  ASSUME KeysInv, NEW now \in Times, NEW limit \in ReapLimits, ReapExpired(now, limit)
  PROVE  KeysInv' /\ CountsKeep
<1> DEFINE S == Reaped(now, limit)
<1>1. TypeOK /\ now \in Nat /\ now # Nil
  BY TimesAssumption, NilAssumption DEF KeysInv, Scores
<1>2. S \subseteq Jobs /\ \A j \in S : In(leased, j)
  BY DEF Reaped, Expired
<1>3. /\ leased' = [j \in Jobs |-> IF j \in S THEN Nil ELSE leased[j]]
      /\ lease_meta' = [j \in Jobs |-> IF j \in S THEN Nil ELSE lease_meta[j]]
      /\ ready' = [j \in Jobs |-> IF j \in S THEN now ELSE ready[j]]
      /\ rerun' = rerun \ S
      /\ workers_leases' =
            [w \in Workers |->
                LET n == Cardinality(S \cap LeasesOf(w)) IN
                IF workers_leases[w] <= n THEN 0 ELSE workers_leases[w] - n]
      /\ UNCHANGED <<scheduled, failed, failures, last_seen, workers_config, cfg>>
  BY DEF ReapExpired, registry
<1> HIDE DEF S
<1>4. ASSUME NEW v \in Workers
      PROVE  workers_leases'[v] \in Nat /\ CountKeeps(v)
  <2> DEFINE n == Cardinality(LeasesOf(v) \cap S)
  <2>1. /\ IsFiniteSet(LeasesOf(v))
        /\ Cardinality(LeasesOf(v)) \in Nat
    BY JobsAssumption, FS_Subset, FS_CardinalityType DEF LeasesOf
  <2>2. n \in Nat /\ n <= Cardinality(LeasesOf(v))
    BY <2>1, FS_Intersection, FS_CardinalityType
  <2>3. LeasesOf(v)' = LeasesOf(v) \ S
    BY <1>3 DEF LeasesOf
  <2>4. Cardinality(LeasesOf(v)') = Cardinality(LeasesOf(v)) - n
    BY <2>1, <2>3, FS_Difference
  <2>5. S \cap LeasesOf(v) = LeasesOf(v) \cap S
    OBVIOUS
  <2>6. workers_leases'[v] = IF workers_leases[v] <= n THEN 0 ELSE workers_leases[v] - n
    BY <1>3, <2>5
  <2>7. workers_leases[v] \in Nat
    BY <1>1 DEF TypeOK
  <2> HIDE DEF n
  <2>8. QED
    BY <2>1, <2>2, <2>4, <2>6, <2>7 DEF CountKeeps
<1>5. TypeOK'
  <2>1. workers_leases' \in [Workers -> Nat]
    BY <1>3, <1>4
  <2>2. ready' \in Placement /\ leased' \in Placement
    BY <1>1, <1>3 DEF TypeOK, Placement, Scores
  <2>3. QED
    BY <1>1, <1>3, <2>1, <2>2 DEF TypeOK
<1>6. ASSUME NEW j \in Jobs PROVE JobInv(j)'
  BY <1>1, <1>2, <1>3 DEF KeysInv, JobInv, In
<1>7. QED
  BY <1>4, <1>5, <1>6 DEF KeysInv, CountsKeep

LEMMA KeysUnchanged == KeysInv /\ UNCHANGED vars => KeysInv' /\ CountsKeep
BY CountsKept DEF vars, KeysInv, TypeOK, JobInv, In

\* Every step of the store keeps the keys consistent and the counts as right as
\* they were.
LEMMA NextKeysInv == KeysInv /\ [Next]_vars => KeysInv' /\ CountsKeep
<1> SUFFICES ASSUME KeysInv, [Next]_vars PROVE KeysInv' /\ CountsKeep
  OBVIOUS
<1>1. ASSUME NEW now \in Times, NEW j \in Jobs, ClientStep(j, now) PROVE KeysInv' /\ CountsKeep
  BY <1>1, ClientStepKeys
<1>2. ASSUME NEW now \in Times, NEW w \in Workers, NEW capacity \in Capacities,
             Reserve(w, now, capacity)
      PROVE  KeysInv' /\ CountsKeep
  BY <1>2, ReserveKeys
<1>3. ASSUME NEW now \in Times, NEW j \in Jobs, NEW w \in Workers, NEW t \in Tokens,
             HolderStep(j, w, t, now)
      PROVE  KeysInv' /\ CountsKeep
  BY <1>3, HolderStepKeys
<1>4. ASSUME NEW now \in Times, NEW limit \in ReapLimits, ReapExpired(now, limit)
      PROVE  KeysInv' /\ CountsKeep
  BY <1>4, ReapExpiredKeys
<1>5. ASSUME NEW now \in Times, NEW j \in Jobs, OperatorStep(j, now) PROVE KeysInv' /\ CountsKeep
  BY <1>5, OperatorStepKeys
<1>6. QED
  BY <1>1, <1>2, <1>3, <1>4, <1>5, KeysUnchanged DEF Next

\* The counts are right as long as only scripts run.
LEMMA CountsStayRight ==
  ASSUME StoreInv, KeysInv', CountsKeep
  PROVE  StoreInv'
BY DEF StoreInv, CountsKeep, CountKeeps, LeaseCountsMatch

LEMMA ClientStepInv ==
  ASSUME StoreInv, NEW j \in Jobs, NEW now \in Times, ClientStep(j, now)
  PROVE  StoreInv'
BY ClientStepKeys, CountsStayRight DEF StoreInv

LEMMA HolderStepInv ==
  ASSUME StoreInv, NEW j \in Jobs, NEW w \in Workers, NEW t \in Tokens, NEW now \in Times,
         HolderStep(j, w, t, now)
  PROVE  StoreInv'
BY HolderStepKeys, CountsStayRight DEF StoreInv

LEMMA OperatorStepInv ==
  ASSUME StoreInv, NEW j \in Jobs, NEW now \in Times, OperatorStep(j, now)
  PROVE  StoreInv'
BY OperatorStepKeys, CountsStayRight DEF StoreInv

LEMMA ReserveInv ==
  ASSUME StoreInv, NEW w \in Workers, NEW now \in Times, NEW capacity \in Capacities,
         Reserve(w, now, capacity)
  PROVE  StoreInv'
BY ReserveKeys, CountsStayRight DEF StoreInv

LEMMA ReapExpiredInv ==
  ASSUME StoreInv, NEW now \in Times, NEW limit \in ReapLimits, ReapExpired(now, limit)
  PROVE  StoreInv'
BY ReapExpiredKeys, CountsStayRight DEF StoreInv

LEMMA NextStoreInv == StoreInv /\ [Next]_vars => StoreInv'
BY NextKeysInv, CountsStayRight DEF StoreInv

\* The invariant holds in every reachable state of every namespace.
THEOREM StoreInvHolds == Spec => []StoreInv
BY InitStoreInv, NextStoreInv, PTL DEF Spec

LEMMA KeysInvHolds == Spec => []KeysInv
BY StoreKeys, StoreInvHolds, PTL

\* Every key holds what its readers parse.
THEOREM TypeCorrect == Spec => []TypeOK
<1>1. StoreInv => TypeOK
  BY DEF StoreInv, KeysInv
<1>2. QED
  BY <1>1, StoreInvHolds, PTL

\* A job is in at most one of ready, scheduled, leased and failed.
THEOREM SingleMembershipHolds == Spec => []SingleMembership
<1>1. StoreInv => SingleMembership
  BY DEF StoreInv, KeysInv, JobInv, SingleMembership
<1>2. QED
  BY <1>1, StoreInvHolds, PTL

\* `leased` and `lease_meta` describe the same leases.
THEOREM LeaseHasHolderHolds == Spec => []LeaseHasHolder
<1>1. StoreInv => LeaseHasHolder
  BY DEF StoreInv, KeysInv, JobInv, LeaseHasHolder
<1>2. QED
  BY <1>1, StoreInvHolds, PTL

\* Only leased jobs have a rerun request.
THEOREM RerunOnlyWhileLeasedHolds == Spec => []RerunOnlyWhileLeased
<1>1. StoreInv => RerunOnlyWhileLeased
  BY DEF StoreInv, KeysInv, JobInv, RerunOnlyWhileLeased, TypeOK
<1>2. QED
  BY <1>1, StoreInvHolds, PTL

\* While only scripts run, workers:leases counts the leases of each worker.
THEOREM LeaseCountsMatchHolds == Spec => []LeaseCountsMatch
<1>1. StoreInv => LeaseCountsMatch
  BY DEF StoreInv
<1>2. QED
  BY <1>1, StoreInvHolds, PTL

\* Every lease is held under the namespace's one retry policy.
THEOREM OnePolicyHolds == Spec => []OnePolicy
<1>1. StoreInv => OnePolicy
  BY DEF StoreInv, KeysInv, JobInv, OnePolicy
<1>2. QED
  BY <1>1, StoreInvHolds, PTL

-----------------------------------------------------------------------------

\* If the elements of a finite set are ordered, so that of two elements one and
\* all before it are before the other, at most n of them have fewer than n
\* elements before them.
LEMMA RankBound ==
  ASSUME NEW D, IsFiniteSet(D), NEW Before \in [D -> SUBSET D], NEW n \in Nat,
         \A a, b \in D : a # b => \/ a \in Before[b] /\ Before[a] \subseteq Before[b]
                                  \/ b \in Before[a] /\ Before[b] \subseteq Before[a],
         \A a \in D : a \notin Before[a]
  PROVE  Cardinality({j \in D : Cardinality(Before[j]) < n}) <= n
<1> DEFINE F == {j \in D : Cardinality(Before[j]) < n}
           rank == [j \in F |-> Cardinality(Before[j])]
<1>1. \A j \in D : IsFiniteSet(Before[j]) /\ Cardinality(Before[j]) \in Nat
  BY FS_Subset, FS_CardinalityType
<1>2. ASSUME NEW a \in D, NEW b \in D, a \in Before[b], Before[a] \subseteq Before[b]
      PROVE  Cardinality(Before[a]) # Cardinality(Before[b])
  <2>1. Before[a] # Before[b]
    BY <1>2
  <2>2. QED
    BY <1>1, <1>2, <2>1, FS_Subset
<1>3. rank \in [F -> 0 .. n - 1]
  BY <1>1
<1>4. \A a, b \in F : rank[a] = rank[b] => a = b
  BY <1>2
<1>5. rank \in Injection(F, 0 .. n - 1)
  BY <1>3, <1>4 DEF Injection, IsInjective
<1>6. IsFiniteSet(0 .. n - 1) /\ Cardinality(0 .. n - 1) = n
  BY FS_Interval
<1> HIDE DEF F, rank
<1>7. Cardinality(F) <= Cardinality(0 .. n - 1)
  BY <1>5, <1>6, FS_Injection
<1>8. QED
  BY <1>6, <1>7 DEF F
=============================================================================
