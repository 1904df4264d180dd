------------------------- MODULE RedloopClientProofs -------------------------
(***************************************************************************)
(* What a caller of RedloopClient may conclude from an answer, proved for    *)
(* every namespace, every batch and every number of callers of the scripts   *)
(* around it.                                                               *)
(*                                                                          *)
(* A step of the caller is a step of the store or leaves it alone, so what   *)
(* is proved of RedloopStore holds beside any call.  The rest follows        *)
(* LEMMA StepEffect: whatever script runs between two commands, it moves,     *)
(* leases, ends, renews or reaps, and the call is told of it by `during`.      *)
(***************************************************************************)
EXTENDS RedloopClient, RedloopHistoryProofs

LookupCalls ==
    [op : {"get_job"}, job_id : Jobs, next : 1 .. 7,
     state : {"none", "ready", "leased", "failed", "scheduled"}, failure_count : Nat,
     leased_by : [worker : Workers, token : Tokens] \cup {Nil}]
CountCalls == [op : {"counts"}, job_id : Jobs, now : Times, next : 1 .. 6, times : Nat]
ListCalls ==
    [op : {"list_failed"}, limit : Limits, at : {"range", "counts", "end"}, offset : Nat,
     rows : SUBSET Jobs, more : BOOLEAN, start : SUBSET Jobs, listed : SUBSET Jobs,
     twice : SUBSET Jobs, uncounted : SUBSET Jobs]
BatchCalls ==
    [op : {"enqueue_batch"}, items : Batches, next : Nat, applied : SUBSET Nat,
     status : {"none", "created", "updated", "unchanged"}, result : {"pending", "error", "ok"}]

Calls == {Idle} \cup LookupCalls \cup CountCalls \cup ListCalls \cup BatchCalls

DuringType ==
    [missable : BOOLEAN, repeatable : BOOLEAN, ended : BOOLEAN,
     left : SUBSET Jobs, entered : SUBSET Jobs]

ClientTypeOK == call \in Calls /\ during \in DuringType /\ owed \subseteq Jobs

\* The kind of a call says which fields it has.
LEMMA CallKinds ==
  ASSUME call \in Calls
  PROVE  /\ call.op = "get_job" => call \in LookupCalls
         /\ call.op = "counts" => call \in CountCalls
         /\ call.op = "list_failed" => call \in ListCalls
         /\ call.op = "enqueue_batch" => call \in BatchCalls
         /\ call = Idle => call.op = "none"
BY DEF Calls, Idle, LookupCalls, CountCalls, ListCalls, BatchCalls

\* The orders in which the pipelines read.
LEMMA Orders ==
  /\ Len(LookupOrder) = 4 /\ DOMAIN LookupOrder = 1 .. 4
  /\ LookupOrder[1] = "ready" /\ LookupOrder[2] = "leased"
  /\ LookupOrder[3] = "failed" /\ LookupOrder[4] = "scheduled"
  /\ DOMAIN CountOrder = 1 .. 5
  /\ CountOrder[1] = "ready" /\ CountOrder[2] = "due" /\ CountOrder[3] = "future"
  /\ CountOrder[4] = "leased" /\ CountOrder[5] = "failed"
BY DEF LookupOrder, CountOrder

LEMMA RequestOK ==
  ASSUME NEW b \in Batches, NEW i \in DOMAIN b
  PROVE  /\ b[i] \in Requests /\ b[i].job_id \in Jobs
         /\ b[i].allow_existing_current_run \in BOOLEAN
         /\ ~b[i].allow_existing_current_run =>
                b[i].schedule_at \in Times /\ b[i].replace_mode \in Modes
<1>1. b \in Seq(Requests)
  BY ClientAssumption
<1>2. b[i] \in Requests
  BY <1>1
<1>3. QED
  BY <1>2 DEF Requests, ImmediateRequests, ScheduledRequests

\* What an item does to the keys is one script, or nothing.
LEMMA EnqueuedStep ==
  ASSUME NEW b \in Batches, NEW i \in DOMAIN b, NEW now \in Times, Enqueued(b[i], now)
  PROVE  ClientStep(b[i].job_id, now) \/ UNCHANGED vars
BY RequestOK DEF Enqueued, ClientStep, Modes

\* Every step beside the caller's reads is a step of the store.
LEMMA ClientStepsStore ==
  ASSUME ClientTypeOK, [ClientNext]_clientVars
  PROVE  [Next]_vars
<1>1. CASE OthersStep
  BY <1>1 DEF OthersStep
<1>2. CASE ItemEnqueued
  <2>1. call \in BatchCalls /\ call.next \in DOMAIN call.items /\ call.items \in Batches
    BY <1>2, CallKinds DEF ClientTypeOK, ItemEnqueued, Sending, BatchCalls
  <2>2. PICK now \in Times : Enqueued(call.items[call.next], now)
    BY <1>2 DEF ItemEnqueued
  <2>3. QED
    BY <2>1, <2>2, EnqueuedStep, RequestOK DEF Next
<1>3. CASE ItemTimesOut
  <2>1. call \in BatchCalls /\ call.next \in DOMAIN call.items /\ call.items \in Batches
    BY <1>3, CallKinds DEF ClientTypeOK, ItemTimesOut, Sending, BatchCalls
  <2>2. UNCHANGED vars \/ \E now \in Times : Enqueued(call.items[call.next], now)
    BY <1>3 DEF ItemTimesOut
  <2>3. QED
    BY <2>1, <2>2, EnqueuedStep, RequestOK DEF Next
<1>4. CASE UNCHANGED clientVars
  BY <1>4 DEF clientVars
<1>5. CASE CallStep /\ ~ItemEnqueued /\ ~ItemTimesOut
  BY <1>5 DEF CallStep, GetJob, LookupSet, LookupFailures, LookupHolder, Counts, CountSet,
              ListFailed, ListRows, ListCounts, EnqueueBatch, ItemRemembered, Return, Begin, Reads
<1>6. QED
  BY <1>1, <1>2, <1>3, <1>4, <1>5 DEF ClientNext

\* A command of the call keeps the kind of the call: it updates fields.
LEMMA LookupFields ==
  ASSUME NEW c \in LookupCalls, NEW n \in 1 .. 7
  PROVE  /\ \A s \in {"none", "ready", "leased", "failed", "scheduled"} :
               [c EXCEPT !.next = n, !.state = s] \in LookupCalls
         /\ \A f \in Nat : [c EXCEPT !.next = n, !.failure_count = f] \in LookupCalls
         /\ \A h \in [worker : Workers, token : Tokens] \cup {Nil} :
               [c EXCEPT !.next = n, !.leased_by = h] \in LookupCalls
<1>1. ASSUME NEW s \in {"none", "ready", "leased", "failed", "scheduled"}
      PROVE  [c EXCEPT !.next = n, !.state = s] \in LookupCalls
  BY DEF LookupCalls
<1>2. ASSUME NEW f \in Nat PROVE [c EXCEPT !.next = n, !.failure_count = f] \in LookupCalls
  BY DEF LookupCalls
<1>3. ASSUME NEW h \in [worker : Workers, token : Tokens] \cup {Nil}
      PROVE  [c EXCEPT !.next = n, !.leased_by = h] \in LookupCalls
  BY DEF LookupCalls
<1>4. QED
  BY <1>1, <1>2, <1>3

LEMMA CountFields ==
  ASSUME NEW c \in CountCalls, NEW n \in 1 .. 6, NEW t \in Nat
  PROVE  [c EXCEPT !.next = n, !.times = t] \in CountCalls
BY DEF CountCalls

LEMMA ListFields ==
  ASSUME NEW c \in ListCalls, NEW a \in {"range", "counts", "end"}, NEW o \in Nat,
         NEW r \in SUBSET Jobs, NEW l \in SUBSET Jobs, NEW t \in SUBSET Jobs,
         NEW u \in SUBSET Jobs
  PROVE  [c EXCEPT !.at = a, !.offset = o, !.listed = l, !.twice = t, !.uncounted = u,
                   !.rows = r] \in ListCalls
BY DEF ListCalls

LEMMA BatchFields ==
  ASSUME NEW c \in BatchCalls, NEW r \in {"pending", "error", "ok"},
         NEW s \in {"none", "created", "updated", "unchanged"}
  PROVE  /\ [c EXCEPT !.result = r] \in BatchCalls
         /\ \A a \in SUBSET Nat : [c EXCEPT !.status = s, !.applied = a] \in BatchCalls
         /\ \A n \in Nat : [c EXCEPT !.status = s, !.next = n, !.result = r] \in BatchCalls
<1>1. [c EXCEPT !.result = r] \in BatchCalls
  BY DEF BatchCalls
<1>2. ASSUME NEW a \in SUBSET Nat PROVE [c EXCEPT !.status = s, !.applied = a] \in BatchCalls
  BY DEF BatchCalls
<1>3. ASSUME NEW n \in Nat
      PROVE  [c EXCEPT !.status = s, !.next = n, !.result = r] \in BatchCalls
  BY DEF BatchCalls
<1>4. QED
  BY <1>1, <1>2, <1>3

LEMMA ClientTypesInit == ClientInit => ClientTypeOK
BY DEF ClientInit, ClientTypeOK, Calls, Quiet, DuringType

\* Every step keeps the types.
LEMMA ClientTypes ==
  ASSUME ClientTypeOK, StoreInv, [ClientNext]_clientVars
  PROVE  ClientTypeOK'
<1>1. \A j \in Jobs : /\ failures[j] \in Nat
                       /\ lease_meta[j] \in [worker : Workers, token : Tokens] \cup {Nil}
  BY LimitsAssumption DEF StoreInv, KeysInv, TypeOK
<1>2. Quiet \in DuringType /\ Idle \in Calls
  BY DEF Quiet, DuringType, Calls
<1>3. CASE call' = Idle /\ during' \in {Quiet, during} /\ owed' = owed
  BY <1>2, <1>3 DEF ClientTypeOK
<1>4. ASSUME NEW j \in Asked, GetJob(j) PROVE ClientTypeOK'
  <2>1. call' \in LookupCalls /\ owed' = {}
    BY <1>4, ClientAssumption DEF GetJob, Begin, LookupCalls
  <2>2. during' \in DuringType
    BY <1>4 DEF GetJob, Quiet, DuringType
  <2>3. QED
    BY <2>1, <2>2 DEF ClientTypeOK, Calls
<1>5. CASE LookupSet \/ LookupFailures \/ LookupHolder
  <2>1. call \in LookupCalls /\ call.next \in 1 .. 7
    BY <1>5, CallKinds DEF ClientTypeOK, LookupSet, LookupFailures, LookupHolder, AllSetsRead, LookupCalls
  <2>2. call' \in LookupCalls
    <3>1. CASE LookupSet
      <4>1. LookupOrder[call.next] \in {"ready", "leased", "failed", "scheduled"}
            /\ call.next \in 1 .. 4
        BY <3>1, Orders DEF LookupSet
      <4>2. call.next + 1 \in 1 .. 7 /\ call.state \in {"none", "ready", "leased", "failed", "scheduled"}
        BY <2>1, <4>1 DEF LookupCalls
      <4>3. PICK s \in {"none", "ready", "leased", "failed", "scheduled"} :
               call' = [call EXCEPT !.next = call.next + 1, !.state = s]
        BY <3>1, <4>1, <4>2 DEF LookupSet, Reads
      <4>4. QED
        BY <2>1, <4>2, <4>3, LookupFields
    <3>2. CASE LookupFailures
      <4>1. call.next = 5 /\ call.job_id \in Jobs
        BY <2>1, <3>2, Orders DEF LookupFailures, AllSetsRead, LookupCalls
      <4>2. PICK f \in Nat : call' = [call EXCEPT !.next = call.next + 1, !.failure_count = f]
        BY <1>1, <3>2, <4>1 DEF LookupFailures, Reads
      <4>3. call.next + 1 \in 1 .. 7
        BY <4>1
      <4>4. QED
        BY <2>1, <4>2, <4>3, LookupFields
    <3>3. CASE LookupHolder
      <4>1. call.next = 6 /\ call.job_id \in Jobs
        BY <2>1, <3>3, Orders DEF LookupHolder, LookupCalls
      <4>2. PICK h \in [worker : Workers, token : Tokens] \cup {Nil} :
               call' = [call EXCEPT !.next = call.next + 1, !.leased_by = h]
        BY <1>1, <3>3, <4>1 DEF LookupHolder, Reads
      <4>3. call.next + 1 \in 1 .. 7
        BY <4>1
      <4>4. QED
        BY <2>1, <4>2, <4>3, LookupFields
    <3>4. QED
      BY <1>5, <3>1, <3>2, <3>3
  <2>3. QED
    BY <1>5, <2>2 DEF LookupSet, LookupFailures, LookupHolder, Reads, ClientTypeOK, Calls
<1>6. ASSUME NEW j \in Asked, NEW now \in Times, Counts(j, now) PROVE ClientTypeOK'
  <2>1. call' \in CountCalls /\ owed' = {}
    BY <1>6, ClientAssumption DEF Counts, Begin, CountCalls
  <2>2. during' \in DuringType
    BY <1>6 DEF Counts, Quiet, DuringType
  <2>3. QED
    BY <2>1, <2>2 DEF ClientTypeOK, Calls
<1>7. CASE CountSet
  <2>1. call \in CountCalls /\ call.next \in 1 .. 5
    BY <1>7, CallKinds, Orders DEF ClientTypeOK, CountSet
  <2>2. call' \in CountCalls
    <3>1. call.times \in Nat /\ call.times + 1 \in Nat /\ call.next + 1 \in 1 .. 6
      BY <2>1 DEF CountCalls
    <3>2. PICK t \in Nat : call' = [call EXCEPT !.next = call.next + 1, !.times = t]
      BY <1>7, <3>1 DEF CountSet, Reads
    <3>3. QED
      BY <2>1, <3>1, <3>2, CountFields
  <2>3. QED
    BY <1>7, <2>2 DEF CountSet, Reads, ClientTypeOK, Calls
<1>8. ASSUME NEW limit \in Limits, ListFailed(limit) PROVE ClientTypeOK'
  <2>1. Members("failed", 0) \subseteq Jobs
    BY DEF Members
  <2>2. call' \in ListCalls /\ owed' = {} /\ during' = Quiet
    BY <1>8, <2>1 DEF ListFailed, Begin, ListCalls
  <2>3. QED
    BY <1>2, <2>2 DEF ClientTypeOK, Calls
<1>9. CASE ListRows
  <2>1. call \in ListCalls
    BY <1>9, CallKinds DEF ClientTypeOK, ListRows
  <2>2. Page(call.offset, call.limit) \in SUBSET Jobs /\ MoreAfter(call.offset, call.limit) \in BOOLEAN
    BY DEF Page, Members, MoreAfter
  <2>3. call' \in ListCalls
    BY <1>9, <2>1, <2>2 DEF ListRows, Reads, ListCalls
  <2>4. QED
    BY <1>9, <2>3 DEF ListRows, Reads, ClientTypeOK, Calls
<1>10. CASE ListCounts
  <2>1. call \in ListCalls /\ call.limit \in Nat /\ call.offset \in Nat
    BY <1>10, CallKinds, ClientAssumption DEF ClientTypeOK, ListCounts, ListCalls
  <2>2. call' \in ListCalls
    <3>1. /\ call.offset + call.limit \in Nat
          /\ (IF call.more THEN "range" ELSE "end") \in {"range", "counts", "end"}
          /\ call.listed \cup call.rows \in SUBSET Jobs
          /\ call.twice \cup (call.rows \cap call.listed) \in SUBSET Jobs
          /\ call.uncounted \cup {j \in call.rows : failures[j] = 0} \in SUBSET Jobs
          /\ {} \in SUBSET Jobs
      BY <2>1 DEF ListCalls
    <3>2. call' = [call EXCEPT !.at = IF call.more THEN "range" ELSE "end",
                               !.offset = call.offset + call.limit,
                               !.listed = call.listed \cup call.rows,
                               !.twice = call.twice \cup (call.rows \cap call.listed),
                               !.uncounted = call.uncounted \cup {j \in call.rows : failures[j] = 0},
                               !.rows = {}]
      BY <1>10 DEF ListCounts, Reads
    <3>3. QED
      BY <2>1, <3>1, <3>2, ListFields
  <2>3. QED
    BY <1>10, <2>2 DEF ListCounts, Reads, ClientTypeOK, Calls
<1>11. ASSUME NEW batch \in Batches, EnqueueBatch(batch) PROVE ClientTypeOK'
  <2>1. call' \in BatchCalls /\ owed' = {} /\ during' = Quiet
    BY <1>11 DEF EnqueueBatch, Begin, BatchCalls
  <2>2. QED
    BY <1>2, <2>1 DEF ClientTypeOK, Calls
<1>12. CASE ItemEnqueued \/ ItemTimesOut \/ ItemRemembered
  <2>1. call \in BatchCalls /\ call.next \in Nat
    BY <1>12, CallKinds DEF ClientTypeOK, ItemEnqueued, ItemTimesOut, ItemRemembered, Sending, BatchCalls
  <2>2. call' \in BatchCalls
    <3>1. CASE ItemEnqueued
      <4>1. PICK now \in Times :
               \/ call' = [call EXCEPT !.result = "error"]
               \/ /\ Status(call.items[call.next], now) # "invalid_state"
                  /\ call' = [call EXCEPT !.status = Status(call.items[call.next], now),
                                          !.applied = @ \cup {call.next}]
        BY <3>1 DEF ItemEnqueued
      <4>2. Status(call.items[call.next], now) \in {"created", "updated", "unchanged", "invalid_state"}
        BY DEF Status, ImmediateStatus, ScheduledStatus
      <4>3. call.applied \cup {call.next} \in SUBSET Nat
        BY <2>1 DEF BatchCalls
      <4>4. CASE call' = [call EXCEPT !.result = "error"]
        BY <2>1, <4>4, BatchFields
      <4>5. CASE /\ Status(call.items[call.next], now) # "invalid_state"
                 /\ call' = [call EXCEPT !.status = Status(call.items[call.next], now),
                                         !.applied = @ \cup {call.next}]
        BY <2>1, <4>2, <4>3, <4>5, BatchFields
      <4>6. QED
        BY <4>1, <4>4, <4>5
    <3>2. CASE ItemTimesOut
      BY <2>1, <3>2, BatchFields DEF ItemTimesOut
    <3>3. CASE ItemRemembered
      <4>1. PICK r \in {"pending", "error", "ok"} :
               call' = [call EXCEPT !.status = "none", !.next = call.next + 1, !.result = r]
        BY <3>3 DEF ItemRemembered
      <4>2. call.next + 1 \in Nat
        BY <2>1
      <4>3. [call EXCEPT !.status = "none", !.next = call.next + 1, !.result = r] \in BatchCalls
        BY <2>1, <4>2, BatchFields
      <4>4. QED
        BY <4>1, <4>3
    <3>4. QED
      BY <1>12, <3>1, <3>2, <3>3
  <2>3. owed' \subseteq Jobs
    <3>1. CASE ItemRemembered
      BY <3>1 DEF ItemRemembered, ClientTypeOK
    <3>2. CASE ItemEnqueued \/ ItemTimesOut
      <4>1. call.items[call.next].job_id \in Jobs
        BY <2>1, <3>2, RequestOK DEF ItemEnqueued, ItemTimesOut, Sending, BatchCalls
      <4>2. QED
        BY <3>2, <4>1 DEF ItemEnqueued, ItemTimesOut, Owes, ClientTypeOK
    <3>3. QED
      BY <1>12, <3>1, <3>2
  <2>4. during' = during
    BY <1>12 DEF ItemEnqueued, ItemTimesOut, ItemRemembered
  <2>5. QED
    BY <2>2, <2>3, <2>4 DEF ClientTypeOK, Calls
<1>13. CASE Return
  BY <1>3, <1>13 DEF Return
<1>14. CASE OthersStep
  <2>1. during' \in DuringType
    BY <1>14 DEF OthersStep, Recorded, ClientTypeOK, DuringType
  <2>2. QED
    BY <1>14, <2>1 DEF OthersStep, ClientTypeOK
<1>15. CASE UNCHANGED clientVars
  BY <1>15 DEF clientVars, ClientTypeOK
<1>16. QED
  BY <1>4, <1>5, <1>6, <1>7, <1>8, <1>9, <1>10, <1>11, <1>12, <1>13, <1>14, <1>15
     DEF ClientNext, CallStep

-----------------------------------------------------------------------------

\* The store beside a caller is the store: its invariant holds, and the types.
ClientInv == StoreInv /\ ClientTypeOK

LEMMA ClientInvStep == ClientInv /\ [ClientNext]_clientVars => ClientInv'
BY ClientStepsStore, NextStoreInv, ClientTypes DEF ClientInv

THEOREM ClientInvHolds == ClientSpec => []ClientInv
<1>1. ClientInit => ClientInv
  BY InitStoreInv, ClientTypesInit DEF ClientInit, ClientInv
<1>2. QED
  BY <1>1, ClientInvStep, PTL DEF ClientSpec

\* A job whose state a script leaves alone keeps its counter and its holder, and
\* a request to run again that it has.
LEMMA SameState ==
  ASSUME StoreInv, [Next]_vars, NEW j \in Jobs, CurrentState(j)' = CurrentState(j)
  PROVE  /\ failures'[j] = failures[j] /\ lease_meta'[j] = lease_meta[j]
         /\ j \in rerun => j \in rerun'
<1>1. ASSUME NEW k \in Jobs, Moves(k) PROVE failures'[j] = failures[j]
  BY <1>1 DEF Moves, OnlyJob
<1>2. ASSUME NEW k \in Jobs, Ends(k)
      PROVE  failures'[j] = failures[j] /\ lease_meta'[j] = lease_meta[j] /\ j # k
  <2>1. j # k
    BY <1>2 DEF Ends
  <2>2. QED
    BY <1>2, <2>1 DEF Ends, OnlyJob, ZRem, StoreInv, KeysInv, TypeOK
<1>3. ASSUME NEW S \in SUBSET Jobs, NEW w \in Workers, Starts(S, w)
      PROVE  lease_meta'[j] = lease_meta[j]
  BY <1>3 DEF Starts
<1>4. ASSUME NEW S \in SUBSET Jobs, Expires(S)
      PROVE  lease_meta'[j] = lease_meta[j] /\ j \notin S
  BY <1>4 DEF Expires
<1>5. QED
  BY <1>1, <1>2, <1>3, <1>4, StoreKeys, StepEffect DEF Moves, AsksAgain, Ends, Renews, Starts, Expires

-----------------------------------------------------------------------------

\* What enqueueing an item leaves behind: the job waits, or is asked for again
\* beside its lease, and every other job is where it was.
Promised(j) == CurrentState(j) \in {"ready", "scheduled"} \/ (In(leased, j) /\ j \in rerun)

\* A move by a client puts the job where it says.
LEMMA MovedTo ==
  ASSUME StoreInv, NEW j \in Jobs, NEW to \in {"ready", "scheduled"}, NEW score \in Nat,
         Move(j, CurrentState(j), to, score)
  PROVE  CurrentState(j)' = to
<1>1. TypeOK /\ JobInv(j)
  BY DEF StoreInv, KeysInv
<1>2. In(ready, j)' <=> to = "ready"
  BY <1>1, MoveEffect, StateIsPlacement
<1>3. In(scheduled, j)' <=> to = "scheduled"
  BY <1>1, MoveEffect, StateIsPlacement
<1>4. QED
  BY <1>2, <1>3 DEF CurrentState

LEMMA EnqueuedPromises ==
  ASSUME StoreInv, NEW b \in Batches, NEW i \in DOMAIN b, NEW now \in Times, Enqueued(b[i], now)
  PROVE  /\ Status(b[i], now) # "invalid_state" => Promised(b[i].job_id)'
         /\ \A k \in Jobs : Promised(k) => Promised(k)'
<1> DEFINE r == b[i]
           j == r.job_id
<1>1. j \in Jobs /\ StoreInv' /\ now \in Nat /\ [Next]_vars
  BY RequestOK, EnqueuedStep, NextStoreInv, TimesAssumption DEF Next
<1>2. TypeOK /\ JobInv(j) /\ JobInv(j)'
  BY <1>1 DEF StoreInv, KeysInv
<1>3. CASE EnqueueImmediate(j, now)
  <2>3. Promised(j)'
    <3>1. CASE CurrentState(j) = "leased"
      BY <1>1, <1>2, <1>3, <3>1, StateIsPlacement DEF EnqueueImmediate, Promised, leases, In
    <3>2. CASE CurrentState(j) # "leased"
      <4>1. Move(j, CurrentState(j), "ready", now)
        BY <1>3, <3>2 DEF EnqueueImmediate
      <4>2. QED
        BY <1>1, <4>1, MovedTo DEF Promised
    <3>3. QED
      BY <3>1, <3>2
  <2>4. ASSUME NEW k \in Jobs \ {j}, Promised(k) PROVE Promised(k)'
    <3>1. CurrentState(k)' = CurrentState(k)
      BY <1>1, <1>3, StoreKeys, ClientEffect DEF ClientStep, Moves, OnlyJob, AsksAgain
    <3>2. JobInv(k) /\ JobInv(k)' /\ (k \in rerun => k \in rerun')
      BY <1>1, <3>1, SameState DEF StoreInv, KeysInv
    <3>3. QED
      BY <2>4, <3>1, <3>2, StateIsPlacement DEF Promised, JobInv, CurrentState
  <2>5. QED
    BY <2>3, <2>4
<1>4. CASE EnqueueScheduled(j, r.schedule_at, r.replace_mode, now) /\ ~r.allow_existing_current_run
  <2>1. /\ r.schedule_at \in Times /\ r.replace_mode \in Modes
        /\ Target(r.schedule_at, now).state \in {"ready", "scheduled"}
        /\ Target(r.schedule_at, now).score \in Nat
        /\ Move(j, CurrentState(j), Target(r.schedule_at, now).state, Target(r.schedule_at, now).score)
    BY <1>1, <1>4, RequestOK, TimesAssumption DEF EnqueueScheduled, Target
  <2>2. Promised(j)'
    BY <1>1, <2>1, MovedTo DEF Promised
  <2>3. ClientStep(j, now)
    BY <1>4, <2>1 DEF ClientStep, Modes
  <2>4. ASSUME NEW k \in Jobs \ {j}, Promised(k) PROVE Promised(k)'
    <3>1. CurrentState(k)' = CurrentState(k)
      BY <1>1, <2>3, StoreKeys, ClientEffect DEF Moves, OnlyJob, AsksAgain
    <3>2. JobInv(k) /\ JobInv(k)' /\ (k \in rerun => k \in rerun')
      BY <1>1, <3>1, SameState DEF StoreInv, KeysInv
    <3>3. QED
      BY <2>4, <3>1, <3>2, StateIsPlacement DEF Promised, JobInv, CurrentState
  <2>5. QED
    BY <2>2, <2>4
<1>5. CASE UNCHANGED vars /\ \/ r.allow_existing_current_run /\ In(ready, j)
                             \/ ~r.allow_existing_current_run
                                /\ Status(r, now) \in {"unchanged", "invalid_state"}
  <2>1. \A k \in Jobs : Promised(k)' <=> Promised(k)
    BY <1>5 DEF vars, Promised, CurrentState, In
  <2>2. Status(r, now) # "invalid_state" => CurrentState(j) \in {"ready", "scheduled"}
    BY <1>5 DEF Status, ScheduledStatus, CurrentState
  <2>3. QED
    BY <1>1, <2>1, <2>2 DEF Promised
<1>6. QED
  BY <1>3, <1>4, <1>5, RequestOK DEF Enqueued

\* A promise is kept by whatever script runs, until it is discharged.
LEMMA PromiseKept ==
  ASSUME StoreInv, [Next]_vars, NEW k \in Jobs, Promised(k), ~Discharged(k)
  PROVE  Promised(k)'
<1>1. JobInv(k) /\ JobInv(k)' /\ StoreInv'
  BY NextStoreInv DEF StoreInv, KeysInv
<1>2. /\ In(leased, k) <=> CurrentState(k) = "leased"
      /\ In(leased, k)' <=> CurrentState(k)' = "leased"
      /\ In(failed, k) <=> CurrentState(k) = "failed"
      /\ In(failed, k)' <=> CurrentState(k)' = "failed"
  BY <1>1 DEF JobInv, CurrentState
<1>3. CASE CurrentState(k)' = CurrentState(k)
  BY <1>2, <1>3, SameState DEF Promised
<1>4. CASE CurrentState(k)' # CurrentState(k)
  <2>1. CASE \E j \in Jobs : Moves(j)
    BY <1>2, <1>4, <2>1 DEF Moves, OnlyJob, Promised, Discharged
  <2>2. CASE \E j \in Jobs : Ends(j)
    BY <1>2, <1>4, <2>2 DEF Ends, OnlyJob, Promised, Discharged
  <2>3. CASE \E S \in SUBSET Jobs, w \in Workers : Starts(S, w)
    BY <1>2, <1>4, <2>3 DEF Starts, Promised, Discharged
  <2>4. CASE \E S \in SUBSET Jobs : Expires(S)
    BY <1>2, <1>4, <2>4 DEF Expires, Promised, Discharged
  <2>5. QED
    BY <1>4, <2>1, <2>2, <2>3, <2>4, StoreKeys, StepEffect DEF AsksAgain, Renews
<1>5. QED
  BY <1>3, <1>4

\* What a batch has done so far.
BatchProgress ==
    call.op = "enqueue_batch" =>
        /\ call.status # "none" => call.result = "pending"
        /\ call.result = "pending" =>
              /\ call.next \in DOMAIN call.items
              /\ call.applied = {i \in DOMAIN call.items :
                                     i < call.next \/ (i = call.next /\ call.status # "none")}
        /\ call.result = "ok" => call.applied = DOMAIN call.items

Owing == \A j \in owed : Promised(j)

LEMMA BatchProgressStep ==
  ASSUME ClientInv, BatchProgress, [ClientNext]_clientVars
  PROVE  BatchProgress'
<1>1. ASSUME NEW batch \in Batches, EnqueueBatch(batch) PROVE BatchProgress'
  <2>1. PICK n \in Nat : DOMAIN batch = 1 .. n /\ (batch = <<>> <=> n = 0)
    BY ClientAssumption
  <2>2. /\ call'.items = batch /\ call'.next = 1 /\ call'.applied = {} /\ call'.status = "none"
        /\ call'.result = IF batch = <<>> THEN "ok" ELSE "pending"
    BY <1>1 DEF EnqueueBatch, Begin
  <2>3. QED
    BY <2>1, <2>2 DEF BatchProgress
<1>2. CASE ItemEnqueued \/ ItemTimesOut \/ ItemRemembered
  <2>1. call \in BatchCalls /\ call.op = "enqueue_batch"
    BY <1>2, CallKinds DEF ClientInv, ClientTypeOK, ItemEnqueued, ItemTimesOut, ItemRemembered, Sending
  <2>2. PICK n \in Nat : DOMAIN call.items = 1 .. n
    BY <2>1, ClientAssumption DEF BatchCalls
  <2>3. call.next \in Nat
    BY <2>1 DEF BatchCalls
  <2>4. CASE call' = [call EXCEPT !.result = "error"] /\ call.status = "none"
    BY <2>1, <2>4 DEF BatchCalls, BatchProgress
  <2>5. CASE ItemEnqueued /\ call' # [call EXCEPT !.result = "error"]
    <3>1. PICK s \in {"created", "updated", "unchanged"} :
             call' = [call EXCEPT !.status = s, !.applied = call.applied \cup {call.next}]
      BY <2>5 DEF ItemEnqueued, Status, ImmediateStatus, ScheduledStatus
    <3>2. Sending
      BY <2>5 DEF ItemEnqueued
    <3>3. /\ call'.items = call.items /\ call'.next = call.next /\ call'.status = s
          /\ call'.result = "pending" /\ call'.applied = call.applied \cup {call.next}
      BY <2>1, <3>1, <3>2 DEF BatchCalls, Sending
    <3>4. QED
      BY <2>2, <2>3, <3>2, <3>3 DEF BatchProgress, Sending
  <2>6. CASE ItemRemembered
    <3>1. /\ call'.items = call.items /\ call'.next = call.next + 1 /\ call'.status = "none"
          /\ call'.applied = call.applied
          /\ call'.result = IF call.next + 1 \in DOMAIN call.items THEN "pending" ELSE "ok"
      BY <2>1, <2>6 DEF BatchCalls, ItemRemembered
    <3>2. call.result = "pending" /\ call.next \in 1 .. n /\ call.applied = 1 .. call.next
      <4>1. /\ call.result = "pending" /\ call.next \in DOMAIN call.items
            /\ call.applied = {i \in DOMAIN call.items :
                                   i < call.next \/ (i = call.next /\ call.status # "none")}
            /\ call.status # "none"
        BY <2>1, <2>6 DEF BatchProgress, ItemRemembered
      <4>2. call.applied = {i \in 1 .. n : i <= call.next}
        BY <2>2, <2>3, <4>1
      <4>3. call.next \in 1 .. n /\ {i \in 1 .. n : i <= call.next} = 1 .. call.next
        BY <2>2, <2>3, <4>1
      <4>4. QED
        BY <4>1, <4>2, <4>3
    <3>3. CASE call.next < n
      <4>1. call'.applied = {i \in DOMAIN call'.items : i < call'.next}
        BY <2>2, <2>3, <3>1, <3>2, <3>3
      <4>2. call'.next \in DOMAIN call'.items /\ call'.result = "pending"
        BY <2>2, <2>3, <3>1, <3>2, <3>3
      <4>3. QED
        BY <3>1, <4>1, <4>2 DEF BatchProgress
    <3>4. CASE call.next = n
      BY <2>2, <2>3, <3>1, <3>2, <3>4 DEF BatchProgress
    <3>5. QED
      BY <3>2, <3>3, <3>4
  <2>7. QED
    BY <1>2, <2>4, <2>5, <2>6 DEF ItemEnqueued, ItemTimesOut, Sending
<1>3. CASE call' = call
  BY <1>3 DEF BatchProgress
<1>4. CASE call'.op # "enqueue_batch"
  BY <1>4 DEF BatchProgress
<1>5. CASE CallStep /\ ~(ItemEnqueued \/ ItemTimesOut \/ ItemRemembered)
                    /\ ~\E batch \in Batches : EnqueueBatch(batch)
  <2>1. CASE LookupSet \/ LookupFailures \/ LookupHolder
    <3>1. call \in LookupCalls
      BY <2>1, CallKinds
         DEF ClientInv, ClientTypeOK, LookupSet, LookupFailures, AllSetsRead, LookupHolder
    <3>2. call'.op = "get_job"
      BY <2>1, <3>1 DEF LookupSet, LookupFailures, LookupHolder, Reads, LookupCalls
    <3>3. QED
      BY <1>4, <3>2
  <2>2. CASE CountSet
    <3>1. call'.op = "counts"
      BY <2>2, CallKinds DEF ClientInv, ClientTypeOK, CountSet, Reads, CountCalls
    <3>2. QED
      BY <1>4, <3>1
  <2>3. CASE ListRows \/ ListCounts
    <3>1. call \in ListCalls
      BY <2>3, CallKinds DEF ClientInv, ClientTypeOK, ListRows, ListCounts
    <3>2. call'.op = "list_failed"
      BY <2>3, <3>1 DEF ListRows, ListCounts, Reads, ListCalls
    <3>3. QED
      BY <1>4, <3>2
  <2>4. CASE (\E j \in Asked : GetJob(j)) \/ Return
             \/ (\E j \in Asked, now \in Times : Counts(j, now))
             \/ \E limit \in Limits : ListFailed(limit)
    BY <1>4, <2>4 DEF GetJob, Counts, ListFailed, Return, Begin, Idle
  <2>5. QED
    BY <1>5, <2>1, <2>2, <2>3, <2>4 DEF CallStep
<1>6. QED
  BY <1>1, <1>2, <1>3, <1>5 DEF ClientNext, OthersStep, clientVars

LEMMA OwingStep ==
  ASSUME ClientInv, Owing, [ClientNext]_clientVars
  PROVE  Owing'
<1>1. CASE OthersStep
  BY <1>1, PromiseKept DEF OthersStep, Owing, ClientInv, ClientTypeOK
<1>2. CASE ItemEnqueued \/ ItemTimesOut
  <2>1. call \in BatchCalls /\ call.items \in Batches /\ call.next \in DOMAIN call.items
    BY <1>2, CallKinds DEF ClientInv, ClientTypeOK, ItemEnqueued, ItemTimesOut, Sending, BatchCalls
  <2>2. CASE UNCHANGED <<vars, owed>>
    BY <2>2 DEF Owing, vars, Promised, CurrentState, In
  <2>3. ASSUME NEW b \in Batches, NEW i \in DOMAIN b, NEW now \in Times, Enqueued(b[i], now),
               IF Status(b[i], now) = "invalid_state" THEN UNCHANGED owed ELSE Owes(b[i])
        PROVE  Owing'
    <3>1. \A k \in Jobs : Promised(k) => Promised(k)'
      BY <2>3, EnqueuedPromises DEF ClientInv
    <3>2. owed' = owed \/ (owed' \subseteq owed \cup {b[i].job_id} /\ Promised(b[i].job_id)')
      BY <2>3, EnqueuedPromises DEF ClientInv, Owes
    <3>3. QED
      BY <3>1, <3>2 DEF Owing, ClientInv, ClientTypeOK
  <2>4. PICK b \in Batches : b = call.items
    BY <2>1
  <2>5. PICK i \in DOMAIN b : i = call.next
    BY <2>1, <2>4
  <2>6. QED
    BY <1>2, <2>2, <2>3, <2>4, <2>5 DEF ItemEnqueued, ItemTimesOut
<1>3. CASE owed' \in {owed, {}} /\ UNCHANGED vars
  BY <1>3 DEF Owing, vars, Promised, CurrentState, In
<1>4. CASE CallStep /\ ~(ItemEnqueued \/ ItemTimesOut)
  <2>1. owed' \in {owed, {}} /\ UNCHANGED vars
    BY <1>4 DEF CallStep, GetJob, LookupSet, LookupFailures, LookupHolder, Counts, CountSet,
       ListFailed, ListRows, ListCounts, EnqueueBatch, ItemRemembered, Return, Begin, Reads
  <2>2. QED
    BY <1>3, <2>1
<1>5. QED
  BY <1>1, <1>2, <1>3, <1>4 DEF ClientNext, clientVars

\* A batch that answers Ok has applied every item, and the runs it was promised
\* are not forgotten until they start, the job fails or an operator cancels it.
THEOREM OkMeansRunHolds == ClientSpec => []OkMeansRun
<1>1. ClientInit => BatchProgress /\ Owing
  BY DEF ClientInit, BatchProgress, Owing, Idle
<1>2. ClientInv /\ BatchProgress /\ Owing /\ [ClientNext]_clientVars => BatchProgress' /\ Owing'
  BY BatchProgressStep, OwingStep
<1>3. BatchProgress /\ Owing => OkMeansRun
  BY DEF BatchProgress, Owing, Promised, OkMeansRun
<1>4. QED
  BY <1>1, <1>2, <1>3, ClientInvHolds, PTL DEF ClientSpec

-----------------------------------------------------------------------------

\* What the steps of everyone else tell a lookup or a count: `during` records
\* whether the job moved back or forward in the order of the reads.
LEMMA RecordedMoves ==
  ASSUME ClientInv, OthersStep
  PROVE  /\ ~during'.missable => ~during.missable /\ Rank <= Rank'
         /\ ~during'.repeatable => ~during.repeatable /\ Rank' <= Rank
         /\ Rank \in 0 .. 5 /\ Rank' \in 0 .. 5
<1>1. Rank \in 0 .. 5 /\ Rank' \in 0 .. 5
  BY DEF Rank, LookupRank, CountRank
<1>2. /\ ~during'.missable => ~during.missable /\ ~(Rank' < Rank)
      /\ ~during'.repeatable => ~during.repeatable /\ ~(Rank < Rank')
  BY DEF OthersStep, Recorded
<1>3. QED
  BY <1>1, <1>2

\* The place of a job in the order in which get_job reads is its state.
LEMMA LookupPlaces ==
  ASSUME ClientInv, call \in LookupCalls
  PROVE  /\ call.op = "get_job" /\ call.job_id \in Jobs
         /\ Rank = LookupRank(CurrentState(call.job_id)) /\ Rank \in 0 .. 4
         /\ \A i \in 1 .. 4 : call.job_id \in Members(LookupOrder[i], 0) <=> Rank = i
         /\ \A i \in 1 .. 4 : Rank = i => CurrentState(call.job_id) = LookupOrder[i]
         /\ Rank = 0 => CurrentState(call.job_id) = "none"
<1> DEFINE j == call.job_id
<1>1. call.op = "get_job" /\ j \in Jobs /\ JobInv(j)
  BY DEF LookupCalls, ClientInv, StoreInv, KeysInv
<1>2. Rank = LookupRank(CurrentState(j))
  BY <1>1 DEF Rank, Place
<1>3. /\ CurrentState(j) \in {"ready", "leased", "failed", "scheduled", "none"}
      /\ j \in Members("ready", 0) <=> CurrentState(j) = "ready"
      /\ j \in Members("leased", 0) <=> CurrentState(j) = "leased"
      /\ j \in Members("failed", 0) <=> CurrentState(j) = "failed"
      /\ j \in Members("scheduled", 0) <=> CurrentState(j) = "scheduled"
  BY <1>1, StateIsPlacement DEF Members, CurrentState
<1>4. QED
  BY <1>1, <1>2, <1>3, Orders DEF LookupRank

\* What a lookup knows after reading the first next - 1 keys.
LookupKnows ==
    call.op = "get_job" =>
        LET j == call.job_id
            exact == ~during.missable /\ ~during.repeatable IN
        /\ call.state = "none" /\ ~during.missable => Rank >= call.next
        /\ call.state = "leased" /\ ~during.ended => In(leased, j)
        /\ exact => /\ call.state = IF Rank < call.next THEN CurrentState(j) ELSE "none"
                    /\ call.next > 5 => call.failure_count = failures[j]
                    /\ call.next > 6 => call.leased_by = lease_meta[j]
        /\ call.next > 6 /\ call.state = "leased" /\ ~during.ended => call.leased_by # Nil

LEMMA LookupKnowsReads ==
  ASSUME ClientInv, LookupKnows, LookupSet \/ LookupFailures \/ LookupHolder
  PROVE  LookupKnows'
<1> DEFINE j == call.job_id
<1>1. call \in LookupCalls /\ call.op = "get_job" /\ j \in Jobs /\ call.next \in 1 .. 7
  BY CallKinds DEF ClientInv, ClientTypeOK, LookupSet, LookupFailures, AllSetsRead, LookupHolder, LookupCalls
<1>2. /\ call'.op = "get_job" /\ call'.job_id = j /\ call'.next = call.next + 1
      /\ UNCHANGED <<vars, during>>
  BY <1>1 DEF LookupSet, LookupFailures, LookupHolder, Reads, LookupCalls
<1>3. Rank' = Rank /\ CurrentState(j)' = CurrentState(j) /\ Rank \in 0 .. 5
      /\ In(leased, j)' = In(leased, j)
  BY <1>1, <1>2 DEF Rank, Place, CurrentState, In, vars, LookupRank
<1>4. CASE LookupSet
  <2>1. call.next \in 1 .. 4 /\ call'.failure_count = call.failure_count /\ call'.leased_by = call.leased_by
    BY <1>1, <1>4, Orders DEF LookupSet, Reads, LookupCalls
  <2>2. call'.state = IF call.state = "none" /\ Rank = call.next THEN CurrentState(j) ELSE call.state
    BY <1>1, <1>4, <2>1, LookupPlaces DEF LookupSet, Reads, LookupCalls
  <2>3. CurrentState(j) = "leased" => In(leased, j)
    BY DEF CurrentState
  <2>4. Rank = call.next => CurrentState(j) # "none"
    BY <1>1, <2>1, LookupPlaces, Orders
  <2>5. QED
    BY <1>1, <1>2, <1>3, <2>1, <2>2, <2>3, <2>4 DEF LookupKnows
<1>5. CASE LookupFailures
  <2>1. /\ call.next = 5 /\ call'.state = call.state /\ call'.leased_by = call.leased_by
        /\ call'.failure_count = failures[j]
    BY <1>1, <1>5, Orders DEF LookupFailures, AllSetsRead, Reads, LookupCalls
  <2>2. failures' = failures
    BY <1>2 DEF vars
  <2>3. QED
    BY <1>1, <1>2, <1>3, <2>1, <2>2, LookupPlaces DEF LookupKnows
<1>6. CASE LookupHolder
  <2>1. /\ call.next = 6 /\ call'.state = call.state /\ call'.failure_count = call.failure_count
        /\ call'.leased_by = IF call.state = "leased" THEN lease_meta[j] ELSE Nil
    BY <1>1, <1>6, Orders DEF LookupHolder, Reads, LookupCalls
  <2>2. failures' = failures /\ lease_meta' = lease_meta
    BY <1>2 DEF vars
  <2>3. /\ In(leased, j) <=> lease_meta[j] # Nil
        /\ In(leased, j) <=> CurrentState(j) = "leased"
    BY <1>1, StateIsPlacement DEF ClientInv, StoreInv, KeysInv, JobInv
  <2>4. QED
    BY <1>1, <1>2, <1>3, <2>1, <2>2, <2>3 DEF LookupKnows
<1>7. QED
  BY <1>4, <1>5, <1>6

LEMMA LookupKnowsOthers ==
  ASSUME ClientInv, LookupKnows, OthersStep
  PROVE  LookupKnows'
<1> SUFFICES ASSUME call.op = "get_job" PROVE LookupKnows'
  BY DEF LookupKnows, OthersStep
<1> DEFINE j == call.job_id
<1>1. call' = call /\ call \in LookupCalls /\ j \in Jobs /\ call.next \in 1 .. 7
  BY CallKinds DEF OthersStep, ClientInv, ClientTypeOK, LookupCalls
<1>2. ~during'.ended => ~during.ended /\ (In(leased, j) => In(leased, j)')
  BY DEF OthersStep, Recorded, EndsItsLease
<1>3. Rank' = Rank => CurrentState(j)' = CurrentState(j)
  <2>1. Rank = LookupRank(CurrentState(j)) /\ Rank' = LookupRank(CurrentState(j)')
    BY <1>1 DEF Rank, Place
  <2>2. /\ CurrentState(j) \in {"ready", "scheduled", "leased", "failed", "none"}
        /\ CurrentState(j)' \in {"ready", "scheduled", "leased", "failed", "none"}
    BY DEF CurrentState
  <2>3. QED
    BY <2>1, <2>2 DEF LookupRank
<1>4. CurrentState(j)' = CurrentState(j) => failures'[j] = failures[j] /\ lease_meta'[j] = lease_meta[j]
  BY <1>1, SameState DEF ClientInv, OthersStep
<1>5. QED
  BY <1>1, <1>2, <1>3, <1>4, RecordedMoves DEF LookupKnows

LEMMA LookupKnowsStep ==
  ASSUME ClientInv, LookupKnows, [ClientNext]_clientVars
  PROVE  LookupKnows'
<1>1. ASSUME NEW j \in Asked, GetJob(j) PROVE LookupKnows'
  <2>1. /\ call'.op = "get_job" /\ call'.job_id = j /\ call'.next = 1 /\ call'.state = "none"
        /\ during'.missable <=> CurrentState(j) = "none"
        /\ UNCHANGED vars
    BY <1>1 DEF GetJob, Begin, Quiet
  <2>2. Rank' = LookupRank(CurrentState(j)) /\ CurrentState(j)' = CurrentState(j)
    BY <2>1 DEF Rank, Place, CurrentState, In, vars
  <2>3. CurrentState(j) # "none" => Rank' \in 1 .. 4
    BY <2>2 DEF LookupRank, CurrentState
  <2>4. QED
    BY <2>1, <2>2, <2>3 DEF LookupKnows
<1>2. CASE UNCHANGED clientVars
  BY <1>2 DEF clientVars, vars, LookupKnows, Rank, Place, CurrentState, In
<1>3. CASE call'.op # "get_job"
  BY <1>3 DEF LookupKnows
<1>4. CASE CallStep /\ ~(\E j \in Asked : GetJob(j)) /\ ~(LookupSet \/ LookupFailures \/ LookupHolder)
  <2>1. CASE CountSet
    <3>1. call'.op = "counts"
      BY <2>1, CallKinds DEF ClientInv, ClientTypeOK, CountSet, Reads, CountCalls
    <3>2. QED
      BY <1>3, <3>1
  <2>2. CASE ListRows \/ ListCounts
    <3>1. call \in ListCalls
      BY <2>2, CallKinds DEF ClientInv, ClientTypeOK, ListRows, ListCounts
    <3>2. call'.op = "list_failed"
      BY <2>2, <3>1 DEF ListRows, ListCounts, Reads, ListCalls
    <3>3. QED
      BY <1>3, <3>2
  <2>3. CASE ItemEnqueued \/ ItemTimesOut \/ ItemRemembered
    <3>1. call \in BatchCalls
      BY <2>3, CallKinds DEF ClientInv, ClientTypeOK, ItemEnqueued, ItemTimesOut, ItemRemembered, Sending
    <3>2. call'.op = "enqueue_batch"
      BY <2>3, <3>1 DEF ItemEnqueued, ItemTimesOut, ItemRemembered, BatchCalls
    <3>3. QED
      BY <1>3, <3>2
  <2>4. CASE Return \/ (\E j \in Asked, now \in Times : Counts(j, now))
             \/ (\E limit \in Limits : ListFailed(limit)) \/ \E batch \in Batches : EnqueueBatch(batch)
    BY <1>3, <2>4 DEF Counts, ListFailed, EnqueueBatch, Return, Begin, Idle
  <2>5. QED
    BY <1>4, <2>1, <2>2, <2>3, <2>4 DEF CallStep
<1>5. QED
  BY <1>1, <1>2, <1>4, LookupKnowsReads, LookupKnowsOthers DEF ClientNext

\* get_job misses only a job that was absent or moved back during the call, and
\* the record of a job that made no move is exact.
THEOREM LookupMissesOnlyBackwardMovesHolds == ClientSpec => []LookupMissesOnlyBackwardMoves
<1>1. ClientInit => LookupKnows
  BY DEF ClientInit, LookupKnows, Idle
<1>2. ClientInv /\ LookupKnows => LookupMissesOnlyBackwardMoves
  <2> SUFFICES ASSUME ClientInv, LookupKnows, LookedUp PROVE LookupMissesOnlyBackwardMoves
    BY DEF LookupMissesOnlyBackwardMoves
  <2>1. call.op = "get_job" /\ call.next = 7 /\ Rank \in 0 .. 5
    BY Orders DEF LookedUp, Rank, LookupRank
  <2>2. call \in LookupCalls
    BY <2>1, CallKinds DEF ClientInv, ClientTypeOK
  <2>3. QED
    BY <2>1, <2>2 DEF LookupKnows, LookupMissesOnlyBackwardMoves
<1>3. QED
  BY <1>1, <1>2, ClientInvHolds, LookupKnowsStep, PTL DEF ClientSpec

-----------------------------------------------------------------------------

\* The place of a job in the order in which counts reads: in one of the five
\* sets, or in none.
LEMMA CountPlaces ==
  ASSUME ClientInv, call \in CountCalls
  PROVE  /\ call.op = "counts" /\ call.job_id \in Jobs
         /\ Rank \in 0 .. 5 /\ (Rank = 0 <=> CurrentState(call.job_id) = "none")
         /\ \A i \in 1 .. 5 : call.job_id \in Members(CountOrder[i], call.now) <=> Rank = i
<1> DEFINE j == call.job_id
<1>1. /\ call.op = "counts" /\ j \in Jobs /\ JobInv(j) /\ call.now \in Nat
      /\ In(scheduled, j) => scheduled[j] \in Nat
  BY TimesAssumption DEF CountCalls, ClientInv, StoreInv, KeysInv, TypeOK, Placement, Scores, In
<1>2. Rank = CountRank(Place(j))
  BY <1>1 DEF Rank
<1>3. /\ Place(j) \in {"ready", "due", "future", "leased", "failed", "none"}
      /\ CurrentState(j) = "none" <=> Place(j) = "none"
      /\ j \in Members("ready", call.now) <=> Place(j) = "ready"
      /\ j \in Members("due", call.now) <=> Place(j) = "due"
      /\ j \in Members("future", call.now) <=> Place(j) = "future"
      /\ j \in Members("leased", call.now) <=> Place(j) = "leased"
      /\ j \in Members("failed", call.now) <=> Place(j) = "failed"
  <2>1. CASE CurrentState(j) = "scheduled"
    <3>1. In(scheduled, j) /\ ~In(ready, j) /\ ~In(leased, j) /\ ~In(failed, j)
      BY <1>1, <2>1, StateIsPlacement
    <3>2. Place(j) = IF scheduled[j] <= call.now THEN "due" ELSE "future"
      BY <1>1, <2>1 DEF Place
    <3>3. QED
      BY <1>1, <2>1, <3>1, <3>2 DEF Members, ScheduledAfter
  <2>2. CASE CurrentState(j) # "scheduled"
    <3>1. Place(j) = CurrentState(j) /\ ~In(scheduled, j)
      BY <1>1, <2>2, StateIsPlacement DEF Place
    <3>2. QED
      BY <1>1, <2>2, <3>1, StateIsPlacement DEF Members, ScheduledAfter, CurrentState
  <2>3. QED
    BY <2>1, <2>2
<1>4. QED
  BY <1>1, <1>2, <1>3, Orders DEF CountRank

\* What a count knows of one job after reading the first next - 1 sets.
CountKnows ==
    call.op = "counts" =>
        /\ call.times = 0 /\ ~during.missable => Rank >= call.next
        /\ ~during.repeatable => call.times = 0 \/ (call.times = 1 /\ Rank < call.next)

LEMMA CountKnowsReads ==
  ASSUME ClientInv, CountKnows, CountSet
  PROVE  CountKnows'
<1>1. /\ call \in CountCalls /\ call.op = "counts" /\ call.job_id \in Jobs
      /\ call.next \in 1 .. 5 /\ call.times \in Nat
  BY CallKinds, Orders DEF ClientInv, ClientTypeOK, CountSet, CountCalls
<1>2. /\ call'.op = "counts" /\ call'.job_id = call.job_id /\ call'.now = call.now
      /\ call'.next = call.next + 1 /\ UNCHANGED <<vars, during>>
      /\ call'.times = IF call.job_id \in Members(CountOrder[call.next], call.now)
                       THEN call.times + 1 ELSE call.times
  BY <1>1 DEF CountSet, Reads, CountCalls
<1>3. Rank' = Rank
  BY <1>1, <1>2 DEF Rank, Place, CurrentState, In, vars
<1>4. call'.times = IF Rank = call.next THEN call.times + 1 ELSE call.times
  BY <1>1, <1>2, CountPlaces
<1>5. Rank \in 0 .. 5
  BY <1>1, CountPlaces
<1>6. QED
  BY <1>1, <1>2, <1>3, <1>4, <1>5 DEF CountKnows

LEMMA CountKnowsStep ==
  ASSUME ClientInv, CountKnows, [ClientNext]_clientVars
  PROVE  CountKnows'
<1>1. ASSUME NEW j \in Asked, NEW now \in Times, Counts(j, now) PROVE CountKnows'
  <2>1. /\ call'.op = "counts" /\ call'.job_id = j /\ call'.now = now /\ call'.next = 1
        /\ call'.times = 0
        /\ during'.missable <=> CurrentState(j) = "none"
        /\ UNCHANGED vars
    BY <1>1 DEF Counts, Begin, Quiet
  <2>2. CurrentState(j)' = CurrentState(j) /\ Rank' = CountRank(Place(j)')
    BY <2>1 DEF Rank, CurrentState, In, vars
  <2>3. /\ CurrentState(j) \in {"ready", "scheduled", "leased", "failed", "none"}
        /\ Place(j)' \in IF CurrentState(j) = "scheduled" THEN {"due", "future"} ELSE {CurrentState(j)}
    BY <2>1, <2>2 DEF Place, CurrentState
  <2>4. CurrentState(j) # "none" => Rank' \in 1 .. 5
    BY <2>2, <2>3 DEF CountRank
  <2>5. QED
    BY <2>1, <2>4 DEF CountKnows
<1>2. CASE UNCHANGED clientVars
  BY <1>2 DEF clientVars, vars, CountKnows, Rank, Place, CurrentState, In
<1>3. CASE call'.op # "counts"
  BY <1>3 DEF CountKnows
<1>4. CASE OthersStep
  <2> SUFFICES ASSUME call.op = "counts" PROVE CountKnows'
    BY <1>4 DEF CountKnows, OthersStep
  <2>1. call' = call /\ call.next \in 1 .. 6 /\ call.times \in Nat
    BY <1>4, CallKinds DEF OthersStep, ClientInv, ClientTypeOK, CountCalls
  <2>2. QED
    BY <1>4, <2>1, RecordedMoves DEF CountKnows
<1>5. CASE CallStep /\ ~(\E j \in Asked, now \in Times : Counts(j, now)) /\ ~CountSet
  <2>1. CASE LookupSet \/ LookupFailures \/ LookupHolder
    <3>1. call \in LookupCalls
      BY <2>1, CallKinds
         DEF ClientInv, ClientTypeOK, LookupSet, LookupFailures, AllSetsRead, LookupHolder
    <3>2. call'.op = "get_job"
      BY <2>1, <3>1 DEF LookupSet, LookupFailures, LookupHolder, Reads, LookupCalls
    <3>3. QED
      BY <1>3, <3>2
  <2>2. CASE ListRows \/ ListCounts
    <3>1. call \in ListCalls
      BY <2>2, CallKinds DEF ClientInv, ClientTypeOK, ListRows, ListCounts
    <3>2. call'.op = "list_failed"
      BY <2>2, <3>1 DEF ListRows, ListCounts, Reads, ListCalls
    <3>3. QED
      BY <1>3, <3>2
  <2>3. CASE ItemEnqueued \/ ItemTimesOut \/ ItemRemembered
    <3>1. call \in BatchCalls
      BY <2>3, CallKinds DEF ClientInv, ClientTypeOK, ItemEnqueued, ItemTimesOut, ItemRemembered, Sending
    <3>2. call'.op = "enqueue_batch"
      BY <2>3, <3>1 DEF ItemEnqueued, ItemTimesOut, ItemRemembered, BatchCalls
    <3>3. QED
      BY <1>3, <3>2
  <2>4. CASE Return \/ (\E j \in Asked : GetJob(j))
             \/ (\E limit \in Limits : ListFailed(limit)) \/ \E batch \in Batches : EnqueueBatch(batch)
    BY <1>3, <2>4 DEF GetJob, ListFailed, EnqueueBatch, Return, Begin, Idle
  <2>5. QED
    BY <1>5, <2>1, <2>2, <2>3, <2>4 DEF CallStep
<1>6. QED
  BY <1>1, <1>2, <1>4, <1>5, CountKnowsReads DEF ClientNext

\* counts leaves out only a job that was absent or moved back during the call,
\* and counts twice only one that moved forward.
THEOREM CountsCoverTheQueueHolds == ClientSpec => []CountsCoverTheQueue
<1>1. ClientInit => CountKnows
  BY DEF ClientInit, CountKnows, Idle
<1>2. ClientInv /\ CountKnows => CountsCoverTheQueue
  <2> SUFFICES ASSUME ClientInv, CountKnows, Counted PROVE CountsCoverTheQueue
    BY DEF CountsCoverTheQueue
  <2>1. call \in CountCalls /\ call.op = "counts"
    BY CallKinds DEF Counted, ClientInv, ClientTypeOK
  <2>2. call.next = 6 /\ Rank \in 0 .. 5 /\ call.times \in Nat
    BY <2>1, Orders, CountPlaces DEF Counted, CountCalls
  <2>3. QED
    BY <2>1, <2>2 DEF CountKnows, CountsCoverTheQueue
<1>3. QED
  BY <1>1, <1>2, ClientInvHolds, CountKnowsStep, PTL DEF ClientSpec

-----------------------------------------------------------------------------

\* What an enqueue answers is what it did to the job.
LEMMA StatusTells ==
  ASSUME StoreInv, NEW b \in Batches, NEW i \in DOMAIN b, NEW now \in Times,
         Enqueued(b[i], now), Status(b[i], now) # "invalid_state"
  PROVE  /\ Status(b[i], now) = "created" <=> CurrentState(b[i].job_id) = "none"
         /\ Status(b[i], now) = "unchanged" <=> UNCHANGED vars
<1> DEFINE r == b[i]
           j == r.job_id
<1>1. j \in Jobs /\ now \in Nat /\ TypeOK /\ JobInv(j)
  BY RequestOK, TimesAssumption DEF StoreInv, KeysInv
<1>2. Status(r, now) = "created" <=> CurrentState(j) = "none"
  BY DEF Status, ImmediateStatus, ScheduledStatus
<1>3. ASSUME CurrentState(j)' # CurrentState(j) PROVE ~UNCHANGED vars
  BY <1>3 DEF vars, CurrentState, In
<1>4. CASE r.allow_existing_current_run
  <2>1. CASE CurrentState(j) = "ready"
    <3>1. UNCHANGED vars /\ Status(r, now) = "unchanged"
      BY <1>4, <2>1 DEF Enqueued, EnqueueImmediate, Status, ImmediateStatus
    <3>2. QED
      BY <1>2, <3>1
  <2>2. CASE CurrentState(j) = "leased"
    <3>1. EnqueueImmediate(j, now)
      BY <1>1, <1>4, <2>2, StateIsPlacement DEF Enqueued
    <3>2. rerun' = rerun \cup {j} /\ UNCHANGED <<placement, leases, failures, registry>>
      BY <2>2, <3>1 DEF EnqueueImmediate
    <3>3. UNCHANGED vars <=> j \in rerun
      BY <3>2 DEF vars, placement, leases, registry
    <3>4. Status(r, now) = "unchanged" <=> j \in rerun
      BY <1>4, <2>2 DEF Status, ImmediateStatus
    <3>5. QED
      BY <1>2, <3>3, <3>4
  <2>3. CASE CurrentState(j) \in {"none", "scheduled", "failed"}
    <3>1. EnqueueImmediate(j, now)
      BY <1>1, <1>4, <2>3, StateIsPlacement DEF Enqueued
    <3>2. Move(j, CurrentState(j), "ready", now)
      BY <2>3, <3>1 DEF EnqueueImmediate
    <3>3. CurrentState(j)' = "ready"
      BY <1>1, <3>2, MovedTo
    <3>4. Status(r, now) # "unchanged"
      BY <1>4, <2>3 DEF Status, ImmediateStatus
    <3>5. QED
      BY <1>2, <1>3, <2>3, <3>3, <3>4
  <2>4. QED
    BY <2>1, <2>2, <2>3 DEF CurrentState
<1>5. CASE ~r.allow_existing_current_run
  <2> DEFINE target == Target(r.schedule_at, now)
  <2>1. /\ r.schedule_at \in Times /\ target.state \in {"ready", "scheduled"} /\ target.score \in Nat
    BY <1>1, <1>5, RequestOK, TimesAssumption DEF Target
  <2>2. CASE Status(r, now) = "unchanged"
    <3>1. ~EnqueueScheduled(j, r.schedule_at, r.replace_mode, now)
      BY <1>5, <2>2 DEF Status, ScheduledStatus, EnqueueScheduled, Matches, CurrentState
    <3>2. UNCHANGED vars
      BY <1>5, <3>1 DEF Enqueued
    <3>3. QED
      BY <1>2, <2>2, <3>2
  <2>3. CASE Status(r, now) # "unchanged"
    <3>1. EnqueueScheduled(j, r.schedule_at, r.replace_mode, now)
      BY <1>5, <2>3 DEF Enqueued
    <3>2. /\ Move(j, CurrentState(j), target.state, target.score)
          /\ CurrentState(j) \in {"ready", "scheduled"} =>
                <<CurrentState(j), ActivationScore(j)>> # <<target.state, target.score>>
      BY <3>1 DEF EnqueueScheduled
    <3>3. CurrentState(j)' = target.state
      BY <1>1, <2>1, <3>2, MovedTo
    <3>4. target.state = "ready" => ready'[j] = target.score
      BY <1>1, <3>2 DEF Move, Moved, ZAdd, TypeOK, Placement
    <3>5. target.state = "scheduled" => scheduled'[j] = target.score
      BY <1>1, <3>2 DEF Move, Moved, ZAdd, TypeOK, Placement
    <3>6. ASSUME UNCHANGED vars PROVE FALSE
      <4>1. CurrentState(j) = target.state
        BY <1>3, <3>3, <3>6
      <4>2. ActivationScore(j) = target.score
        BY <1>1, <2>1, <3>4, <3>5, <3>6, <4>1, StateIsPlacement DEF ActivationScore, vars
      <4>3. QED
        BY <2>1, <3>2, <4>1, <4>2
    <3>7. QED
      BY <1>2, <2>3, <3>6
  <2>4. QED
    BY <2>2, <2>3
<1>6. QED
  BY <1>4, <1>5

\* The status an enqueue answers is what it did, and the job has a run ahead.
THEOREM StatusIsWhatHappenedHolds == ClientSpec => StatusIsWhatHappened
<1>1. ASSUME ClientInv, [ClientNext]_clientVars,
             call.op = "enqueue_batch", call'.op = "enqueue_batch",
             call.status = "none", call'.status # "none"
      PROVE  LET j == call.items[call.next].job_id IN
             /\ call'.status = "created" <=> CurrentState(j) = "none"
             /\ call'.status = "unchanged" <=> UNCHANGED vars
             /\ CurrentState(j)' \in {"ready", "scheduled"} \/ j \in rerun'
  <2>1. call \in BatchCalls /\ call # Idle
    BY <1>1, CallKinds DEF ClientInv, ClientTypeOK, Idle
  <2>2. ItemEnqueued
    <3>1. ~OthersStep /\ ~UNCHANGED clientVars
      BY <1>1 DEF OthersStep, clientVars
    <3>2. ~ItemTimesOut /\ ~ItemRemembered
      BY <1>1, <2>1 DEF ItemTimesOut, ItemRemembered, BatchCalls
    <3>3. QED
      BY <1>1, <2>1, <3>1, <3>2 DEF ClientNext, CallStep, GetJob, LookupSet, LookupFailures,
         LookupHolder, AllSetsRead, Counts, CountSet, ListFailed, ListRows, ListCounts,
         EnqueueBatch, Return, Begin, Idle
  <2>3. /\ call.items \in Batches /\ call.next \in DOMAIN call.items
    BY <2>1, <2>2 DEF ItemEnqueued, Sending, BatchCalls
  <2>4. PICK now \in Times :
           /\ Enqueued(call.items[call.next], now)
           /\ IF Status(call.items[call.next], now) = "invalid_state"
              THEN call' = [call EXCEPT !.result = "error"]
              ELSE call' = [call EXCEPT !.status = Status(call.items[call.next], now),
                                        !.applied = @ \cup {call.next}]
    BY <2>2 DEF ItemEnqueued
  <2>5. Status(call.items[call.next], now) # "invalid_state"
        /\ call'.status = Status(call.items[call.next], now)
        /\ call'.items = call.items /\ call'.next = call.next
    BY <1>1, <2>1, <2>4 DEF BatchCalls
  <2>6. PICK b \in Batches : b = call.items
    BY <2>3
  <2>7. PICK i \in DOMAIN b : i = call.next
    BY <2>3, <2>6
  <2>8. /\ Status(b[i], now) = "created" <=> CurrentState(b[i].job_id) = "none"
        /\ Status(b[i], now) = "unchanged" <=> UNCHANGED vars
        /\ Promised(b[i].job_id)'
    BY <1>1, <2>4, <2>5, <2>6, <2>7, StatusTells, EnqueuedPromises DEF ClientInv
  <2>9. CurrentState(b[i].job_id)' \in {"ready", "scheduled"} \/ b[i].job_id \in rerun'
    BY <2>8 DEF Promised
  <2>10. QED
    BY <2>5, <2>6, <2>7, <2>8, <2>9
<1>2. QED
  BY <1>1, ClientInvHolds, PTL DEF ClientSpec, StatusIsWhatHappened

-----------------------------------------------------------------------------
\* list_failed.  Everything turns on the rank of a job among the failed ones.  No
\* script changes the score of a job that stays failed (FailedScores), so ranks
\* only grow while nobody leaves, only shrink while nobody enters, and no rank
\* below the number of failed jobs is skipped (NoGap).  A job that has been failed
\* all the while is then never behind the cursor unlisted, and one that was listed
\* is never before it.

FailedJobs == Members("failed", 0)
Ahead(j) == {k \in FailedJobs : FailedBefore(k, j)}

\* The set and the scores its order is made of.
LEMMA FailedTypes ==
  ASSUME StoreInv
  PROVE  /\ FailedJobs = {j \in Jobs : In(failed, j)}
         /\ FailedJobs \subseteq Nat /\ IsFiniteSet(FailedJobs)
         /\ \A j \in FailedJobs : failed[j] \in Nat
<1>1. FailedJobs = {j \in Jobs : In(failed, j)}
  BY DEF FailedJobs, Members
<1>2. FailedJobs \subseteq Jobs
  BY <1>1
<1>3. \A j \in FailedJobs : failed[j] \in Nat
  BY <1>1 DEF StoreInv, KeysInv, TypeOK, Placement, Scores, In
<1>4. QED
  BY <1>1, <1>2, <1>3, JobsAssumption, FS_Subset

\* Ranks are natural numbers, and a rank is below the number of failed jobs.
LEMMA RankType ==
  ASSUME StoreInv, NEW j \in FailedJobs
  PROVE  /\ IsFiniteSet(Ahead(j)) /\ RankInFailed(j) = Cardinality(Ahead(j))
         /\ RankInFailed(j) \in Nat
         /\ RankInFailed(j) < Cardinality(FailedJobs) /\ Cardinality(FailedJobs) \in Nat
<1>1. IsFiniteSet(FailedJobs) /\ Ahead(j) \subseteq FailedJobs /\ j \in Nat /\ failed[j] \in Nat
  BY FailedTypes DEF Ahead
<1>2. j \notin Ahead(j)
  BY <1>1 DEF Ahead, FailedBefore
<1>3. RankInFailed(j) = Cardinality(Ahead(j))
  BY DEF RankInFailed, Ahead, FailedJobs
<1>4. /\ IsFiniteSet(Ahead(j))
      /\ Cardinality(Ahead(j)) <= Cardinality(FailedJobs)
      /\ Cardinality(Ahead(j)) = Cardinality(FailedJobs) => Ahead(j) = FailedJobs
  BY <1>1, FS_Subset
<1>5. Cardinality(Ahead(j)) \in Nat /\ Cardinality(FailedJobs) \in Nat
  BY <1>1, <1>4, FS_CardinalityType
<1>6. QED
  BY <1>2, <1>3, <1>4, <1>5

RanksAreNumbers ==
    \A j \in FailedJobs : /\ IsFiniteSet(Ahead(j)) /\ RankInFailed(j) = Cardinality(Ahead(j))
                          /\ RankInFailed(j) \in Nat

LEMMA RankTypes == StoreInv => RanksAreNumbers
BY RankType DEF RanksAreNumbers

\* Who is ahead has a lower rank.
LEMMA AheadIsLower ==
  ASSUME StoreInv, NEW j \in FailedJobs, NEW k \in Ahead(j)
  PROVE  k \in FailedJobs /\ Ahead(k) \subseteq Ahead(j) /\ RankInFailed(k) < RankInFailed(j)
<1>1. k \in FailedJobs /\ k \in Nat /\ j \in Nat /\ failed[j] \in Nat /\ failed[k] \in Nat
  BY FailedTypes DEF Ahead
<1>2. \A i \in FailedJobs : i \in Nat /\ failed[i] \in Nat
  BY FailedTypes
<1>3. ASSUME NEW i \in Ahead(k) PROVE i \in Ahead(j)
  <2>1. i \in FailedJobs /\ FailedBefore(i, k) /\ FailedBefore(k, j)
    BY <1>3 DEF Ahead
  <2>2. FailedBefore(i, j)
    BY <1>1, <1>2, <2>1 DEF FailedBefore
  <2>3. QED
    BY <2>1, <2>2 DEF Ahead
<1>4. k \notin Ahead(k)
  BY <1>1 DEF Ahead, FailedBefore
<1>5. /\ IsFiniteSet(Ahead(j)) /\ RankInFailed(j) = Cardinality(Ahead(j))
      /\ RankInFailed(k) = Cardinality(Ahead(k))
      /\ RankInFailed(j) \in Nat /\ RankInFailed(k) \in Nat
  BY <1>1, RankType
<1>6. /\ Cardinality(Ahead(k)) <= Cardinality(Ahead(j))
      /\ Cardinality(Ahead(k)) = Cardinality(Ahead(j)) => Ahead(k) = Ahead(j)
  BY <1>3, <1>5, FS_Subset
<1>7. Ahead(k) \subseteq Ahead(j)
  BY <1>3
<1>8. Cardinality(Ahead(k)) # Cardinality(Ahead(j))
  BY <1>4, <1>6, <1>7
<1>9. QED
  BY <1>1, <1>5, <1>6, <1>7, <1>8

\* At most n failed jobs have a rank below n.
LEMMA LowRanks ==
  ASSUME StoreInv, NEW n \in Nat
  PROVE  LET low == {j \in FailedJobs : RankInFailed(j) < n} IN
         IsFiniteSet(low) /\ Cardinality(low) <= n
<1> DEFINE before == [j \in FailedJobs |-> Ahead(j)]
           low == {j \in FailedJobs : RankInFailed(j) < n}
<1>1. IsFiniteSet(FailedJobs) /\ \A j \in FailedJobs : j \in Nat /\ failed[j] \in Nat
  BY FailedTypes
<1>2. before \in [FailedJobs -> SUBSET FailedJobs]
  BY DEF Ahead
<1>3. \A j \in FailedJobs : j \notin before[j]
  BY <1>1 DEF Ahead, FailedBefore
<1>4. ASSUME NEW a \in FailedJobs, NEW b \in FailedJobs, a # b
      PROVE  \/ a \in before[b] /\ before[a] \subseteq before[b]
             \/ b \in before[a] /\ before[b] \subseteq before[a]
  <2>1. a \in Ahead(b) \/ b \in Ahead(a)
    BY <1>1, <1>4 DEF Ahead, FailedBefore
  <2>2. QED
    BY <2>1, AheadIsLower
<1>5. \A j \in FailedJobs : RankInFailed(j) = Cardinality(before[j])
  BY RankType
<1>6. low = {j \in FailedJobs : Cardinality(before[j]) < n}
  BY <1>5
<1> HIDE DEF before
<1>7. Cardinality({j \in FailedJobs : Cardinality(before[j]) < n}) <= n
  BY <1>1, <1>2, <1>3, <1>4, RankBound
<1>8. QED
  BY <1>1, <1>6, <1>7, FS_Subset

\* A set of numbers that is not empty has a least one.
LEMMA LeastNumber ==
  ASSUME NEW S, S \subseteq Nat, S # {}
  PROVE  \E m \in S : \A k \in S : m <= k
<1>1. PICK m \in S : \A k \in S : ~(<<k, m>> \in OpToRel(<, Nat))
  BY WFMin, NatLessThanWellFounded, Zenon
<1>2. \A k \in S : ~(k < m)
  BY <1>1, Zenon DEF OpToRel
<1>3. QED
  BY <1>2

\* A page is empty only beyond the last rank.
LEMMA NoGap ==
  ASSUME StoreInv, NEW offset \in Nat, NEW limit \in Nat \ {0},
         NEW j \in FailedJobs, RankInFailed(j) >= offset
  PROVE  Page(offset, limit) # {}
<1> DEFINE S == {RankInFailed(k) : k \in {i \in FailedJobs : RankInFailed(i) >= offset}}
           low == {i \in FailedJobs : RankInFailed(i) < offset}
<1>1. \A k \in FailedJobs : RankInFailed(k) \in Nat
  BY RankType
<1>2. S \subseteq Nat /\ S # {}
  BY <1>1
<1>3. PICK m \in S : \A r \in S : m <= r
  BY <1>2, LeastNumber
<1>4. PICK k \in FailedJobs : RankInFailed(k) = m /\ m >= offset
  BY <1>3
<1>5. Ahead(k) \subseteq low
  <2> SUFFICES ASSUME NEW i \in Ahead(k) PROVE i \in low
    OBVIOUS
  <2>1. i \in FailedJobs /\ RankInFailed(i) < m /\ RankInFailed(i) \in Nat /\ m \in Nat
    BY <1>1, <1>4, AheadIsLower
  <2>2. RankInFailed(i) \notin S
    BY <1>3, <2>1
  <2>3. QED
    BY <2>1, <2>2
<1>6. IsFiniteSet(low) /\ Cardinality(low) <= offset /\ Cardinality(low) \in Nat
  BY LowRanks, FS_CardinalityType
<1> HIDE DEF low, S
<1>7. Cardinality(Ahead(k)) <= Cardinality(low)
  BY <1>5, <1>6, FS_Subset
<1>8. RankInFailed(k) = offset
  BY <1>1, <1>4, <1>6, <1>7, RankType
<1>9. k \in Page(offset, limit)
  BY <1>4, <1>8 DEF Page, FailedJobs
<1>10. QED
  BY <1>9

-----------------------------------------------------------------------------

\* No script changes the score of a job that stays failed.
LEMMA FailedScores ==
  ASSUME StoreInv, [Next]_vars, NEW j \in Jobs, In(failed, j), In(failed, j)'
  PROVE  failed'[j] = failed[j]
<1>1. TypeOK /\ failed \in Placement
  BY DEF StoreInv, KeysInv, TypeOK
<1>2. ASSUME NEW k \in Jobs, NEW from, NEW to, NEW score, Move(k, from, to, score),
             to = "failed" => ~In(failed, k)
      PROVE  failed'[j] = failed[j]
  <2>1. failed' = Moved(failed, "failed", k, from, to, score)
    BY <1>2 DEF Move
  <2>2. CASE to = "failed"
    BY <1>1, <1>2, <2>1, <2>2 DEF Moved, ZAdd, Placement
  <2>3. CASE to # "failed"
    BY <1>1, <2>1, <2>3 DEF Moved, ZRem, Placement, In
  <2>4. QED
    BY <2>2, <2>3
<1>3. CASE UNCHANGED failed
  BY <1>3
<1>4. \A k \in Jobs : In(leased, k) => ~In(failed, k)
  BY DEF StoreInv, KeysInv, JobInv
<1>5. ASSUME NEW now \in Times, NEW k \in Jobs, ClientStep(k, now) PROVE failed'[j] = failed[j]
  <2>1. \A at \in Times \cup {0} : Target(at, now).state \in {"ready", "scheduled"}
    BY DEF Target
  <2>2. \/ UNCHANGED failed
        \/ \E from, score : \E to \in {"ready", "scheduled"} : Move(k, from, to, score)
    BY <1>5, <2>1 DEF ClientStep, EnqueueImmediate, EnqueueScheduled, Reschedule, placement
  <2>3. QED
    BY <1>2, <2>2
<1>6. ASSUME NEW now \in Times, NEW k \in Jobs, NEW w \in Workers, NEW t \in Tokens,
             HolderStep(k, w, t, now)
      PROVE  failed'[j] = failed[j]
  <2>1. \A at : Target(at, now).state \in {"ready", "scheduled"}
    BY DEF Target
  <2>2. ~In(failed, k)
    BY <1>4, <1>6 DEF HolderStep, Heartbeat, Ack, CompleteAndReschedule, FailOrRetry, Holds
  <2>3. UNCHANGED failed \/ \E from, to, score : Move(k, from, to, score)
    BY <1>6, <2>1
       DEF HolderStep, Heartbeat, Ack, CompleteAndReschedule, FailOrRetry, RequeueIfRerun, placement
  <2>4. QED
    BY <1>2, <2>2, <2>3
<1>7. ASSUME NEW now \in Times, NEW k \in Jobs, OperatorStep(k, now) PROVE failed'[j] = failed[j]
  <2>1. \/ UNCHANGED failed
        \/ \E from, to, score : Move(k, from, to, score) /\ to # "failed"
        \/ ForceFail(k, now)
    BY <1>7 DEF OperatorStep, Cancel, Requeue, ForceRetry, ForceAck, RequeueIfRerun, placement
  <2>2. CASE ForceFail(k, now)
    <3>1. JobInv(k) /\ CurrentState(k) = "leased" /\ Move(k, "leased", "failed", now)
      BY <2>2 DEF ForceFail, StoreInv, KeysInv
    <3>2. ~In(failed, k)
      BY <3>1, StateIsPlacement
    <3>3. QED
      BY <1>2, <3>1, <3>2
  <2>3. QED
    BY <1>2, <2>1, <2>2
<1>8. CASE \E now \in Times : \/ \E w \in Workers, capacity \in Capacities : Reserve(w, now, capacity)
                              \/ \E limit \in ReapLimits : ReapExpired(now, limit)
  BY <1>8 DEF Reserve, ReapExpired
<1>9. QED
  BY <1>5, <1>6, <1>7, <1>8 DEF Next, vars

\* Ranks only grow while nobody leaves, and only shrink while nobody enters.
LEMMA RanksMove ==
  ASSUME StoreInv, [Next]_vars
  PROVE  /\ FailedJobs \subseteq FailedJobs' =>
               \A j \in FailedJobs : RankInFailed(j)' >= RankInFailed(j)
         /\ FailedJobs' \subseteq FailedJobs =>
               \A j \in FailedJobs' : RankInFailed(j)' <= RankInFailed(j)
<1>1. StoreInv' /\ FailedJobs = {j \in Jobs : In(failed, j)}
      /\ FailedJobs' = {j \in Jobs : In(failed, j)'}
  BY NextStoreInv, FailedTypes DEF FailedJobs, Members
<1>2. \A j \in FailedJobs \cap FailedJobs' : failed'[j] = failed[j]
  BY <1>1, FailedScores
<1>3. RanksAreNumbers /\ (StoreInv' => RanksAreNumbers')
  BY RankTypes, PTL
<1>4. RanksAreNumbers'
  BY <1>1, <1>3
<1>5. ASSUME FailedJobs \subseteq FailedJobs', NEW j \in FailedJobs
      PROVE  RankInFailed(j)' >= RankInFailed(j)
  <2>1. Ahead(j) \subseteq Ahead(j)'
    BY <1>2, <1>5 DEF Ahead, FailedBefore
  <2>2. QED
    BY <1>3, <1>4, <1>5, <2>1, FS_Subset DEF RanksAreNumbers
<1>6. ASSUME FailedJobs' \subseteq FailedJobs, NEW j \in FailedJobs'
      PROVE  RankInFailed(j)' <= RankInFailed(j)
  <2>1. Ahead(j)' \subseteq Ahead(j)
    BY <1>2, <1>6 DEF Ahead, FailedBefore
  <2>2. QED
    BY <1>3, <1>4, <1>6, <2>1, FS_Subset DEF RanksAreNumbers
<1>7. QED
  BY <1>5, <1>6

-----------------------------------------------------------------------------

Unlisted == call.start \ call.listed

\* While nobody has left, a job that was failed when the listing began is still
\* failed, and it is listed, on the page just read, or not yet behind the cursor.
NothingSkipped ==
    during.left = {} =>
        /\ Unlisted \subseteq FailedJobs
        /\ call.at = "range" => \A j \in Unlisted : RankInFailed(j) >= call.offset
        /\ call.at = "counts" =>
              \A j \in Unlisted :
                 \/ j \in call.rows
                 \/ call.more /\ RankInFailed(j) >= call.offset + call.limit
        /\ call.at = "end" => Unlisted = {}

\* While nobody has entered, what is listed is behind the cursor.
NothingRepeated ==
    during.entered = {} =>
        /\ call.twice = {}
        /\ call.at # "end" => \A j \in call.listed \cap FailedJobs : RankInFailed(j) < call.offset
        /\ call.at = "counts" =>
              /\ call.rows \cap call.listed = {}
              /\ \A j \in call.rows \cap FailedJobs :
                    RankInFailed(j) < call.offset + call.limit

\* A row is a failed job, or was one during the call.
RowsWereFailed == call.rows \subseteq FailedJobs \cup during.left /\ call.uncounted \subseteq during.left

ListingKnows ==
    call.op = "list_failed" /\ call.limit > 0 =>
        NothingSkipped /\ NothingRepeated /\ RowsWereFailed

ListingInv == ClientInv /\ (\A j \in Jobs : JobBudget(j)) /\ ListingKnows

\* A step of the others.
LEMMA ListingBesideOthers ==
  ASSUME ClientInv, ListingKnows, OthersStep, call.op = "list_failed", call.limit > 0
  PROVE  NothingSkipped' /\ NothingRepeated' /\ RowsWereFailed'
<1>1. /\ StoreInv /\ [Next]_vars /\ call' = call /\ call \in ListCalls /\ during \in DuringType
      /\ NothingSkipped /\ NothingRepeated /\ RowsWereFailed
  BY CallKinds DEF ListingKnows, OthersStep, ClientInv, ClientTypeOK
<1>2. FailedJobs = {j \in Jobs : In(failed, j)} /\ FailedJobs' = {j \in Jobs : In(failed, j)'}
  BY <1>1, FailedTypes DEF FailedJobs, Members
<1>3. /\ during'.left = during.left \cup (FailedJobs \ FailedJobs')
      /\ during'.entered = during.entered \cup (FailedJobs' \ FailedJobs)
  BY <1>2 DEF OthersStep, Recorded
<1>4. /\ FailedJobs \subseteq FailedJobs' => \A j \in FailedJobs : RankInFailed(j)' >= RankInFailed(j)
      /\ FailedJobs' \subseteq FailedJobs => \A j \in FailedJobs' : RankInFailed(j)' <= RankInFailed(j)
  BY <1>1, RanksMove
<1>5. /\ RanksAreNumbers /\ RanksAreNumbers' /\ call.offset \in Nat /\ call.limit \in Nat
  <2>1. StoreInv'
    BY <1>1, NextStoreInv
  <2>2. RanksAreNumbers /\ (StoreInv' => RanksAreNumbers')
    BY <1>1, RankTypes, PTL
  <2>3. QED
    BY <1>1, <2>1, <2>2, ClientAssumption DEF ListCalls
<1>6. NothingSkipped'
  <2> SUFFICES ASSUME during'.left = {} PROVE NothingSkipped'
    BY DEF NothingSkipped
  <2>1. during.left = {} /\ FailedJobs \subseteq FailedJobs' /\ Unlisted' = Unlisted
    BY <1>1, <1>3 DEF Unlisted
  <2>2. \A j \in FailedJobs : /\ RankInFailed(j)' >= RankInFailed(j)
                              /\ RankInFailed(j)' \in Nat /\ RankInFailed(j) \in Nat
    BY <1>4, <1>5, <2>1 DEF RanksAreNumbers
  <2>3. QED
    BY <1>1, <1>5, <2>1, <2>2 DEF NothingSkipped
<1>7. NothingRepeated'
  <2> SUFFICES ASSUME during'.entered = {} PROVE NothingRepeated'
    BY DEF NothingRepeated
  <2>1. during.entered = {} /\ FailedJobs' \subseteq FailedJobs
    BY <1>3
  <2>2. \A j \in FailedJobs' : /\ RankInFailed(j)' <= RankInFailed(j)
                               /\ RankInFailed(j)' \in Nat /\ RankInFailed(j) \in Nat
    BY <1>4, <1>5, <2>1 DEF RanksAreNumbers
  <2>3. QED
    BY <1>1, <1>5, <2>1, <2>2 DEF NothingRepeated
<1>8. RowsWereFailed'
  BY <1>1, <1>3 DEF RowsWereFailed
<1>9. QED
  BY <1>6, <1>7, <1>8

\* The caller reads the next page.
LEMMA ListingReadsRows ==
  ASSUME ClientInv, ListingKnows, ListRows, call.limit > 0
  PROVE  NothingSkipped' /\ NothingRepeated' /\ RowsWereFailed'
<1> DEFINE rows == Page(call.offset, call.limit)
<1>1. /\ StoreInv /\ call \in ListCalls /\ call.op = "list_failed" /\ call.at = "range"
      /\ call.offset \in Nat /\ call.limit \in Nat \ {0}
  BY CallKinds, ClientAssumption DEF ClientInv, ClientTypeOK, ListRows, ListCalls
<1>2. NothingSkipped /\ NothingRepeated /\ RowsWereFailed
  BY <1>1 DEF ListingKnows
<1>3. /\ UNCHANGED <<vars, during>>
      /\ call'.offset = call.offset /\ call'.limit = call.limit /\ call'.start = call.start
      /\ call'.listed = call.listed /\ call'.twice = call.twice
      /\ call'.uncounted = call.uncounted /\ call'.rows = rows
      /\ call'.more = (Cardinality(FailedJobs) > call.offset + call.limit)
      /\ call'.at = IF rows = {} THEN "end" ELSE "counts"
  BY <1>1 DEF ListRows, Reads, ListCalls, MoreAfter, FailedJobs
<1>4. /\ FailedJobs' = FailedJobs /\ Unlisted' = Unlisted
      /\ \A j \in Jobs : RankInFailed(j)' = RankInFailed(j)
  BY <1>3 DEF FailedJobs, Members, Unlisted, RankInFailed, FailedBefore, In, vars
<1>5. /\ FailedJobs \subseteq Jobs
      /\ \A j \in FailedJobs : /\ RankInFailed(j) \in Nat /\ Cardinality(FailedJobs) \in Nat
                               /\ RankInFailed(j) < Cardinality(FailedJobs)
  BY <1>1, FailedTypes, RankType
<1>6. rows = {j \in FailedJobs : RankInFailed(j) \in call.offset .. call.offset + call.limit - 1}
  BY DEF Page, FailedJobs
<1>7. rows = {} => \A j \in FailedJobs : ~(RankInFailed(j) >= call.offset)
  BY <1>1, NoGap
<1> HIDE DEF rows
<1>8. NothingSkipped'
  <2> SUFFICES ASSUME during.left = {} PROVE NothingSkipped'
    BY <1>3 DEF NothingSkipped
  <2>1. Unlisted \subseteq FailedJobs /\ \A j \in Unlisted : RankInFailed(j) >= call.offset
    BY <1>1, <1>2 DEF NothingSkipped
  <2>2. CASE rows = {}
    BY <1>3, <1>4, <1>7, <2>1, <2>2 DEF NothingSkipped
  <2>3. CASE rows # {}
    <3>1. ASSUME NEW j \in Unlisted, j \notin rows
          PROVE  call'.more /\ RankInFailed(j) >= call.offset + call.limit
      <4>1. /\ j \in FailedJobs /\ RankInFailed(j) >= call.offset
            /\ RankInFailed(j) \in Nat /\ Cardinality(FailedJobs) \in Nat
            /\ RankInFailed(j) < Cardinality(FailedJobs)
        BY <1>5, <2>1, <3>1
      <4>2. RankInFailed(j) \notin call.offset .. call.offset + call.limit - 1
        BY <1>6, <3>1, <4>1
      <4>3. RankInFailed(j) >= call.offset + call.limit
        BY <1>1, <4>1, <4>2
      <4>4. Cardinality(FailedJobs) > call.offset + call.limit
        BY <1>1, <4>1, <4>3
      <4>5. QED
        BY <1>3, <4>3, <4>4
    <3>2. QED
      BY <1>3, <1>4, <1>5, <2>1, <2>3, <3>1 DEF NothingSkipped
  <2>4. QED
    BY <2>2, <2>3
<1>9. NothingRepeated'
  <2> SUFFICES ASSUME during.entered = {} PROVE NothingRepeated'
    BY <1>3 DEF NothingRepeated
  <2>1. call.twice = {} /\ \A j \in call.listed \cap FailedJobs : RankInFailed(j) < call.offset
    BY <1>1, <1>2 DEF NothingRepeated
  <2>2. rows \cap call.listed = {}
    BY <1>1, <1>5, <1>6, <2>1
  <2>3. \A j \in rows : RankInFailed(j) < call.offset + call.limit
    BY <1>1, <1>5, <1>6
  <2>4. QED
    BY <1>3, <1>4, <1>5, <2>1, <2>2, <2>3 DEF NothingRepeated
<1>10. RowsWereFailed'
  BY <1>2, <1>3, <1>4, <1>6 DEF RowsWereFailed
<1>11. QED
  BY <1>8, <1>9, <1>10

\* The caller reads the counts of the rows.
LEMMA ListingReadsCounts ==
  ASSUME ClientInv, \A j \in Jobs : JobBudget(j), ListingKnows, ListCounts, call.limit > 0
  PROVE  NothingSkipped' /\ NothingRepeated' /\ RowsWereFailed'
<1>1. /\ StoreInv /\ call \in ListCalls /\ call.op = "list_failed" /\ call.at = "counts"
      /\ call.offset \in Nat /\ call.limit \in Nat \ {0} /\ call.rows \subseteq Jobs
  BY CallKinds, ClientAssumption DEF ClientInv, ClientTypeOK, ListCounts, ListCalls
<1>2. NothingSkipped /\ NothingRepeated /\ RowsWereFailed
  BY <1>1 DEF ListingKnows
<1>3. /\ UNCHANGED <<vars, during>>
      /\ call'.offset = call.offset + call.limit /\ call'.limit = call.limit
      /\ call'.start = call.start /\ call'.listed = call.listed \cup call.rows
      /\ call'.twice = call.twice \cup (call.rows \cap call.listed)
      /\ call'.uncounted = call.uncounted \cup {j \in call.rows : failures[j] = 0}
      /\ call'.rows = {} /\ call'.at = IF call.more THEN "range" ELSE "end"
  BY <1>1 DEF ListCounts, Reads, ListCalls
<1>4. /\ FailedJobs' = FailedJobs /\ Unlisted' = Unlisted \ call.rows
      /\ \A j \in Jobs : RankInFailed(j)' = RankInFailed(j)
  BY <1>3 DEF FailedJobs, Members, Unlisted, RankInFailed, FailedBefore, In, vars
<1>5. FailedJobs \subseteq Jobs /\ \A j \in FailedJobs : RankInFailed(j) \in Nat
  BY <1>1, FailedTypes, RankType
<1>6. NothingSkipped'
  BY <1>1, <1>2, <1>3, <1>4, <1>5 DEF NothingSkipped
<1>7. NothingRepeated'
  <2> SUFFICES ASSUME during.entered = {} PROVE NothingRepeated'
    BY <1>3 DEF NothingRepeated
  <2>1. /\ call.twice = {} /\ call.rows \cap call.listed = {}
        /\ \A j \in call.listed \cap FailedJobs : RankInFailed(j) < call.offset
        /\ \A j \in call.rows \cap FailedJobs : RankInFailed(j) < call.offset + call.limit
    BY <1>1, <1>2 DEF NothingRepeated
  <2>2. \A j \in call'.listed \cap FailedJobs : RankInFailed(j) < call'.offset
    BY <1>1, <1>3, <1>5, <2>1
  <2>3. QED
    BY <1>3, <1>4, <1>5, <2>1, <2>2 DEF NothingRepeated
<1>8. RowsWereFailed'
  <2>1. ASSUME NEW j \in call.rows, failures[j] = 0 PROVE j \notin FailedJobs
    <3>1. JobInv(j) /\ CurrentState(j) # "failed"
      BY <1>1, <2>1 DEF JobBudget, StoreInv, KeysInv
    <3>2. QED
      BY <1>1, <3>1, StateIsPlacement, FailedTypes
  <2>2. QED
    BY <1>2, <1>3, <2>1 DEF RowsWereFailed
<1>9. QED
  BY <1>6, <1>7, <1>8

\* A listing begins with nothing listed and the cursor at 0.
LEMMA ListingBegins ==
  ASSUME ClientInv, NEW limit \in Limits, ListFailed(limit), limit > 0
  PROVE  NothingSkipped' /\ NothingRepeated' /\ RowsWereFailed'
<1>1. /\ UNCHANGED vars /\ during'.left = {} /\ during'.entered = {}
      /\ call'.at = "range" /\ call'.offset = 0 /\ call'.rows = {} /\ call'.start = FailedJobs
      /\ call'.listed = {} /\ call'.twice = {} /\ call'.uncounted = {}
  BY ClientAssumption DEF ListFailed, Begin, Quiet, FailedJobs
<1>2. /\ FailedJobs' = FailedJobs /\ \A j \in Jobs : RankInFailed(j)' = RankInFailed(j)
  BY <1>1 DEF FailedJobs, Members, RankInFailed, FailedBefore, In, vars
<1>3. FailedJobs \subseteq Jobs /\ \A j \in FailedJobs : RankInFailed(j) \in Nat
  BY FailedTypes, RankType DEF ClientInv
<1>4. Unlisted' = FailedJobs
  BY <1>1 DEF Unlisted
<1>5. QED
  BY <1>1, <1>2, <1>3, <1>4 DEF NothingSkipped, NothingRepeated, RowsWereFailed

LEMMA ListingKnowsStep ==
  ASSUME ListingInv, [ClientNext]_clientVars
  PROVE  ListingKnows'
<1> SUFFICES ASSUME call'.op = "list_failed", call'.limit > 0
             PROVE  NothingSkipped' /\ NothingRepeated' /\ RowsWereFailed'
  BY DEF ListingKnows
<1>1. ClientInv /\ ListingKnows /\ (\A j \in Jobs : JobBudget(j)) /\ call \in Calls
  BY DEF ListingInv, ClientInv, ClientTypeOK
<1>2. CASE OthersStep
  BY <1>1, <1>2, ListingBesideOthers DEF OthersStep
<1>3. CASE ListRows
  BY <1>1, <1>3, CallKinds, ListingReadsRows DEF ListRows, Reads, ListCalls
<1>4. CASE ListCounts
  BY <1>1, <1>4, CallKinds, ListingReadsCounts DEF ListCounts, Reads, ListCalls
<1>5. ASSUME NEW limit \in Limits, ListFailed(limit)
      PROVE  NothingSkipped' /\ NothingRepeated' /\ RowsWereFailed'
  <2>1. call'.limit = limit
    BY <1>5 DEF ListFailed, Begin
  <2>2. QED
    BY <1>1, <1>5, <2>1, ListingBegins
<1>6. CASE UNCHANGED clientVars
  <2>1. NothingSkipped /\ NothingRepeated /\ RowsWereFailed
    BY <1>1, <1>6 DEF ListingKnows, clientVars
  <2>2. FailedJobs' = FailedJobs /\ Unlisted' = Unlisted /\ call' = call /\ during' = during
        /\ \A j \in Jobs : RankInFailed(j)' = RankInFailed(j)
    BY <1>6 DEF FailedJobs, Members, Unlisted, RankInFailed, FailedBefore, In, vars, clientVars
  <2>3. Unlisted \cap FailedJobs \subseteq Jobs /\ FailedJobs \subseteq Jobs
    BY <1>1, FailedTypes DEF ClientInv
  <2>4. NothingSkipped'
    BY <2>1, <2>2, <2>3 DEF NothingSkipped
  <2>5. NothingRepeated' /\ RowsWereFailed'
    BY <2>1, <2>2, <2>3 DEF NothingRepeated, RowsWereFailed
  <2>6. QED
    BY <2>4, <2>5
<1>7. CASE LookupSet \/ LookupFailures \/ LookupHolder
  <2>1. call \in LookupCalls
    BY <1>1, <1>7, CallKinds DEF LookupSet, LookupFailures, AllSetsRead, LookupHolder
  <2>2. call'.op = "get_job"
    BY <1>7, <2>1 DEF LookupSet, LookupFailures, LookupHolder, Reads, LookupCalls
  <2>3. QED
    BY <2>2
<1>8. CASE CountSet
  <2>1. call'.op = "counts"
    BY <1>1, <1>8, CallKinds DEF CountSet, Reads, CountCalls
  <2>2. QED
    BY <2>1
<1>9. CASE ItemEnqueued \/ ItemTimesOut \/ ItemRemembered
  <2>1. call \in BatchCalls
    BY <1>1, <1>9, CallKinds DEF ItemEnqueued, ItemTimesOut, ItemRemembered, Sending
  <2>2. call'.op = "enqueue_batch"
    BY <1>9, <2>1 DEF ItemEnqueued, ItemTimesOut, ItemRemembered, BatchCalls
  <2>3. QED
    BY <2>2
<1>10. CASE (\E j \in Asked : GetJob(j)) \/ Return
            \/ (\E j \in Asked, now \in Times : Counts(j, now))
            \/ \E batch \in Batches : EnqueueBatch(batch)
  BY <1>10 DEF GetJob, Counts, EnqueueBatch, Return, Begin, Idle
<1>11. QED
  BY <1>2, <1>3, <1>4, <1>5, <1>6, <1>7, <1>8, <1>9, <1>10 DEF ClientNext, CallStep

\* Following the cursor lists every job that stayed failed unless some job left,
\* lists none twice unless some job entered, and misses the count of none but
\* jobs that left: for every page size, any number of jobs and any scripts.
THEOREM ListingDisturbedOnlyByMovesHolds == ClientSpec => []ListingDisturbedOnlyByMoves
<1>1. ClientInit => ListingInv
  <2> SUFFICES ASSUME ClientInit PROVE ListingInv
    OBVIOUS
  <2>1. ClientInv /\ ListingKnows
    BY InitStoreInv, ClientTypesInit DEF ClientInit, ClientInv, ListingKnows, Idle
  <2>2. \A j \in Jobs : JobBudget(j)
    BY DEF ClientInit, Init, JobBudget, CurrentState, In
  <2>3. QED
    BY <2>1, <2>2 DEF ListingInv
<1>2. ListingInv /\ [ClientNext]_clientVars => ListingInv'
  <2> SUFFICES ASSUME ListingInv, [ClientNext]_clientVars PROVE ListingInv'
    OBVIOUS
  <2>1. ClientInv' /\ ListingKnows'
    BY ClientInvStep, ListingKnowsStep DEF ListingInv
  <2>2. \A j \in Jobs : JobBudget(j)'
    BY StoreKeys, ClientStepsStore, NextJobBudget DEF ListingInv, ClientInv
  <2>3. QED
    BY <2>1, <2>2 DEF ListingInv
<1>3. ListingInv => ListingDisturbedOnlyByMoves
  BY DEF ListingInv, ListingKnows, NothingSkipped, NothingRepeated, RowsWereFailed, Unlisted,
         ListingDisturbedOnlyByMoves, Listed
<1>4. QED
  BY <1>1, <1>2, <1>3, PTL DEF ClientSpec

-----------------------------------------------------------------------------

\* Callers change the keys only through the scripts: what the store keeps, it
\* keeps under any of them.
THEOREM ClientImplementsStore == ClientSpec => Spec
<1>1. ClientInit => Init
  BY DEF ClientInit
<1>2. ClientInv /\ [ClientNext]_clientVars => [Next]_vars
  BY ClientStepsStore DEF ClientInv
<1>3. QED
  BY <1>1, <1>2, ClientInvHolds, PTL DEF ClientSpec, Spec

\* Callers, interrupted anywhere in a batch, move jobs only as JobLifecycle
\* allows.
THEOREM ClientImplementsLifecycle == ClientSpec => ImplementsLifecycle
BY ClientImplementsStore, StoreImplementsLifecycle
=============================================================================
