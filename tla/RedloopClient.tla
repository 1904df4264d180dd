----------------------------- MODULE RedloopClient -----------------------------
(***************************************************************************)
(* One caller of the namespace API beside everyone else who uses the         *)
(* namespace: the queries (get_job in redis_store/enqueue.rs, counts and     *)
(* list_failed in redis_store/counts.rs), which are pipelines that are not   *)
(* transactions or several round trips, and enqueue_batch (client/jobs.rs),  *)
(* one script per item.  Any script of anyone may run between two commands.  *)
(*                                                                          *)
(* The caller makes one call at a time; a call may fail at any command.      *)
(* `during` is history: what happened to its jobs since the call began.       *)
(***************************************************************************)
EXTENDS RedloopStore, Sequences

CONSTANTS
    Asked,      \* jobs the caller may ask get_job, and counts, about
    Limits,     \* page sizes a listing of failed jobs may ask for
    Batches     \* batches the caller may enqueue: sequences of requests

Modes == {"replace", "earlier", "later"}

\* an immediate request has no time, a scheduled one a time and a mode
ImmediateRequests ==
    [job_id : Jobs, schedule_at : {Nil}, allow_existing_current_run : {TRUE}]
ScheduledRequests ==
    [job_id : Jobs, schedule_at : Times, replace_mode : Modes, allow_existing_current_run : {FALSE}]
Requests == ImmediateRequests \cup ScheduledRequests

ASSUME ClientAssumption ==
    /\ Asked \subseteq Jobs
    /\ Limits \subseteq Nat
    /\ Batches \subseteq Seq(Requests)

VARIABLES
    call,       \* the call in progress and what it has read
    during,     \* what happened to the jobs during the call
    owed        \* history: jobs the last batch was promised a run of, not yet run

clientVars == <<vars, call, during, owed>>

Idle == [op |-> "none"]

Quiet == [missable |-> FALSE, repeatable |-> FALSE, ended |-> FALSE, left |-> {}, entered |-> {}]

\* a new call; what an earlier batch is owed is not followed any further
Begin(c) ==
    /\ call = Idle
    /\ call' = c
    /\ owed' = {}
    /\ UNCHANGED vars

\* the caller has its answer, or its error
Return ==
    /\ call # Idle
    /\ call' = Idle
    /\ during' = Quiet
    /\ UNCHANGED <<vars, owed>>

\* a command of the call that reads
Reads(c) == call' = c /\ UNCHANGED <<vars, during, owed>>

-----------------------------------------------------------------------------
\* get_job

\* Mutant: `scheduled` is read before `leased`.
LookupOrder_ScheduledFirst == <<"ready", "scheduled", "leased", "failed">>

\* the sets in the order the pipeline reads them, which is also the order in
\* which the answer prefers them
LookupOrder == <<"ready", "leased", "failed", "scheduled">>

\* Mutant: the bound is not exclusive.
ScheduledAfter_Inclusive(now) == {j \in Jobs : In(scheduled, j) /\ scheduled[j] >= now}

ScheduledAfter(now) == {j \in Jobs : In(scheduled, j) /\ scheduled[j] > now}

Members(set, now) ==
    CASE set = "ready" -> {j \in Jobs : In(ready, j)}
      [] set = "scheduled" -> {j \in Jobs : In(scheduled, j)}
      [] set = "due" -> {j \in Jobs : In(scheduled, j) /\ scheduled[j] <= now}
      [] set = "future" -> ScheduledAfter(now)
      [] set = "leased" -> {j \in Jobs : In(leased, j)}
      [] set = "failed" -> {j \in Jobs : In(failed, j)}

\* a job that is nowhere may be missed
GetJob(j) ==
    /\ Begin([op |-> "get_job", job_id |-> j, next |-> 1, state |-> "none",
              failure_count |-> 0, leased_by |-> Nil])
    /\ during' = [Quiet EXCEPT !.missable = (CurrentState(j) = "none")]

\* ZSCORE of the next set
LookupSet ==
    /\ call.op = "get_job"
    /\ call.next \in DOMAIN LookupOrder
    /\ LET set == LookupOrder[call.next] IN
       Reads([call EXCEPT !.next = @ + 1,
                          !.state = IF @ = "none" /\ call.job_id \in Members(set, 0) THEN set
                                    ELSE @])

AllSetsRead == call.op = "get_job" /\ call.next = Len(LookupOrder) + 1

\* HGET failures, then HGET lease_meta, which only a leased job's record uses
LookupFailures ==
    /\ AllSetsRead
    /\ Reads([call EXCEPT !.next = @ + 1, !.failure_count = failures[call.job_id]])

LookupHolder ==
    /\ call.op = "get_job"
    /\ call.next = Len(LookupOrder) + 2
    /\ Reads([call EXCEPT !.next = @ + 1,
                          !.leased_by = IF call.state = "leased" THEN lease_meta[call.job_id]
                                        ELSE Nil])

LookedUp == call.op = "get_job" /\ call.next = Len(LookupOrder) + 3

-----------------------------------------------------------------------------
\* counts

CountOrder == <<"ready", "due", "future", "leased", "failed">>

\* A count is the sum of what each job adds to it, so the call is followed
\* through the eyes of one job: how often is it counted?
Counts(j, now) ==
    /\ Begin([op |-> "counts", job_id |-> j, now |-> now, next |-> 1, times |-> 0])
    /\ during' = [Quiet EXCEPT !.missable = (CurrentState(j) = "none")]

\* ZCARD or ZCOUNT of the next set
CountSet ==
    /\ call.op = "counts"
    /\ call.next \in DOMAIN CountOrder
    /\ Reads([call EXCEPT !.next = @ + 1,
                          !.times = IF call.job_id \in Members(CountOrder[call.next], call.now)
                                    THEN @ + 1 ELSE @])

Counted == call.op = "counts" /\ call.next \notin DOMAIN CountOrder

-----------------------------------------------------------------------------
\* list_failed, by a caller who follows next_cursor to the end

FailedBefore(a, b) == failed[a] < failed[b] \/ (failed[a] = failed[b] /\ a < b)
RankInFailed(j) == Cardinality({k \in Members("failed", 0) : FailedBefore(k, j)})

\* Mutant: the probe row that only tells whether there is more is returned too.
Page_WithProbe(offset, limit) ==
    {j \in Members("failed", 0) : RankInFailed(j) \in offset .. offset + limit}

\* ZRANGE failed offset offset+limit, truncated to limit rows
Page(offset, limit) ==
    {j \in Members("failed", 0) : RankInFailed(j) \in offset .. offset + limit - 1}
MoreAfter(offset, limit) == Cardinality(Members("failed", 0)) > offset + limit

ListFailed(limit) ==
    /\ Begin([op |-> "list_failed", limit |-> limit, at |-> IF limit = 0 THEN "end" ELSE "range",
              offset |-> 0, rows |-> {}, more |-> FALSE, start |-> Members("failed", 0),
              listed |-> {}, twice |-> {}, uncounted |-> {}])
    /\ during' = Quiet

ListRows ==
    LET rows == Page(call.offset, call.limit) IN
    /\ call.op = "list_failed" /\ call.at = "range"
    /\ Reads([call EXCEPT !.rows = rows,
                          !.more = MoreAfter(call.offset, call.limit),
                          !.at = IF rows = {} THEN "end" ELSE "counts"])

\* HMGET failures of the rows; an absent counter is reported as 0
ListCounts ==
    /\ call.op = "list_failed" /\ call.at = "counts"
    /\ Reads([call EXCEPT !.at = IF call.more THEN "range" ELSE "end",
                          !.offset = @ + call.limit,
                          !.listed = @ \cup call.rows,
                          !.twice = @ \cup (call.rows \cap call.listed),
                          !.uncounted = @ \cup {j \in call.rows : failures[j] = 0},
                          !.rows = {}])

Listed == call.op = "list_failed" /\ call.at = "end" /\ call.limit > 0

-----------------------------------------------------------------------------
\* enqueue_batch

EnqueueBatch(batch) ==
    /\ Begin([op |-> "enqueue_batch", items |-> batch, next |-> 1, applied |-> {},
              status |-> "none", result |-> IF batch = <<>> THEN "ok" ELSE "pending"])
    /\ during' = Quiet

\* what enqueue_or_reschedule.lua answers a request made at `now`
Matches(r, now) ==
    LET target == Target(r.schedule_at, now) IN
    <<CurrentState(r.job_id), ActivationScore(r.job_id)>> = <<target.state, target.score>>

\* Mutant: a job that is asked to run again is answered like a ready one.
ImmediateStatus_LeasedUnchanged(j) ==
    CASE CurrentState(j) = "none" -> "created"
      [] CurrentState(j) \in {"scheduled", "failed"} -> "updated"
      [] OTHER -> "unchanged"

ImmediateStatus(j) ==
    CASE CurrentState(j) = "none" -> "created"
      [] CurrentState(j) \in {"scheduled", "failed"} -> "updated"
      [] CurrentState(j) = "leased" /\ j \notin rerun -> "updated"
      [] OTHER -> "unchanged"

ScheduledStatus(r, now) ==
    LET state == CurrentState(r.job_id) IN
    CASE state = "leased" -> "invalid_state"
      [] state = "none" -> "created"
      [] state = "failed" -> "updated"
      [] OTHER ->
            IF ~Matches(r, now) /\ ShouldReplace(r.replace_mode, Target(r.schedule_at, now).score,
                                                 ActivationScore(r.job_id))
            THEN "updated" ELSE "unchanged"

Status(r, now) ==
    IF r.allow_existing_current_run THEN ImmediateStatus(r.job_id) ELSE ScheduledStatus(r, now)

\* what the script does to the keys
Enqueued(r, now) ==
    IF r.allow_existing_current_run
    THEN EnqueueImmediate(r.job_id, now) \/ (In(ready, r.job_id) /\ UNCHANGED vars)
    ELSE \/ EnqueueScheduled(r.job_id, r.schedule_at, r.replace_mode, now)
         \/ Status(r, now) \in {"unchanged", "invalid_state"} /\ UNCHANGED vars

\* the request of an item, until its SADD on the catalog is next
Sending == /\ call.op = "enqueue_batch" /\ call.result = "pending"
           /\ call.status = "none" /\ call.next \in DOMAIN call.items

Owes(r) == owed' = IF r.allow_existing_current_run THEN owed \cup {r.job_id} ELSE owed

ItemEnqueued ==
    LET r == call.items[call.next] IN
    /\ Sending
    /\ \E now \in Times :
          /\ Enqueued(r, now)
          /\ LET status == Status(r, now) IN
             IF status = "invalid_state"
             THEN call' = [call EXCEPT !.result = "error"] /\ UNCHANGED owed
             ELSE call' = [call EXCEPT !.status = status, !.applied = @ \cup {call.next}] /\ Owes(r)
    /\ UNCHANGED during

\* Mutant: an item that times out is passed over.
ItemTimesOut_Skipped ==
    /\ Sending
    /\ call' = [call EXCEPT !.next = @ + 1]
    /\ UNCHANGED <<vars, during, owed>>

\* no answer in time: the script ran, or it did not.  A script that runs later
\* still is a step of someone else.
ItemTimesOut ==
    LET r == call.items[call.next] IN
    /\ Sending
    /\ \/ UNCHANGED <<vars, owed>>
       \/ \E now \in Times :
             /\ Enqueued(r, now)
             /\ IF Status(r, now) = "invalid_state" THEN UNCHANGED owed ELSE Owes(r)
    /\ call' = [call EXCEPT !.result = "error"]
    /\ UNCHANGED during

\* remember_namespace: its error is logged, and the batch goes on either way
ItemRemembered ==
    /\ call.op = "enqueue_batch" /\ call.status # "none"
    /\ call' = [call EXCEPT !.status = "none", !.next = @ + 1,
                            !.result = IF call.next + 1 \in DOMAIN call.items THEN "pending" ELSE "ok"]
    /\ UNCHANGED <<vars, during, owed>>

-----------------------------------------------------------------------------
\* everyone else, and what it means for the call

\* where the job of the call is in the order in which the call reads the sets;
\* 0 when it is in none of them, or the call is about no job
Place(j) ==
    IF call.op = "counts" /\ CurrentState(j) = "scheduled"
    THEN IF scheduled[j] <= call.now THEN "due" ELSE "future"
    ELSE CurrentState(j)

LookupRank(place) ==
    CASE place = "ready" -> 1
      [] place = "leased" -> 2
      [] place = "failed" -> 3
      [] place = "scheduled" -> 4
      [] OTHER -> 0

CountRank(place) ==
    CASE place = "ready" -> 1
      [] place = "due" -> 2
      [] place = "future" -> 3
      [] place = "leased" -> 4
      [] place = "failed" -> 5
      [] OTHER -> 0

Rank == CASE call.op = "get_job" -> LookupRank(Place(call.job_id))
          [] call.op = "counts" -> CountRank(Place(call.job_id))
          [] OTHER -> 0

EndsItsLease ==
    call.op = "get_job" /\ In(leased, call.job_id) /\ ~In(leased, call.job_id)'

Recorded ==
    LET left == {j \in Jobs : In(failed, j) /\ ~In(failed, j)'}
        entered == {j \in Jobs : ~In(failed, j) /\ In(failed, j)'}
        listing == call.op = "list_failed"
    IN  during' = [missable |-> during.missable \/ Rank' < Rank,
                   repeatable |-> during.repeatable \/ Rank < Rank',
                   ended |-> during.ended \/ EndsItsLease,
                   left |-> IF listing THEN during.left \cup left ELSE {},
                   entered |-> IF listing THEN during.entered \cup entered ELSE {}]

\* an accepted run is over with when it starts, when the job fails, or when an
\* operator cancels it while it waits
Discharged(j) ==
    \/ ~In(leased, j) /\ In(leased, j)'
    \/ ~In(failed, j) /\ In(failed, j)'
    \/ ~In(leased, j) /\ CurrentState(j)' = "none"

OthersStep ==
    /\ Next
    /\ UNCHANGED call
    /\ Recorded
    /\ owed' = {j \in owed : ~Discharged(j)}

CallStep ==
    \/ \E j \in Asked : GetJob(j)
    \/ LookupSet \/ LookupFailures \/ LookupHolder
    \/ \E j \in Asked, now \in Times : Counts(j, now)
    \/ CountSet
    \/ \E limit \in Limits : ListFailed(limit)
    \/ ListRows \/ ListCounts
    \/ \E batch \in Batches : EnqueueBatch(batch)
    \/ ItemEnqueued \/ ItemTimesOut \/ ItemRemembered
    \/ Return

ClientInit == Init /\ call = Idle /\ during = Quiet /\ owed = {}

ClientNext == CallStep \/ OthersStep

ClientSpec == ClientInit /\ [][ClientNext]_clientVars

-----------------------------------------------------------------------------
\* Properties

\* get_job does not miss a job that goes forward.  Its pipeline is no snapshot,
\* but it reads the sets in the order a run passes through them: it answers
\* "no such job" only for a job that was absent or moved back during the call,
\* and InvalidData, for a lease without a holder, only when a lease of the job
\* ended.  The record of a job that made no move is exact.
LookupMissesOnlyBackwardMoves ==
    LookedUp =>
        LET j == call.job_id IN
        /\ call.state = "none" => during.missable
        /\ call.state = "leased" /\ call.leased_by = Nil => during.ended
        /\ ~during.missable /\ ~during.repeatable =>
              /\ call.state = CurrentState(j)
              /\ call.failure_count = failures[j]
              /\ call.leased_by = lease_meta[j]

\* The five numbers of counts (types.rs:84 calls them a snapshot) add up to the
\* queue but for jobs on the move: a job is left out only if it was absent or
\* moved back during the call, and counted twice only if it moved forward or
\* came back.
CountsCoverTheQueue ==
    Counted =>
        /\ call.times = 0 => during.missable
        /\ call.times > 1 => during.repeatable

\* Following the offset cursor to the end lists every job that was failed all
\* the while, unless some job left `failed` and made the rows behind it move up;
\* it lists a job twice only if some job entered; and the failure count it
\* reports is missing only for a job that left between the two commands.
ListingDisturbedOnlyByMoves ==
    Listed =>
        /\ during.left = {} => call.start \subseteq call.listed
        /\ call.twice # {} => during.entered # {}
        /\ call.uncounted \subseteq during.left

\* The status an enqueue answers is what it did: "created" for a job that was
\* in none of the sets, "unchanged" when nothing was written, and any of the
\* three leaves the job current, with a run ahead of it (api.md:184-191).
StatusIsWhatHappened ==
    [][call.op = "enqueue_batch" /\ call'.op = "enqueue_batch"
          /\ call.status = "none" /\ call'.status # "none" =>
        LET j == call.items[call.next].job_id IN
        /\ call'.status = "created" <=> CurrentState(j) = "none"
        /\ call'.status = "unchanged" <=> UNCHANGED vars
        /\ CurrentState(j)' \in {"ready", "scheduled"} \/ j \in rerun']_clientVars

\* A batch that answers Ok has applied every item, so a caller who repeats it
\* after an error loses none; and whatever happens to the job afterwards, the
\* run it was promised is not forgotten: it waits, or is asked for beside the
\* current lease, until it starts, the job fails or an operator cancels it.
OkMeansRun ==
    /\ call.op = "enqueue_batch" /\ call.result = "ok" => call.applied = DOMAIN call.items
    /\ \A j \in owed : CurrentState(j) \in {"ready", "scheduled"} \/ (In(leased, j) /\ j \in rerun)
=============================================================================
