# redloop: specifications, model checking and proofs

redloop is a job queue on Redis: clients enqueue job ids, workers reserve them
under a lease, run a handler, and report the outcome; jobs may be scheduled,
retried, failed, requeued and purged. All shared state is in Redis, every
multi-key change but two is a Lua script, and each worker is one task around a
biased `tokio::select!`. This directory specifies that system in TLA+, checks
it with TLC and proves most of its safety properties with TLAPS. All paths below
are relative to `crates/redloop/src` unless they start with `docs/`.

## The system

| Component | State | Operations |
| --- | --- | --- |
| Queue scripts (`redis_store/scripts/*.lua`, called from `enqueue.rs`, `workers.rs`, `leases.rs`, `failures.rs`) | per namespace: ZSETs `ready`, `scheduled`, `leased`, `failed`; hashes `lease_meta`, `failures`, `cfg`; set `rerun`; worker records `workers:last_seen`, `workers:config`, `workers:leases` | enqueue (now, scheduled with three replace modes), reschedule, reserve, heartbeat, ack, complete-and-reschedule, fail-or-retry, reap, cancel, requeue/retry-now, force-retry, force-ack, force-fail |
| Administrative mutations (`counts.rs` `purge_failed`, `workers.rs` `prune_stale_workers`) | none of their own: what they read in one round trip and use in a later one | select then delete; read, read, then delete |
| Worker runtime (`worker/*.rs`) | `active` map, `JoinSet`, `pending_completed`, `reserve_sleep`, `runtime_backoff_until`, poll delay, two tokio intervals | one loop: drain, resolve completions, then join / heartbeat / reap / backoff / reserve / sleep |
| Connection (`connection.rs`, `error.rs`) | the Redis connection | run a command or pipeline under a deadline; classify errors |
| Queries (`get_job`, `counts`, `list_failed`, `list_workers`) | none: what the commands of one call have read so far | pipelines that are no transactions, or several round trips |
| Client API and builders (`client/*.rs`, `builder.rs`) | the item of a batch that is being sent | enqueue, `enqueue_batch`, queries, delegation of everything else |
| Namespace catalog (`namespaces.rs`) | a set of names | best-effort add after an enqueue or a reserve; list |
| Codec, CLI, xtask, release scripts | none | parsing, tooling |

Components meet in Redis only. A script is atomic; everything longer than a
script is not. What is hard, and what the properties are for, is listed line by
line under "hazards" in `PROJECT.json`. The themes are:

- **sequences of scripts**: no script sees more than the keys it looks at, and
  eight of them maintain relations between eleven keys (single membership,
  leases with records, lease counts, rerun marks beside leases, failure budget);
- **loops inside scripts**: reserve compares the heads of two sets, one of which
  has duplicates in it; reap decrements a count that may be too small;
- **interleaving of round trips**: purge, prune and the queries use what they
  read earlier, and a batch of enqueues is as many scripts as it has items;
- **ambiguous calls**: a timed-out command may be applied, now or later, or not
  at all; a completion is retried, a reserve or heartbeat is not;
- **the select loop**: a branch that fires drops a reserve in flight, ticks
  restart the reserve sleep, missed ticks fire in a burst, an error on one
  heartbeat skips the others and holds everything else back;
- **stops**: a worker may vanish with its leases at any point;
- **numbers**: backoff arithmetic, counts that floor at zero, score width.

## Modules

| Module | Models | Correspondence |
| --- | --- | --- |
| `JobLifecycle` | what the queue promises about a job, without keys, workers or clocks (`docs/protocol/redloop/README.md`, `api.md`) | abstract specification: `state` is what `get_job` reports, `again` is a rerun request |
| `LeaseHolding` | what the lease tokens promise, without loops, calls, clocks or errors (`docs/protocol/redloop/README.md`) | abstract specification: `holder` is `lease_meta`, `attempts` are the active maps of all workers |
| `RedloopStore` | one namespace in Redis and all eight scripts | one variable per key; one action per script operation, with every branch; a rejected call is a stuttering step |
| `ScriptLoops` | the loops of `reserve.lua` and `reap_expired.lua`, one iteration per step | justifies the sets `Reserved` and `Reaped` that `RedloopStore` uses for a whole loop; INSTANCEs it at the keys the script found |
| `RetryPolicy` | the budget and the delays of `fail_or_retry.lua` | justifies `ShouldRetry`, and says what the constant `RetryDelay` of `RedloopStore` is |
| `RedloopAdmin` | purge, prune and `list_workers`, one action per round trip, beside all scripts on one clock | EXTENDS `RedloopStore` |
| `RedloopClient` | one caller of `get_job`, `counts`, `list_failed` or `enqueue_batch`, one action per command, beside all scripts | EXTENDS `RedloopStore` |
| `RedloopWorker` | the runtime of every worker against the store, with a faulty connection, stops, time and other users | EXTENDS `RedloopStore`; one action per select branch or awaited call |
| `PollLoop` | the timers of the worker loop, with durations, and the catalog it writes on the side | stands alone |
| `RedloopStoreProofs`, `RedloopHistoryProofs` | invariants of `RedloopStore`; budget, action properties and the refinement | proofs only |
| `ScriptLoopsProofs`, `RetryPolicyProofs`, `RedloopAdminProofs`, `RedloopClientProofs`, `RedloopWorkerProofs`, `PollLoopProofs` | the safety properties of the module each is named for, and the refinements | proofs only |
| `MC*` | constants for TLC | |

### How the keys are represented

A ZSET is a function from jobs to a score or `Nil`; absent counters are 0.
Jobs are numbers so that the tie-break of ZRANGE, by member, is their order.
`cfg` is the policy itself; its key string is a faithful encoding of it
(`config.rs:148-172`). A lease token is a UUID: the model draws any token no
lease uses now, because the store remembers none after its lease. In
`RedloopWorker`, where attempts and late commands remember tokens, a token in
anyone's hands is not drawn again.

`RedloopStore` lets every call carry any time: clients, workers and operators
each read their own clock and nothing in the code orders them. What it proves
holds therefore for any clock skew. `RedloopAdmin` has one clock, because
staleness compares two calls. `RedloopWorker` has scores relative to the clock:
every call is made at `Now`; a deadline or schedule lies at `Now` or later, and
comes down to `Now` as time passes (`Lapse`, `ComeDue`).

### Script loops

A call of `ScriptLoops` starts from any placement of the jobs in which none is
both ready and leased, with any scheduled occurrences besides, those of ready and
leased jobs included: the scripts defend themselves against these duplicates
(`docs/protocol/redloop/api.md:214-216`) although no state of `RedloopStore` has
any. A reap starts from lease counts that need not agree with the leases,
because a prune can lower them. A caller draws as many tokens as it asks for
jobs (`Drawn`, `worker/leases.rs:65-67`); one fewer and the job that gets none is
in no set any more, which the model shows if `Drawn` is changed.

### Callers

A call of `RedloopClient` is in `call`, with what it has read. `during` records
what happened meanwhile to the jobs the call is about: whether the job was absent
or moved back (`missable`), moved forward or came back (`repeatable`), lost a
lease, entered or left `failed`. It is history: no step of the code depends on it. `counts`
is followed through the eyes of one job, since each number is a sum over jobs. An
item of a batch may time out, applied or not, and the batch then ends in
an error; `owed` records the jobs that an accepted immediate request promised a
run, until a run starts, the job fails or an operator cancels it.

### The worker

The worker's `mode` says which await its loop is in: `top` (draining, and
starting to resolve completions), `resolve` (a completion call), `select`, or
`heartbeat` (a heartbeat call). Calls that only the loop waits for are
one step, since nothing in the worker moves meanwhile. Reserve is the
exception: it runs inside the select, so any other branch may drop it, sent or
not (`SentReserves`, `Dropped`). A command whose answer is not awaited any longer sits on
`wire` until it is applied (`Delivered`) or lost (`Lost`). `Stop` is a crash, a
cancellation or an error that `run` returns: the local state goes, the wire and
the store stay.

`faults` bounds failed calls, late heartbeats, operator interventions and stops
together. A dropped reserve is not a failure of anything: every join and tick
of the select can cause one (`plans/follow-ups/worker-drops-in-flight-reserve.md`
calls it common), so it spends no fault and happens any number of times. What
bounds the wire is the tokens: a command waiting there keeps its own.

### The poll loop

`PollLoop` has the durations that `RedloopWorker` leaves out: the reserve sleep
with its doubling delay, the two intervals, the runtime backoff. A branch that is
ready fires before time passes, in the order of the select. Any heartbeat, reap or
completion may fail; a failed one sets the backoff, which switches
off completions, reap and reserve until `poll_interval_min` has passed. An
interval that nobody polls (heartbeat while no job is active, reap during the
backoff) owes its ticks, at most `MaxMissed` in the model, and they fire one
after the other when it is polled again. `listed` is the namespace's entry in
the catalog: each reserve that is answered, and each enqueue, may or may not
write it.

## Runs

| Run | Question | Bounds |
| --- | --- | --- |
| `store` | are the keys consistent after any scripts, and do the scripts implement `JobLifecycle`? | 2 jobs, 2 workers of one policy (one retry) and one of another (none), 2 tokens, call times and schedules in {1,2,3}, capacities and reap limits 1 and 2, at most 3 failures counted |
| `script_loops` | do the loops take exactly the jobs `RedloopStore` says, without loss, and record and count them right? | 3 jobs, 2 workers, scores and calls in {1,2}, every placement, duplicates included, every lease count from 0 to 3, capacities and limits 1 to 3 |
| `retry_policy` | are budget and delays what the policy says? | every policy with up to 3 retries, delays to 3, multipliers to 3, caps to 6; 5 failures |
| `retry_width` (violation) | does every score fit 64 bits? | widths scaled to 4 bits |
| `admin` | what can a purge, prune or `list_workers`, overtaken anywhere, break or report? | 2 jobs, 1 worker, 2 tokens, clock in {1,2,4} with any time passing between two calls, stale after 2, lease of 1, immediate retries |
| `admin_purge_count`, `admin_prune` (violations) | is the count returned, and the choice of workers, what the docs say? | as `admin` |
| `client` | what may a caller conclude from an answer? | 2 jobs, queries about job 1, 1 worker with one immediate retry, 1 token, calls in {1,2}, pages of 1 row, batches of no item, of two jobs, and of the same job twice |
| `worker` | do two workers keep their capacity and their attempts together through faults, can one take or end another's lease, and do they implement `LeaseHolding`? | 2 jobs, 2 workers of concurrency 2 and 1, 2 tokens, 1 fault |
| `worker_live` | does every result and every lease come to an end? | 1 job, 1 worker, 2 tokens, 2 faults, fairness |
| `poll` | is the time between two polls bounded, is work taken, does the catalog heal? | concurrency 2, poll delays 1 to 2, reap every 10, heartbeat every 15, 2 missed ticks, failed calls counted to 2 |
| `poll_starved` (violation) | does an idle worker always poll again? | concurrency 1, poll delay to 4, both intervals 3 |

Why the bounds are enough for what they ask. In `store`, a capacity or limit of
one makes the second job wait and one of two takes both; three times give every
relation (earlier, equal, later) between a score and a call, and between two
calls; one retry makes each of retry, last retry and give-up happen, and the
counter's bound of 3 is never the reason for a transition not to happen under a
policy of one retry (the counter stays at 2 or below). In `script_loops`, three
jobs are a duplicate between two genuine ones, and a capacity or limit above
what is due ends the loop early. In `admin`, the clock may pass the lease and
stay within the staleness bound, or pass both, between any two round trips. In
`client`, a job scheduled for 2 is due for a call at 2 and not for one at 1; each
query follows one job, the other is there to be ahead of it or behind it, and
one-row pages make every listing of two jobs take one round trip more than one
job's. In `worker`, a concurrency of two is needed for a capacity that is
partly used, and two jobs for a round of completions or heartbeats that fails
half-way; job 1 ends with an error until it is given up, job 2 is rescheduled, at
once or later. The second worker takes a job over: with the one fault a heartbeat
comes too late and the first attempt runs beside the second one, or a report
reaches the store only when the job has its next lease.
Two tokens are two attempts, or an attempt and a dropped reserve; what takes two
faults with two workers is left to the theorems, which hold for any number of
workers, tokens and faults. `worker_live` adds completion and failing for good,
and has two faults so that recovery itself can fail once.
`poll` takes intervals no longer than the bound it checks with one failure, so
that ticks, failures and handlers all fall into one gap.

The runs are small where a theorem covers every value of the constants, and
larger where none can (`worker_live`, `poll`). The refinement of `JobLifecycle`
by purge, prune, callers and workers, and the retry budget under workers, are
proved and not run again.

### What the runs show

The passing runs found the store sound: whatever scripts run, with whatever
times, a job is in one place, leases, records and counts agree, no failure
counter exceeds its budget or outlives its job, a rerun request is only
consumed with its lease, and every step is a move of `JobLifecycle`. The loops of
the two multi-job scripts take the jobs they should, and reserve's records them
under one token each, with the deadline of the call. Prune costs lease counts (they
become too small, never too large), and every worker with a record stays one that a
later prune can find; purge costs a reactivated job its failure counter. That
last loss breaks no property here: `FailuresWithinBudget` finds a counter that is
left behind, not one that is missing, and `FailureHistoryKept` is stated of the
scripts.

Queries are no snapshots, and `client` says what they are. `get_job` reads the
sets in the order a run passes through them, so it answers "no such job" only
for a job that was absent or moved back during the call, and `InvalidData` only
when a lease ended under it; `counts` leaves out or doubles only jobs on the
move; a listing of failed jobs misses one that stayed failed only if another left.
`list_workers` shows no worker whose last heartbeat is older than the staleness
it prunes by. An `enqueue_batch` that answers `Ok` has applied every item.

The worker keeps its capacity, loses no result, lets go of an attempt only
when its lease is over, and never ends a lease that is not the reporting attempt's
own, however late the report is applied. Until the first failed call, late
heartbeat, stop or intervention every attempt has the lease of its job, so no
job is handled twice; dropped reserves are no exception, but they do leave
leases without an attempt, so a job may wait until its lease has expired and is
reaped although nothing has failed. `EveryLeaseEnds` is what holds of those.
The worker polls within `(concurrency + 2 + failed calls) *
poll_interval_max` if both intervals are at least that long. A namespace in use
ends up in the catalog although the write is best-effort.

Four runs end in a counterexample, because the code does something other than
the documentation says (`findings` in `PROJECT.json`):

- `poll_starved`: the reserve sleep is recreated, at full length, in each
  iteration. A tick at least as frequent as the sleep restarts it for ever. The
  configuration is admitted by `validate`. `poll` shows the positive side.
- `admin_purge_count`: `purge_failed` returns how many ids it selected.
- `admin_prune`: the records of an active worker are deleted when it came back
  during a prune.
- `retry_width`: a delay is not bounded by what a score can hold.

The documents also disagree among themselves about an immediate enqueue of a
leased job: `docs/protocol/redloop/README.md:92` and `redis-layout.md:261` say
`Unchanged`, `api.md:184-187` says `Updated` for the first rerun request, and the
code does what `api.md` says. `StatusIsWhatHappened` holds the code to that.

### Fairness

`FairWorkerSpec` assumes weak fairness of every straight-line step of the loop
(an await of the store is answered or times out), of restarts, of handlers, of
time, and of the network (a command on the wire is applied or lost). It assumes
strong fairness of three select branches, join, reap tick and end of the backoff:
the loop passes the select again and again, and one of these whose result or
timer is there is ready each time, ahead of reserve and sleep. (Heartbeats come
before reap too, but one round per interval.) Of the reserve and sleep
branches nothing is assumed, because the code guarantees nothing for every
configuration: ticks can starve the sleep (`poll_starved`), and drop one reserve
after the other. So no property here says that a queued job is ever handled;
`poll` says it (`WorkIsTaken`) of the configurations whose ticks are far enough
apart. Calls that fail are not fair and are bounded by `faults`: the code
promises progress only when calls succeed eventually.

In `PollLoop` the loop and time are weakly fair together: the loop takes a step
or time passes. `SF(Resolve)` says that not every report of a result fails, and
`SF(ReserveAnswered /\ listed')` that not every reserve, nor every write to the
catalog after it, does. Heartbeats and reaps may fail for ever, and handlers need
not return: `KeepsPolling` and `WorkIsTaken` hold all the same, the latter for a
worker that has capacity again and again.

## Proofs

Every safety property of the passing runs has a theorem for all values of the
constants. The
assumptions are the ones the modules state about their constants: jobs are
finitely many natural numbers, times and limits are positive, `Nil` is no
score, policy or record; staleness takes longer than a lease; every capacity up to
a worker's concurrency is among `Capacities`, its concurrency among `ReapLimits`,
and the relative times `Now` and `Later` among `Times`; a retry policy is one the
configuration types admit; and of the timers what `WorkerConfig::validate`
demands. `MaxFailures` bounds the failure counter in
`FailOrRetry` and `ForceFail`, `Faults`, `MaxIdle`, `MaxFailed` and `MaxMissed`
bound what their modules say, and each may be any number.

**`RedloopStoreProofs`.** None of the store's invariants is inductive alone.
`reserve.lua` writes `leased` without looking at it, so single membership needs
that a waiting job is not leased; the scripts that end a lease put the job in
another set without looking, so it needs that a job with a lease record is
leased, hence in no other set; the counts need that a lease that ends was
counted for the worker its record names. `KeysInv` is `TypeOK` and `JobInv(j)`
for every job, and `StoreInv` adds the counts. The two are apart because after a
prune the counts are wrong: each script's lemma is stated from `KeysInv`, and
says with `CountsKeep` that it leaves a right count right and a count that is too
small too small. Most scripts touch one job; reserve and reap touch sets of
jobs, and there the counts change by the cardinality of a union of disjoint sets
and of a difference. Theorems: `TypeCorrect`, `SingleMembershipHolds`,
`LeaseHasHolderHolds`, `RerunOnlyWhileLeasedHolds`, `LeaseCountsMatchHolds`,
`OnePolicyHolds`.

**`RedloopHistoryProofs`.** Its `StepEffect` reads every script once more and
says what a reader of the keys sees of it: a job that is not leased moves
(`Moves`), a leased job is asked to run again (`AsksAgain`), a lease ends
(`Ends`), is renewed (`Renews`), leases are granted (`Starts`) or reaped
(`Expires`). From these six kinds of step follow the refinement
(`StoreImplementsLifecycle`: each kind is a step of `JobLifecycle`, or a
stutter), `BudgetHolds` with `FailedHasHistoryHolds` (a failed attempt stays
within the budget only because its lease is held under the namespace's policy),
`FailureHistoryKeptHolds` and `RerunNotLostHolds`.

**`ScriptLoopsProofs`.** `RedloopStore` says which jobs a script takes by
counting: those with fewer than n others before them. The loops take one at a
time. `NextRank` is the bridge: if the jobs taken so far are the first n, and
the next one comes before all that are left, the same holds for n + 1. The rest
is that it does come before all that are left: `HeadOfScheduled` says that the
inner loop, which drops duplicates only while they are at the head, leaves a
genuine occurrence there if there is one, and `ReserveStep` compares it with the
ready head. For reap, `ReapStep` adds that decrements floored one by one are one
floored subtraction. So `RedloopStore`'s one-step scripts are what the loops do,
for any number of jobs, which the `store` run could only assume. `Recorded` adds
what the loop writes beside the sets: the i-th job it grants has the i-th token,
so that its index and its count stay in step however many duplicates it drops
(`LeasesAsGrantedHolds`).

**`RetryPolicyProofs`.** `fail_or_retry.lua` computes a delay by a loop over the
failure count, which the model writes as a recursive function. The library's
induction theorems take an operator as a parameter and cannot be used here, so the
module starts with what it needs of them for sets: every non-empty set of numbers
has a least one (`LeastNumber`, by cases on the bounded sets), a set that has 0 and
every successor has every number (`Induction`), and a function defined from its
value at the number before exists (`Repetition`). `LoopComputes` then gives the
equations of the loop, `CapOnce` says that capping the product at every turn
comes to capping it once at the end, and `ClosedForm` follows by induction.
A multiplier of at least one does not shrink a product, so delays within the cap
never shrink (`Monotone`). `BudgetExactHolds` needs no such induction: it is
inductive once a step is read as a retry or a giving up (`RetryStep`). `DelaysAreNumbers` discharges
what `RedloopStore` assumes of the constant `RetryDelay`. The closed form uses
`Power`, repeated multiplication, because the provers do not interpret `^`; TLC
evaluates on small numbers that the two are the same.

**`RedloopAdminProofs`.** `AdminInv` is `KeysInv`, the budget, and for the counts
only `LeaseCountsNeverExceed`. The two transactions that write without a script
need what holds in every state, never what held when their ids were selected;
that is why nothing worse happens to a job than losing a counter, and why purge and
prune make no step that `JobLifecycle` does not allow (`AdminImplementsLifecycle`),
and drop no rerun request (`AdminRerunNotLostHolds`). That a purge may lower a
failure counter is why `FailureHistoryKept` is not among the theorems there.
`Registers` says what scripts do to worker records, and `PruneInv` carries what
`list_workers` read over to its answer.

**`RedloopClientProofs`.** A caller's steps are the store's or leave it alone,
so `StoreInv` holds throughout. `LookupKnows` and `CountKnows` say after each
command what the answer so far implies about the sets not read yet, given
`during`. `BatchProgress` and `Owing` say the same of a batch: what was applied,
and that a promised run is still ahead. `StatusIsWhatHappened` compares the
answer with the state each branch of the script leaves.

`list_failed` pages by offset through a set that
changes between the pages. No script changes the score of a job that stays failed
(`FailedScores`), so the rank of a job can only grow while nobody leaves and only
shrink while nobody enters (`RanksMove`), and no rank below the number of failed
jobs is skipped, so an empty page is the end (`NoGap`). `ListingKnows` follows from
these: while nobody has left, a job of the start is listed, on the page just read
or not yet behind the cursor; while nobody has entered, what is listed is behind
it. That a count is missing only for a job that left is the budget: a failed job
has failed at least once. `ClientImplementsStore` closes the circle: everything a
caller does to the keys is a behaviour of `RedloopStore`, so all of its theorems
hold under any callers, `ImplementsLifecycle` among them.

**`RedloopWorkerProofs`.** Every step on the store is one of its scripts
(`WorkerStoreSteps`), so `StoreInv` holds. `CapacityRespected` needs that a
reservation takes no more jobs than it asks for, whatever their order (`RankBound`).
`AttemptsAccounted` follows from `Accounted`, three disjoint sets and one result
per attempt. `MutedMeansLost` needs that tokens on the wire are nobody's
(`WireTokensFresh`), or a late reserve could give a lost lease back.
`HealthyRunsAreExclusive` needs `Healthy`: until the first fault the lease of every
attempt is in time, nobody's heartbeat is off, and the wire carries dropped
reserves only, which touch no lease that is there (`ReserveAttends`); the leases
they make may lapse and be reaped. `EndingSteps` lists the steps that
can end a lease and `OwnLeaseEnds` says that a report ends its own: with them
`LeasesEndForAReasonHolds` covers the completions that are retried or applied late.

Its second half is the refinement. `LeaseHolding` has four moves: a grant of
leases under tokens that no attempt and no lease uses, with the attempts started
or not; a report, which ends the attempt's own lease or none; leases that end
under their attempts; a worker that stops. `WorkerImplementsHolding` maps
`lease_meta` to `holder` and the active maps to `attempts`. An answered reserve
draws its tokens from `UnusedTokens` and a late one from the wire, so
`WireTokensFresh` is what makes both a grant (`ReserveIsGrant`); an answered
completion is a report because the scripts compare the whole lease record
(`ResolveIsReport`), and everything else that the store does only ends leases
(`KeepsLeases`). `LostLeasesNeverReturn` is what the refinement is for: an attempt
that lost its lease, to a reap, an operator or another worker, never holds one
again, so nothing it reports later is accepted. `LeaseHolding` counts a command
that is applied from the wire as a lease lost; which lease it may be is
what `LeasesEndForAReason` says. `WorkerStepIsScript` says that
whatever the workers do to the keys is a script or the passing of time, which
moves no job (`ClockRenews`): with it the refinement of `JobLifecycle`, the
retry budget and the store's action properties carry over
(`WorkerImplementsLifecycle`, `WorkerBudgetHolds`, `WorkerRerunNotLostHolds`,
`WorkerFailureHistoryKeptHolds`).

**`PollLoopProofs`.** The bound alone says nothing about the next step. `GapInv`
counts charges of one longest poll delay: one for the sleep itself, one for each
handler that returned, each call that failed and each interval that ticked since
the last poll. Time passes only while a charge is being used up, and nothing
starts the sleep over without a new one; that an interval ticks only once is
where the bound is its own hypothesis.

Only model-checked: liveness under fairness and anything with ENABLED, which are
out of the prover's reach (`worker_live`, and `KeepsPolling`, `WorkIsTaken`,
`CatalogHeals`), and that `Power` is exponentiation.

## Not modelled, and why

- Connection setup, reconnection, Sentinel and Cluster; of the connection only
  what callers must live with is modelled (a failed call may be applied, now or
  later, or never).
- Client methods that are one script each: they are the actions of
  `RedloopStore`, and the delegation adds nothing. Id validation, timestamps and
  tokens that answers only copy.
- Codec and parsing: the models keep the values the texts encode.
- More than one purge or prune at a time, and callers' clocks that differ, in
  `RedloopAdmin`.
- Slow store calls in `PollLoop`: there they take no time, so a gap is measured
  in the worker's own waiting.
- `next_schedule_at` of reserve: it only shortens a sleep (`PollLoop` lets the
  sleep be any shorter one).
- That a late heartbeat can shorten a lease (`heartbeat.lua:17`): the models let
  it, and no property forbids it, because the docs do not say what clocks may do.
- `list_namespaces`, the CLI and all tooling: no queue state.

## Plan

Done: the store with its loops, retry policy, lifecycle and proofs; purge, prune
and `list_workers`; queries and batches; the worker runtime; the poll timers with
backoff, missed ticks and the catalog; proofs of their safety properties, of the
retry policy's, and that workers implement `LeaseHolding` and that workers,
callers and administrative calls implement `JobLifecycle`. Left, in this order:

1. Slow calls in `PollLoop`, and the bound on the time from a lost lease to the
   next attempt (lease duration, reap interval, poll delay) of
   `docs/protocol/redloop/timeouts.md`.
2. A model of the two together, `PollLoop` and `RedloopWorker`: today each leaves
   out what the other has.

## Running

    tlc -workers 2 -config store.cfg MCRedloopStore
    tlc -workers 2 -config script_loops.cfg ScriptLoops
    tlc -workers 2 -config client.cfg MCRedloopClient
    tlc -workers 2 -config worker.cfg MCRedloopWorker
    for m in RedloopStoreProofs RedloopHistoryProofs ScriptLoopsProofs \
             RetryPolicyProofs RedloopAdminProofs RedloopClientProofs \
             RedloopWorkerProofs PollLoopProofs; do tlapm $m.tla; done

`PROJECT.json` lists every run with its module and configuration, the mutant
that shows each property able to fail, and for each definition the source lines
it models.
