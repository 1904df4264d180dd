---------------------------- MODULE RedloopWorker ----------------------------
(***************************************************************************)
(* The worker runtime (crates/redloop/src/worker) against RedloopStore: its  *)
(* loop, the handlers it spawns, the outcomes it still has to report, and a  *)
(* connection on which a call can fail although its command is applied, then *)
(* or later (redis_store/connection.rs: a timeout is an error either way).   *)
(*                                                                          *)
(* Scores are relative to the clock: every call is made at Now, and as time  *)
(* passes a deadline or a schedule comes down to Now (Lapse, ComeDue).  How  *)
(* long the loop's timers take is left out: at the select, any timer may     *)
(* have fired (module PollLoop has the durations).                           *)
(*                                                                          *)
(* An await that only the loop waits for is one step: nothing in the worker  *)
(* moves until it is answered or fails.  Reserve is the exception: it runs   *)
(* inside the select, and a branch that fires first drops it half-way.       *)
(***************************************************************************)
EXTENDS RedloopStore

CONSTANTS
    Concurrency,  \* WorkerConfig.concurrency of each worker
    Outcomes,     \* what the handler of each job may return
    Faults        \* bound on failed calls, late heartbeats, operator
                  \* interventions and stops, together

OutcomeKinds == {"complete", "reschedule", "fail", "error"}

\* the time of every call, and any time after it
Now == 1
Later == 2

ASSUME WorkerAssumption ==
    /\ Concurrency \in [Workers -> Nat \ {0}]
    /\ Outcomes \in [Jobs -> SUBSET OutcomeKinds]
    /\ Faults \in Nat
    /\ \A w \in Workers : 1 .. Concurrency[w] \subseteq Capacities /\ Concurrency[w] \in ReapLimits
    /\ {Now, Later} \subseteq Times

VARIABLES
    mode,      \* where the loop of each worker stands
    backoff,   \* workers with runtime_backoff_until
    napping,   \* workers with reserve_sleep
    active,    \* attempts in the active map
    muted,     \* those with heartbeat_enabled = false
    running,   \* attempts whose handler has not returned
    finished,  \* [attempt, outcome] waiting in the JoinSet
    pending,   \* [attempt, outcome] in pending_completed
    todo,      \* attempts left in the heartbeat or resolve loop of each worker
    wire,      \* commands nobody waits for that may still be applied
    faults     \* faults left

local == <<mode, backoff, napping, active, muted, running, finished, pending, todo>>
workerVars == <<vars, local, wire, faults>>

Attempts == [worker : Workers, job : Jobs, token : Tokens]
Results == [attempt : Attempts, outcome : OutcomeKinds]

Of(w, attempts) == {a \in attempts : a.worker = w}
ResultsOf(w, results) == {r \in results : r.attempt.worker = w}
AttemptsIn(results) == {r.attempt : r \in results}

\* Mutant: an attempt whose result waits to be reported no longer counts.
Capacity_RunningOnly(w) == Concurrency[w] - Cardinality(Of(w, running))

Capacity(w) == Concurrency[w] - Cardinality(Of(w, active))

\* UUIDs never repeat: a token is drawn once, and no longer free while anybody
\* may still use it
UnusedTokens ==
    FreshTokens \ ({a.token : a \in active}
                   \cup UNION {c.tokens : c \in {d \in wire : d.op = "reserve"}}
                   \cup {c.attempt.token : c \in {d \in wire : d.op \notin {"reserve", "reap"}}})

Goto(w, place) == mode' = [mode EXCEPT ![w] = place]
Spend == faults > 0 /\ faults' = faults - 1

WorkerInit ==
    /\ Init
    /\ mode = [w \in Workers |-> "top"]
    /\ backoff = {} /\ napping = {}
    /\ active = {} /\ muted = {} /\ running = {}
    /\ finished = {} /\ pending = {}
    /\ todo = [w \in Workers |-> {}]
    /\ wire = {}
    /\ faults = Faults

-----------------------------------------------------------------------------
\* The top of the loop: drain_joined_jobs, runtime_backoff_ready, and the start
\* of resolve_pending_completed

Top(w) ==
    LET joined == ResultsOf(w, finished)
        ready_now == w \notin backoff'
    IN
    /\ mode[w] = "top"
    /\ finished' = finished \ joined
    /\ pending' = pending \cup joined
    /\ backoff' \in {backoff, backoff \ {w}}
    /\ todo' = [todo EXCEPT ![w] = IF ready_now THEN AttemptsIn(ResultsOf(w, pending')) ELSE {}]
    /\ Goto(w, IF todo'[w] = {} THEN "select" ELSE "resolve")
    /\ UNCHANGED <<vars, napping, active, muted, running, wire, faults>>

\* the store call resolve_completed makes for an outcome
Resolution(a, outcome) ==
    \/ outcome = "complete" /\ Ack(a.job, a.worker, a.token, Now)
    \/ /\ outcome = "reschedule"
       /\ \E at \in {Now, Later} : CompleteAndReschedule(a.job, a.worker, a.token, at, Now)
    \/ outcome = "fail" /\ FailOrRetry(a.job, a.worker, a.token, "terminal", Now)
    \/ outcome = "error" /\ FailOrRetry(a.job, a.worker, a.token, "retryable", Now)

Applied(a, outcome) ==
    IF Holds(a.job, a.worker, a.token) THEN Resolution(a, outcome) ELSE UNCHANGED vars

NextResolve(w, a) ==
    /\ todo' = [todo EXCEPT ![w] = @ \ {a}]
    /\ Goto(w, IF todo[w] = {a} THEN "select" ELSE "resolve")

\* Ok and LeaseMismatch alike drop the attempt
ResolveAnswered(w) ==
    \E r \in ResultsOf(w, pending) :
        LET a == r.attempt IN
        /\ mode[w] = "resolve" /\ a \in todo[w]
        /\ Applied(a, r.outcome)
        /\ pending' = pending \ {r}
        /\ active' = active \ {a}
        /\ muted' = muted \ {a}
        /\ NextResolve(w, a)
        /\ UNCHANGED <<backoff, napping, running, finished, wire, faults>>

\* Mutants: the result is not put back; the attempt is dropped as well.
ResolveFails_ForgetsResult(w) ==
    \E r \in ResultsOf(w, pending) :
        /\ mode[w] = "resolve" /\ r.attempt \in todo[w]
        /\ Spend
        /\ wire' = wire \cup {[op |-> r.outcome, attempt |-> r.attempt]}
        /\ pending' = pending \ {r}
        /\ backoff' = backoff \cup {w}
        /\ todo' = [todo EXCEPT ![w] = {}]
        /\ Goto(w, "select")
        /\ UNCHANGED <<vars, napping, active, muted, running, finished>>
ResolveFails_DropsAttempt(w) ==
    \E r \in ResultsOf(w, pending) :
        /\ mode[w] = "resolve" /\ r.attempt \in todo[w]
        /\ Spend
        /\ wire' = wire \cup {[op |-> r.outcome, attempt |-> r.attempt]}
        /\ pending' = pending \ {r}
        /\ active' = active \ {r.attempt}
        /\ muted' = muted \ {r.attempt}
        /\ backoff' = backoff \cup {w}
        /\ todo' = [todo EXCEPT ![w] = {}]
        /\ Goto(w, "select")
        /\ UNCHANGED <<vars, napping, running, finished>>

\* a recoverable error: the result goes back to pending, the rest waits
ResolveFails(w) ==
    \E r \in ResultsOf(w, pending) :
        /\ mode[w] = "resolve" /\ r.attempt \in todo[w]
        /\ Spend
        /\ wire' = wire \cup {[op |-> r.outcome, attempt |-> r.attempt]}
        /\ backoff' = backoff \cup {w}
        /\ todo' = [todo EXCEPT ![w] = {}]
        /\ Goto(w, "select")
        /\ UNCHANGED <<vars, napping, active, muted, running, finished, pending>>

-----------------------------------------------------------------------------
\* The branches of the select

Asked(w) == Capacity(w)

CanReserve(w) == mode[w] = "select" /\ Capacity(w) > 0 /\ w \notin napping \cup backoff

\* the reserve under way when another branch fires: its command was sent, or not
\* yet.  Dropping it is ordinary operation and spends no fault.
SentReserves(w) ==
    {c \in [op : {"reserve"}, worker : {w}, tokens : SUBSET UnusedTokens] :
        CanReserve(w) /\ Cardinality(c.tokens) = Asked(w)}

Dropped(w) == {{}} \cup {{c} : c \in SentReserves(w)}

DropReserve(w) == \E dropped \in Dropped(w) : wire' = wire \cup dropped

Joined(w) ==
    /\ mode[w] = "select"
    /\ \E r \in ResultsOf(w, finished) : finished' = finished \ {r} /\ pending' = pending \cup {r}
    /\ DropReserve(w)
    /\ Goto(w, "top")
    /\ UNCHANGED <<vars, backoff, napping, active, muted, running, todo, faults>>

HeartbeatTick(w) ==
    /\ mode[w] = "select" /\ Of(w, active) # {}
    /\ DropReserve(w)
    /\ todo' = [todo EXCEPT ![w] = Of(w, active) \ muted]
    /\ Goto(w, IF todo'[w] = {} THEN "top" ELSE "heartbeat")
    /\ UNCHANGED <<vars, backoff, napping, active, muted, running, finished, pending, faults>>

NextHeartbeat(w, a) ==
    /\ todo' = [todo EXCEPT ![w] = @ \ {a}]
    /\ Goto(w, IF todo[w] = {a} THEN "top" ELSE "heartbeat")

HeartbeatAnswered(w) ==
    \E a \in todo[w] :
        /\ mode[w] = "heartbeat"
        /\ \/ /\ Heartbeat(a.job, a.worker, a.token, Now)
              /\ UNCHANGED muted
           \/ /\ ~Holds(a.job, a.worker, a.token)
              /\ muted' = muted \cup {a}
              /\ UNCHANGED vars
        /\ NextHeartbeat(w, a)
        /\ UNCHANGED <<backoff, napping, active, running, finished, pending, wire, faults>>

\* Mutant: any error disables the heartbeat.
HeartbeatFails_Mutes(w) ==
    \E a \in todo[w] :
        /\ mode[w] = "heartbeat"
        /\ Spend
        /\ wire' = wire \cup {[op |-> "heartbeat", attempt |-> a]}
        /\ muted' = muted \cup {a}
        /\ NextHeartbeat(w, a)
        /\ UNCHANGED <<vars, backoff, napping, active, running, finished, pending>>

\* a recoverable error skips the leases that were still to be extended
HeartbeatFails(w) ==
    \E a \in todo[w] :
        /\ mode[w] = "heartbeat"
        /\ Spend
        /\ wire' = wire \cup {[op |-> "heartbeat", attempt |-> a]}
        /\ backoff' = backoff \cup {w}
        /\ todo' = [todo EXCEPT ![w] = {}]
        /\ Goto(w, "top")
        /\ UNCHANGED <<vars, napping, active, muted, running, finished, pending>>

\* the call succeeds, whether it finds an expired lease or not
Reap(w) == IF Expired(Now) = {} THEN UNCHANGED vars ELSE ReapExpired(Now, Concurrency[w])

ReapTick(w) ==
    /\ mode[w] = "select" /\ w \notin backoff
    /\ DropReserve(w)
    /\ Reap(w)
    /\ Goto(w, "top")
    /\ UNCHANGED <<backoff, napping, active, muted, running, finished, pending, todo, faults>>

ReapFails(w) ==
    /\ mode[w] = "select" /\ w \notin backoff
    /\ Spend
    /\ \E dropped \in Dropped(w) : wire' = wire \cup dropped \cup {[op |-> "reap", worker |-> w]}
    /\ backoff' = backoff \cup {w}
    /\ Goto(w, "top")
    /\ UNCHANGED <<vars, napping, active, muted, running, finished, pending, todo>>

BackoffOver(w) ==
    /\ mode[w] = "select" /\ w \in backoff
    /\ backoff' = backoff \ {w}
    /\ Goto(w, "top")
    /\ UNCHANGED <<vars, napping, active, muted, running, finished, pending, todo, wire, faults>>

NapOver(w) ==
    /\ mode[w] = "select" /\ Capacity(w) > 0 /\ w \in napping
    /\ napping' = napping \ {w}
    /\ Goto(w, "top")
    /\ UNCHANGED <<vars, backoff, active, muted, running, finished, pending, todo, wire, faults>>

\* the ReservedJobs a reserve answers with: the leases it has just granted
Batch(w) ==
    {[worker |-> w, job |-> j, token |-> lease_meta'[j].token] :
        j \in {k \in Jobs : lease_meta[k] = Nil /\ lease_meta'[k] # Nil}}

\* spawn_job for every lease, or the poll delay when there is none
ReserveAnswered(w) ==
    /\ CanReserve(w)
    /\ Reserve(w, Now, Asked(w))
    /\ LET new == Batch(w)
       IN  /\ {a.token : a \in new} \subseteq UnusedTokens
           /\ active' = active \cup new
           /\ running' = running \cup new
           /\ napping' = IF new = {} THEN napping \cup {w} ELSE napping
    /\ Goto(w, "top")
    /\ UNCHANGED <<backoff, muted, finished, pending, todo, wire, faults>>

ReserveFails(w) ==
    /\ Spend
    /\ \E c \in SentReserves(w) : wire' = wire \cup {c}
    /\ napping' = napping \cup {w}
    /\ Goto(w, "top")
    /\ UNCHANGED <<vars, backoff, active, muted, running, finished, pending, todo>>

-----------------------------------------------------------------------------
\* Handlers, the connection, the process, time, and other users of the queue

Returns(a) ==
    /\ a \in running
    /\ running' = running \ {a}
    /\ \E o \in Outcomes[a.job] : finished' = finished \cup {[attempt |-> a, outcome |-> o]}
    /\ UNCHANGED <<vars, mode, backoff, napping, active, muted, pending, todo, wire, faults>>

LateReserve(c) ==
    /\ Reserve(c.worker, Now, Cardinality(c.tokens))
    /\ {a.token : a \in Batch(c.worker)} \subseteq c.tokens

\* a command nobody waits for is applied, or lost with the connection
Delivered(c) ==
    /\ \/ c.op = "reserve" /\ LateReserve(c)
       \/ c.op = "reap" /\ ReapExpired(Now, Concurrency[c.worker])
       \/ c.op = "heartbeat" /\ Heartbeat(c.attempt.job, c.attempt.worker, c.attempt.token, Now)
       \/ c.op \in OutcomeKinds /\ Resolution(c.attempt, c.op)
    /\ wire' = wire \ {c}
    /\ UNCHANGED <<local, faults>>

Lost(c) == wire' = wire \ {c} /\ UNCHANGED <<vars, local, faults>>

\* a crash, cancellation, or an error the loop returns: handlers are aborted, a
\* reserve under way is dropped
Stop(w) ==
    /\ mode[w] # "stopped"
    /\ Spend
    /\ Goto(w, "stopped")
    /\ backoff' = backoff \ {w} /\ napping' = napping \ {w}
    /\ active' = active \ Of(w, active)
    /\ muted' = muted \ Of(w, muted)
    /\ running' = running \ Of(w, running)
    /\ finished' = finished \ ResultsOf(w, finished)
    /\ pending' = pending \ ResultsOf(w, pending)
    /\ todo' = [todo EXCEPT ![w] = {}]
    /\ DropReserve(w)
    /\ UNCHANGED vars

Restart(w) ==
    /\ mode[w] = "stopped"
    /\ Goto(w, "top")
    /\ UNCHANGED <<vars, backoff, napping, active, muted, running, finished, pending, todo, wire, faults>>

Tended(j) == \E a \in active \ muted : a.job = j /\ Holds(j, a.worker, a.token)

Lapsed(j) ==
    /\ In(leased, j) /\ leased[j] > Now
    /\ leased' = ZAdd(leased, j, Now)
    /\ UNCHANGED <<placement, lease_meta, workers_leases, failures, rerun, registry, local, wire>>

\* the deadline of a lease passes: because nobody extends it, or because the
\* worker that does is late
Lapse(j) == ~Tended(j) /\ Lapsed(j) /\ UNCHANGED faults
LateHeartbeat(j) == Tended(j) /\ Lapsed(j) /\ Spend

\* the time of a scheduled job comes
ComeDue(j) ==
    /\ In(scheduled, j) /\ scheduled[j] > Now
    /\ scheduled' = ZAdd(scheduled, j, Now)
    /\ UNCHANGED <<ready, failed, leases, failures, rerun, registry, local, wire, faults>>

Requested(j) == EnqueueImmediate(j, Now) /\ UNCHANGED <<local, wire, faults>>

Intervention(j) == (ForceAck(j, Now) \/ ForceFail(j, Now)) /\ Spend /\ UNCHANGED <<local, wire>>

-----------------------------------------------------------------------------

LoopStep(w) ==
    \/ Top(w)
    \/ ResolveAnswered(w) \/ ResolveFails(w)
    \/ Joined(w)
    \/ HeartbeatTick(w) \/ HeartbeatAnswered(w) \/ HeartbeatFails(w)
    \/ ReapTick(w) \/ ReapFails(w)
    \/ BackoffOver(w) \/ NapOver(w)
    \/ ReserveAnswered(w) \/ ReserveFails(w)

WorkerNext ==
    \/ \E w \in Workers : LoopStep(w) \/ Stop(w) \/ Restart(w)
    \/ \E a \in running : Returns(a)
    \/ \E c \in wire : Delivered(c) \/ Lost(c)
    \/ \E j \in Jobs : Lapse(j) \/ LateHeartbeat(j) \/ ComeDue(j) \/ Requested(j) \/ Intervention(j)

\* Each straight-line step of the loop is taken; of the select, joins, reap ticks
\* and the end of the backoff fire when they are ready again and again, their
\* branches coming before reserve.  Nothing is assumed of reserve and its sleep,
\* which ticks can starve (module PollLoop).  Handlers return, processes are
\* restarted, and time passes.
LoopFairness(w) ==
    /\ WF_workerVars(Top(w))
    /\ WF_workerVars(ResolveAnswered(w))
    /\ WF_workerVars(HeartbeatAnswered(w))
    /\ WF_workerVars(Restart(w))
    /\ SF_workerVars(Joined(w))
    /\ SF_workerVars(ReapTick(w))
    /\ SF_workerVars(BackoffOver(w))

Fairness ==
    /\ \A w \in Workers : LoopFairness(w)
    /\ \A a \in Attempts : WF_workerVars(Returns(a))
    /\ \A j \in Jobs : WF_workerVars(Lapse(j)) /\ WF_workerVars(ComeDue(j))
    /\ WF_workerVars(\E c \in wire : Delivered(c) \/ Lost(c))

WorkerSpec == WorkerInit /\ [][WorkerNext]_workerVars
FairWorkerSpec == WorkerSpec /\ Fairness

-----------------------------------------------------------------------------
\* Properties

WorkerTypeOK ==
    /\ TypeOK
    /\ mode \in [Workers -> {"top", "resolve", "select", "heartbeat", "stopped"}]
    /\ backoff \subseteq Workers /\ napping \subseteq Workers
    /\ active \subseteq Attempts /\ muted \subseteq active
    /\ running \subseteq Attempts
    /\ finished \subseteq Results /\ pending \subseteq Results
    /\ todo \in [Workers -> SUBSET Attempts]
    /\ faults \in 0 .. Faults

\* A worker never has more attempts than its concurrency, whatever it was
\* told, or missed, about its earlier ones (README.md:204).
CapacityRespected == \A w \in Workers : Cardinality(Of(w, active)) <= Concurrency[w]

\* Every attempt is in exactly one place: its handler runs, or its result
\* waits to be joined, or to be reported.  An attempt in none would take up
\* capacity and heartbeat its lease for ever; one in two would be reported
\* twice.
AttemptsAccounted ==
    /\ active = running \cup AttemptsIn(finished) \cup AttemptsIn(pending)
    /\ Cardinality(active)
         = Cardinality(running) + Cardinality(finished) + Cardinality(pending)

\* The heartbeat of an attempt is switched off only when its lease is lost:
\* no error on the way lets a lease lapse under its handler.
MutedMeansLost == \A a \in muted : ~Holds(a.job, a.worker, a.token)

\* As long as no call has failed, no heartbeat was late and nobody stopped or
\* intervened, an attempt under way holds its lease, and its job is not handled
\* a second time: neither the workers' own ticks, nor reserves they drop and
\* that are applied late, nor the reaping of the leases these leave without an
\* attempt, take a lease from a handler.
HealthyRunsAreExclusive ==
    faults = Faults => \A a \in active : Holds(a.job, a.worker, a.token)

\* A worker that is up lets go of an attempt only when its lease is over: an
\* outcome the store may not have seen is never given up.
ReleasedMeansOver ==
    [][\A a \in active \ active' :
          mode[a.worker]' = "stopped" \/ ~Holds(a.job, a.worker, a.token)']_workerVars

\* Every result of a handler is eventually reported, or its lease found lost,
\* and its capacity given back, unless the worker stops first.
ResultsAreReported ==
    \A a \in Attempts : a \in AttemptsIn(finished) ~> a \notin active

\* Every lease ends: also one that a dropped reserve or a stopped worker left
\* behind.
EveryLeaseEnds ==
    \A a \in Attempts : Holds(a.job, a.worker, a.token) ~> ~Holds(a.job, a.worker, a.token)

\* Workers and store together keep what the tokens promise: an attempt starts
\* with a lease nobody had before, its report never ends the lease of another,
\* late as it may be (docs/protocol/redloop/README.md:263), and it never gets
\* back a lease it lost.  A command that is applied from the wire counts there
\* as a lease lost; LeasesEndForAReason says which one it may end.
Holding == INSTANCE LeaseHolding WITH holder <- lease_meta, attempts <- active

ImplementsHolding == Holding!Spec

Ended(j) == lease_meta[j] # Nil /\ lease_meta'[j] # lease_meta[j]

\* the attempts whose outcome the step reports, now or from the wire
Reporting ==
    AttemptsIn(pending \ pending')
        \cup {c.attempt : c \in {d \in wire \ wire' : d.op \in OutcomeKinds}}

\* A lease ends because it has expired and is reaped, or because its own
\* attempt reports, or by an operator: a completion whose answer was lost, sent
\* again or applied late, ends no lease that its job was given meanwhile, to
\* the same worker or to another.
LeasesEndForAReason ==
    [][\A j \in Jobs : Ended(j) =>
          \/ leased[j] <= Now /\ In(ready, j)'
          \/ faults' < faults
          \/ \E a \in Reporting : a.job = j /\ Holding!Entitled(a)]_workerVars
=============================================================================
