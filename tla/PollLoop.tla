------------------------------- MODULE PollLoop -------------------------------
(***************************************************************************)
(* The timers of the worker loop (worker/run.rs): how long it can take until *)
(* a worker with spare capacity polls again.  The select is biased, heartbeat *)
(* and reap before reserve, and every iteration starts the reserve sleep     *)
(* anew at its full length, so a tick that fires while the worker sleeps     *)
(* starts the sleep over.  A failed heartbeat, reap or completion holds the  *)
(* loop back for poll_interval_min (runtime_backoff_until).  An interval     *)
(* that nobody polls owes its missed ticks, and they fire in a burst.        *)
(*                                                                          *)
(* Time is discrete and store calls take none of it: a slower store only     *)
(* makes the gaps longer.  A branch that is ready fires before time passes.  *)
(***************************************************************************)
EXTENDS Integers

CONSTANTS
    Concurrency, PollMin, PollMax,     \* WorkerConfig
    ReapInterval, HeartbeatInterval,   \* WorkerConfig
    MaxIdle,                           \* where `idle` stops counting
    MaxFailed,                         \* where `failed` stops counting
    MaxMissed                          \* missed ticks an interval owes at most

\* what WorkerConfig::validate demands of these fields
ValidConfig ==
    /\ {Concurrency, PollMin, PollMax, ReapInterval, HeartbeatInterval} \subseteq Nat \ {0}
    /\ PollMin <= PollMax

ASSUME ConfigAssumption == ValidConfig /\ {MaxIdle, MaxFailed, MaxMissed} \subseteq Nat \ {0}

VARIABLES
    running,              \* handlers under way
    done,                 \* results in pending_completed
    work,                 \* is a job ready?
    listed,               \* is the namespace in the catalog?
    poll_delay,
    nap, nap_left,        \* reserve_sleep, 0 for none, and what is left of it
    advance,              \* does the end of the nap advance the delay?
    backing, backoff_left, \* runtime_backoff_until: set? and how far away
    reap_in, reaps,       \* reap_tick: time to its next tick, ticks to fire
    beat_in, beats,       \* heartbeat_tick
    idle,                 \* time with spare capacity since the last poll
    failed                \* failed heartbeats, reaps and completions since then

jobs == <<running, done, work, listed>>
sleep == <<poll_delay, nap, nap_left, advance>>
backoff == <<backing, backoff_left>>
ticks == <<reap_in, reaps, beat_in, beats>>
loopVars == <<jobs, sleep, backoff, ticks, idle, failed>>

\* Mutant: no cap.
Doubled_Uncapped(d) == 2 * d

\* next_poll_delay
Doubled(d) == IF 2 * d <= PollMax THEN 2 * d ELSE PollMax

Capped(n, max) == IF n < max THEN n ELSE max

active == running + done
HasCapacity == active < Concurrency

\* what comes before what: the completions at the top of the loop, then the
\* branches of the select in their order
ResolveReady == done > 0 /\ ~backing
BeatReady == active > 0 /\ beats > 0
ReapReady == reaps > 0 /\ ~backing
BackoffReady == backing /\ backoff_left = 0

\* Mutant: no polling beside a job under way.
ReserveReady_WhenIdle == active = 0 /\ nap = 0 /\ ~backing

ReserveReady == HasCapacity /\ nap = 0 /\ ~backing
NapReady == HasCapacity /\ nap > 0 /\ nap_left = 0

AtBeat == ~ResolveReady /\ BeatReady
AtReap == ~ResolveReady /\ ~BeatReady /\ ReapReady
AtBackoff == ~ResolveReady /\ ~BeatReady /\ ~ReapReady /\ BackoffReady
AtReserve == ~ResolveReady /\ ~BeatReady /\ ~ReapReady /\ ~BackoffReady /\ ReserveReady
AtNap == ~ResolveReady /\ ~BeatReady /\ ~ReapReady /\ ~BackoffReady /\ ~ReserveReady /\ NapReady

\* a nap that the next iteration starts anew
NapRestarts == nap_left' = nap /\ UNCHANGED <<poll_delay, nap, advance>>

BacksOff ==
    /\ backing' = TRUE /\ backoff_left' = PollMin
    /\ failed' = Capped(failed + 1, MaxFailed)

\* the first tick of an interval is immediate
Init ==
    /\ running = 0 /\ done = 0 /\ work \in BOOLEAN /\ listed = FALSE
    /\ poll_delay = PollMin
    /\ nap = 0 /\ nap_left = 0 /\ advance = FALSE
    /\ backing = FALSE /\ backoff_left = 0
    /\ reap_in = ReapInterval /\ reaps = 1
    /\ beat_in = HeartbeatInterval /\ beats = 1
    /\ idle = 0 /\ failed = 0

\* resolve_pending_completed, one result: it is reported, or it stays
Resolve ==
    /\ ResolveReady
    /\ done' = done - 1
    /\ idle' = IF HasCapacity THEN idle ELSE 0
    /\ UNCHANGED <<running, work, listed, sleep, backoff, ticks, failed>>

ResolveFails ==
    /\ ResolveReady
    /\ BacksOff
    /\ UNCHANGED <<jobs, sleep, ticks, idle>>

Heartbeat ==
    /\ AtBeat
    /\ beats' = beats - 1
    /\ BacksOff \/ UNCHANGED <<backoff, failed>>
    /\ NapRestarts
    /\ UNCHANGED <<jobs, reap_in, reaps, beat_in, idle>>

Reap ==
    /\ AtReap
    /\ reaps' = reaps - 1
    /\ BacksOff \/ UNCHANGED <<backoff, failed>>
    /\ NapRestarts
    /\ UNCHANGED <<jobs, reap_in, beat_in, beats, idle>>

BackoffOver ==
    /\ AtBackoff
    /\ backing' = FALSE /\ backoff_left' = 0
    /\ NapRestarts
    /\ UNCHANGED <<jobs, ticks, idle, failed>>

\* Mutant: only a reserve that finds jobs remembers the namespace.
Remembered_WithJobs == listed' \in IF work THEN {listed, TRUE} ELSE {listed}

\* SADD on the catalog, whose error is only logged; nothing removes a namespace
Remembered == listed' \in {listed, TRUE}

Sleeps(d, adv) == nap' = d /\ nap_left' = d /\ advance' = adv

\* the delay itself, or less when a job is scheduled before (sleep_duration)
SleepDurations == 1 .. poll_delay

Polled == idle' = 0 /\ failed' = 0

ReserveAnswered ==
    /\ AtReserve
    /\ \/ /\ work
          /\ work' = FALSE /\ running' = running + 1
          /\ poll_delay' = PollMin
          /\ UNCHANGED <<nap, nap_left, advance>>
       \/ /\ ~work
          /\ \E d \in SleepDurations : Sleeps(d, TRUE)
          /\ UNCHANGED <<work, running, poll_delay>>
    /\ Remembered
    /\ Polled
    /\ UNCHANGED <<done, backoff, ticks>>

ReserveTimesOut ==
    /\ AtReserve
    /\ Sleeps(poll_delay, FALSE)
    /\ poll_delay' = Doubled(poll_delay)
    /\ Polled
    /\ UNCHANGED <<jobs, backoff, ticks>>

\* Mutant: reserve_sleep is read, not taken.
NapOver_NotTaken ==
    /\ AtNap
    /\ nap_left' = nap
    /\ poll_delay' = IF advance THEN Doubled(poll_delay) ELSE poll_delay
    /\ UNCHANGED <<jobs, nap, advance, backoff, ticks, idle, failed>>

NapOver ==
    /\ AtNap
    /\ nap' = 0 /\ nap_left' = 0 /\ advance' = FALSE
    /\ poll_delay' = IF advance THEN Doubled(poll_delay) ELSE poll_delay
    /\ UNCHANGED <<jobs, backoff, ticks, idle, failed>>

\* a handler returns: the join branch comes first, whatever else is ready
Join ==
    /\ running > 0
    /\ running' = running - 1 /\ done' = done + 1
    /\ NapRestarts
    /\ UNCHANGED <<work, listed, backoff, ticks, idle, failed>>

\* someone enqueues a job, and remembers the namespace for it
NewWork ==
    /\ ~work /\ work' = TRUE
    /\ Remembered
    /\ UNCHANGED <<running, done, sleep, backoff, ticks, idle, failed>>

\* an interval ticks whether anybody polls it or not
Left(left, interval) == IF left = 1 THEN interval ELSE left - 1
Owed(left, owed) == IF left = 1 THEN Capped(owed + 1, MaxMissed) ELSE owed

TimePasses ==
    /\ ~(ResolveReady \/ BeatReady \/ ReapReady \/ BackoffReady \/ ReserveReady \/ NapReady)
    /\ reap_in' = Left(reap_in, ReapInterval) /\ reaps' = Owed(reap_in, reaps)
    /\ beat_in' = Left(beat_in, HeartbeatInterval) /\ beats' = Owed(beat_in, beats)
    /\ backoff_left' = IF backing THEN backoff_left - 1 ELSE 0
    /\ nap_left' = IF HasCapacity /\ nap_left > 0 THEN nap_left - 1 ELSE nap_left
    /\ idle' = IF HasCapacity THEN Capped(idle + 1, MaxIdle) ELSE idle
    /\ UNCHANGED <<jobs, poll_delay, nap, advance, backing, failed>>

LoopStep ==
    \/ Resolve \/ ResolveFails
    \/ Heartbeat \/ Reap \/ BackoffOver
    \/ ReserveAnswered \/ ReserveTimesOut
    \/ NapOver

Next == LoopStep \/ Join \/ NewWork \/ TimePasses

\* The loop runs and time passes; not every report of a result fails, not every
\* reserve, nor every write to the catalog after it.
Fairness ==
    /\ WF_loopVars(LoopStep \/ TimePasses)
    /\ SF_loopVars(Resolve)
    /\ SF_loopVars(ReserveAnswered /\ listed')

Spec == Init /\ [][Next]_loopVars /\ Fairness

-----------------------------------------------------------------------------
\* Properties

\* A worker with spare capacity polls at the latest Concurrency + 2 longest poll
\* delays after its last poll, and one more for each call that failed meanwhile,
\* when its intervals are no shorter than that: the two ticks, the return of
\* each other job and the end of each backoff can start the sleep over once.  A
\* burst of missed ticks fires at one time and costs no more than one of them.
PollGapBounded ==
    LET gap == (Concurrency + 2 + failed) * PollMax IN
    failed < MaxFailed /\ ReapInterval >= gap /\ HeartbeatInterval >= gap /\ HasCapacity
        => idle <= gap

\* "when a worker has fewer than `concurrency` in-flight jobs, the runtime must
\* poll the reserve function" (api.md:221): it always polls again, although
\* calls fail and completions are reported first.
KeepsPolling == []<>(idle = 0 \/ ~HasCapacity)

\* A ready job is reserved, if the worker has capacity for it again and again.
WorkIsTaken == []<>HasCapacity => (work ~> ~work)

\* The catalog is written on the side, and a write that fails is not repeated by
\* the call it belonged to; a worker that goes on polling lists its namespace
\* all the same, jobs or no jobs (redis-layout.md:43-46).
CatalogHeals == []<>HasCapacity => <>[]listed
=============================================================================
