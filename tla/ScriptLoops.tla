------------------------------ MODULE ScriptLoops ------------------------------
(***************************************************************************)
(* One call of reserve.lua or of reap_expired.lua, one iteration of its loop *)
(* per step.  RedloopStore takes each loop as one set, Reserved and Reaped,  *)
(* and changes a worker's lease count at once; this module checks that the   *)
(* loops do the same, from every state of the keys the scripts defend        *)
(* themselves against: scheduled occurrences of jobs that are also ready or  *)
(* leased (api.md:214-216), and lease counts a prune has dropped (module     *)
(* RedloopAdmin).                                                           *)
(***************************************************************************)
EXTENDS Integers, Sequences, FiniteSets

CONSTANTS Jobs, Workers, Times, LeaseDuration,
          Capacities,   \* of a reserve
          ReapLimits,   \* of a reap
          Nil

ASSUME LoopAssumption ==
    /\ Jobs \subseteq Nat /\ IsFiniteSet(Jobs)
    /\ Times \subseteq Nat /\ LeaseDuration \in Nat
    /\ Capacities \subseteq Nat /\ ReapLimits \subseteq Nat
    /\ Nil \notin Nat

VARIABLES
    ready, scheduled, leased, lease_meta, workers_leases,
    call,       \* the script and its arguments
    granted,    \* jobs a reserve has leased so far, in order
    reaped,     \* leases a reap has ended so far
    start,      \* the keys as the script found them
    running

keys == <<ready, scheduled, leased, lease_meta, workers_leases>>
loopVars == <<keys, call, granted, reaped, start, running>>

In(z, j) == z[j] # Nil
Members(z) == {j \in Jobs : In(z, j)}

\* Mutant: ZREVRANGE.
First_Highest(z, S) ==
    CHOOSE j \in S : \A k \in S \ {j} : z[j] > z[k] \/ (z[j] = z[k] /\ j > k)

\* the member ZRANGE 0 0 or ZRANGEBYSCORE ... LIMIT 0 1 answers with, from the
\* members S of z: lowest score, then lowest member
First(z, S) ==
    CHOOSE j \in S : \A k \in S \ {j} : z[j] < z[k] \/ (z[j] = z[k] /\ j < k)

Due(z) == {j \in Members(z) : z[j] <= call.now}

-----------------------------------------------------------------------------
\* reserve.lua

\* Mutant: a job leased already is not taken for a duplicate.
AfterDrops_ReadyOnly ==
    [j \in Jobs |-> IF j \in Due(scheduled) /\ In(ready, j) THEN Nil ELSE scheduled[j]]

\* the inner loop: duplicates are dropped while they are at the head
AfterDrops ==
    LET duplicates == {j \in Due(scheduled) : In(ready, j) \/ In(leased, j)}
        dropped == {d \in duplicates :
                       \A j \in Due(scheduled) \ duplicates :
                           scheduled[d] < scheduled[j] \/ (scheduled[d] = scheduled[j] /\ d < j)}
    IN  [j \in Jobs |-> IF j \in dropped THEN Nil ELSE scheduled[j]]

\* Mutant: the index into the tokens does not advance.
Grant_OneToken(j) ==
    IF Len(granted) < call.tokens
    THEN /\ leased' = [leased EXCEPT ![j] = call.now + LeaseDuration]
         /\ lease_meta' = [lease_meta EXCEPT ![j] = [worker |-> call.worker, token |-> 1]]
         /\ workers_leases' = [workers_leases EXCEPT ![call.worker] = @ + 1]
         /\ granted' = Append(granted, j)
         /\ UNCHANGED running
    ELSE running' = FALSE /\ UNCHANGED <<leased, lease_meta, workers_leases, granted>>

\* The job has left its set by now: without a token for it the loop breaks off,
\* and the job is nowhere.
Grant(j) ==
    IF Len(granted) < call.tokens
    THEN /\ leased' = [leased EXCEPT ![j] = call.now + LeaseDuration]
         /\ lease_meta' = [lease_meta EXCEPT ![j] =
                             [worker |-> call.worker, token |-> Len(granted) + 1]]
         /\ workers_leases' = [workers_leases EXCEPT ![call.worker] = @ + 1]
         /\ granted' = Append(granted, j)
         /\ UNCHANGED running
    ELSE running' = FALSE /\ UNCHANGED <<leased, lease_meta, workers_leases, granted>>

\* the heads of the two sets compared: ready wins a tie, and when nothing is due
ReadyFirst(r, due, sched) == \A s \in due : ready[r] <= sched[s]

\* Mutant: one empty set ends the loop.
Exhausted_Either(due) == Members(ready) = {} \/ due = {}

Exhausted(due) == Members(ready) = {} /\ due = {}

GrantNext ==
    LET sched == AfterDrops
        due == Due(sched)
        r == First(ready, Members(ready))
        s == First(sched, due)
    IN
    /\ running /\ call.script = "reserve" /\ Len(granted) < call.bound
    /\ \/ /\ Members(ready) # {}
          /\ ReadyFirst(r, due, sched)
          /\ ready' = [ready EXCEPT ![r] = Nil]
          /\ scheduled' = sched
          /\ Grant(r)
       \/ /\ due # {}
          /\ Members(ready) # {} => ~ReadyFirst(r, due, sched)
          /\ scheduled' = [sched EXCEPT ![s] = Nil]
          /\ Grant(s)
          /\ UNCHANGED ready
       \/ /\ Exhausted(due)
          /\ running' = FALSE
          /\ scheduled' = sched
          /\ UNCHANGED <<ready, leased, lease_meta, workers_leases, granted>>
    /\ UNCHANGED <<call, reaped, start>>

-----------------------------------------------------------------------------
\* reap_expired.lua

\* Mutant: a lease that expires now is not expired yet.
Expired_Strictly == {j \in Jobs : In(leased, j) /\ leased[j] < call.now}

Expired == {j \in Jobs : In(leased, j) /\ leased[j] <= call.now}

\* Mutant: the HDEL is missing.
Decremented_Unfloored(n) == n - 1

\* HINCRBY -1, then HDEL when the result is not positive
Decremented(n) == IF n <= 1 THEN 0 ELSE n - 1

ReapNext ==
    LET j == First(leased, Expired) IN
    /\ running /\ call.script = "reap_expired" /\ reaped < call.bound /\ Expired # {}
    /\ leased' = [leased EXCEPT ![j] = Nil]
    /\ lease_meta' = [lease_meta EXCEPT ![j] = Nil]
    /\ ready' = [ready EXCEPT ![j] = call.now]
    /\ workers_leases' =
          IF lease_meta[j] = Nil THEN workers_leases
          ELSE [workers_leases EXCEPT ![lease_meta[j].worker] = Decremented(@)]
    /\ reaped' = reaped + 1
    /\ UNCHANGED <<scheduled, call, granted, start, running>>

-----------------------------------------------------------------------------

Return ==
    /\ running
    /\ \/ call.script = "reserve" /\ Len(granted) = call.bound
       \/ call.script = "reap_expired" /\ (reaped = call.bound \/ Expired = {})
    /\ running' = FALSE
    /\ UNCHANGED <<keys, call, granted, reaped, start>>

Placements == [Jobs -> Times \cup {Nil}]

\* Mutant: one token too few.
Drawn_OneShort(capacity) == capacity - 1

\* the tokens a caller of reserve draws
Drawn(capacity) == capacity

\* a reserve finds any placement in which a job is not both ready and leased;
\* whose leases they are makes no difference to it
InitReserve ==
    /\ \E w \in Workers, now \in Times, capacity \in Capacities :
          /\ call = [script |-> "reserve", worker |-> w, now |-> now, bound |-> capacity,
                     tokens |-> Drawn(capacity)]
          /\ lease_meta = [j \in Jobs |-> IF In(leased, j) THEN [worker |-> w, token |-> 0]
                                                         ELSE Nil]
    /\ ready \in Placements
    /\ scheduled \in Placements
    /\ \A j \in Jobs : ~(In(ready, j) /\ In(leased, j))
    /\ workers_leases = [w \in Workers |-> 0]

\* a reap finds leases of any workers, and counts that need not agree with them
InitReap ==
    /\ \E now \in Times, limit \in ReapLimits :
          call = [script |-> "reap_expired", now |-> now, bound |-> limit]
    /\ \E holder \in [Jobs -> Workers] :
          lease_meta = [j \in Jobs |-> IF In(leased, j) THEN [worker |-> holder[j], token |-> j]
                                                       ELSE Nil]
    /\ ready = [j \in Jobs |-> Nil]
    /\ scheduled = [j \in Jobs |-> Nil]
    /\ workers_leases \in [Workers -> 0 .. Cardinality(Jobs)]

Init ==
    /\ leased \in Placements
    /\ InitReserve \/ InitReap
    /\ granted = <<>>
    /\ reaped = 0
    /\ start = [ready |-> ready, scheduled |-> scheduled, leased |-> leased,
                lease_meta |-> lease_meta, workers_leases |-> workers_leases]
    /\ running = TRUE

Next == GrantNext \/ ReapNext \/ Return

Spec == Init /\ [][Next]_loopVars

-----------------------------------------------------------------------------
\* Properties

\* what RedloopStore does to the keys the script found, once scheduled
\* occurrences of current runs are disregarded
Disregarded ==
    [j \in Jobs |-> IF In(start.ready, j) \/ In(start.leased, j) THEN Nil ELSE start.scheduled[j]]

Store == INSTANCE RedloopStore WITH
    ready <- start.ready, scheduled <- Disregarded, leased <- start.leased,
    lease_meta <- start.lease_meta, workers_leases <- start.workers_leases,
    failed <- [j \in Jobs |-> Nil], failures <- [j \in Jobs |-> 0], rerun <- {},
    last_seen <- <<>>, workers_config <- {}, cfg <- Nil, Tokens <- Jobs,
    Policies <- {}, PolicyOf <- <<>>, RetryDelay <- <<>>, MaxFailures <- 1

Granted(n) == {granted[i] : i \in 1 .. n}
Reserving == call.script = "reserve"

\* The loop leases the earliest due jobs in activation order, ready before
\* scheduled on a tie (api.md:209-212): after n grants exactly the n that come
\* first, and at the end as many as there was capacity for.  None is skipped
\* behind a duplicate, none is taken twice or out of turn.
GrantsTheEarliest ==
    Reserving =>
        /\ \A n \in 1 .. Len(granted) : Granted(n) = Store!Reserved(call.now, n)
        /\ ~running => Granted(Len(granted)) = Store!Reserved(call.now, call.bound)

\* The loop takes every granted job out of the set it found it in and touches no
\* other ready job, scheduled job or lease, so a call that ends early loses
\* nothing, the caller having drawn a token for each; a call with capacity left
\* over leaves nothing due behind, duplicates included: no second run of a
\* granted job stays scheduled.
NothingLost ==
    Reserving =>
        /\ \A j \in Jobs :
              /\ In(start.ready, j) => (In(ready, j) <=> j \notin Granted(Len(granted)))
              /\ In(Disregarded, j) => (In(scheduled, j) <=> j \notin Granted(Len(granted)))
              /\ In(start.leased, j) => leased[j] = start.leased[j]
        /\ ~running /\ Len(granted) < call.bound => Members(ready) = {} /\ Due(scheduled) = {}

\* What Reserve of RedloopStore writes at once for a set of jobs, the loop has
\* written for them one by one, wherever it stops: each lease has the call's
\* deadline and a token of its own, no other lease is touched, and the worker's
\* count is up by the number of leases, not of turns.
LeasesAsGranted ==
    Reserving =>
        LET S == Granted(Len(granted)) IN
        /\ \A i \in 1 .. Len(granted) :
              /\ leased[granted[i]] = call.now + LeaseDuration
              /\ lease_meta[granted[i]] = [worker |-> call.worker, token |-> i]
        /\ \A j \in Jobs \ S : leased[j] = start.leased[j] /\ lease_meta[j] = start.lease_meta[j]
        /\ workers_leases =
              [start.workers_leases EXCEPT ![call.worker] = @ + Cardinality(S)]

\* When the reap loop ends it has ended exactly the `limit` leases that expired
\* first, in `leased`, `lease_meta` and `ready` alike: no expired lease is passed
\* over for a younger one.  Repeating "decrement, delete when not positive" was
\* one subtraction that stops at zero, whatever the count was: a count a prune
\* has dropped never goes negative.
ReapsTheEarliest ==
    ~Reserving /\ ~running =>
        LET S == Store!Reaped(call.now, call.bound) IN
        /\ \A j \in Jobs :
              /\ In(ready, j) <=> j \in S
              /\ In(leased, j) <=> In(start.leased, j) /\ j \notin S
              /\ lease_meta[j] = IF j \in S THEN Nil ELSE start.lease_meta[j]
        /\ \A w \in Workers :
              LET n == Cardinality(S \cap Store!LeasesOf(w)) IN
              workers_leases[w] = IF start.workers_leases[w] <= n THEN 0
                                  ELSE start.workers_leases[w] - n
=============================================================================
