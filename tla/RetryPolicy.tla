----------------------------- MODULE RetryPolicy -----------------------------
(***************************************************************************)
(* What fail_or_retry.lua does with a retry policy: whether failure number n *)
(* of a job is retried, and after which delay.  Module RedloopStore takes    *)
(* the delay as the constant RetryDelay; MCRetryPolicy checks it here for    *)
(* every small policy along the failures of one job.                        *)
(***************************************************************************)
EXTENDS Integers

BackoffKinds == {"none", "fixed", "exponential"}

\* RetryPolicy and Backoff of config.rs as failure_args flattens them: a field
\* the variant lacks is 0
Backoff(kind, initial, multiplier, cap) ==
    [kind |-> kind, initial |-> initial, multiplier |-> multiplier, cap |-> cap]
Policy(kind, max_retries, backoff) ==
    [kind |-> kind, max_retries |-> max_retries, backoff |-> backoff]

NoBackoff == Backoff("none", 0, 0, 0)

Smaller(a, b) == IF a <= b THEN a ELSE b

\* Mutants: the loop runs once too often; the product wraps instead of being
\* capped.
ExponentialDelay_OneMore(b, n) ==
    LET delay[k \in Nat] ==
            IF k = 0 THEN b.initial ELSE Smaller(delay[k - 1] * b.multiplier, b.cap)
    IN  delay[n]
ExponentialDelay_Wraps(b, n) ==
    LET delay[k \in Nat] ==
            IF k = 0 THEN b.initial ELSE (delay[k - 1] * b.multiplier) % (b.cap + 1)
    IN  delay[n - 1]

\* the loop of the script: the first delay as configured, then n - 1 times
\* multiplied and capped
ExponentialDelay(b, n) ==
    LET delay[k \in Nat] ==
            IF k = 0 THEN b.initial ELSE Smaller(delay[k - 1] * b.multiplier, b.cap)
    IN  delay[n - 1]

Delay(policy, n) ==
    CASE policy.backoff.kind = "none"        -> 0
      [] policy.backoff.kind = "fixed"       -> policy.backoff.initial
      [] policy.backoff.kind = "exponential" -> ExponentialDelay(policy.backoff, n)

\* Mutant: one retry more than the policy grants.
Retried_OneMore(policy, n) ==
    \/ policy.kind = "infinite"
    \/ policy.kind = "count" /\ n <= policy.max_retries + 1

Retried(policy, n) ==
    \/ policy.kind = "infinite"
    \/ policy.kind = "count" /\ n <= policy.max_retries

-----------------------------------------------------------------------------
\* The failures of one job under one policy: each step is one handler failure,
\* at a time when the job was due.

CONSTANTS
    PolicyChoices,  \* the policies to look at
    MaxCount,       \* bound on the failures looked at
    TicksPerMs,     \* score units per unit of delay (1000 microseconds)
    MaxScore        \* largest score a signed integer of the score's width holds

\* u32 and u64 fields; the enums have no other variants
ASSUME PolicyChoicesAssumption ==
    /\ \A p \in PolicyChoices :
          /\ p.kind \in {"never", "count", "infinite"} /\ p.max_retries \in Nat
          /\ p.backoff.kind \in BackoffKinds
          /\ {p.backoff.initial, p.backoff.multiplier, p.backoff.cap} \subseteq Nat
    /\ {MaxCount, TicksPerMs, MaxScore} \subseteq Nat

VARIABLES policy, failure_count, outcome

retryVars == <<policy, failure_count, outcome>>

Outcome(state, delay, at, kind) == [state |-> state, delay |-> delay, at |-> at, kind |-> kind]

Retry(n, now) ==
    Outcome(IF Delay(policy, n) = 0 THEN "ready" ELSE "scheduled",
            Delay(policy, n), now + Delay(policy, n) * TicksPerMs, "retryable")

Init ==
    /\ policy \in PolicyChoices
    /\ failure_count = 0
    /\ outcome = Outcome("ready", 0, 1, "retryable")

Fail(kind) ==
    LET now == outcome.at + 1
        n == failure_count + 1
    IN  /\ outcome.state # "failed"
        /\ failure_count < MaxCount
        /\ failure_count' = n
        /\ outcome' = IF kind = "retryable" /\ Retried(policy, n) THEN Retry(n, now)
                       ELSE Outcome("failed", 0, now, kind)
        /\ UNCHANGED policy

Next == \E kind \in {"retryable", "terminal"} : Fail(kind)

Spec == Init /\ [][Next]_retryVars

-----------------------------------------------------------------------------
\* Properties

Power(m, k) ==
    LET power[i \in Nat] == IF i = 0 THEN 1 ELSE power[i - 1] * m
    IN  power[k]

\* The n-th delay of an exponential backoff is the closed form of the loop: the
\* first is the initial delay, the others initial * multiplier^(n-1), at most
\* the cap.  A loop bound off by one shifts every retry.
DelayFollowsClosedForm ==
    LET b == policy.backoff
        n == failure_count
    IN  b.kind = "exponential" /\ outcome.state # "failed" /\ n >= 1 =>
            outcome.delay = IF n = 1 THEN b.initial
                            ELSE Smaller(b.initial * Power(b.multiplier, n - 1), b.cap)

\* A job is given up at the failure after its last retry, no earlier and no
\* later, unless the handler made the failure terminal.
BudgetExact ==
    LET budget == IF policy.kind = "count" THEN policy.max_retries ELSE 0 IN
    IF outcome.state # "failed" THEN policy.kind = "infinite" \/ failure_count <= budget
    ELSE outcome.kind = "retryable" => policy.kind # "infinite" /\ failure_count = budget + 1

\* Once the cap has been respected, delays never shrink from one retry to the
\* next (for a multiplier of at least one and an initial delay within the cap).
DelaysNeverShrink ==
    [][LET b == policy.backoff
           capped == b.kind = "exponential" /\ b.multiplier >= 1 /\ b.initial <= b.cap
       IN  capped /\ outcome'.state # "failed" => outcome'.delay >= outcome.delay]_retryVars

\* "All scores are signed 64-bit Unix epoch microseconds"
\* (docs/protocol/redloop/redis-layout.md:131), at the width MaxScore stands for.
ScoresFitTheirWidth == outcome.at <= MaxScore
=============================================================================
