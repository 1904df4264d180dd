--------------------------- MODULE RetryPolicyProofs ---------------------------
(***************************************************************************)
(* The budget and the delays of RetryPolicy, proved for every policy and any *)
(* number of failures.                                                      *)
(*                                                                          *)
(* The delay loop is a recursive function, and an induction over its turns   *)
(* is an induction over a set of numbers that holds 0 and, with each number, *)
(* the next (Induction).  That the recursion has a solution at all is        *)
(* Repetition; LoopComputes is then what the loop computes, turn by turn.    *)
(***************************************************************************)
EXTENDS RetryPolicy, WellFoundedInduction, TLAPS

\* A set of numbers has a least one.

LEMMA LeastNumber ==
  ASSUME NEW S, S \subseteq Nat, S # {}
  PROVE  \E m \in S : \A k \in S : m <= k
<1>1. PICK m \in S : \A k \in S : ~(<<k, m>> \in OpToRel(<, Nat))
  BY WFMin, NatLessThanWellFounded, Zenon
<1>2. \A k \in S : ~(k < m)
  BY <1>1, Zenon DEF OpToRel
<1>3. QED
  BY <1>2

\* Induction, for a set of numbers.
LEMMA Induction ==
  ASSUME NEW S, 0 \in S, \A k \in Nat : k \in S => k + 1 \in S
  PROVE  Nat \subseteq S
<1> SUFFICES ASSUME Nat \ S # {} PROVE FALSE
  OBVIOUS
<1>1. PICK m \in Nat \ S : \A k \in Nat \ S : m <= k
  BY LeastNumber
<1>2. m # 0 /\ m - 1 \in Nat /\ m - 1 \in S
  BY <1>1
<1>3. QED
  BY <1>1, <1>2

\* f is what n steps s from a compute
Approximates(f, n, a, s) ==
    f \in [0 .. n -> Nat] /\ f[0] = a /\ \A k \in 1 .. n : f[k] = s[f[k - 1]]

\* Any number of steps can be taken.
LEMMA ApproximationsExist ==
  ASSUME NEW a \in Nat, NEW s \in [Nat -> Nat], NEW n \in Nat
  PROVE  \E f : Approximates(f, n, a, s)
<1> DEFINE S == {k \in Nat : \E f : Approximates(f, k, a, s)}
<1>1. 0 \in S
  <2>1. Approximates([k \in 0 .. 0 |-> a], 0, a, s)
    BY DEF Approximates
  <2>2. QED
    BY <2>1
<1>2. ASSUME NEW k \in Nat, k \in S PROVE k + 1 \in S
  <2>1. PICK f : Approximates(f, k, a, s)
    BY <1>2
  <2> DEFINE g == [i \in 0 .. k + 1 |-> IF i = k + 1 THEN s[f[k]] ELSE f[i]]
  <2>2. f[k] \in Nat /\ s[f[k]] \in Nat
    BY <2>1 DEF Approximates
  <2>3. g \in [0 .. k + 1 -> Nat]
    BY <2>1, <2>2 DEF Approximates
  <2>4. g[0] = a
    BY <2>1 DEF Approximates
  <2>5. ASSUME NEW i \in 1 .. k + 1 PROVE g[i] = s[g[i - 1]]
    <3>1. i - 1 \in 0 .. k /\ g[i - 1] = f[i - 1]
      OBVIOUS
    <3>2. CASE i = k + 1
      BY <3>1, <3>2
    <3>3. CASE i # k + 1
      <4>1. i \in 1 .. k /\ g[i] = f[i]
        BY <3>3
      <4>2. QED
        BY <2>1, <3>1, <4>1 DEF Approximates
    <3>4. QED
      BY <3>2, <3>3
  <2>6. Approximates(g, k + 1, a, s)
    BY <2>3, <2>4, <2>5 DEF Approximates
  <2>7. QED
    BY <2>6
<1> HIDE DEF S
<1>3. n \in S
  BY <1>1, <1>2, Induction
<1>4. QED
  BY <1>3 DEF S

\* More steps begin like fewer.
LEMMA ApproximationsAgree ==
  ASSUME NEW a, NEW s, NEW n \in Nat, NEW f, NEW g,
         Approximates(f, n, a, s), Approximates(g, n + 1, a, s)
  PROVE  \A k \in 0 .. n : f[k] = g[k]
<1> DEFINE S == {k \in Nat : k <= n => f[k] = g[k]}
<1>1. 0 \in S
  BY DEF Approximates
<1>2. ASSUME NEW k \in Nat, k \in S PROVE k + 1 \in S
  <2> SUFFICES ASSUME k + 1 <= n PROVE f[k + 1] = g[k + 1]
    OBVIOUS
  <2>1. f[k] = g[k] /\ (k + 1) - 1 = k /\ k + 1 \in 1 .. n /\ k + 1 \in 1 .. n + 1
    BY <1>2
  <2>2. f[k + 1] = s[f[k]] /\ g[k + 1] = s[g[k]]
    BY <2>1 DEF Approximates
  <2>3. QED
    BY <2>1, <2>2
<1> HIDE DEF S
<1>3. Nat \subseteq S
  BY <1>1, <1>2, Induction
<1>4. QED
  BY <1>3 DEF S

\* A step on numbers can be repeated: the recursion a loop stands for has a
\* solution.
LEMMA Repetition ==
  ASSUME NEW a \in Nat, NEW s \in [Nat -> Nat]
  PROVE  \E f \in [Nat -> Nat] : f[0] = a /\ \A k \in Nat : f[k + 1] = s[f[k]]
<1> DEFINE A(n) == CHOOSE f : Approximates(f, n, a, s)
           f == [n \in Nat |-> A(n)[n]]
<1>1. ASSUME NEW n \in Nat PROVE Approximates(A(n), n, a, s)
  BY ApproximationsExist
<1> HIDE DEF A
<1>2. f \in [Nat -> Nat]
  BY <1>1 DEF Approximates
<1>3. f[0] = a
  BY <1>1 DEF Approximates
<1>4. ASSUME NEW k \in Nat PROVE f[k + 1] = s[f[k]]
  <2>1. Approximates(A(k), k, a, s) /\ Approximates(A(k + 1), k + 1, a, s)
    BY <1>1
  <2>2. A(k)[k] = A(k + 1)[k]
    BY <2>1, ApproximationsAgree
  <2>3. A(k + 1)[k + 1] = s[A(k + 1)[k]]
    BY <2>1 DEF Approximates
  <2>4. QED
    BY <2>2, <2>3
<1>5. QED
  BY <1>2, <1>3, <1>4

-----------------------------------------------------------------------------
\* The delays of an exponential backoff

\* d[k] is the delay after k turns of the loop
IsDelay(b, d) ==
    /\ d \in [Nat -> Nat] /\ d[0] = b.initial
    /\ \A k \in Nat : d[k + 1] = Smaller(d[k] * b.multiplier, b.cap)

\* Products, for the provers.
LEMMA ProductType == ASSUME NEW x \in Nat, NEW y \in Nat PROVE x * y \in Nat
OBVIOUS

\* Three factors.
LEMMA ProductAssociates ==
  ASSUME NEW x \in Nat, NEW y \in Nat, NEW z \in Nat
  PROVE  x * (y * z) = (x * y) * z
OBVIOUS

\* A product is no less than its factor.
LEMMA NoLess == ASSUME NEW x \in Nat, NEW m \in Nat \ {0} PROVE x * m >= x
<1>1. x * m = x * (m - 1) + x
  OBVIOUS
<1>2. x * (m - 1) \in Nat
  BY ProductType
<1>3. QED
  BY <1>1, <1>2

\* What the loop of the script computes.
LEMMA LoopComputes ==
  ASSUME NEW b, {b.initial, b.multiplier, b.cap} \subseteq Nat
  PROVE  \E d : IsDelay(b, d) /\ \A n : ExponentialDelay(b, n) = d[n - 1]
<1> DEFINE Recursion(f) ==
        f = [k \in Nat |-> IF k = 0 THEN b.initial ELSE Smaller(f[k - 1] * b.multiplier, b.cap)]
    s == [x \in Nat |-> Smaller(x * b.multiplier, b.cap)]
<1>1. s \in [Nat -> Nat]
  BY ProductType DEF Smaller
<1>2. PICK f \in [Nat -> Nat] : f[0] = b.initial /\ \A k \in Nat : f[k + 1] = s[f[k]]
  BY <1>1, Repetition
<1>3. \A k \in Nat : f[k + 1] = Smaller(f[k] * b.multiplier, b.cap)
  BY <1>2
<1>4. \A k \in Nat \ {0} : k - 1 \in Nat /\ (k - 1) + 1 = k
  OBVIOUS
<1>5. \A k \in Nat \ {0} : f[k] = Smaller(f[k - 1] * b.multiplier, b.cap)
  BY <1>3, <1>4
<1>6. Recursion(f)
  BY <1>2, <1>5
<1> DEFINE d == CHOOSE g : Recursion(g)
<1>7. Recursion(d)
  BY <1>6, Zenon
<1>8. \A n : ExponentialDelay(b, n) = d[n - 1]
  BY DEF ExponentialDelay
<1> HIDE DEF d
<1>9. d[0] = b.initial /\ \A k \in Nat : d[k + 1] = Smaller(d[k] * b.multiplier, b.cap)
  <2>1. \A k \in Nat : d[k] = IF k = 0 THEN b.initial ELSE Smaller(d[k - 1] * b.multiplier, b.cap)
    BY <1>7
  <2>2. \A k \in Nat : k + 1 \in Nat /\ k + 1 # 0 /\ (k + 1) - 1 = k
    OBVIOUS
  <2>3. QED
    BY <2>1, <2>2
<1>10. \A k \in Nat : d[k] \in Nat
  <2> DEFINE S == {k \in Nat : d[k] \in Nat}
  <2>1. 0 \in S
    BY <1>9
  <2>2. ASSUME NEW k \in Nat, k \in S PROVE k + 1 \in S
    BY <1>9, <2>2, ProductType DEF Smaller
  <2> HIDE DEF S
  <2>3. Nat \subseteq S
    BY <2>1, <2>2, Induction
  <2>4. QED
    BY <2>3 DEF S
<1>11. d \in [Nat -> Nat]
  <2>1. d = [k \in Nat |-> d[k]]
    BY <1>7
  <2>2. QED
    BY <1>10, <2>1
<1>12. QED
  BY <1>8, <1>9, <1>11 DEF IsDelay

\* p[k] is m to the power of k
IsPower(m, p) ==
    /\ p \in [Nat -> Nat] /\ p[0] = 1
    /\ \A k \in Nat : p[k + 1] = p[k] * m

\* What the recursive function Power computes.
LEMMA PowerComputes ==
  ASSUME NEW m \in Nat
  PROVE  \E p : IsPower(m, p) /\ \A k : Power(m, k) = p[k]
<1> DEFINE Recursion(f) == f = [k \in Nat |-> IF k = 0 THEN 1 ELSE f[k - 1] * m]
    s == [x \in Nat |-> x * m]
<1>1. s \in [Nat -> Nat]
  BY ProductType
<1> HIDE DEF s
<1>2. PICK f \in [Nat -> Nat] : f[0] = 1 /\ \A k \in Nat : f[k + 1] = s[f[k]]
  <2>1. 1 \in Nat
    OBVIOUS
  <2>2. QED
    BY <1>1, <2>1, Repetition
<1>3. \A k \in Nat : f[k + 1] = f[k] * m
  BY <1>2 DEF s
<1>4. \A k \in Nat \ {0} : k - 1 \in Nat /\ (k - 1) + 1 = k
  OBVIOUS
<1>5. \A k \in Nat \ {0} : f[k] = f[k - 1] * m
  BY <1>3, <1>4
<1>6. Recursion(f)
  BY <1>2, <1>5
<1> DEFINE p == CHOOSE g : Recursion(g)
<1>7. Recursion(p)
  BY <1>6, Zenon
<1>8. \A k : Power(m, k) = p[k]
  BY DEF Power
<1> HIDE DEF p
<1>9. p[0] = 1 /\ \A k \in Nat : p[k + 1] = p[k] * m
  <2>1. \A k \in Nat : p[k] = IF k = 0 THEN 1 ELSE p[k - 1] * m
    BY <1>7
  <2>2. \A k \in Nat : k + 1 \in Nat /\ k + 1 # 0 /\ (k + 1) - 1 = k
    OBVIOUS
  <2>3. QED
    BY <2>1, <2>2
<1>10. \A k \in Nat : p[k] \in Nat
  <2> DEFINE S == {k \in Nat : p[k] \in Nat}
  <2>1. 0 \in S
    BY <1>9
  <2>2. ASSUME NEW k \in Nat, k \in S PROVE k + 1 \in S
    BY <1>9, <2>2, ProductType
  <2> HIDE DEF S
  <2>3. Nat \subseteq S
    BY <2>1, <2>2, Induction
  <2>4. QED
    BY <2>3 DEF S
<1>11. p \in [Nat -> Nat]
  <2>1. p = [k \in Nat |-> p[k]]
    BY <1>7
  <2>2. QED
    BY <1>10, <2>1
<1>12. QED
  BY <1>8, <1>9, <1>11 DEF IsPower

\* A cap applied after every factor is the cap applied once at the end.
LEMMA CapOnce ==
  ASSUME NEW x \in Nat, NEW m \in Nat, NEW cap \in Nat
  PROVE  Smaller(Smaller(x, cap) * m, cap) = Smaller(x * m, cap)
<1>1. CASE x <= cap
  BY <1>1 DEF Smaller
<1>2. CASE x > cap /\ m = 0
  <2>1. x * m = 0 /\ cap * m = 0
    BY <1>2
  <2>2. QED
    BY <1>2, <2>1 DEF Smaller
<1>3. CASE x > cap /\ m # 0
  <2>1. x * m >= x /\ cap * m >= cap
    BY <1>3, NoLess
  <2>2. x * m \in Nat /\ cap * m \in Nat
    BY ProductType
  <2>3. QED
    BY <1>3, <2>1, <2>2 DEF Smaller
<1>4. QED
  BY <1>1, <1>2, <1>3

\* From the second failure on, the delay is initial * multiplier^(n - 1), at
\* most the cap.
LEMMA ClosedForm ==
  ASSUME NEW b, {b.initial, b.multiplier, b.cap} \subseteq Nat, NEW n \in Nat \ {0}
  PROVE  ExponentialDelay(b, n) = IF n = 1 THEN b.initial
                                  ELSE Smaller(b.initial * Power(b.multiplier, n - 1), b.cap)
<1>1. PICK d : IsDelay(b, d) /\ \A k : ExponentialDelay(b, k) = d[k - 1]
  BY LoopComputes
<1>2. PICK p : IsPower(b.multiplier, p) /\ \A k : Power(b.multiplier, k) = p[k]
  BY PowerComputes
<1> DEFINE S == {k \in Nat : d[k + 1] = Smaller(b.initial * p[k + 1], b.cap)}
<1>3. 0 \in S
  <2>1. p[0 + 1] = 1 * b.multiplier /\ d[0 + 1] = Smaller(b.initial * b.multiplier, b.cap)
    BY <1>1, <1>2 DEF IsDelay, IsPower
  <2>2. QED
    BY <2>1
<1>4. ASSUME NEW k \in Nat, k \in S PROVE k + 1 \in S
  <2>1. p[k + 1] \in Nat /\ b.initial * p[k + 1] \in Nat
    BY <1>2, ProductType DEF IsPower
  <2>2. p[(k + 1) + 1] = p[k + 1] * b.multiplier
    BY <1>2 DEF IsPower
  <2>3. b.initial * p[(k + 1) + 1] = (b.initial * p[k + 1]) * b.multiplier
    BY <2>1, <2>2, ProductAssociates
  <2>4. d[(k + 1) + 1] = Smaller(d[k + 1] * b.multiplier, b.cap)
    BY <1>1 DEF IsDelay
  <2>5. Smaller(Smaller(b.initial * p[k + 1], b.cap) * b.multiplier, b.cap)
          = Smaller((b.initial * p[k + 1]) * b.multiplier, b.cap)
    BY <2>1, CapOnce
  <2>6. QED
    BY <1>4, <2>3, <2>4, <2>5
<1> HIDE DEF S
<1>5. \A k \in Nat : d[k + 1] = Smaller(b.initial * p[k + 1], b.cap)
  <2>1. Nat \subseteq S
    BY <1>3, <1>4, Induction
  <2>2. QED
    BY <2>1 DEF S
<1>6. CASE n = 1
  BY <1>1, <1>6 DEF IsDelay
<1>7. CASE n # 1
  <2>1. n - 2 \in Nat /\ (n - 2) + 1 = n - 1
    BY <1>7
  <2>2. d[n - 1] = Smaller(b.initial * p[n - 1], b.cap)
    BY <1>5, <2>1
  <2>3. QED
    BY <1>1, <1>2, <1>7, <2>2
<1>8. QED
  BY <1>6, <1>7

\* Delays never shrink once the first is within the cap.
LEMMA Monotone ==
  ASSUME NEW b, {b.initial, b.multiplier, b.cap} \subseteq Nat,
         b.multiplier >= 1, b.initial <= b.cap, NEW n \in Nat \ {0}
  PROVE  ExponentialDelay(b, n) <= ExponentialDelay(b, n + 1)
<1>1. PICK d : IsDelay(b, d) /\ \A k : ExponentialDelay(b, k) = d[k - 1]
  BY LoopComputes
<1> DEFINE S == {k \in Nat : d[k] <= b.cap}
<1>2. 0 \in S
  BY <1>1 DEF IsDelay
<1>3. ASSUME NEW k \in Nat, k \in S PROVE k + 1 \in S
  <2>1. d[k + 1] = Smaller(d[k] * b.multiplier, b.cap) /\ d[k] * b.multiplier \in Nat
    BY <1>1, ProductType DEF IsDelay
  <2>2. QED
    BY <2>1 DEF Smaller
<1> HIDE DEF S
<1>4. \A k \in Nat : d[k] <= b.cap
  <2>1. Nat \subseteq S
    BY <1>2, <1>3, Induction
  <2>2. QED
    BY <2>1 DEF S
<1>5. n - 1 \in Nat /\ (n - 1) + 1 = n /\ (n + 1) - 1 = n
  OBVIOUS
<1>6. d[n - 1] \in Nat /\ d[n] = Smaller(d[n - 1] * b.multiplier, b.cap) /\ d[n - 1] <= b.cap
  BY <1>1, <1>4, <1>5 DEF IsDelay
<1>7. d[n - 1] * b.multiplier >= d[n - 1] /\ d[n - 1] * b.multiplier \in Nat
  BY <1>6, NoLess, ProductType
<1>8. d[n - 1] <= d[n]
  BY <1>6, <1>7 DEF Smaller
<1>9. QED
  BY <1>1, <1>5, <1>8

\* What RedloopStore takes a delay to be: a number, for every policy and every
\* failure.
THEOREM DelaysAreNumbers ==
  \A p \in PolicyChoices, n \in Nat \ {0} : Delay(p, n) \in Nat
<1> SUFFICES ASSUME NEW p \in PolicyChoices, NEW n \in Nat \ {0} PROVE Delay(p, n) \in Nat
  OBVIOUS
<1> DEFINE b == p.backoff
<1>1. b.kind \in BackoffKinds /\ {b.initial, b.multiplier, b.cap} \subseteq Nat
  BY PolicyChoicesAssumption
<1>2. n - 1 \in Nat
  OBVIOUS
<1>3. ExponentialDelay(b, n) \in Nat
  <2>1. PICK d : IsDelay(b, d) /\ \A k : ExponentialDelay(b, k) = d[k - 1]
    BY <1>1, LoopComputes
  <2>2. QED
    BY <1>2, <2>1 DEF IsDelay
<1>4. QED
  BY <1>1, <1>3 DEF Delay, BackoffKinds

-----------------------------------------------------------------------------
\* The failures of a job

\* the delay is the one the policy gives for the failures so far
RetryInv ==
    /\ policy \in PolicyChoices
    /\ failure_count \in Nat
    /\ outcome.delay = IF outcome.state = "failed" \/ failure_count = 0 THEN 0
                       ELSE Delay(policy, failure_count)

\* RetryInv is inductive.
LEMMA RetryInvInit == Init => RetryInv
BY DEF Init, Outcome, RetryInv

\* A failure is retried, after the policy's delay, or the job is given up.
LEMMA RetryStep ==
  ASSUME RetryInv, [Next]_retryVars
  PROVE  \/ UNCHANGED retryVars
         \/ /\ policy' = policy /\ failure_count' = failure_count + 1
            /\ outcome.state # "failed"
            /\ \/ /\ outcome'.state \in {"ready", "scheduled"}
                  /\ Retried(policy, failure_count + 1)
                  /\ outcome'.delay = Delay(policy, failure_count + 1)
               \/ /\ outcome'.state = "failed" /\ outcome'.delay = 0
                  /\ outcome'.kind = "retryable" => ~Retried(policy, failure_count + 1)
<1> SUFFICES ASSUME NEW kind \in {"retryable", "terminal"}, Fail(kind)
             PROVE  /\ policy' = policy /\ failure_count' = failure_count + 1
                    /\ outcome.state # "failed"
                    /\ \/ /\ outcome'.state \in {"ready", "scheduled"}
                          /\ Retried(policy, failure_count + 1)
                          /\ outcome'.delay = Delay(policy, failure_count + 1)
                       \/ /\ outcome'.state = "failed" /\ outcome'.delay = 0
                          /\ outcome'.kind = "retryable" => ~Retried(policy, failure_count + 1)
  BY DEF Next
<1>1. CASE kind = "retryable" /\ Retried(policy, failure_count + 1)
  BY <1>1 DEF Fail, Retry, Outcome
<1>2. CASE ~(kind = "retryable" /\ Retried(policy, failure_count + 1))
  BY <1>2 DEF Fail, Outcome
<1>3. QED
  BY <1>1, <1>2

\* RetryInv is kept by every failure.
LEMMA RetryInvStep ==
  ASSUME RetryInv, [Next]_retryVars
  PROVE  RetryInv'
BY RetryStep DEF retryVars, RetryInv

\* A job is given up at the failure after its last retry, no earlier and no
\* later, for every policy (should_retry, fail_or_retry.lua:43-48).
THEOREM BudgetExactHolds == Spec => []BudgetExact
<1>1. Init => BudgetExact
  BY PolicyChoicesAssumption DEF Init, Outcome, BudgetExact
<1>2. RetryInv /\ BudgetExact /\ [Next]_retryVars => BudgetExact'
  <2> SUFFICES ASSUME RetryInv, BudgetExact, [Next]_retryVars PROVE BudgetExact'
    OBVIOUS
  <2>1. /\ policy.kind \in {"never", "count", "infinite"} /\ policy.max_retries \in Nat
        /\ failure_count \in Nat
    BY PolicyChoicesAssumption DEF RetryInv
  <2>2. CASE UNCHANGED retryVars
    BY <2>2 DEF retryVars, BudgetExact
  <2>3. CASE ~UNCHANGED retryVars
    BY <2>1, <2>3, RetryStep DEF BudgetExact, Retried
  <2>4. QED
    BY <2>2, <2>3
<1>3. QED
  BY <1>1, <1>2, RetryInvInit, RetryInvStep, PTL DEF Spec

\* The delay of the n-th retry is initial * multiplier^(n - 1), at most the cap,
\* for every backoff: the loop of fail_or_retry.lua:70-73 multiplies neither once
\* too often nor once too seldom.
THEOREM DelayFollowsClosedFormHolds == Spec => []DelayFollowsClosedForm
<1>1. RetryInv => DelayFollowsClosedForm
  <2> SUFFICES ASSUME RetryInv, policy.backoff.kind = "exponential",
                      outcome.state # "failed", failure_count >= 1
               PROVE  outcome.delay =
                        IF failure_count = 1 THEN policy.backoff.initial
                        ELSE Smaller(policy.backoff.initial
                                       * Power(policy.backoff.multiplier, failure_count - 1),
                                     policy.backoff.cap)
    BY DEF DelayFollowsClosedForm
  <2>1. failure_count \in Nat \ {0} /\ outcome.delay = Delay(policy, failure_count)
    BY DEF RetryInv
  <2>2. Delay(policy, failure_count) = ExponentialDelay(policy.backoff, failure_count)
    BY DEF Delay
  <2>3. {policy.backoff.initial, policy.backoff.multiplier, policy.backoff.cap} \subseteq Nat
    BY PolicyChoicesAssumption DEF RetryInv
  <2>4. QED
    BY <2>1, <2>2, <2>3, ClosedForm
<1>2. QED
  BY <1>1, RetryInvInit, RetryInvStep, PTL DEF Spec

\* From one retry to the next the delay never shrinks, if the first is within the
\* cap and the multiplier is not zero.
THEOREM DelaysNeverShrinkHolds == Spec => DelaysNeverShrink
<1> DEFINE b == policy.backoff
    Capped == b.kind = "exponential" /\ b.multiplier >= 1 /\ b.initial <= b.cap
<1>1. RetryInv /\ [Next]_retryVars =>
        [Capped /\ outcome'.state # "failed" => outcome'.delay >= outcome.delay]_retryVars
  <2> SUFFICES ASSUME RetryInv, [Next]_retryVars, Capped, outcome'.state # "failed",
                      ~UNCHANGED retryVars
               PROVE  outcome'.delay >= outcome.delay
    OBVIOUS
  <2>1. /\ failure_count \in Nat /\ outcome.state # "failed"
        /\ outcome'.delay = Delay(policy, failure_count + 1)
    BY RetryStep DEF RetryInv
  <2>2. outcome'.delay \in Nat
    BY <2>1, DelaysAreNumbers DEF RetryInv
  <2>3. CASE failure_count = 0
    BY <2>1, <2>2, <2>3 DEF RetryInv
  <2>4. CASE failure_count # 0
    <3>1. failure_count \in Nat \ {0} /\ outcome.delay = Delay(policy, failure_count)
      BY <2>1, <2>4 DEF RetryInv
    <3>2. {b.initial, b.multiplier, b.cap} \subseteq Nat
      BY PolicyChoicesAssumption DEF RetryInv
    <3>3. ExponentialDelay(b, failure_count) <= ExponentialDelay(b, failure_count + 1)
      BY <3>1, <3>2, Monotone
    <3>4. /\ Delay(policy, failure_count) = ExponentialDelay(b, failure_count)
          /\ Delay(policy, failure_count + 1) = ExponentialDelay(b, failure_count + 1)
      BY DEF Delay
    <3>5. outcome.delay \in Nat
      BY <3>1, DelaysAreNumbers DEF RetryInv
    <3>6. QED
      BY <2>1, <2>2, <3>1, <3>3, <3>4, <3>5
  <2>5. QED
    BY <2>3, <2>4
<1>2. QED
  BY <1>1, RetryInvInit, RetryInvStep, PTL DEF Spec, DelaysNeverShrink
=============================================================================
