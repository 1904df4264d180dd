---------------------------- MODULE MCRetryPolicy ----------------------------
(***************************************************************************)
(* Every policy over small parameters; and the widest delay the              *)
(* configuration type admits, with the width of a score scaled down.        *)
(***************************************************************************)
EXTENDS RetryPolicy

SmallBackoffs ==
    {NoBackoff} \cup {Backoff("fixed", d, 0, 0) : d \in 0 .. 3}
    \cup {Backoff("exponential", i, m, c) : i \in 0 .. 3, m \in 0 .. 3, c \in 0 .. 6}
SmallPolicies ==
    {Policy("never", 0, NoBackoff)}
    \cup {Policy("count", n, b) : n \in 0 .. 3, b \in SmallBackoffs}
    \cup {Policy("infinite", 0, b) : b \in SmallBackoffs}

\* the recursive function the closed form uses is exponentiation
ASSUME PowerIsExponentiation == \A m \in 0 .. 3, k \in 1 .. 6 : Power(m, k) = m ^ k

\* delay_ms is a u64 and a score an i64 of microseconds: here an unsigned and a
\* signed number of four bits, and two microseconds per millisecond
UnsignedWidth == 15
SignedWidth == 7
WidePolicies == {Policy("infinite", 0, Backoff("fixed", d, 0, 0)) : d \in 0 .. UnsignedWidth}
=============================================================================
