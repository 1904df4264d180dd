---------------------------- MODULE MCRedloopAdmin ----------------------------
(***************************************************************************)
(* RedloopAdmin on two jobs and one worker, long enough for the worker to    *)
(* become stale while it still holds a lease.  Retries are immediate.        *)
(***************************************************************************)
EXTENDS RedloopAdmin, TLC

CONSTANTS w1, w2, t1, t2

CountOnce == [kind |-> "count", max_retries |-> 1]
MCPolicies == {CountOnce}
MCPolicyOf == [w \in Workers |-> CountOnce]
MCRetryDelay == [p \in MCPolicies |-> [n \in 1 .. MaxFailures |-> 0]]

AdminSymmetry == Permutations(Tokens)
=============================================================================
