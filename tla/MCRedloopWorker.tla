--------------------------- MODULE MCRedloopWorker ---------------------------
(***************************************************************************)
(* RedloopWorker with two workers that compete for two jobs, one of them      *)
(* running two at a time (worker.cfg), and with one worker and one job under *)
(* fairness (worker_live.cfg).                                              *)
(***************************************************************************)
EXTENDS RedloopWorker, TLC

CONSTANTS w1, w2

CountOnce == [kind |-> "count", max_retries |-> 1]
MCPolicies == {CountOnce}
MCPolicyOf == [w \in Workers |-> CountOnce]
MCRetryDelay == [p \in MCPolicies |-> [n \in 1 .. MaxFailures |-> 1]]
\* job 1 is retried until it is given up, job 2 comes back
MCOutcomes == [j \in Jobs |-> IF j = 1 THEN {"error"} ELSE {"reschedule"}]
MCLiveOutcomes == [j \in Jobs |-> OutcomeKinds]
TwoAndOne == [w \in Workers |-> IF w = w1 THEN 2 ELSE 1]
OneAtATime == [w \in Workers |-> 1]

WorkerSymmetry == Permutations(Tokens)
=============================================================================
