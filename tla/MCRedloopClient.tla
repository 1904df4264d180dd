--------------------------- MODULE MCRedloopClient ---------------------------
(***************************************************************************)
(* RedloopClient on two jobs and one worker that retries once, immediately.  *)
(* Requests are made at two times and schedule jobs for the later one, so    *)
(* that a scheduled job is due for one `now` and not for the other.          *)
(***************************************************************************)
EXTENDS RedloopClient

CONSTANT w1

Once == [kind |-> "count", max_retries |-> 1]
MCPolicies == {Once}
MCPolicyOf == [w \in Workers |-> Once]
MCRetryDelay == [p \in MCPolicies |-> [n \in 1 .. MaxFailures |-> 0]]

Immediate(j) == [job_id |-> j, schedule_at |-> Nil, allow_existing_current_run |-> TRUE]
At(j, at, mode) == [job_id |-> j, schedule_at |-> at, replace_mode |-> mode,
                    allow_existing_current_run |-> FALSE]

\* no item, both kinds of items in both orders, and the same job twice
MCBatches == {<<>>, <<Immediate(1), At(2, 2, "earlier")>>, <<At(1, 2, "replace"), Immediate(1)>>}
=============================================================================
