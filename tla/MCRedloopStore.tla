---------------------------- MODULE MCRedloopStore ----------------------------
(***************************************************************************)
(* RedloopStore on two jobs and three workers. Two of them agree on one       *)
(* retry, after a delay of one; the third was deployed with another policy:  *)
(* whoever reserves first fixes the namespace's policy.                     *)
(***************************************************************************)
EXTENDS RedloopStore, TLC

CONSTANTS w1, w2, w3

Policy(kind, max) == [kind |-> kind, max_retries |-> max]
CountOnce == Policy("count", 1)
Never == Policy("never", 0)

MCPolicies == {CountOnce, Never}
MCPolicyOf == w1 :> CountOnce @@ w2 :> CountOnce @@ w3 :> Never
MCRetryDelay == [p \in MCPolicies |-> [n \in 1 .. MaxFailures |-> 1]]

\* w1 and w2 are alike, and so are the tokens
StoreSymmetry == Permutations(Tokens) \cup Permutations({w1, w2})
=============================================================================
