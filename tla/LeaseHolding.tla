----------------------------- MODULE LeaseHolding -----------------------------
(***************************************************************************)
(* What the lease tokens promise (docs/protocol/redloop/README.md), without  *)
(* loops, calls, clocks or errors: an attempt at a job starts with a lease   *)
(* of its own, a lease that is over never comes back to its attempt, and an  *)
(* attempt that reports ends its own lease or none.  RedloopWorker           *)
(* implements it.                                                           *)
(***************************************************************************)
CONSTANTS Jobs, Workers, Tokens, Nil

VARIABLES
    holder,   \* worker and token of the lease of each job, or Nil
    attempts  \* [worker, job, token] the workers take to be under way

holding == <<holder, attempts>>

Entitled(a) == holder[a.job] = [worker |-> a.worker, token |-> a.token]

Init ==
    /\ holder = [j \in Jobs |-> Nil]
    /\ attempts = {}

End(S) == holder' = [j \in Jobs |-> IF j \in S THEN Nil ELSE holder[j]]

Used == {a.token : a \in attempts} \cup {holder[j].token : j \in {k \in Jobs : holder[k] # Nil}}

\* A worker is granted leases of the jobs of S, each under a token that nobody
\* uses, and starts the attempts, unless it does not hear of them.
Grant(w, S) ==
    /\ \A j \in S : holder[j] = Nil
    /\ \E token \in [S -> Tokens \ Used] :
          /\ \A i, j \in S : token[i] = token[j] => i = j
          /\ holder' = [j \in Jobs |-> IF j \in S THEN [worker |-> w, token |-> token[j]]
                                                  ELSE holder[j]]
          /\ attempts' \in {attempts,
                            attempts \cup {[worker |-> w, job |-> j, token |-> token[j]] : j \in S}}

\* An attempt reports: the lease ends if it still is its own.
Report(a) ==
    /\ IF Entitled(a) THEN End({a.job}) ELSE UNCHANGED holder
    /\ attempts' = attempts \ {a}

\* Leases end under their attempts, which do not notice.
Lose(S) == End(S) /\ UNCHANGED attempts

\* A worker stops: its attempts are over, their leases are not.
Stop(w) ==
    /\ attempts' = {a \in attempts : a.worker # w}
    /\ UNCHANGED holder

Next ==
    \/ \E w \in Workers : Stop(w) \/ \E S \in SUBSET Jobs : Grant(w, S)
    \/ \E a \in attempts : Report(a)
    \/ \E S \in SUBSET Jobs : Lose(S)

Spec == Init /\ [][Next]_holding
=============================================================================
