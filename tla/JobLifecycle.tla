----------------------------- MODULE JobLifecycle -----------------------------
(***************************************************************************)
(* What a redloop namespace promises about its jobs, without keys, scores,  *)
(* workers or clocks (docs/protocol/redloop/README.md, api.md): which state  *)
(* a job may pass to from which, and that a rerun requested while a job is   *)
(* leased survives any successful end of the lease.  RedloopStore            *)
(* implements it.                                                           *)
(***************************************************************************)
CONSTANT Jobs

VARIABLES
    state,  \* what get_job would report of each job
    again   \* leased jobs somebody asked to run once more

lifecycle == <<state, again>>

States == {"none", "ready", "scheduled", "leased", "failed"}

Init ==
    /\ state = [j \in Jobs |-> "none"]
    /\ again = {}

Become(j, s) == state' = [state EXCEPT ![j] = s]

\* Somebody asks for a run of a job that is not leased, now or later, or moves
\* the run that is already waiting.
Request(j) ==
    /\ state[j] # "leased"
    /\ \E s \in {"ready", "scheduled"} : Become(j, s)
    /\ UNCHANGED again

\* Somebody asks for a run of a job that is leased.
RequestAgain(j) ==
    /\ state[j] = "leased"
    /\ again' = again \cup {j}
    /\ UNCHANGED state

\* A worker takes some of the waiting jobs.
Start(S) ==
    /\ \A j \in S : state[j] \in {"ready", "scheduled"}
    /\ state' = [j \in Jobs |-> IF j \in S THEN "leased" ELSE state[j]]
    /\ UNCHANGED again

\* A leased job succeeds: it is gone, or waits again; it is not gone when a
\* rerun was requested.
Succeed(j) ==
    /\ state[j] = "leased"
    /\ \E s \in IF j \in again THEN {"ready"} ELSE {"none", "ready", "scheduled"} : Become(j, s)
    /\ again' = again \ {j}

\* A leased job fails: it is retried, now or later, or kept as failed.
Fail(j) ==
    /\ state[j] = "leased"
    /\ \E s \in {"ready", "scheduled", "failed"} : Become(j, s)
    /\ again' = again \ {j}

\* The leases of some jobs are lost: every one of them will run again.
Lose(S) ==
    /\ \A j \in S : state[j] = "leased"
    /\ state' = [j \in Jobs |-> IF j \in S THEN "ready" ELSE state[j]]
    /\ again' = again \ S

\* Somebody cancels runs that lie in the future, or forgets failed jobs.
Discard(S) ==
    /\ \A j \in S : state[j] \in {"scheduled", "failed"}
    /\ state' = [j \in Jobs |-> IF j \in S THEN "none" ELSE state[j]]
    /\ UNCHANGED again

Next ==
    \/ \E j \in Jobs : \/ Request(j) \/ RequestAgain(j) \/ Succeed(j) \/ Fail(j)
    \/ \E S \in SUBSET Jobs : Start(S) \/ Lose(S) \/ Discard(S)

Spec == Init /\ [][Next]_lifecycle
=============================================================================
