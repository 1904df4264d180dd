------------------------- MODULE RedloopWorkerProofs -------------------------
(***************************************************************************)
(* The invariants of RedloopWorker, proved for any workers, concurrency,     *)
(* handlers and number of faults.                                            *)
(*                                                                          *)
(* WorkerInv is their conjunction.  StoreInv comes along unchanged: every    *)
(* step on the store is one of its scripts, and only a reservation makes a   *)
(* lease (WorkerStoreSteps).  The capacity is kept because a reservation     *)
(* takes no more jobs than it is asked to, whatever their order (RankBound). *)
(* That a muted attempt never gets its lease back needs the tokens of the    *)
(* reservations still on the wire to be those of no attempt                  *)
(* (WireTokensFresh).  That healthy runs are exclusive needs the lease of    *)
(* every attempt to be in time as well, or it could be reaped under its      *)
(* handler, and nothing but dropped reserves on the wire (Healthy).          *)
(*                                                                          *)
(* From it follow the two refinements: workers and store are a LeaseHolding  *)
(* (HoldingStep), and whatever they do to the keys is a script or the time   *)
(* that passes (WorkerStepIsScript), so what the store promises it keeps.    *)
(***************************************************************************)
EXTENDS RedloopWorker, RedloopHistoryProofs

-----------------------------------------------------------------------------
\* How many jobs a script takes

\* reserve takes no more jobs than it is asked to.
LEMMA ReservedBounded ==
  ASSUME StoreInv, NEW now \in Nat, NEW capacity \in Nat
  PROVE  /\ IsFiniteSet(Reserved(now, capacity))
         /\ Cardinality(Reserved(now, capacity)) <= capacity
<1> DEFINE D == Due(now)
           Before == [j \in D |-> {k \in D : TakenBefore(k, j)}]
<1>1. D \subseteq Jobs /\ IsFiniteSet(D)
  BY JobsAssumption, FS_Subset DEF Due
<1>2. \A j \in D : j \in Nat /\ ActivationScore(j) \in Nat
  BY <1>1, JobsAssumption DEF Due, ActivationScore, StoreInv, KeysInv, TypeOK, Placement, Scores, In
<1> HIDE DEF D
<1>3. ASSUME NEW a \in D, NEW b \in D, a # b
      PROVE  \/ a \in Before[b] /\ Before[a] \subseteq Before[b]
             \/ b \in Before[a] /\ Before[b] \subseteq Before[a]
  <2>1. TakenBefore(a, b) \/ TakenBefore(b, a)
    BY <1>2, <1>3 DEF TakenBefore
  <2>2. ASSUME NEW x \in D, NEW y \in D, NEW z \in D, TakenBefore(x, y), TakenBefore(y, z)
        PROVE  TakenBefore(x, z)
    BY <1>2, <2>2 DEF TakenBefore
  <2>3. QED
    BY <2>1, <2>2
<1>4. \A a \in D : a \notin Before[a]
  BY <1>2 DEF TakenBefore
<1>5. Reserved(now, capacity) = {j \in D : Cardinality(Before[j]) < capacity}
  BY DEF Reserved, D
<1>6. Before \in [D -> SUBSET D]
  OBVIOUS
<1> HIDE DEF Before
<1>7. Cardinality({j \in D : Cardinality(Before[j]) < capacity}) <= capacity
  BY <1>1, <1>3, <1>4, <1>6, RankBound
<1>8. QED
  BY <1>1, <1>5, <1>7, FS_Subset

-----------------------------------------------------------------------------
\* Types

ReserveCalls == {c \in [op : {"reserve"}, worker : Workers, tokens : SUBSET Tokens] :
                    Cardinality(c.tokens) \in 1 .. Concurrency[c.worker]}
ReapCalls == [op : {"reap"}, worker : Workers]
AttemptCalls == [op : OutcomeKinds \cup {"heartbeat"}, attempt : Attempts]

\* WorkerTypeOK, what may be on the wire, and that an attempt in `todo` is one
\* of the worker's own.
WorkerTypes ==
    /\ WorkerTypeOK
    /\ wire \subseteq ReserveCalls \cup ReapCalls \cup AttemptCalls
    /\ \A w \in Workers : todo[w] \subseteq Of(w, active)
    /\ IsFiniteSet(active)

\* The clock the worker model keeps still.
LEMMA Clock == Now \in Times /\ Later \in Times /\ Now \in Nat /\ Now # Nil
BY WorkerAssumption, NilAssumption DEF Now, Scores

\* No step but a reservation makes a lease.
KeepsLeases ==
    /\ StoreInv'
    /\ \A j \in Jobs : lease_meta'[j] \in {Nil, lease_meta[j]}

\* A reservation by worker w makes leases, with tokens of T.
Grants(w, T) ==
    /\ StoreInv'
    /\ \A j \in Jobs :
          \/ lease_meta'[j] = lease_meta[j]
          \/ /\ lease_meta[j] = Nil
             /\ \E t \in T : lease_meta'[j] = [worker |-> w, token |-> t]

LEMMA EffectsKeepLeases ==
  ASSUME StoreInv, NEW j \in Jobs, Moves(j) \/ AsksAgain(j) \/ Ends(j) \/ Renews
  PROVE  \A k \in Jobs : lease_meta'[k] \in {Nil, lease_meta[k]}
BY DEF Moves, AsksAgain, Ends, Renews, ZRem, StoreInv, KeysInv, TypeOK

LEMMA QuietKeeps == StoreInv /\ UNCHANGED vars => KeepsLeases
BY NextStoreInv DEF KeepsLeases, vars

LEMMA ClientKeeps ==
  ASSUME StoreInv, NEW j \in Jobs, ClientStep(j, Now)
  PROVE  KeepsLeases
BY Clock, ClientStepInv, StoreKeys, ClientEffect, EffectsKeepLeases DEF KeepsLeases

LEMMA HolderKeeps ==
  ASSUME StoreInv, NEW a \in Attempts, HolderStep(a.job, a.worker, a.token, Now)
  PROVE  KeepsLeases
<1>1. a.job \in Jobs /\ a.worker \in Workers /\ a.token \in Tokens
  BY DEF Attempts
<1>2. QED
  BY <1>1, Clock, HolderStepInv, StoreKeys, HolderEffect, EffectsKeepLeases DEF KeepsLeases

LEMMA OperatorKeeps ==
  ASSUME StoreInv, NEW j \in Jobs, OperatorStep(j, Now)
  PROVE  KeepsLeases
BY Clock, OperatorStepInv, StoreKeys, OperatorEffect, EffectsKeepLeases DEF KeepsLeases

LEMMA ReapKeeps ==
  ASSUME StoreInv, NEW w \in Workers, ReapExpired(Now, Concurrency[w])
  PROVE  KeepsLeases
<1>1. Concurrency[w] \in ReapLimits
  BY WorkerAssumption
<1>2. QED
  BY <1>1, Clock, ReapExpiredInv, StoreKeys, ReapEffect DEF KeepsLeases, Expires

\* Time passes for a lease or for a schedule.
LEMMA ClockKeeps ==
  ASSUME StoreInv, NEW j \in Jobs, Lapsed(j) \/ ComeDue(j)
  PROVE  KeepsLeases
<1>1. CASE Lapsed(j)
  <2>1. /\ leased' = [leased EXCEPT ![j] = Now] /\ leased[j] # Nil
        /\ UNCHANGED <<placement, lease_meta, workers_leases, failures, rerun, registry>>
    BY <1>1 DEF Lapsed, ZAdd, In
  <2>2. TypeOK'
    BY <2>1, Clock DEF StoreInv, KeysInv, TypeOK, Placement, Scores, placement, registry
  <2>3. \A k \in Jobs : leased'[k] # Nil <=> leased[k] # Nil
    BY <2>1, Clock DEF StoreInv, KeysInv, TypeOK, Placement
  <2>4. \A k \in Jobs : JobInv(k)'
    BY <2>1, <2>3 DEF StoreInv, KeysInv, JobInv, In, placement, registry
  <2>5. CountsKeep
    BY <2>1, CountsKept
  <2>6. QED
    BY <2>1, <2>2, <2>4, <2>5, CountsStayRight DEF KeepsLeases, KeysInv
<1>2. CASE ComeDue(j)
  <2>1. /\ scheduled' = [scheduled EXCEPT ![j] = Now] /\ scheduled[j] # Nil
        /\ UNCHANGED <<ready, failed, leases, failures, rerun, registry>>
    BY <1>2 DEF ComeDue, ZAdd, In
  <2>2. TypeOK'
    BY <2>1, Clock DEF StoreInv, KeysInv, TypeOK, Placement, Scores, leases, registry
  <2>3. \A k \in Jobs : scheduled'[k] # Nil <=> scheduled[k] # Nil
    BY <2>1, Clock DEF StoreInv, KeysInv, TypeOK, Placement
  <2>4. \A k \in Jobs : JobInv(k)'
    BY <2>1, <2>3 DEF StoreInv, KeysInv, JobInv, In, leases, registry
  <2>5. CountsKeep
    BY <2>1, CountsKept DEF leases
  <2>6. QED
    BY <2>1, <2>2, <2>4, <2>5, CountsStayRight DEF KeepsLeases, KeysInv, leases
<1>3. QED
  BY <1>1, <1>2

\* Reserving for worker w with the tokens of T makes new attempts of w, at most
\* as many as were asked for, none of which had a lease.
LEMMA ReserveGrants ==
  ASSUME StoreInv, NEW w \in Workers, NEW n \in 1 .. Concurrency[w], NEW T \in SUBSET Tokens,
         Reserve(w, Now, n), {a.token : a \in Batch(w)} \subseteq T
  PROVE  /\ Grants(w, T)
         /\ IsFiniteSet(Batch(w)) /\ Cardinality(Batch(w)) <= n
         /\ Batch(w) \subseteq Attempts
         /\ \A a \in Batch(w) : a.worker = w /\ a.token \in T /\ lease_meta[a.job] = Nil
<1>1. n \in Capacities /\ n \in Nat
  BY WorkerAssumption
<1>2. StoreInv' /\ Starts(Reserved(Now, n), w)
  BY <1>1, Clock, ReserveInv, StoreKeys, ReserveEffect
<1> DEFINE S == Reserved(Now, n)
           new == {k \in Jobs : lease_meta[k] = Nil /\ lease_meta'[k] # Nil}
<1>3. PICK token \in TokenAssignments(S) :
         \A j \in S : lease_meta'[j] = [worker |-> w, token |-> token[j]]
  BY <1>2 DEF Starts
<1>4. \A j \in S : token[j] \in Tokens
  BY DEF TokenAssignments, FreshTokens
<1>5. S \subseteq Jobs /\ \A j \in Jobs \ S : lease_meta'[j] = lease_meta[j]
  BY <1>2 DEF Starts
<1>6. \A j \in S : lease_meta[j] = Nil
  BY <1>5, StateIsPlacement, <1>2 DEF Starts, StoreInv, KeysInv, JobInv, CurrentState
<1>7. new \subseteq S
  BY <1>5
<1>8. ASSUME NEW a \in Batch(w)
      PROVE  /\ a \in Attempts /\ a.worker = w /\ a.token \in T /\ a.job \in new
             /\ a = [worker |-> w, job |-> a.job, token |-> lease_meta'[a.job].token]
  <2>1. PICK j \in new : a = [worker |-> w, job |-> j, token |-> lease_meta'[j].token]
    BY DEF Batch
  <2>2. lease_meta'[j].token \in Tokens
    BY <1>3, <1>4, <1>7, <2>1
  <2>3. QED
    BY <2>1, <2>2 DEF Attempts
<1>9. IsFiniteSet(S) /\ Cardinality(S) <= n /\ Cardinality(S) \in Nat
  BY <1>1, Clock, ReservedBounded, FS_CardinalityType
<1> HIDE DEF S
<1>10. IsFiniteSet(Batch(w)) /\ Cardinality(Batch(w)) <= n
  <2>1. IsFiniteSet(new) /\ Cardinality(new) <= n /\ Cardinality(new) \in Nat
    BY <1>1, <1>7, <1>9, FS_Subset, FS_CardinalityType
  <2> DEFINE f == [a \in Batch(w) |-> a.job]
  <2>2. f \in Injection(Batch(w), new)
    <3>1. f \in [Batch(w) -> new]
      BY <1>8
    <3>2. \A a, b \in Batch(w) : f[a] = f[b] => a = b
      BY <1>8
    <3>3. QED
      BY <3>1, <3>2 DEF Injection, IsInjective
  <2> HIDE DEF f, new
  <2>3. IsFiniteSet(Batch(w)) /\ Cardinality(Batch(w)) <= Cardinality(new)
    BY <2>1, <2>2, FS_Injection
  <2>4. QED
    BY <1>1, <2>1, <2>3, FS_CardinalityType
<1>11. Grants(w, T)
  <2>1. ASSUME NEW j \in Jobs, lease_meta'[j] # lease_meta[j]
        PROVE  /\ lease_meta[j] = Nil
               /\ \E t \in T : lease_meta'[j] = [worker |-> w, token |-> t]
    <3>1. j \in S /\ lease_meta[j] = Nil
      BY <1>5, <1>6, <2>1
    <3>2. lease_meta'[j] = [worker |-> w, token |-> token[j]]
      BY <1>3, <3>1
    <3>3. [worker |-> w, job |-> j, token |-> lease_meta'[j].token] \in Batch(w)
      BY <2>1, <3>1 DEF Batch
    <3>4. lease_meta'[j].token \in T
      BY <3>3, <1>8
    <3>5. QED
      BY <3>1, <3>2, <3>4
  <2>2. QED
    BY <1>2, <2>1 DEF Grants
<1>12. QED
  BY <1>8, <1>10, <1>11

\* The kind of a call on the wire says which fields it has.
LEMMA WireKinds ==
  ASSUME WorkerTypes, NEW c \in wire
  PROVE  /\ c.op = "reserve" => /\ c.worker \in Workers /\ c.tokens \in SUBSET Tokens
                                /\ Cardinality(c.tokens) \in 1 .. Concurrency[c.worker]
         /\ c.op = "reap" => c.worker \in Workers
         /\ c.op \in OutcomeKinds \cup {"heartbeat"} => c.attempt \in Attempts
BY DEF WorkerTypes, ReserveCalls, ReapCalls, AttemptCalls, OutcomeKinds

\* Reporting an outcome is a step of the store, if the attempt has its lease.
LEMMA ResolutionStep ==
  ASSUME NEW a \in Attempts, NEW o, Resolution(a, o)
  PROVE  HolderStep(a.job, a.worker, a.token, Now)
BY Clock DEF Resolution, HolderStep

LEMMA AskedBounded ==
  ASSUME WorkerTypes, NEW w \in Workers, CanReserve(w)
  PROVE  /\ Asked(w) \in 1 .. Concurrency[w]
         /\ Asked(w) = Concurrency[w] - Cardinality(Of(w, active))
         /\ Cardinality(Of(w, active)) \in Nat /\ IsFiniteSet(Of(w, active))
<1>1. Of(w, active) \in SUBSET active /\ IsFiniteSet(active)
  BY DEF Of, WorkerTypes
<1>2. IsFiniteSet(Of(w, active)) /\ Cardinality(Of(w, active)) \in Nat
  BY <1>1, FS_Subset, FS_CardinalityType
<1>3. Concurrency[w] \in Nat
  BY WorkerAssumption
<1>4. QED
  BY <1>2, <1>3 DEF Asked, Capacity, CanReserve

\* The only steps of the system that make a lease are a reservation that is
\* answered and one that is applied after its caller gave it up.
LEMMA WorkerStoreSteps ==
  ASSUME StoreInv, WorkerTypes, [WorkerNext]_workerVars
  PROVE  \/ KeepsLeases
         \/ \E w \in Workers : ReserveAnswered(w) /\ Grants(w, UnusedTokens)
         \/ \E c \in wire : Delivered(c) /\ c.op = "reserve" /\ Grants(c.worker, c.tokens)
<1>1. ASSUME UNCHANGED vars PROVE KeepsLeases
  BY <1>1, QuietKeeps
<1>2. ASSUME NEW w \in Workers, ResolveAnswered(w) PROVE KeepsLeases
  <2>1. PICK r \in ResultsOf(w, pending) : Applied(r.attempt, r.outcome)
    BY <1>2 DEF ResolveAnswered
  <2>2. r.attempt \in Attempts
    BY DEF ResultsOf, WorkerTypes, WorkerTypeOK, Results
  <2>3. QED
    BY <1>1, <2>1, <2>2, ResolutionStep, HolderKeeps DEF Applied
<1>3. ASSUME NEW w \in Workers, HeartbeatAnswered(w) PROVE KeepsLeases
  <2>1. PICK a \in todo[w] : Heartbeat(a.job, a.worker, a.token, Now) \/ UNCHANGED vars
    BY <1>3 DEF HeartbeatAnswered
  <2>2. a \in Attempts
    BY DEF WorkerTypes, WorkerTypeOK
  <2>3. QED
    BY <1>1, <2>1, <2>2, HolderKeeps DEF HolderStep
<1>4. ASSUME NEW w \in Workers, ReapTick(w) PROVE KeepsLeases
  BY <1>1, <1>4, ReapKeeps DEF ReapTick, Reap
<1>5. ASSUME NEW w \in Workers, ReserveAnswered(w) PROVE Grants(w, UnusedTokens)
  <2>1. /\ Asked(w) \in 1 .. Concurrency[w] /\ UnusedTokens \in SUBSET Tokens
        /\ Reserve(w, Now, Asked(w)) /\ {a.token : a \in Batch(w)} \subseteq UnusedTokens
    BY <1>5, AskedBounded DEF ReserveAnswered, UnusedTokens, FreshTokens
  <2> HIDE DEF Asked, UnusedTokens
  <2>2. QED
    BY <2>1, ReserveGrants
<1>6. ASSUME NEW c \in wire, Delivered(c)
      PROVE  KeepsLeases \/ (c.op = "reserve" /\ Grants(c.worker, c.tokens))
  <2>1. CASE c.op = "reserve" /\ LateReserve(c)
    <3>1. /\ c.worker \in Workers /\ c.tokens \in SUBSET Tokens
          /\ Cardinality(c.tokens) \in 1 .. Concurrency[c.worker]
      BY <2>1, WireKinds
    <3>2. QED
      BY <2>1, <3>1, ReserveGrants DEF LateReserve
  <2>2. CASE c.op = "reap" /\ ReapExpired(Now, Concurrency[c.worker])
    BY <2>2, WireKinds, ReapKeeps
  <2>3. CASE c.op = "heartbeat" /\ Heartbeat(c.attempt.job, c.attempt.worker, c.attempt.token, Now)
    BY <2>3, WireKinds, HolderKeeps DEF HolderStep
  <2>4. CASE c.op \in OutcomeKinds /\ Resolution(c.attempt, c.op)
    BY <2>4, WireKinds, ResolutionStep, HolderKeeps
  <2>5. QED
    BY <1>6, <2>1, <2>2, <2>3, <2>4 DEF Delivered
<1>7. ASSUME NEW j \in Jobs, Lapse(j) \/ LateHeartbeat(j) \/ ComeDue(j) PROVE KeepsLeases
  BY <1>7, ClockKeeps DEF Lapse, LateHeartbeat
<1>8. ASSUME NEW j \in Jobs, Requested(j) PROVE KeepsLeases
  BY <1>8, ClientKeeps DEF Requested, ClientStep
<1>9. ASSUME NEW j \in Jobs, Intervention(j) PROVE KeepsLeases
  BY <1>9, OperatorKeeps DEF Intervention, OperatorStep
<1>10. ASSUME NEW w \in Workers,
              \/ Top(w) \/ ResolveFails(w) \/ Joined(w) \/ HeartbeatTick(w) \/ HeartbeatFails(w)
              \/ ReapFails(w) \/ BackoffOver(w) \/ NapOver(w) \/ ReserveFails(w)
              \/ Stop(w) \/ Restart(w)
       PROVE  UNCHANGED vars
  BY <1>10 DEF Top, ResolveFails, Joined, HeartbeatTick, HeartbeatFails, ReapFails, BackoffOver,
               NapOver, ReserveFails, Stop, Restart
<1>11. ASSUME NEW a \in running, Returns(a) PROVE UNCHANGED vars
  BY <1>11 DEF Returns
<1>12. ASSUME NEW c \in wire, Lost(c) PROVE UNCHANGED vars
  BY <1>12 DEF Lost
<1>13. CASE UNCHANGED workerVars
  BY <1>1, <1>13 DEF workerVars
<1>14. QED
  BY <1>1, <1>2, <1>3, <1>4, <1>5, <1>6, <1>7, <1>8, <1>9, <1>10, <1>11, <1>12, <1>13
     DEF WorkerNext, LoopStep

-----------------------------------------------------------------------------
\* The wire

WireType == ReserveCalls \cup ReapCalls \cup AttemptCalls

\* A call that fails is left on the wire at the cost of a fault, a reserve that
\* is dropped at none, with tokens nobody uses.
WireGrows ==
    /\ wire' \subseteq WireType
    /\ faults' \in 0 .. faults
    /\ faults' = faults => \A c \in wire' \ wire : c.op = "reserve"
    /\ \A c \in wire' \ wire : c.op = "reserve" => c.tokens \subseteq UnusedTokens

\* The reserve a worker may have under way asks for its free capacity, with
\* tokens nobody uses.
LEMMA SentReservesType ==
  ASSUME WorkerTypes, NEW w \in Workers, NEW c \in SentReserves(w)
  PROVE  c \in ReserveCalls /\ c.op = "reserve" /\ c.tokens \subseteq UnusedTokens
<1>1. /\ c \in [op : {"reserve"}, worker : {w}, tokens : SUBSET UnusedTokens]
      /\ CanReserve(w) /\ Cardinality(c.tokens) = Asked(w)
  BY DEF SentReserves
<1>2. Asked(w) \in 1 .. Concurrency[w] /\ UnusedTokens \in SUBSET Tokens
  BY <1>1, AskedBounded DEF UnusedTokens, FreshTokens
<1> HIDE DEF Asked, UnusedTokens
<1>3. QED
  BY <1>1, <1>2 DEF ReserveCalls

\* Whether it was sent or not, dropping it leaves nothing else on the wire.
LEMMA DroppedType ==
  ASSUME WorkerTypes, NEW w \in Workers, NEW dropped \in Dropped(w)
  PROVE  /\ dropped \subseteq ReserveCalls
         /\ \A c \in dropped : c.op = "reserve" /\ c.tokens \subseteq UnusedTokens
BY SentReservesType DEF Dropped

LEMMA WireSteps ==
  ASSUME WorkerTypes, [WorkerNext]_workerVars
  PROVE  WireGrows
<1>1. wire \subseteq WireType /\ faults \in 0 .. Faults /\ Faults \in Nat
  BY WorkerAssumption DEF WorkerTypes, WorkerTypeOK, WireType
<1>2. ASSUME wire' \subseteq wire, faults' = faults \/ Spend PROVE WireGrows
  BY <1>1, <1>2 DEF WireGrows, Spend
<1>3. ASSUME Spend, NEW c \in ReapCalls \cup AttemptCalls, wire' = wire \cup {c} PROVE WireGrows
  <2>1. c.op # "reserve"
    BY DEF ReapCalls, AttemptCalls, OutcomeKinds
  <2>2. QED
    BY <1>1, <1>3, <2>1 DEF WireGrows, Spend, WireType
<1>4. ASSUME NEW w \in Workers, ResolveFails(w) PROVE WireGrows
  <2>1. PICK r \in pending : Spend /\ wire' = wire \cup {[op |-> r.outcome, attempt |-> r.attempt]}
    BY <1>4 DEF ResolveFails, ResultsOf
  <2>2. [op |-> r.outcome, attempt |-> r.attempt] \in AttemptCalls
    BY DEF WorkerTypes, WorkerTypeOK, Results, AttemptCalls
  <2>3. QED
    BY <1>3, <2>1, <2>2
<1>5. ASSUME NEW w \in Workers, HeartbeatFails(w) PROVE WireGrows
  <2>1. PICK a \in todo[w] : Spend /\ wire' = wire \cup {[op |-> "heartbeat", attempt |-> a]}
    BY <1>5 DEF HeartbeatFails
  <2>2. [op |-> "heartbeat", attempt |-> a] \in AttemptCalls
    BY DEF WorkerTypes, WorkerTypeOK, AttemptCalls
  <2>3. QED
    BY <1>3, <2>1, <2>2
<1>6. ASSUME NEW w \in Workers, ReapFails(w) PROVE WireGrows
  <2>1. PICK dropped \in Dropped(w) :
           Spend /\ wire' = wire \cup dropped \cup {[op |-> "reap", worker |-> w]}
    BY <1>6 DEF ReapFails
  <2>2. [op |-> "reap", worker |-> w] \in ReapCalls /\ [op |-> "reap", worker |-> w].op # "reserve"
    BY DEF ReapCalls
  <2>3. QED
    BY <1>1, <2>1, <2>2, DroppedType DEF WireGrows, Spend, WireType
<1>7. ASSUME NEW w \in Workers, Joined(w) \/ HeartbeatTick(w) \/ ReapTick(w) \/ Stop(w)
      PROVE  WireGrows
  <2>1. PICK dropped \in Dropped(w) : wire' = wire \cup dropped /\ (faults' = faults \/ Spend)
    BY <1>7 DEF Joined, HeartbeatTick, ReapTick, Stop, DropReserve
  <2>2. QED
    BY <1>1, <2>1, DroppedType DEF WireGrows, WireType, Spend
<1>8. ASSUME NEW w \in Workers, ReserveFails(w) PROVE WireGrows
  <2>1. PICK c \in SentReserves(w) : Spend /\ wire' = wire \cup {c}
    BY <1>8 DEF ReserveFails
  <2>2. QED
    BY <1>1, <2>1, SentReservesType DEF WireGrows, Spend, WireType
<1>9. ASSUME NEW w \in Workers,
             \/ Top(w) \/ ResolveAnswered(w) \/ HeartbeatAnswered(w) \/ BackoffOver(w) \/ NapOver(w)
             \/ ReserveAnswered(w) \/ Restart(w)
      PROVE  wire' = wire /\ (faults' = faults \/ Spend)
  BY <1>9 DEF Top, ResolveAnswered, HeartbeatAnswered, BackoffOver, NapOver, ReserveAnswered,
              Restart
<1>10. ASSUME NEW a \in running, Returns(a) PROVE UNCHANGED <<wire, faults>>
  BY <1>10 DEF Returns
<1>11. ASSUME NEW c \in wire, Delivered(c) \/ Lost(c) PROVE wire' \subseteq wire /\ faults' = faults
  BY <1>11 DEF Delivered, Lost
<1>12. ASSUME NEW j \in Jobs,
              Lapse(j) \/ LateHeartbeat(j) \/ ComeDue(j) \/ Requested(j) \/ Intervention(j)
       PROVE  wire' = wire /\ (faults' = faults \/ Spend)
  BY <1>12 DEF Lapse, LateHeartbeat, Lapsed, ComeDue, Requested, Intervention
<1>13. CASE UNCHANGED workerVars
  BY <1>2, <1>13 DEF workerVars
<1>14. QED
  BY <1>2, <1>4, <1>5, <1>6, <1>7, <1>8, <1>9, <1>10, <1>11, <1>12, <1>13 DEF WorkerNext, LoopStep

-----------------------------------------------------------------------------
\* Where the attempts are

\* AttemptsAccounted, by membership: an attempt under way is running or has one
\* result, in one place.
Accounted ==
    /\ active = running \cup AttemptsIn(finished) \cup AttemptsIn(pending)
    /\ \A r \in finished \cup pending : r.attempt \notin running
    /\ \A r, s \in finished \cup pending : r.attempt = s.attempt => r = s
    /\ finished \cap pending = {}

AttemptVars == <<active, running, finished, pending>>

\* What the loop of a worker does to the attempts, beside stopping.
LEMMA AttemptSteps ==
  ASSUME [WorkerNext]_workerVars
  PROVE  \/ UNCHANGED AttemptVars
         \/ \E w \in Workers : \/ Top(w) \/ ResolveAnswered(w) \/ Joined(w)
                               \/ ReserveAnswered(w) \/ Stop(w)
         \/ \E a \in running : Returns(a)
<1>1. ASSUME NEW w \in Workers,
             \/ ResolveFails(w) \/ HeartbeatTick(w) \/ HeartbeatAnswered(w) \/ HeartbeatFails(w)
             \/ ReapTick(w) \/ ReapFails(w) \/ BackoffOver(w) \/ NapOver(w) \/ ReserveFails(w)
             \/ Restart(w)
      PROVE  UNCHANGED AttemptVars
  BY <1>1 DEF ResolveFails, HeartbeatTick, HeartbeatAnswered, HeartbeatFails, ReapTick, ReapFails,
              BackoffOver, NapOver, ReserveFails, Restart, AttemptVars
<1>2. ASSUME NEW c \in wire, Delivered(c) \/ Lost(c) PROVE UNCHANGED AttemptVars
  BY <1>2 DEF Delivered, Lost, local, AttemptVars
<1>3. ASSUME NEW j \in Jobs,
             Lapse(j) \/ LateHeartbeat(j) \/ ComeDue(j) \/ Requested(j) \/ Intervention(j)
      PROVE  UNCHANGED AttemptVars
  BY <1>3 DEF Lapse, LateHeartbeat, Lapsed, ComeDue, Requested, Intervention, local, AttemptVars
<1>4. CASE UNCHANGED workerVars
  BY <1>4 DEF workerVars, local, AttemptVars
<1>5. QED
  BY <1>1, <1>2, <1>3, <1>4 DEF WorkerNext, LoopStep

\* What an answered reservation adds.
LEMMA NewAttempts ==
  ASSUME StoreInv, WorkerTypes, NEW w \in Workers, ReserveAnswered(w)
  PROVE  /\ Batch(w) \subseteq Attempts /\ IsFiniteSet(Batch(w))
         /\ Cardinality(Of(w, active)) + Cardinality(Batch(w)) <= Concurrency[w]
         /\ \A a \in Batch(w) : a.worker = w /\ a.token \in UnusedTokens /\ a \notin active
         /\ active' = active \cup Batch(w) /\ running' = running \cup Batch(w)
         /\ UNCHANGED <<muted, finished, pending, todo, wire, faults>>
<1>1. /\ Asked(w) \in 1 .. Concurrency[w] /\ UnusedTokens \in SUBSET Tokens
      /\ Reserve(w, Now, Asked(w)) /\ {a.token : a \in Batch(w)} \subseteq UnusedTokens
      /\ Asked(w) = Concurrency[w] - Cardinality(Of(w, active))
      /\ Cardinality(Of(w, active)) \in Nat
  BY AskedBounded DEF ReserveAnswered, UnusedTokens, FreshTokens
<1>2. /\ active' = active \cup Batch(w) /\ running' = running \cup Batch(w)
      /\ UNCHANGED <<muted, finished, pending, todo, wire, faults>>
  BY DEF ReserveAnswered
<1>3. \A a \in active : a.token \notin UnusedTokens
  BY DEF UnusedTokens
<1> HIDE DEF Asked, UnusedTokens
<1>4. /\ IsFiniteSet(Batch(w)) /\ Cardinality(Batch(w)) <= Asked(w)
      /\ Batch(w) \subseteq Attempts
      /\ \A a \in Batch(w) : a.worker = w /\ a.token \in UnusedTokens
  BY <1>1, ReserveGrants
<1>5. Cardinality(Batch(w)) \in Nat /\ Concurrency[w] \in Nat
  BY <1>4, WorkerAssumption, FS_CardinalityType
<1>6. Cardinality(Of(w, active)) + Cardinality(Batch(w)) <= Concurrency[w]
  BY <1>1, <1>4, <1>5
<1>7. QED
  BY <1>2, <1>3, <1>4, <1>6

LEMMA AccountedStep ==
  ASSUME StoreInv, WorkerTypes, Accounted, [WorkerNext]_workerVars
  PROVE  Accounted'
<1>1. CASE UNCHANGED AttemptVars
  BY <1>1 DEF AttemptVars, Accounted, AttemptsIn
<1>2. ASSUME NEW w \in Workers, Top(w) PROVE Accounted'
  <2>1. /\ finished' = finished \ ResultsOf(w, finished)
        /\ pending' = pending \cup ResultsOf(w, finished)
        /\ active' = active /\ running' = running /\ ResultsOf(w, finished) \subseteq finished
    BY <1>2 DEF Top, ResultsOf
  <2>2. QED
    BY <2>1 DEF Accounted, AttemptsIn
<1>3. ASSUME NEW w \in Workers, Joined(w) PROVE Accounted'
  <2>1. PICK r \in finished : /\ finished' = finished \ {r} /\ pending' = pending \cup {r}
                              /\ active' = active /\ running' = running
    BY <1>3 DEF Joined, ResultsOf
  <2>2. QED
    BY <2>1 DEF Accounted, AttemptsIn
<1>4. ASSUME NEW w \in Workers, ResolveAnswered(w) PROVE Accounted'
  <2>1. PICK r \in pending : /\ pending' = pending \ {r} /\ active' = active \ {r.attempt}
                             /\ running' = running /\ finished' = finished
    BY <1>4 DEF ResolveAnswered, ResultsOf
  <2>2. QED
    BY <2>1 DEF Accounted, AttemptsIn
<1>5. ASSUME NEW w \in Workers, ReserveAnswered(w) PROVE Accounted'
  <2>1. \A r \in finished \cup pending : r.attempt \in active
    BY DEF Accounted, AttemptsIn
  <2>2. QED
    BY <1>5, <2>1, NewAttempts DEF Accounted, AttemptsIn
<1>6. ASSUME NEW w \in Workers, Stop(w) PROVE Accounted'
  <2>1. /\ active' = {a \in active : a.worker # w} /\ running' = {a \in running : a.worker # w}
        /\ finished' = {r \in finished : r.attempt.worker # w}
        /\ pending' = {r \in pending : r.attempt.worker # w}
    BY <1>6 DEF Stop, Of, ResultsOf
  <2>2. QED
    BY <2>1 DEF Accounted, AttemptsIn
<1>7. ASSUME NEW a \in running, Returns(a) PROVE Accounted'
  <2>1. PICK o : finished' = finished \cup {[attempt |-> a, outcome |-> o]}
    BY <1>7 DEF Returns
  <2>2. running' = running \ {a} /\ active' = active /\ pending' = pending
    BY <1>7 DEF Returns
  <2>3. PICK r : r.attempt = a /\ finished' = finished \cup {r}
    BY <2>1
  <2>4. r \notin finished \cup pending /\ \A s \in finished \cup pending : s.attempt # a
    BY <2>3 DEF Accounted
  <2>5. QED
    BY <2>2, <2>3, <2>4 DEF Accounted, AttemptsIn
<1>8. QED
  BY <1>1, <1>2, <1>3, <1>4, <1>5, <1>6, <1>7, AttemptSteps

-----------------------------------------------------------------------------
\* The types are kept

\* The part of WorkerTypes about the workers' own state.
LocalTypes ==
    /\ mode \in [Workers -> {"top", "resolve", "select", "heartbeat", "stopped"}]
    /\ backoff \subseteq Workers /\ napping \subseteq Workers
    /\ active \subseteq Attempts /\ muted \subseteq active
    /\ running \subseteq Attempts
    /\ finished \subseteq Results /\ pending \subseteq Results
    /\ todo \in [Workers -> SUBSET Attempts]
    /\ \A w \in Workers : todo[w] \subseteq Of(w, active)
    /\ IsFiniteSet(active)

\* The attempts, the results and the loop's list change, and mode is a place
\* of the loop.
LEMMA GotoTypes ==
  ASSUME LocalTypes, NEW w \in Workers,
         \E place \in {"top", "resolve", "select", "heartbeat", "stopped"} : Goto(w, place)
  PROVE  mode' \in [Workers -> {"top", "resolve", "select", "heartbeat", "stopped"}]
BY DEF LocalTypes, Goto

LEMMA TodoTypes ==
  ASSUME LocalTypes, NEW w \in Workers, NEW S \in SUBSET Attempts,
         todo' = [todo EXCEPT ![w] = S]
  PROVE  /\ todo' \in [Workers -> SUBSET Attempts]
         /\ todo'[w] = S
         /\ \A v \in Workers \ {w} : todo'[v] = todo[v]
BY DEF LocalTypes

LEMMA LocalTypesStep ==
  ASSUME StoreInv, WorkerTypes, Accounted, LocalTypes, [WorkerNext]_workerVars
  PROVE  LocalTypes'
<1> USE DEF LocalTypes
<1>1. ASSUME NEW w \in Workers, Top(w) PROVE LocalTypes'
  <2>1. /\ finished' = finished \ ResultsOf(w, finished)
        /\ pending' = pending \cup ResultsOf(w, finished)
        /\ UNCHANGED <<napping, active, muted, running>>
        /\ backoff' \in {backoff, backoff \ {w}}
    BY <1>1 DEF Top
  <2>2. mode' \in [Workers -> {"top", "resolve", "select", "heartbeat", "stopped"}]
    BY <1>1, GotoTypes DEF Top
  <2>3. finished' \subseteq Results /\ pending' \subseteq Results /\ pending' \subseteq finished \cup pending
    BY <2>1 DEF ResultsOf
  <2>4. AttemptsIn(ResultsOf(w, pending')) \subseteq Of(w, active)
    BY <2>3 DEF Accounted, AttemptsIn, ResultsOf, Of
  <2>5. PICK S \in SUBSET Of(w, active) : todo' = [todo EXCEPT ![w] = S]
    BY <1>1, <2>4 DEF Top
  <2>6. S \in SUBSET Attempts
    BY DEF Of
  <2>7. todo' \in [Workers -> SUBSET Attempts] /\ \A v \in Workers : todo'[v] \subseteq Of(v, active)
    BY <2>5, <2>6, TodoTypes
  <2>8. QED
    BY <2>1, <2>2, <2>3, <2>7 DEF Of
<1>2. ASSUME NEW w \in Workers, ResolveAnswered(w) PROVE LocalTypes'
  <2>1. PICK r \in ResultsOf(w, pending) :
           /\ r.attempt \in todo[w]
           /\ pending' = pending \ {r} /\ active' = active \ {r.attempt}
           /\ muted' = muted \ {r.attempt} /\ NextResolve(w, r.attempt)
           /\ UNCHANGED <<backoff, napping, running, finished>>
    BY <1>2 DEF ResolveAnswered
  <2>2. mode' \in [Workers -> {"top", "resolve", "select", "heartbeat", "stopped"}]
    BY <2>1, GotoTypes DEF NextResolve
  <2>3. todo' = [todo EXCEPT ![w] = todo[w] \ {r.attempt}] /\ todo[w] \in SUBSET Attempts
    BY <2>1 DEF NextResolve
  <2>4. /\ todo' \in [Workers -> SUBSET Attempts]
        /\ todo'[w] = todo[w] \ {r.attempt}
        /\ \A v \in Workers \ {w} : todo'[v] = todo[v]
    BY <2>3, TodoTypes
  <2>5. r.attempt.worker = w
    BY DEF ResultsOf
  <2>6. \A v \in Workers : todo'[v] \subseteq Of(v, active \ {r.attempt})
    BY <2>4, <2>5 DEF Of
  <2>7. IsFiniteSet(active')
    BY <2>1, FS_Subset
  <2>8. QED
    BY <2>1, <2>2, <2>4, <2>6, <2>7 DEF Of
<1>3. ASSUME NEW w \in Workers, ResolveFails(w) \/ HeartbeatFails(w) PROVE LocalTypes'
  <2>1. /\ todo' = [todo EXCEPT ![w] = {}] /\ backoff' = backoff \cup {w}
        /\ UNCHANGED <<napping, active, muted, running, finished, pending>>
    BY <1>3 DEF ResolveFails, HeartbeatFails
  <2>2. mode' \in [Workers -> {"top", "resolve", "select", "heartbeat", "stopped"}]
    BY <1>3, GotoTypes DEF ResolveFails, HeartbeatFails
  <2>3. todo' \in [Workers -> SUBSET Attempts] /\ \A v \in Workers : todo'[v] \subseteq todo[v]
    BY <2>1, TodoTypes
  <2>4. QED
    BY <2>1, <2>2, <2>3 DEF Of
<1>4. ASSUME NEW w \in Workers, Joined(w) PROVE LocalTypes'
  <2>1. PICK r \in finished : /\ finished' = finished \ {r} /\ pending' = pending \cup {r}
                              /\ UNCHANGED <<backoff, napping, active, muted, running, todo>>
    BY <1>4 DEF Joined, ResultsOf
  <2>2. mode' \in [Workers -> {"top", "resolve", "select", "heartbeat", "stopped"}]
    BY <1>4, GotoTypes DEF Joined
  <2>3. QED
    BY <2>1, <2>2 DEF Of
<1>5. ASSUME NEW w \in Workers, HeartbeatTick(w) PROVE LocalTypes'
  <2>1. UNCHANGED <<backoff, napping, active, muted, running, finished, pending>>
    BY <1>5 DEF HeartbeatTick
  <2>2. mode' \in [Workers -> {"top", "resolve", "select", "heartbeat", "stopped"}]
    BY <1>5, GotoTypes DEF HeartbeatTick
  <2>3. Of(w, active) \ muted \in SUBSET Attempts
    BY DEF Of
  <2>4. todo' = [todo EXCEPT ![w] = Of(w, active) \ muted]
    BY <1>5 DEF HeartbeatTick
  <2>5. todo' \in [Workers -> SUBSET Attempts] /\ \A v \in Workers : todo'[v] \subseteq Of(v, active)
    BY <2>3, <2>4, TodoTypes
  <2>6. QED
    BY <2>1, <2>2, <2>5 DEF Of
<1>6. ASSUME NEW w \in Workers, HeartbeatAnswered(w) PROVE LocalTypes'
  <2>1. PICK a \in todo[w] : /\ muted' \in {muted, muted \cup {a}} /\ NextHeartbeat(w, a)
                             /\ UNCHANGED <<backoff, napping, active, running, finished, pending>>
    BY <1>6 DEF HeartbeatAnswered
  <2>2. mode' \in [Workers -> {"top", "resolve", "select", "heartbeat", "stopped"}]
    BY <2>1, GotoTypes DEF NextHeartbeat
  <2>3. todo' = [todo EXCEPT ![w] = todo[w] \ {a}] /\ todo[w] \in SUBSET Attempts
    BY <2>1 DEF NextHeartbeat
  <2>4. todo' \in [Workers -> SUBSET Attempts] /\ \A v \in Workers : todo'[v] \subseteq todo[v]
    BY <2>3, TodoTypes
  <2>5. a \in active
    BY DEF Of
  <2>6. QED
    BY <2>1, <2>2, <2>4, <2>5 DEF Of
<1>7. ASSUME NEW w \in Workers,
             ReapTick(w) \/ ReapFails(w) \/ BackoffOver(w) \/ NapOver(w) \/ ReserveFails(w) \/ Restart(w)
      PROVE  LocalTypes'
  <2>1. /\ UNCHANGED <<active, muted, running, finished, pending, todo>>
        /\ backoff' \in {backoff, backoff \ {w}, backoff \cup {w}}
        /\ napping' \in {napping, napping \ {w}, napping \cup {w}}
    BY <1>7 DEF ReapTick, ReapFails, BackoffOver, NapOver, ReserveFails, Restart
  <2>2. mode' \in [Workers -> {"top", "resolve", "select", "heartbeat", "stopped"}]
    BY <1>7, GotoTypes DEF ReapTick, ReapFails, BackoffOver, NapOver, ReserveFails, Restart
  <2>3. QED
    BY <2>1, <2>2 DEF Of
<1>8. ASSUME NEW w \in Workers, ReserveAnswered(w) PROVE LocalTypes'
  <2>1. /\ Batch(w) \subseteq Attempts /\ IsFiniteSet(Batch(w))
        /\ active' = active \cup Batch(w) /\ running' = running \cup Batch(w)
        /\ UNCHANGED <<muted, finished, pending, todo>>
    BY <1>8, NewAttempts
  <2>2. backoff' = backoff /\ napping' \in {napping, napping \cup {w}}
    BY <1>8 DEF ReserveAnswered
  <2>3. mode' \in [Workers -> {"top", "resolve", "select", "heartbeat", "stopped"}]
    BY <1>8, GotoTypes DEF ReserveAnswered
  <2>4. IsFiniteSet(active')
    BY <2>1, FS_Union
  <2>5. QED
    BY <2>1, <2>2, <2>3, <2>4 DEF Of
<1>9. ASSUME NEW w \in Workers, Stop(w) PROVE LocalTypes'
  <2>1. /\ backoff' = backoff \ {w} /\ napping' = napping \ {w}
        /\ active' = active \ Of(w, active) /\ muted' = muted \ Of(w, muted)
        /\ running' \subseteq running /\ finished' \subseteq finished /\ pending' \subseteq pending
        /\ todo' = [todo EXCEPT ![w] = {}]
    BY <1>9 DEF Stop
  <2>2. mode' \in [Workers -> {"top", "resolve", "select", "heartbeat", "stopped"}]
    BY <1>9, GotoTypes DEF Stop
  <2>3. /\ todo' \in [Workers -> SUBSET Attempts] /\ todo'[w] = {}
        /\ \A v \in Workers \ {w} : todo'[v] = todo[v]
    BY <2>1, TodoTypes
  <2>4. \A v \in Workers : todo'[v] \subseteq Of(v, active')
    BY <2>1, <2>3 DEF Of
  <2>5. muted' \subseteq active'
    BY <2>1 DEF Of
  <2>6. IsFiniteSet(active')
    BY <2>1, FS_Subset
  <2>7. QED
    BY <2>1, <2>2, <2>3, <2>4, <2>5, <2>6
<1>10. ASSUME NEW a \in running, Returns(a) PROVE LocalTypes'
  <2>1. PICK o \in Outcomes[a.job] : finished' = finished \cup {[attempt |-> a, outcome |-> o]}
    BY <1>10 DEF Returns
  <2>2. a \in Attempts /\ Outcomes[a.job] \subseteq OutcomeKinds
    BY WorkerAssumption DEF Attempts
  <2>3. [attempt |-> a, outcome |-> o] \in Results
    BY <2>2 DEF Results
  <2>4. running' \subseteq running /\ UNCHANGED <<mode, backoff, napping, active, muted, pending, todo>>
    BY <1>10 DEF Returns
  <2>5. QED
    BY <2>1, <2>3, <2>4 DEF Of
<1>11. ASSUME UNCHANGED local PROVE LocalTypes'
  BY <1>11 DEF local, Of
<1>12. ASSUME NEW c \in wire, Delivered(c) \/ Lost(c) PROVE UNCHANGED local
  BY <1>12 DEF Delivered, Lost
<1>13. ASSUME NEW j \in Jobs,
              Lapse(j) \/ LateHeartbeat(j) \/ ComeDue(j) \/ Requested(j) \/ Intervention(j)
       PROVE  UNCHANGED local
  BY <1>13 DEF Lapse, LateHeartbeat, Lapsed, ComeDue, Requested, Intervention
<1> HIDE DEF LocalTypes
<1>14. CASE UNCHANGED workerVars
  BY <1>11, <1>14 DEF workerVars
<1>15. QED
  BY <1>1, <1>2, <1>3, <1>4, <1>5, <1>6, <1>7, <1>8, <1>9, <1>10, <1>11, <1>12, <1>13, <1>14
     DEF WorkerNext, LoopStep

LEMMA WorkerTypesSplit ==
  WorkerTypes <=> TypeOK /\ LocalTypes /\ wire \subseteq WireType /\ faults \in 0 .. Faults
BY DEF WorkerTypes, WorkerTypeOK, LocalTypes, WireType

LEMMA WorkerTypesStep ==
  ASSUME StoreInv, WorkerTypes, Accounted, [WorkerNext]_workerVars
  PROVE  StoreInv' /\ WorkerTypes'
<1>1. StoreInv'
  BY WorkerStoreSteps DEF KeepsLeases, Grants
<1>2. TypeOK'
  BY <1>1 DEF StoreInv, KeysInv
<1>3. LocalTypes'
  BY WorkerTypesSplit, LocalTypesStep
<1>4. wire' \subseteq WireType' /\ faults' \in 0 .. Faults
  <2>1. faults \in 0 .. Faults /\ Faults \in Nat
    BY WorkerAssumption DEF WorkerTypes, WorkerTypeOK
  <2>2. QED
    BY <2>1, WireSteps DEF WireGrows, WireType, ReserveCalls, ReapCalls, AttemptCalls
<1>5. WorkerTypes'
  BY <1>2, <1>3, <1>4 DEF WorkerTypes, WorkerTypeOK, LocalTypes, WireType
<1>6. QED
  BY <1>1, <1>5

-----------------------------------------------------------------------------
\* Capacity

LEMMA CapacityStep ==
  ASSUME StoreInv, WorkerTypes, CapacityRespected, [WorkerNext]_workerVars
  PROVE  CapacityRespected'
<1>1. ASSUME active' \subseteq active PROVE CapacityRespected'
  <2> SUFFICES ASSUME NEW v \in Workers PROVE Cardinality(Of(v, active)') <= Concurrency[v]
    BY DEF CapacityRespected
  <2>1. Of(v, active) \in SUBSET active /\ Of(v, active)' \in SUBSET Of(v, active)
    BY <1>1 DEF Of
  <2>2. IsFiniteSet(Of(v, active))
    BY <2>1, FS_Subset DEF WorkerTypes
  <2>3. /\ Cardinality(Of(v, active)') <= Cardinality(Of(v, active))
        /\ Cardinality(Of(v, active)') \in Nat /\ Cardinality(Of(v, active)) \in Nat
    BY <2>1, <2>2, FS_Subset, FS_CardinalityType
  <2>4. Cardinality(Of(v, active)) <= Concurrency[v] /\ Concurrency[v] \in Nat
    BY WorkerAssumption DEF CapacityRespected
  <2>5. QED
    BY <2>3, <2>4
<1>2. ASSUME NEW w \in Workers, ReserveAnswered(w) PROVE CapacityRespected'
  <2>1. /\ IsFiniteSet(Batch(w)) /\ active' = active \cup Batch(w)
        /\ Cardinality(Of(w, active)) + Cardinality(Batch(w)) <= Concurrency[w]
        /\ \A a \in Batch(w) : a.worker = w /\ a \notin active
    BY <1>2, NewAttempts
  <2>2. Of(w, active)' = Of(w, active) \cup Batch(w) /\ Of(w, active) \cap Batch(w) = {}
    BY <2>1 DEF Of
  <2>3. Of(w, active) \in SUBSET active /\ IsFiniteSet(active)
    BY DEF Of, WorkerTypes
  <2>4. IsFiniteSet(Of(w, active))
    BY <2>3, FS_Subset
  <2>5. Cardinality(Of(w, active) \cup Batch(w))
          = Cardinality(Of(w, active)) + Cardinality(Batch(w)) - Cardinality(Of(w, active) \cap Batch(w))
    BY <2>1, <2>4, FS_Union
  <2>6. Cardinality(Of(w, active) \cap Batch(w)) = 0
    BY <2>2, FS_EmptySet
  <2>7. /\ Cardinality(Of(w, active)) \in Nat /\ Cardinality(Batch(w)) \in Nat
    BY <2>1, <2>4, FS_CardinalityType
  <2>8. Cardinality(Of(w, active)') = Cardinality(Of(w, active)) + Cardinality(Batch(w))
    BY <2>2, <2>5, <2>6, <2>7
  <2>9. \A v \in Workers \ {w} : Of(v, active)' = Of(v, active)
    BY <2>1 DEF Of
  <2>10. QED
    BY <2>1, <2>8, <2>9 DEF CapacityRespected
<1>3. ASSUME NEW w \in Workers, Top(w) \/ ResolveAnswered(w) \/ Joined(w) \/ Stop(w)
      PROVE  active' \subseteq active
  BY <1>3 DEF Top, ResolveAnswered, Joined, Stop
<1>4. ASSUME NEW a \in running, Returns(a) PROVE active' \subseteq active
  BY <1>4 DEF Returns
<1>5. ASSUME UNCHANGED AttemptVars PROVE active' \subseteq active
  BY <1>5 DEF AttemptVars
<1>6. QED
  BY <1>1, <1>2, <1>3, <1>4, <1>5, AttemptSteps

-----------------------------------------------------------------------------
\* Counting the attempts

\* Results of different attempts are as many as those attempts.
LEMMA OneResultEach ==
  ASSUME NEW results, IsFiniteSet(AttemptsIn(results)),
         \A r, s \in results : r.attempt = s.attempt => r = s
  PROVE  IsFiniteSet(results) /\ Cardinality(results) = Cardinality(AttemptsIn(results))
<1> DEFINE of == [r \in results |-> r.attempt]
<1>1. of \in [results -> AttemptsIn(results)]
  BY DEF AttemptsIn
<1>2. of \in Injection(results, AttemptsIn(results))
  BY <1>1 DEF Injection, IsInjective
<1>3. of \in Surjection(results, AttemptsIn(results))
  BY <1>1 DEF Surjection, AttemptsIn
<1> HIDE DEF of
<1>4. QED
  BY <1>2, <1>3, FS_Injection

LEMMA AccountedCounts == WorkerTypes /\ Accounted => AttemptsAccounted
<1> SUFFICES ASSUME WorkerTypes, Accounted PROVE AttemptsAccounted
  OBVIOUS
<1> DEFINE joined == AttemptsIn(finished)
           reported == AttemptsIn(pending)
<1>1. active = running \cup joined \cup reported /\ IsFiniteSet(active)
  BY DEF Accounted, WorkerTypes
<1>2. running \cap joined = {} /\ (running \cup joined) \cap reported = {}
  BY DEF Accounted, AttemptsIn
<1>3. IsFiniteSet(running) /\ IsFiniteSet(joined) /\ IsFiniteSet(reported)
  BY <1>1, FS_Subset
<1>4. IsFiniteSet(finished) /\ Cardinality(finished) = Cardinality(joined)
  BY <1>3, OneResultEach DEF Accounted
<1>5. IsFiniteSet(pending) /\ Cardinality(pending) = Cardinality(reported)
  BY <1>3, OneResultEach DEF Accounted
<1> HIDE DEF joined, reported
<1>6. /\ IsFiniteSet(running \cup joined)
      /\ Cardinality(running \cup joined)
           = Cardinality(running) + Cardinality(joined) - Cardinality(running \cap joined)
  BY <1>3, FS_Union
<1>7. Cardinality(active) = Cardinality(running \cup joined) + Cardinality(reported)
                             - Cardinality((running \cup joined) \cap reported)
  BY <1>1, <1>3, <1>6, FS_Union
<1>8. /\ Cardinality(running \cap joined) = 0
      /\ Cardinality((running \cup joined) \cap reported) = 0
  BY <1>2, FS_EmptySet
<1>9. /\ Cardinality(running) \in Nat /\ Cardinality(joined) \in Nat
      /\ Cardinality(reported) \in Nat
  BY <1>3, FS_CardinalityType
<1>10. Cardinality(active) = Cardinality(running) + Cardinality(finished) + Cardinality(pending)
  BY <1>4, <1>5, <1>6, <1>7, <1>8, <1>9
<1>11. QED
  BY <1>1, <1>10 DEF AttemptsAccounted, joined, reported

-----------------------------------------------------------------------------
\* A muted attempt never gets its lease back

\* A dropped reserve on the wire carries tokens of no attempt.
WireTokensFresh ==
    \A c \in wire : c.op = "reserve" => \A a \in active : a.token \notin c.tokens

LEMMA WireTokensFreshStep ==
  ASSUME StoreInv, WorkerTypes, WireTokensFresh, [WorkerNext]_workerVars
  PROVE  WireTokensFresh'
<1>1. \A a \in active : a.token \notin UnusedTokens
  BY DEF UnusedTokens
<1>2. \A c \in wire : c.op = "reserve" => c.tokens \cap UnusedTokens = {}
  BY DEF UnusedTokens
<1>3. \A c \in wire' \ wire : c.op = "reserve" => c.tokens \subseteq UnusedTokens
  BY WireSteps DEF WireGrows
<1> HIDE DEF UnusedTokens
<1>4. ASSUME active' \subseteq active PROVE WireTokensFresh'
  BY <1>1, <1>3, <1>4 DEF WireTokensFresh
<1>5. ASSUME NEW w \in Workers, ReserveAnswered(w) PROVE WireTokensFresh'
  <2>1. /\ active' = active \cup Batch(w) /\ wire' = wire
        /\ \A a \in Batch(w) : a.token \in UnusedTokens
    BY <1>5, NewAttempts
  <2>2. QED
    BY <1>2, <2>1 DEF WireTokensFresh
<1>6. ASSUME NEW w \in Workers, Top(w) \/ ResolveAnswered(w) \/ Joined(w) \/ Stop(w)
      PROVE  active' \subseteq active
  BY <1>6 DEF Top, ResolveAnswered, Joined, Stop
<1>7. ASSUME NEW a \in running, Returns(a) PROVE active' \subseteq active
  BY <1>7 DEF Returns
<1>8. ASSUME UNCHANGED AttemptVars PROVE active' \subseteq active
  BY <1>8 DEF AttemptVars
<1>9. QED
  BY <1>4, <1>5, <1>6, <1>7, <1>8, AttemptSteps

\* Only an answer that says so mutes an attempt.
LEMMA MutedSteps ==
  ASSUME WorkerTypes, [WorkerNext]_workerVars
  PROVE  \A a \in muted' \ muted : ~Holds(a.job, a.worker, a.token)'
<1>1. ASSUME NEW w \in Workers, HeartbeatAnswered(w)
      PROVE  \A a \in muted' \ muted : ~Holds(a.job, a.worker, a.token)'
  <2>1. PICK a \in todo[w] :
           \/ muted' = muted
           \/ /\ ~Holds(a.job, a.worker, a.token) /\ muted' = muted \cup {a}
              /\ UNCHANGED vars
    BY <1>1 DEF HeartbeatAnswered
  <2>2. QED
    BY <2>1 DEF vars, Holds, In
<1>2. ASSUME NEW w \in Workers, LoopStep(w) \/ Stop(w) \/ Restart(w), ~HeartbeatAnswered(w)
      PROVE  muted' \subseteq muted
  BY <1>2 DEF LoopStep, Top, ResolveAnswered, ResolveFails, Joined, HeartbeatTick, HeartbeatFails,
              ReapTick, ReapFails, BackoffOver, NapOver, ReserveAnswered, ReserveFails, Stop, Restart
<1>3. ASSUME NEW a \in running, Returns(a) PROVE muted' = muted
  BY <1>3 DEF Returns
<1>4. ASSUME NEW c \in wire, Delivered(c) \/ Lost(c) PROVE muted' = muted
  BY <1>4 DEF Delivered, Lost, local
<1>5. ASSUME NEW j \in Jobs,
             Lapse(j) \/ LateHeartbeat(j) \/ ComeDue(j) \/ Requested(j) \/ Intervention(j)
      PROVE  muted' = muted
  BY <1>5 DEF Lapse, LateHeartbeat, Lapsed, ComeDue, Requested, Intervention, local
<1>6. CASE UNCHANGED workerVars
  BY <1>6 DEF workerVars, local
<1>7. QED
  BY <1>1, <1>2, <1>3, <1>4, <1>5, <1>6 DEF WorkerNext

LEMMA MutedMeansLostStep ==
  ASSUME StoreInv, WorkerTypes, WireTokensFresh, MutedMeansLost, [WorkerNext]_workerVars
  PROVE  MutedMeansLost'
<1> SUFFICES ASSUME NEW a \in muted, Holds(a.job, a.worker, a.token)' PROVE FALSE
  BY MutedSteps DEF MutedMeansLost
<1>1. a \in active /\ a.job \in Jobs
  BY DEF WorkerTypes, WorkerTypeOK, Attempts
<1>2. lease_meta'[a.job] = [worker |-> a.worker, token |-> a.token] /\ StoreInv'
  BY WorkerStoreSteps DEF Holds, KeepsLeases, Grants
<1>3. lease_meta[a.job] # [worker |-> a.worker, token |-> a.token]
  <2>1. In(leased, a.job) <=> lease_meta[a.job] # Nil
    BY <1>1 DEF StoreInv, KeysInv, JobInv
  <2>2. lease_meta'[a.job] # Nil
    BY <1>1, <1>2 DEF StoreInv, KeysInv, JobInv, Holds
  <2>3. QED
    BY <1>2, <2>1, <2>2 DEF MutedMeansLost, Holds
<1>4. lease_meta'[a.job] # Nil
  BY <1>1, <1>2 DEF StoreInv, KeysInv, JobInv, Holds
<1>5. ASSUME NEW w, NEW T, Grants(w, T), a.token \notin T PROVE FALSE
  <2>1. \E t \in T : lease_meta'[a.job] = [worker |-> w, token |-> t]
    BY <1>1, <1>2, <1>3, <1>5 DEF Grants
  <2>2. QED
    BY <1>2, <1>5, <2>1
<1>6. ~KeepsLeases
  BY <1>1, <1>2, <1>3, <1>4 DEF KeepsLeases
<1>7. a.token \notin UnusedTokens /\ \A c \in wire : c.op = "reserve" => a.token \notin c.tokens
  BY <1>1 DEF UnusedTokens, WireTokensFresh
<1>8. QED
  BY <1>5, <1>6, <1>7, WorkerStoreSteps

-----------------------------------------------------------------------------
\* While nothing goes wrong

\* The lease of an attempt that is reported ends.
LEMMA ResolutionEnds ==
  ASSUME NEW a \in Attempts, NEW o, Resolution(a, o)
  PROVE  /\ leased' = ZRem(leased, a.job) /\ lease_meta' = ZRem(lease_meta, a.job)
         /\ Holds(a.job, a.worker, a.token)
BY DEF Resolution, Ack, CompleteAndReschedule, FailOrRetry, EndLease

\* An attempt has its lease, and the lease is in time.
Attended(a) == Holds(a.job, a.worker, a.token) /\ leased[a.job] > Now

\* HealthyRunsAreExclusive, inductive: as long as no fault was spent, nothing
\* but dropped reserves is on the wire, nobody is muted, and every attempt has a
\* lease that is in time.  A lease without an attempt may lapse and be reaped.
Healthy ==
    faults = Faults =>
        /\ muted = {}
        /\ \A c \in wire : c.op = "reserve"
        /\ \A a \in active : Attended(a)

\* The lease of job j stays as it is, but for a renewal.
LeaseStays(j) == lease_meta'[j] = lease_meta[j] /\ (leased'[j] = leased[j] \/ leased'[j] > Now)

LEMMA LeaseKept ==
  ASSUME StoreInv, StoreInv', NEW j \in Jobs, lease_meta'[j] = lease_meta[j]
  PROVE  /\ In(leased, j)' <=> In(leased, j)
         /\ \A w, t : Holds(j, w, t)' <=> Holds(j, w, t)
<1>1. In(leased, j) <=> lease_meta[j] # Nil
  BY DEF StoreInv, KeysInv, JobInv
<1>2. In(leased, j)' <=> lease_meta'[j] # Nil
  BY DEF StoreInv, KeysInv, JobInv
<1>3. QED
  BY <1>1, <1>2 DEF Holds

\* An attempt whose lease stays is still attended.
LEMMA AttendedStays ==
  ASSUME StoreInv, StoreInv', NEW a \in Attempts, Attended(a), LeaseStays(a.job)
  PROVE  Attended(a)'
<1>1. a.job \in Jobs
  BY DEF Attempts
<1>2. QED
  BY <1>1, LeaseKept DEF Attended, LeaseStays

\* A reservation, heard of or not, touches no lease that is there, and the
\* leases it makes are in time.
LEMMA ReserveAttends ==
  ASSUME StoreInv, NEW w \in Workers, NEW n \in 1 .. Concurrency[w], NEW T \in SUBSET Tokens,
         Reserve(w, Now, n), {a.token : a \in Batch(w)} \subseteq T
  PROVE  /\ \A j \in Jobs : In(leased, j) => LeaseStays(j)
         /\ \A a \in Batch(w) : Attended(a)'
<1>1. Grants(w, T) /\ StoreInv'
  <2>1. Grants(w, T)
    BY ReserveGrants
  <2>2. QED
    BY <2>1 DEF Grants
<1>2. \A j \in Jobs : leased'[j] = leased[j] \/ leased'[j] > Now
  <2>1. \A j \in Jobs : leased'[j] \in {leased[j], Now + LeaseDuration}
    BY DEF Reserve
  <2>2. Now + LeaseDuration > Now
    BY Clock, TimesAssumption
  <2>3. QED
    BY <2>1, <2>2
<1>3. \A j \in Jobs : In(leased, j) => LeaseStays(j)
  <2>1. \A j \in Jobs : In(leased, j) => lease_meta[j] # Nil
    BY DEF StoreInv, KeysInv, JobInv
  <2>2. QED
    BY <1>1, <1>2, <2>1 DEF Grants, LeaseStays
<1>4. ASSUME NEW a \in Batch(w) PROVE Attended(a)'
  <2>1. PICK j \in Jobs : /\ a = [worker |-> w, job |-> j, token |-> lease_meta'[j].token]
                          /\ lease_meta[j] = Nil /\ lease_meta'[j] # Nil
    BY DEF Batch
  <2>2. \E t \in T : lease_meta'[j] = [worker |-> w, token |-> t]
    BY <1>1, <2>1 DEF Grants
  <2>3. In(leased, j)' /\ ~In(leased, j)
    BY <1>1, <2>1 DEF StoreInv, KeysInv, JobInv
  <2>4. leased'[j] > Now
    BY <1>2, <2>3 DEF In
  <2>5. QED
    BY <2>1, <2>2, <2>3, <2>4 DEF Attended, Holds, In
<1>5. QED
  BY <1>3, <1>4

\* Two attempts that hold the lease of one job are the same.
LEMMA HeldOnce ==
  ASSUME NEW a \in Attempts, NEW b \in Attempts, Attended(a), Attended(b), a.job = b.job
  PROVE  a = b
<1>1. /\ lease_meta[a.job] = [worker |-> a.worker, token |-> a.token]
      /\ lease_meta[a.job] = [worker |-> b.worker, token |-> b.token]
  BY DEF Attended, Holds
<1>2. a.worker = b.worker /\ a.token = b.token
  BY <1>1
<1>3. QED
  BY <1>2 DEF Attempts

LEMMA HealthyStep ==
  ASSUME StoreInv, WorkerTypes, Accounted, Healthy, [WorkerNext]_workerVars
  PROVE  Healthy'
<1> SUFFICES ASSUME faults' = Faults PROVE Healthy'
  BY DEF Healthy
<1>1. faults = Faults /\ Faults \in Nat /\ ~Spend
  <2>1. faults \in 0 .. Faults /\ faults' \in 0 .. faults /\ Faults \in Nat
    BY WireSteps, WorkerAssumption DEF WireGrows, WorkerTypes, WorkerTypeOK
  <2>2. QED
    BY <2>1 DEF Spend
<1>2. /\ muted = {} /\ \A c \in wire \cup wire' : c.op = "reserve"
      /\ \A a \in active : Attended(a)
  BY <1>1, WireSteps DEF Healthy, WireGrows
<1>3. StoreInv'
  BY WorkerStoreSteps DEF KeepsLeases, Grants
<1>4. \A a \in active : a.job \in Jobs /\ a \in Attempts /\ In(leased, a.job)
  BY <1>2 DEF WorkerTypes, WorkerTypeOK, Attempts, Attended, Holds
<1>5. ASSUME active' \subseteq active, muted' = muted, \A a \in active' : LeaseStays(a.job)
      PROVE  Healthy'
  <2>1. \A a \in active' : Attended(a)'
    BY <1>2, <1>3, <1>4, <1>5, AttendedStays
  <2>2. QED
    BY <1>2, <1>5, <2>1 DEF Healthy
<1>6. ASSUME UNCHANGED <<leased, lease_meta>>, active' = active, muted' = muted PROVE Healthy'
  BY <1>5, <1>6 DEF LeaseStays
<1>7. ASSUME NEW w \in Workers,
             \/ Top(w) \/ Joined(w) \/ HeartbeatTick(w) \/ BackoffOver(w) \/ NapOver(w) \/ Restart(w)
      PROVE  Healthy'
  BY <1>6, <1>7 DEF Top, Joined, HeartbeatTick, BackoffOver, NapOver, Restart, vars
<1>8. ASSUME NEW w \in Workers,
             ResolveFails(w) \/ HeartbeatFails(w) \/ ReapFails(w) \/ ReserveFails(w) \/ Stop(w)
      PROVE  FALSE
  BY <1>1, <1>8 DEF ResolveFails, HeartbeatFails, ReapFails, ReserveFails, Stop
<1>9. ASSUME NEW w \in Workers, ResolveAnswered(w) PROVE Healthy'
  <2>1. PICK r \in pending : /\ Applied(r.attempt, r.outcome)
                             /\ active' = active \ {r.attempt} /\ muted' = muted \ {r.attempt}
    BY <1>9 DEF ResolveAnswered, ResultsOf
  <2>2. PICK a \in active : a = r.attempt
    BY DEF Accounted, AttemptsIn
  <2>3. Resolution(a, r.outcome) /\ a \in Attempts
    BY <1>2, <1>4, <2>1, <2>2 DEF Applied, Attended
  <2>4. leased' = ZRem(leased, a.job) /\ lease_meta' = ZRem(lease_meta, a.job)
    BY <2>3, ResolutionEnds
  <2>5. \A j \in Jobs \ {a.job} : LeaseStays(j)
    BY <2>4 DEF ZRem, StoreInv, KeysInv, TypeOK, Placement, LeaseStays
  <2>6. \A b \in active \ {a} : b.job # a.job
    BY <1>2, <1>4, HeldOnce
  <2>7. QED
    BY <1>2, <1>4, <1>5, <2>1, <2>2, <2>5, <2>6
<1>10. ASSUME NEW w \in Workers, HeartbeatAnswered(w) PROVE Healthy'
  <2>1. PICK a \in todo[w] :
           /\ \/ Heartbeat(a.job, a.worker, a.token, Now) /\ muted' = muted
              \/ ~Holds(a.job, a.worker, a.token)
           /\ active' = active
    BY <1>10 DEF HeartbeatAnswered
  <2>2. a \in active
    BY DEF WorkerTypes, Of
  <2>3. /\ leased' = ZAdd(leased, a.job, Now + LeaseDuration)
        /\ lease_meta' = lease_meta /\ muted' = muted
    BY <1>2, <2>1, <2>2 DEF Heartbeat, Attended
  <2>4. Now + LeaseDuration > Now
    BY Clock, TimesAssumption
  <2>5. \A j \in Jobs : LeaseStays(j)
    BY <2>3, <2>4 DEF LeaseStays, ZAdd, StoreInv, KeysInv, TypeOK, Placement
  <2>6. QED
    BY <1>4, <1>5, <2>1, <2>3, <2>5
<1>11. ASSUME NEW w \in Workers, ReapTick(w) PROVE Healthy'
  <2>1. active' = active /\ muted' = muted
        /\ (UNCHANGED vars \/ ReapExpired(Now, Concurrency[w]))
    BY <1>11 DEF ReapTick, Reap
  <2>2. CASE ReapExpired(Now, Concurrency[w])
    <3>1. \A a \in active : a.job \notin Reaped(Now, Concurrency[w])
      <4>1. ASSUME NEW a \in active PROVE ~(leased[a.job] <= Now)
        <5>1. leased[a.job] > Now /\ leased[a.job] \in Nat
          BY <1>2, <1>4 DEF Attended, In, StoreInv, KeysInv, TypeOK, Placement, Scores
        <5>2. QED
          BY <5>1, Clock
      <4>2. QED
        BY <4>1 DEF Reaped, Expired
    <3>2. \A j \in Jobs \ Reaped(Now, Concurrency[w]) : LeaseStays(j)
      BY <2>2 DEF ReapExpired, LeaseStays
    <3>3. QED
      BY <1>4, <1>5, <2>1, <3>1, <3>2
  <2>3. QED
    BY <1>6, <2>1, <2>2 DEF vars
<1>12. ASSUME NEW w \in Workers, ReserveAnswered(w) PROVE Healthy'
  <2>1. /\ active' = active \cup Batch(w) /\ muted' = muted
    BY <1>12, NewAttempts
  <2>2. Reserve(w, Now, Asked(w)) /\ Asked(w) \in 1 .. Concurrency[w]
        /\ {a.token : a \in Batch(w)} \subseteq UnusedTokens /\ UnusedTokens \in SUBSET Tokens
    BY <1>12, AskedBounded DEF ReserveAnswered, UnusedTokens, FreshTokens
  <2> HIDE DEF Asked, UnusedTokens
  <2>3. /\ \A j \in Jobs : In(leased, j) => LeaseStays(j)
        /\ \A a \in Batch(w) : Attended(a)'
    BY <2>2, ReserveAttends
  <2>4. \A a \in active : Attended(a)'
    BY <1>2, <1>3, <1>4, <2>3, AttendedStays
  <2>5. QED
    BY <1>2, <2>1, <2>3, <2>4 DEF Healthy
<1>13. ASSUME NEW a \in running, Returns(a) PROVE Healthy'
  BY <1>6, <1>13 DEF Returns, vars
<1>14. ASSUME NEW c \in wire, Delivered(c) PROVE Healthy'
  <2>1. LateReserve(c)
    BY <1>2, <1>14 DEF Delivered, OutcomeKinds
  <2>2. /\ c.worker \in Workers /\ c.tokens \in SUBSET Tokens
        /\ Cardinality(c.tokens) \in 1 .. Concurrency[c.worker]
    BY <1>2, WireKinds
  <2>3. \A j \in Jobs : In(leased, j) => LeaseStays(j)
    BY <2>1, <2>2, ReserveAttends DEF LateReserve
  <2>4. active' = active /\ muted' = muted
    BY <1>14 DEF Delivered, local
  <2>5. QED
    BY <1>4, <1>5, <2>3, <2>4
<1>15. ASSUME NEW c \in wire, Lost(c) PROVE Healthy'
  BY <1>6, <1>15 DEF Lost, vars, local
<1>16. ASSUME NEW j \in Jobs, Lapse(j) PROVE Healthy'
  <2>1. \A a \in active : a.job # j
    BY <1>2, <1>16 DEF Lapse, Tended, Attended
  <2>2. /\ leased' = ZAdd(leased, j, Now) /\ lease_meta' = lease_meta
        /\ active' = active /\ muted' = muted
    BY <1>16 DEF Lapse, Lapsed, local
  <2>3. \A k \in Jobs \ {j} : LeaseStays(k)
    BY <2>2 DEF LeaseStays, ZAdd, StoreInv, KeysInv, TypeOK, Placement
  <2>4. QED
    BY <1>4, <1>5, <2>1, <2>2, <2>3
<1>17. ASSUME NEW j \in Jobs, LateHeartbeat(j) \/ Intervention(j) PROVE FALSE
  BY <1>1, <1>17 DEF LateHeartbeat, Intervention
<1>18. ASSUME NEW j \in Jobs, ComeDue(j) \/ Requested(j) PROVE Healthy'
  BY <1>6, <1>18 DEF ComeDue, Requested, EnqueueImmediate, leases, local
<1>19. CASE UNCHANGED workerVars
  BY <1>6, <1>19 DEF workerVars, vars, local
<1>20. QED
  BY <1>7, <1>8, <1>9, <1>10, <1>11, <1>12, <1>13, <1>14, <1>15, <1>16, <1>17, <1>18, <1>19
     DEF WorkerNext, LoopStep

LEMMA HealthyExclusive == Healthy => HealthyRunsAreExclusive
BY DEF Healthy, Attended, HealthyRunsAreExclusive

-----------------------------------------------------------------------------
\* The theorems

WorkerInv ==
    /\ StoreInv /\ WorkerTypes
    /\ Accounted /\ CapacityRespected
    /\ WireTokensFresh /\ MutedMeansLost
    /\ Healthy

LEMMA WorkerInitInv == WorkerInit => WorkerInv
<1> SUFFICES ASSUME WorkerInit PROVE WorkerInv
  OBVIOUS
<1> USE DEF WorkerInit
<1>1. StoreInv
  BY InitStoreInv
<1>2. WorkerTypes
  BY <1>1, WorkerAssumption, FS_EmptySet DEF WorkerTypes, WorkerTypeOK, StoreInv, KeysInv
<1>3. Accounted /\ WireTokensFresh /\ MutedMeansLost
  BY DEF Accounted, AttemptsIn, WireTokensFresh, MutedMeansLost
<1>4. CapacityRespected
  <2>1. \A w \in Workers : Of(w, active) = {} /\ Concurrency[w] \in Nat
    BY WorkerAssumption DEF Of
  <2>2. QED
    BY <2>1, FS_EmptySet DEF CapacityRespected
<1>5. Healthy
  BY DEF Healthy, Init, In
<1>6. QED
  BY <1>1, <1>2, <1>3, <1>4, <1>5 DEF WorkerInv

LEMMA WorkerStepInv == WorkerInv /\ [WorkerNext]_workerVars => WorkerInv'
<1> SUFFICES ASSUME WorkerInv, [WorkerNext]_workerVars PROVE WorkerInv'
  OBVIOUS
<1> USE DEF WorkerInv
<1>1. StoreInv' /\ WorkerTypes'
  BY WorkerTypesStep
<1>2. Accounted'
  BY AccountedStep
<1>3. CapacityRespected'
  BY CapacityStep
<1>4. WireTokensFresh'
  BY WireTokensFreshStep
<1>5. MutedMeansLost'
  BY MutedMeansLostStep
<1>6. Healthy'
  BY HealthyStep
<1>7. QED
  BY <1>1, <1>2, <1>3, <1>4, <1>5, <1>6

\* The workers' state is well formed and the store's invariants hold, whatever
\* calls fail, are dropped or arrive late, and whoever stops and restarts.
THEOREM WorkerInvHolds == WorkerSpec => []WorkerInv
BY WorkerInitInv, WorkerStepInv, PTL DEF WorkerSpec

\* The state of the loops is well formed.
THEOREM WorkerTypeCorrect == WorkerSpec => []WorkerTypeOK
<1>1. WorkerInv => WorkerTypeOK
  BY DEF WorkerInv, WorkerTypes
<1>2. QED
  BY <1>1, WorkerInvHolds, PTL

\* No worker ever has more attempts than its concurrency (the active map of
\* worker/run.rs against available_capacity).
THEOREM CapacityRespectedHolds == WorkerSpec => []CapacityRespected
<1>1. WorkerInv => CapacityRespected
  BY DEF WorkerInv
<1>2. QED
  BY <1>1, WorkerInvHolds, PTL

\* Every attempt of the active map is in one place: its handler runs, or its
\* one result is in the JoinSet or in pending_completed.
THEOREM AttemptsAccountedHolds == WorkerSpec => []AttemptsAccounted
<1>1. WorkerInv => AttemptsAccounted
  BY AccountedCounts DEF WorkerInv
<1>2. QED
  BY <1>1, WorkerInvHolds, PTL

\* heartbeat_enabled is cleared only for a lease that is lost for good.
THEOREM MutedMeansLostHolds == WorkerSpec => []MutedMeansLost
<1>1. WorkerInv => MutedMeansLost
  BY DEF WorkerInv
<1>2. QED
  BY <1>1, WorkerInvHolds, PTL

\* Until the first failed call, late heartbeat, stop or intervention every
\* attempt has the lease of its job, so no job is handled twice: also while
\* reserves are dropped by the ordinary ticks and joins of the select, and
\* applied late, and leases nobody knows of lapse and are reaped.
THEOREM HealthyRunsAreExclusiveHolds == WorkerSpec => []HealthyRunsAreExclusive
<1>1. WorkerInv => HealthyRunsAreExclusive
  BY HealthyExclusive DEF WorkerInv
<1>2. QED
  BY <1>1, WorkerInvHolds, PTL

\* The loop drops an attempt only when its lease is over, or as it stops.
THEOREM ReleasedMeansOverHolds == WorkerSpec => ReleasedMeansOver
<1>1. ASSUME WorkerInv, [WorkerNext]_workerVars, NEW a \in active \ active'
      PROVE  mode[a.worker]' = "stopped" \/ ~Holds(a.job, a.worker, a.token)'
  <2>1. ~UNCHANGED AttemptVars
    BY DEF AttemptVars
  <2>2. a \in Attempts /\ a.job \in Jobs /\ a.worker \in Workers
    BY <1>1 DEF WorkerInv, WorkerTypes, WorkerTypeOK, Attempts
  <2>3. ASSUME NEW w \in Workers, ResolveAnswered(w) PROVE ~Holds(a.job, a.worker, a.token)'
    <3>1. PICK r \in pending : Applied(r.attempt, r.outcome) /\ active' = active \ {r.attempt}
      BY <2>3 DEF ResolveAnswered, ResultsOf
    <3>2. a = r.attempt
      BY <3>1
    <3>3. CASE Holds(a.job, a.worker, a.token)
      <4>1. leased' = ZRem(leased, a.job)
        BY <2>2, <3>1, <3>2, <3>3, ResolutionEnds DEF Applied
      <4>2. leased'[a.job] = Nil
        BY <1>1, <2>2, <4>1 DEF ZRem, WorkerInv, StoreInv, KeysInv, TypeOK, Placement
      <4>3. QED
        BY <4>2 DEF Holds, In
    <3>4. CASE ~Holds(a.job, a.worker, a.token)
      BY <3>1, <3>2, <3>4 DEF Applied, vars, Holds, In
    <3>5. QED
      BY <3>3, <3>4
  <2>4. ASSUME NEW w \in Workers, Stop(w) PROVE mode[a.worker]' = "stopped"
    <3>1. a.worker = w
      BY <2>4 DEF Stop, Of
    <3>2. QED
      BY <1>1, <2>4, <3>1 DEF Stop, Goto, WorkerInv, WorkerTypes, WorkerTypeOK
  <2>5. ASSUME NEW w \in Workers, Top(w) \/ Joined(w) \/ ReserveAnswered(w) PROVE FALSE
    BY <2>5 DEF Top, Joined, ReserveAnswered
  <2>6. ASSUME NEW b \in running, Returns(b) PROVE FALSE
    BY <2>6 DEF Returns
  <2>7. QED
    BY <1>1, <2>1, <2>3, <2>4, <2>5, <2>6, AttemptSteps
<1>2. WorkerInv /\ [WorkerNext]_workerVars =>
        [\A a \in active \ active' :
            mode[a.worker]' = "stopped" \/ ~Holds(a.job, a.worker, a.token)']_workerVars
  BY <1>1
<1>3. QED
  BY <1>2, WorkerInvHolds, PTL DEF WorkerSpec, ReleasedMeansOver

-----------------------------------------------------------------------------
\* The workers implement LeaseHolding

\* A reservation gives the jobs it takes one token each that no lease has.
LEMMA ReserveTokens ==
  ASSUME StoreInv, NEW w \in Workers, NEW n \in 1 .. Concurrency[w], Reserve(w, Now, n)
  PROVE  \E S \in SUBSET Jobs : \E token \in TokenAssignments(S) :
            /\ \A j \in S : lease_meta[j] = Nil
            /\ lease_meta' = [j \in Jobs |-> IF j \in S THEN [worker |-> w, token |-> token[j]]
                                                        ELSE lease_meta[j]]
            /\ Batch(w) = {[worker |-> w, job |-> j, token |-> token[j]] : j \in S}
<1>1. n \in Capacities
  BY WorkerAssumption
<1> DEFINE S == Reserved(Now, n)
<1>2. Starts(S, w)
  BY <1>1, Clock, StoreKeys, ReserveEffect
<1>3. S \in SUBSET Jobs /\ \A j \in S : lease_meta[j] = Nil
  BY <1>2, StateIsPlacement DEF Starts, StoreInv, KeysInv, JobInv, CurrentState
<1>4. PICK token \in TokenAssignments(S) :
         lease_meta' = [j \in Jobs |-> IF j \in S THEN [worker |-> w, token |-> token[j]]
                                                  ELSE lease_meta[j]]
  BY DEF Reserve
<1> HIDE DEF S
<1>5. \A j \in S : token[j] \in Tokens
  BY DEF TokenAssignments, FreshTokens
<1>6. \A j \in S : lease_meta'[j] = [worker |-> w, token |-> token[j]] /\ lease_meta'[j] # Nil
  BY <1>3, <1>4, <1>5, NilAssumption
<1>7. S = {j \in Jobs : lease_meta[j] = Nil /\ lease_meta'[j] # Nil}
  BY <1>3, <1>4, <1>6
<1>8. Batch(w) = {[worker |-> w, job |-> j, token |-> token[j]] : j \in S}
  <2>1. Batch(w) = {[worker |-> w, job |-> j, token |-> lease_meta'[j].token] : j \in S}
    BY <1>7 DEF Batch
  <2>2. ASSUME NEW j \in S PROVE lease_meta'[j].token = token[j]
    <3>1. lease_meta'[j] = [worker |-> w, token |-> token[j]]
      BY <1>6
    <3>2. QED
      BY <3>1
  <2>3. ASSUME NEW a PROVE a \in Batch(w)
                           <=> \E j \in S : a = [worker |-> w, job |-> j, token |-> token[j]]
    <3>1. a \in Batch(w)
          <=> \E j \in S : a = [worker |-> w, job |-> j, token |-> lease_meta'[j].token]
      BY <2>1
    <3>2. QED
      BY <2>2, <3>1
  <2>4. QED
    BY <2>3
<1>9. QED
  BY <1>3, <1>4, <1>8

\* The lease of an attempt is the one its token says.
LEMMA HoldsEntitled ==
  ASSUME StoreInv, NEW a \in Attempts
  PROVE  Holds(a.job, a.worker, a.token) <=> Holding!Entitled(a)
<1>1. a.job \in Jobs /\ a.worker \in Workers /\ a.token \in Tokens
  BY DEF Attempts
<1>2. [worker |-> a.worker, token |-> a.token] # Nil
  BY <1>1, NilAssumption
<1>3. QED
  BY <1>1, <1>2 DEF Holds, Holding!Entitled, StoreInv, KeysInv, JobInv

\* A reservation whose tokens no attempt has is a Grant, heard of or not.
LEMMA ReserveIsGrant ==
  ASSUME StoreInv, NEW w \in Workers, NEW n \in 1 .. Concurrency[w], Reserve(w, Now, n),
         \A a \in Batch(w), b \in active : a.token # b.token,
         active' \in {active, active \cup Batch(w)}
  PROVE  \E S \in SUBSET Jobs : Holding!Grant(w, S)
<1>1. PICK S \in SUBSET Jobs : \E token \in TokenAssignments(S) :
         /\ \A j \in S : lease_meta[j] = Nil
         /\ lease_meta' = [j \in Jobs |-> IF j \in S THEN [worker |-> w, token |-> token[j]]
                                                     ELSE lease_meta[j]]
         /\ Batch(w) = {[worker |-> w, job |-> j, token |-> token[j]] : j \in S}
  BY ReserveTokens
<1>2. PICK token \in TokenAssignments(S) :
         /\ \A j \in S : lease_meta[j] = Nil
         /\ lease_meta' = [j \in Jobs |-> IF j \in S THEN [worker |-> w, token |-> token[j]]
                                                     ELSE lease_meta[j]]
         /\ Batch(w) = {[worker |-> w, job |-> j, token |-> token[j]] : j \in S}
  BY <1>1
<1>3. token \in [S -> FreshTokens] /\ \A i, j \in S : token[i] = token[j] => i = j
  BY DEF TokenAssignments
<1>4. \A j \in S : token[j] \notin {a.token : a \in active}
  <2>1. ASSUME NEW j \in S, NEW b \in active PROVE token[j] # b.token
    <3>1. [worker |-> w, job |-> j, token |-> token[j]] \in Batch(w)
      BY <1>2
    <3>2. [worker |-> w, job |-> j, token |-> token[j]].token # b.token
      BY <3>1
    <3>3. QED
      BY <3>2
  <2>2. QED
    BY <2>1
<1>5. \A j \in S : token[j] \in Tokens \ Holding!Used
  BY <1>3, <1>4 DEF FreshTokens, Holding!Used
<1>6. token \in [S -> Tokens \ Holding!Used]
  BY <1>3, <1>5
<1>7. Holding!Grant(w, S)
  BY <1>2, <1>3, <1>6 DEF Holding!Grant
<1>8. QED
  BY <1>7

\* An outcome that is answered is a Report: of a lease the attempt has, or of
\* one that is gone.
LEMMA ResolveIsReport ==
  ASSUME StoreInv, WorkerTypes, Accounted, NEW w \in Workers, ResolveAnswered(w)
  PROVE  \E a \in active : Holding!Report(a)
<1>1. PICK r \in pending : Applied(r.attempt, r.outcome) /\ active' = active \ {r.attempt}
  BY DEF ResolveAnswered, ResultsOf
<1> DEFINE a == r.attempt
<1>2. a \in active /\ a \in Attempts /\ a.job \in Jobs
  BY DEF Accounted, AttemptsIn, WorkerTypes, WorkerTypeOK, Attempts
<1>3. Holds(a.job, a.worker, a.token) <=> Holding!Entitled(a)
  BY <1>2, HoldsEntitled
<1>4. CASE Holds(a.job, a.worker, a.token)
  <2>1. lease_meta' = ZRem(lease_meta, a.job)
    BY <1>1, <1>2, <1>4, ResolutionEnds DEF Applied
  <2>2. lease_meta' = [j \in Jobs |-> IF j \in {a.job} THEN Nil ELSE lease_meta[j]]
    BY <2>1 DEF ZRem, StoreInv, KeysInv, TypeOK
  <2>3. QED
    BY <1>1, <1>2, <1>3, <1>4, <2>2 DEF Holding!Report, Holding!End
<1>5. CASE ~Holds(a.job, a.worker, a.token)
  BY <1>1, <1>2, <1>3, <1>5 DEF Applied, vars, Holding!Report
<1>6. QED
  BY <1>4, <1>5

\* Every step of workers and store is a step of LeaseHolding, or one it does
\* not see.
LEMMA HoldingStep ==
  WorkerInv /\ [WorkerNext]_workerVars => [Holding!Next]_(Holding!holding)
<1> SUFFICES ASSUME WorkerInv, [WorkerNext]_workerVars PROVE [Holding!Next]_(Holding!holding)
  OBVIOUS
<1> USE DEF WorkerInv
<1>1. CASE KeepsLeases /\ active' = active
  <2> DEFINE S == {j \in Jobs : lease_meta'[j] = Nil}
  <2>1. lease_meta' \in [Jobs -> [worker : Workers, token : Tokens] \cup {Nil}]
    BY <1>1 DEF KeepsLeases, StoreInv, KeysInv, TypeOK
  <2>2. lease_meta' = [j \in Jobs |-> IF j \in S THEN Nil ELSE lease_meta[j]]
    BY <1>1, <2>1 DEF KeepsLeases
  <2>3. Holding!Lose(S)
    BY <1>1, <2>2 DEF Holding!Lose, Holding!End
  <2>4. QED
    BY <2>3 DEF Holding!Next
<1>2. ASSUME NEW w \in Workers, ReserveAnswered(w) PROVE Holding!Next
  <2>1. Asked(w) \in 1 .. Concurrency[w] /\ Reserve(w, Now, Asked(w))
    BY <1>2, AskedBounded DEF ReserveAnswered
  <2>2. active' = active \cup Batch(w) /\ \A a \in Batch(w) : a.token \in UnusedTokens
    BY <1>2, NewAttempts
  <2>3. \A a \in active : a.token \notin UnusedTokens
    BY DEF UnusedTokens
  <2> HIDE DEF Asked, UnusedTokens
  <2>4. \E S \in SUBSET Jobs : Holding!Grant(w, S)
    BY <2>1, <2>2, <2>3, ReserveIsGrant
  <2>5. QED
    BY <2>4 DEF Holding!Next
<1>3. ASSUME NEW c \in wire, Delivered(c), c.op = "reserve" PROVE Holding!Next
  <2>1. /\ c.worker \in Workers /\ Cardinality(c.tokens) \in 1 .. Concurrency[c.worker]
        /\ Reserve(c.worker, Now, Cardinality(c.tokens))
        /\ {a.token : a \in Batch(c.worker)} \subseteq c.tokens
    BY <1>3, WireKinds DEF Delivered, LateReserve, OutcomeKinds
  <2>2. \A a \in Batch(c.worker), b \in active : a.token # b.token
    BY <1>3, <2>1 DEF WireTokensFresh
  <2>3. active' = active
    BY <1>3 DEF Delivered, local
  <2>4. \E S \in SUBSET Jobs : Holding!Grant(c.worker, S)
    BY <2>1, <2>2, <2>3, ReserveIsGrant
  <2>5. QED
    BY <2>1, <2>4 DEF Holding!Next
<1>4. ASSUME NEW w \in Workers, ResolveAnswered(w) PROVE Holding!Next
  BY <1>4, ResolveIsReport DEF Holding!Next
<1>5. ASSUME NEW w \in Workers, Stop(w) PROVE Holding!Next
  <2>1. active' = {a \in active : a.worker # w} /\ lease_meta' = lease_meta
    BY <1>5 DEF Stop, Of, vars
  <2>2. Holding!Stop(w)
    BY <2>1 DEF Holding!Stop
  <2>3. QED
    BY <2>2 DEF Holding!Next
<1>6. ASSUME NEW w \in Workers, Top(w) \/ Joined(w) PROVE active' = active
  BY <1>6 DEF Top, Joined
<1>7. ASSUME NEW a \in running, Returns(a) PROVE active' = active
  BY <1>7 DEF Returns
<1>8. ASSUME UNCHANGED AttemptVars PROVE active' = active
  BY <1>8 DEF AttemptVars
<1>9. \/ KeepsLeases
      \/ \E w \in Workers : ReserveAnswered(w)
      \/ \E c \in wire : Delivered(c) /\ c.op = "reserve"
  BY WorkerStoreSteps
<1>10. \/ active' = active
       \/ \E w \in Workers : ResolveAnswered(w) \/ ReserveAnswered(w) \/ Stop(w)
  BY <1>6, <1>7, <1>8, AttemptSteps
<1>11. QED
  BY <1>1, <1>2, <1>3, <1>4, <1>5, <1>9, <1>10

\* Whatever calls fail, are dropped or arrive late, an attempt starts with a
\* lease of its own, reports at most that one, and never gets back one it lost.
THEOREM WorkerImplementsHolding == WorkerSpec => ImplementsHolding
<1>1. WorkerInit => Holding!Init
  BY DEF WorkerInit, Init, Holding!Init
<1>2. QED
  BY <1>1, HoldingStep, WorkerInvHolds, PTL DEF WorkerSpec, ImplementsHolding, Holding!Spec

\* What LeaseHolding is for: an attempt that has lost its lease (heartbeat
\* mismatch, reap, operator) is never the holder again, so every report it
\* still makes is refused.
THEOREM LostLeasesNeverReturn ==
  WorkerSpec => [][\A a \in active : ~Holding!Entitled(a) => ~Holding!Entitled(a)']_workerVars
<1>1. ASSUME WorkerInv, [WorkerNext]_workerVars, NEW a \in active, ~Holding!Entitled(a)
      PROVE  ~Holding!Entitled(a)'
  <2>1. a.job \in Jobs /\ a.worker \in Workers /\ a.token \in Tokens
    BY <1>1 DEF WorkerInv, WorkerTypes, WorkerTypeOK, Attempts
  <2>2. [worker |-> a.worker, token |-> a.token] # Nil
    BY <2>1, NilAssumption
  <2>3. CASE UNCHANGED lease_meta
    BY <1>1, <2>3 DEF Holding!Entitled
  <2>4. ASSUME NEW S \in SUBSET Jobs, Holding!End(S) PROVE ~Holding!Entitled(a)'
    BY <1>1, <2>1, <2>2, <2>4 DEF Holding!End, Holding!Entitled
  <2>5. ASSUME NEW w \in Workers, NEW S \in SUBSET Jobs, Holding!Grant(w, S)
        PROVE  ~Holding!Entitled(a)'
    <3>1. PICK token \in [S -> Tokens \ Holding!Used] :
             lease_meta' = [j \in Jobs |-> IF j \in S THEN [worker |-> w, token |-> token[j]]
                                                      ELSE lease_meta[j]]
      BY <2>5 DEF Holding!Grant
    <3>2. CASE a.job \in S
      <4>1. token[a.job] # a.token
        BY <3>1, <3>2 DEF Holding!Used
      <4>2. lease_meta'[a.job] = [worker |-> w, token |-> token[a.job]]
        BY <2>1, <3>1, <3>2
      <4>3. QED
        BY <4>1, <4>2 DEF Holding!Entitled
    <3>3. CASE a.job \notin S
      BY <1>1, <2>1, <3>1, <3>3 DEF Holding!Entitled
    <3>4. QED
      BY <3>2, <3>3
  <2>6. \/ UNCHANGED lease_meta
        \/ \E S \in SUBSET Jobs : Holding!End(S) \/ \E w \in Workers : Holding!Grant(w, S)
    <3>1. [Holding!Next]_(Holding!holding)
      BY <1>1, HoldingStep
    <3>2. ASSUME NEW b \in active, Holding!Report(b)
          PROVE  UNCHANGED lease_meta \/ \E S \in SUBSET Jobs : Holding!End(S)
      <4>1. {b.job} \in SUBSET Jobs
        BY <1>1 DEF WorkerInv, WorkerTypes, WorkerTypeOK, Attempts
      <4>2. QED
        BY <3>2, <4>1 DEF Holding!Report
    <3>3. QED
      BY <3>1, <3>2 DEF Holding!Next, Holding!Stop, Holding!Lose, Holding!holding
  <2>7. QED
    BY <2>3, <2>4, <2>5, <2>6
<1>2. WorkerInv /\ [WorkerNext]_workerVars =>
        [\A a \in active : ~Holding!Entitled(a) => ~Holding!Entitled(a)']_workerVars
  BY <1>1
<1>3. QED
  BY <1>2, WorkerInvHolds, PTL DEF WorkerSpec

-----------------------------------------------------------------------------
\* What may end a lease

\* Only the steps of the store that end leases end one: a report, sent now or
\* applied late, a reap of what has expired, an operator.
LEMMA EndingSteps ==
  ASSUME WorkerInv, [WorkerNext]_workerVars, NEW j \in Jobs, Ended(j)
  PROVE  \/ \E w \in Workers : ResolveAnswered(w)
         \/ \E c \in wire : Delivered(c) /\ c.op \in OutcomeKinds
         \/ \E w \in Workers : ReapExpired(Now, Concurrency[w])
         \/ Intervention(j)
<1> USE DEF WorkerInv
<1>1. lease_meta' # lease_meta /\ ~UNCHANGED vars
  BY DEF Ended, vars
<1>2. ASSUME NEW w \in Workers, NEW n \in 1 .. Concurrency[w], NEW T \in SUBSET Tokens,
             Reserve(w, Now, n), {a.token : a \in Batch(w)} \subseteq T
      PROVE  FALSE
  <2>1. Grants(w, T)
    BY <1>2, ReserveGrants
  <2>2. QED
    BY <2>1 DEF Grants, Ended
<1>3. ASSUME NEW w \in Workers, ReserveAnswered(w) PROVE FALSE
  <2>1. /\ Asked(w) \in 1 .. Concurrency[w] /\ UnusedTokens \in SUBSET Tokens
        /\ Reserve(w, Now, Asked(w)) /\ {a.token : a \in Batch(w)} \subseteq UnusedTokens
    BY <1>3, AskedBounded DEF ReserveAnswered, UnusedTokens, FreshTokens
  <2> HIDE DEF Asked, UnusedTokens
  <2>2. QED
    BY <1>2, <2>1
<1>4. ASSUME NEW w \in Workers, HeartbeatAnswered(w) PROVE UNCHANGED lease_meta
  BY <1>4 DEF HeartbeatAnswered, Heartbeat, vars
<1>5. ASSUME NEW w \in Workers, ReapTick(w) PROVE ReapExpired(Now, Concurrency[w])
  BY <1>1, <1>5 DEF ReapTick, Reap
<1>6. ASSUME NEW c \in wire, Delivered(c)
      PROVE  \/ c.op \in OutcomeKinds
             \/ \E w \in Workers : ReapExpired(Now, Concurrency[w])
  <2>1. CASE c.op = "reserve" /\ LateReserve(c)
    BY <1>2, <2>1, WireKinds DEF LateReserve
  <2>2. CASE c.op = "reap" /\ ReapExpired(Now, Concurrency[c.worker])
    BY <2>2, WireKinds
  <2>3. CASE c.op = "heartbeat" /\ Heartbeat(c.attempt.job, c.attempt.worker, c.attempt.token, Now)
    BY <1>1, <2>3 DEF Heartbeat
  <2>4. QED
    BY <1>6, <2>1, <2>2, <2>3 DEF Delivered
<1>7. ASSUME NEW k \in Jobs, Lapse(k) \/ LateHeartbeat(k) \/ ComeDue(k) \/ Requested(k)
      PROVE  UNCHANGED lease_meta
  BY <1>7 DEF Lapse, LateHeartbeat, Lapsed, ComeDue, Requested, EnqueueImmediate, leases
<1>8. ASSUME NEW k \in Jobs, Intervention(k) PROVE Intervention(j)
  <2>1. lease_meta' = ZRem(lease_meta, k)
    BY <1>8 DEF Intervention, ForceAck, ForceFail, EndLease
  <2>2. k = j
    BY <2>1 DEF Ended, ZRem, StoreInv, KeysInv, TypeOK
  <2>3. QED
    BY <1>8, <2>2
<1>9. ASSUME NEW w \in Workers,
             \/ Top(w) \/ ResolveFails(w) \/ Joined(w) \/ HeartbeatTick(w) \/ HeartbeatFails(w)
             \/ ReapFails(w) \/ BackoffOver(w) \/ NapOver(w) \/ ReserveFails(w)
             \/ Stop(w) \/ Restart(w)
      PROVE  UNCHANGED vars
  BY <1>9 DEF Top, ResolveFails, Joined, HeartbeatTick, HeartbeatFails, ReapFails, BackoffOver,
              NapOver, ReserveFails, Stop, Restart
<1>10. ASSUME NEW a \in running, Returns(a) PROVE UNCHANGED vars
  BY <1>10 DEF Returns
<1>11. ASSUME NEW c \in wire, Lost(c) PROVE UNCHANGED vars
  BY <1>11 DEF Lost
<1>12. CASE UNCHANGED workerVars
  BY <1>1, <1>12 DEF workerVars, vars
<1>13. QED
  BY <1>1, <1>3, <1>4, <1>5, <1>6, <1>7, <1>8, <1>9, <1>10, <1>11, <1>12
     DEF WorkerNext, LoopStep

\* The report of an attempt ends its own lease and no other.
LEMMA OwnLeaseEnds ==
  ASSUME StoreInv, NEW a \in Attempts, NEW o, Resolution(a, o), NEW j \in Jobs, Ended(j)
  PROVE  a.job = j /\ Holding!Entitled(a)
<1>1. lease_meta' = ZRem(lease_meta, a.job) /\ Holds(a.job, a.worker, a.token)
  BY ResolutionEnds
<1>2. a.job = j
  BY <1>1 DEF Ended, ZRem, StoreInv, KeysInv, TypeOK
<1>3. QED
  BY <1>1, <1>2, HoldsEntitled

\* A lease ends when it has expired and is reaped, when its own attempt reports,
\* or by an operator: a completion that was retried, or that is applied after
\* its caller gave it up, ends no lease the job was given meanwhile.
THEOREM LeasesEndForAReasonHolds == WorkerSpec => LeasesEndForAReason
<1> DEFINE Reason(j) ==
             \/ leased[j] <= Now /\ In(ready, j)'
             \/ faults' < faults
             \/ \E a \in Reporting : a.job = j /\ Holding!Entitled(a)
<1>1. ASSUME WorkerInv, [WorkerNext]_workerVars, NEW j \in Jobs, Ended(j) PROVE Reason(j)
  <2> USE <1>1 DEF WorkerInv
  <2>1. ASSUME NEW w \in Workers, ResolveAnswered(w)
        PROVE  \E a \in Reporting : a.job = j /\ Holding!Entitled(a)
    <3>1. PICK r \in pending : Applied(r.attempt, r.outcome) /\ pending' = pending \ {r}
      BY <2>1 DEF ResolveAnswered, ResultsOf
    <3>2. r.attempt \in Attempts
      BY DEF WorkerTypes, WorkerTypeOK, Results
    <3>3. Resolution(r.attempt, r.outcome)
      BY <3>1 DEF Applied, Ended, vars
    <3>4. r.attempt \in Reporting
      BY <3>1 DEF Reporting, AttemptsIn
    <3>5. QED
      BY <3>2, <3>3, <3>4, OwnLeaseEnds
  <2>2. ASSUME NEW c \in wire, Delivered(c), c.op \in OutcomeKinds
        PROVE  \E a \in Reporting : a.job = j /\ Holding!Entitled(a)
    <3>1. c.attempt \in Attempts /\ Resolution(c.attempt, c.op) /\ wire' = wire \ {c}
      BY <2>2, WireKinds DEF Delivered, OutcomeKinds
    <3>2. c.attempt \in Reporting
      BY <2>2, <3>1 DEF Reporting
    <3>3. QED
      BY <3>1, <3>2, OwnLeaseEnds
  <2>3. ASSUME NEW w \in Workers, ReapExpired(Now, Concurrency[w])
        PROVE  leased[j] <= Now /\ In(ready, j)'
    <3>1. j \in Reaped(Now, Concurrency[w])
      BY <2>3 DEF ReapExpired, Ended
    <3>2. leased[j] <= Now
      BY <3>1 DEF Reaped, Expired
    <3>3. ready'[j] = Now
      BY <2>3, <3>1 DEF ReapExpired
    <3>4. QED
      BY <3>2, <3>3, Clock DEF In
  <2>4. ASSUME Intervention(j) PROVE faults' < faults
    <3>1. faults \in Nat
      BY WorkerAssumption DEF WorkerTypes, WorkerTypeOK
    <3>2. QED
      BY <2>4, <3>1 DEF Intervention, Spend
  <2>5. QED
    BY <2>1, <2>2, <2>3, <2>4, EndingSteps
<1>2. WorkerInv /\ [WorkerNext]_workerVars =>
        [\A j \in Jobs : Ended(j) => Reason(j)]_workerVars
  BY <1>1
<1>3. QED
  BY <1>2, WorkerInvHolds, PTL DEF WorkerSpec, LeasesEndForAReason

-----------------------------------------------------------------------------
\* Under the workers, the store keeps its own promises

\* Every step of the system that the store sees is one of its scripts, or the
\* clock's.
LEMMA WorkerStepIsScript ==
  ASSUME WorkerTypes, [WorkerNext]_workerVars
  PROVE  [Next]_vars \/ \E j \in Jobs : Lapsed(j) \/ ComeDue(j)
<1>1. ASSUME NEW a \in Attempts, HolderStep(a.job, a.worker, a.token, Now) PROVE Next
  BY <1>1, Clock DEF Next, Attempts
<1>2. ASSUME NEW w \in Workers, ReapExpired(Now, Concurrency[w]) PROVE Next
  BY <1>2, Clock, WorkerAssumption DEF Next
<1>3. ASSUME NEW w \in Workers, NEW n \in 1 .. Concurrency[w], Reserve(w, Now, n) PROVE Next
  BY <1>3, Clock, WorkerAssumption DEF Next
<1>4. ASSUME NEW w \in Workers, ResolveAnswered(w) PROVE [Next]_vars
  <2>1. PICK r \in ResultsOf(w, pending) : Applied(r.attempt, r.outcome)
    BY <1>4 DEF ResolveAnswered
  <2>2. r.attempt \in Attempts
    BY DEF ResultsOf, WorkerTypes, WorkerTypeOK, Results
  <2>3. QED
    BY <1>1, <2>1, <2>2, ResolutionStep DEF Applied
<1>5. ASSUME NEW w \in Workers, HeartbeatAnswered(w) PROVE [Next]_vars
  <2>1. PICK a \in todo[w] : Heartbeat(a.job, a.worker, a.token, Now) \/ UNCHANGED vars
    BY <1>5 DEF HeartbeatAnswered
  <2>2. a \in Attempts
    BY DEF WorkerTypes, WorkerTypeOK
  <2>3. QED
    BY <1>1, <2>1, <2>2 DEF HolderStep
<1>6. ASSUME NEW w \in Workers, ReapTick(w) PROVE [Next]_vars
  BY <1>2, <1>6 DEF ReapTick, Reap
<1>7. ASSUME NEW w \in Workers, ReserveAnswered(w) PROVE Next
  <2>1. Asked(w) \in 1 .. Concurrency[w] /\ Reserve(w, Now, Asked(w))
    BY <1>7, AskedBounded DEF ReserveAnswered
  <2> HIDE DEF Asked
  <2>2. QED
    BY <1>3, <2>1
<1>8. ASSUME NEW c \in wire, Delivered(c) PROVE Next
  <2>1. CASE c.op = "reserve" /\ LateReserve(c)
    BY <1>3, <2>1, WireKinds DEF LateReserve
  <2>2. CASE c.op = "reap" /\ ReapExpired(Now, Concurrency[c.worker])
    BY <1>2, <2>2, WireKinds
  <2>3. CASE c.op = "heartbeat" /\ Heartbeat(c.attempt.job, c.attempt.worker, c.attempt.token, Now)
    BY <1>1, <2>3, WireKinds DEF HolderStep
  <2>4. CASE c.op \in OutcomeKinds /\ Resolution(c.attempt, c.op)
    BY <1>1, <2>4, WireKinds, ResolutionStep
  <2>5. QED
    BY <1>8, <2>1, <2>2, <2>3, <2>4 DEF Delivered
<1>9. ASSUME NEW j \in Jobs, Requested(j) \/ Intervention(j) PROVE Next
  BY <1>9, Clock DEF Requested, Intervention, ClientStep, OperatorStep, Next
<1>10. ASSUME NEW j \in Jobs, Lapse(j) \/ LateHeartbeat(j) PROVE Lapsed(j)
  BY <1>10 DEF Lapse, LateHeartbeat
<1>11. ASSUME NEW w \in Workers,
              \/ Top(w) \/ ResolveFails(w) \/ Joined(w) \/ HeartbeatTick(w) \/ HeartbeatFails(w)
              \/ ReapFails(w) \/ BackoffOver(w) \/ NapOver(w) \/ ReserveFails(w)
              \/ Stop(w) \/ Restart(w)
       PROVE  UNCHANGED vars
  BY <1>11 DEF Top, ResolveFails, Joined, HeartbeatTick, HeartbeatFails, ReapFails, BackoffOver,
               NapOver, ReserveFails, Stop, Restart
<1>12. ASSUME NEW a \in running, Returns(a) PROVE UNCHANGED vars
  BY <1>12 DEF Returns
<1>13. ASSUME NEW c \in wire, Lost(c) PROVE UNCHANGED vars
  BY <1>13 DEF Lost
<1>14. CASE UNCHANGED workerVars
  BY <1>14 DEF workerVars
<1>15. QED
  BY <1>4, <1>5, <1>6, <1>7, <1>8, <1>9, <1>10, <1>11, <1>12, <1>13, <1>14
     DEF WorkerNext, LoopStep

\* A deadline or a schedule that comes down to Now moves no job.
LEMMA ClockRenews ==
  ASSUME StoreInv, NEW j \in Jobs, Lapsed(j) \/ ComeDue(j)
  PROVE  Renews
<1>1. CASE Lapsed(j)
  <2>1. /\ leased' = [leased EXCEPT ![j] = Now] /\ leased[j] # Nil
        /\ UNCHANGED <<ready, scheduled, failed, lease_meta, failures, rerun, cfg>>
    BY <1>1 DEF Lapsed, ZAdd, In, placement, registry
  <2>2. \A k \in Jobs : leased'[k] # Nil <=> leased[k] # Nil
    BY <2>1, Clock DEF StoreInv, KeysInv, TypeOK, Placement
  <2>3. QED
    BY <2>1, <2>2 DEF Renews, CurrentState, In
<1>2. CASE ComeDue(j)
  <2>1. /\ scheduled' = [scheduled EXCEPT ![j] = Now] /\ scheduled[j] # Nil
        /\ UNCHANGED <<ready, failed, leased, lease_meta, failures, rerun, cfg>>
    BY <1>2 DEF ComeDue, ZAdd, In, leases, registry
  <2>2. \A k \in Jobs : scheduled'[k] # Nil <=> scheduled[k] # Nil
    BY <2>1, Clock DEF StoreInv, KeysInv, TypeOK, Placement
  <2>3. QED
    BY <2>1, <2>2 DEF Renews, CurrentState, In
<1>3. QED
  BY <1>1, <1>2

\* Workers, handlers and a failing connection move jobs only as JobLifecycle
\* allows.
THEOREM WorkerImplementsLifecycle == WorkerSpec => ImplementsLifecycle
<1>1. WorkerInit => Lifecycle!Init
  BY DEF WorkerInit, Init, Lifecycle!Init, CurrentState, In
<1>2. WorkerInv /\ [WorkerNext]_workerVars => [Lifecycle!Next]_(Lifecycle!lifecycle)
  <2> SUFFICES ASSUME WorkerInv, [WorkerNext]_workerVars
               PROVE  [Lifecycle!Next]_(Lifecycle!lifecycle)
    OBVIOUS
  <2>1. CASE [Next]_vars
    BY <2>1, StepRefines DEF WorkerInv, StoreInv
  <2>2. ASSUME Renews PROVE UNCHANGED Lifecycle!lifecycle
    BY <2>2 DEF Renews, Lifecycle!lifecycle
  <2>3. QED
    BY <2>1, <2>2, ClockRenews, WorkerStepIsScript DEF WorkerInv
<1>3. QED
  BY <1>1, <1>2, WorkerInvHolds, PTL DEF WorkerSpec, ImplementsLifecycle, Lifecycle!Spec

\* However often its attempts are lost, retried or reported late, no job is
\* tried more often than the namespace's policy allows.
THEOREM WorkerBudgetHolds == WorkerSpec => []FailuresWithinBudget
<1> DEFINE BudgetInv == \A j \in Jobs : JobBudget(j)
<1>1. WorkerInit => BudgetInv
  <2>1. WorkerInit => \A j \in Jobs : CurrentState(j) = "none" /\ failures[j] = 0
    BY DEF WorkerInit, Init, CurrentState, In
  <2>2. QED
    BY <2>1 DEF JobBudget
<1>2. WorkerInv /\ BudgetInv /\ [WorkerNext]_workerVars => BudgetInv'
  <2> SUFFICES ASSUME WorkerInv, BudgetInv, [WorkerNext]_workerVars PROVE BudgetInv'
    OBVIOUS
  <2>1. CASE [Next]_vars
    BY <2>1, NextJobBudget DEF WorkerInv, StoreInv
  <2>2. ASSUME Renews PROVE BudgetInv'
    <3>1. ASSUME NEW k \in Jobs PROVE JobBudget(k)'
      <4>1. CurrentState(k)' = CurrentState(k) /\ failures'[k] = failures[k] /\ cfg' = cfg
        BY <2>2 DEF Renews
      <4>2. QED
        BY <4>1 DEF JobBudget
    <3>2. QED
      BY <3>1
  <2>3. QED
    BY <2>1, <2>2, ClockRenews, WorkerStepIsScript DEF WorkerInv
<1>3. WorkerInv /\ BudgetInv => FailuresWithinBudget
  BY BudgetByJob DEF Budget, WorkerInv, StoreInv
<1>4. QED
  BY <1>1, <1>2, <1>3, WorkerInvHolds, PTL DEF WorkerSpec

\* The action properties of the store, of every step of the system.
LEMMA WorkerKeepsHistory ==
  WorkerInv /\ [WorkerNext]_workerVars => HistoryKept /\ RerunKept
<1> SUFFICES ASSUME WorkerInv, [WorkerNext]_workerVars PROVE HistoryKept /\ RerunKept
  OBVIOUS
<1>1. CASE [Next]_vars
  BY <1>1, NextHistoryKept, NextRerunKept DEF WorkerInv, StoreInv
<1>2. ASSUME Renews PROVE HistoryKept /\ RerunKept
  <2>1. \A j \in Jobs : failures[j] \in Int
    BY LimitsAssumption DEF WorkerInv, StoreInv, KeysInv, TypeOK
  <2>2. QED
    BY <1>2, <2>1 DEF Renews, HistoryKept, RerunKept
<1>3. QED
  BY <1>1, <1>2, ClockRenews, WorkerStepIsScript DEF WorkerInv

\* A run requested while a worker has the job stays requested until that lease
\* ends, and is then used up by a job that is ready to run again or by one more
\* failure that was counted: lost answers, late commands, reaps and stops of
\* workers consume no request in any other way.
THEOREM WorkerRerunNotLostHolds == WorkerSpec => RerunNotLost
<1>1. UNCHANGED workerVars => UNCHANGED vars
  BY DEF workerVars
<1>2. QED
  BY <1>1, WorkerKeepsHistory, WorkerInvHolds, PTL DEF WorkerSpec, RerunNotLost, RerunKept

\* Retries, late answers and stops lower no failure counter but at the end of a
\* lease.
THEOREM WorkerFailureHistoryKeptHolds == WorkerSpec => FailureHistoryKept
<1>1. UNCHANGED workerVars => UNCHANGED vars
  BY DEF workerVars
<1>2. QED
  BY <1>1, WorkerKeepsHistory, WorkerInvHolds, PTL DEF WorkerSpec, FailureHistoryKept, HistoryKept
=============================================================================
