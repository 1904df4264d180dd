--------------------------- MODULE ScriptLoopsProofs ---------------------------
(***************************************************************************)
(* The loops of reserve.lua and reap_expired.lua end with exactly the sets   *)
(* that RedloopStore takes them for, proved for every state of the keys they *)
(* may find, any number of jobs and any capacity.                            *)
(*                                                                          *)
(* RedloopStore says which jobs by counting: those with fewer than n others  *)
(* before them.  The loops take one at a time.  LEMMA NextRank is the bridge:  *)
(* if the n jobs taken so far are those with fewer than n before them, and    *)
(* the next one comes before all that are left, the same holds for n + 1.     *)
(* What remains is that the next one does come before all that are left,      *)
(* although reserve compares the heads of two sets, one of which has         *)
(* duplicates in it.                                                        *)
(***************************************************************************)
EXTENDS ScriptLoops, FiniteSetTheorems, TLAPS

-----------------------------------------------------------------------------
\* Rankings

\* The elements of D with fewer than n others before them.
Ranked(D, P, n) == {j \in D : Cardinality(P[j]) < n}

\* Adding the first of the rest to the first n gives the first n + 1.
LEMMA NextRank ==
  ASSUME NEW D, IsFiniteSet(D), NEW P \in [D -> SUBSET D],
         \A a, b \in D : a \in P[b] => b \notin P[a],
         NEW G \in SUBSET D, G = Ranked(D, P, Cardinality(G)),
         \A g \in G, k \in D \ G : g \in P[k],
         NEW m \in D \ G, \A k \in D \ G : k # m => m \in P[k]
  PROVE  /\ Cardinality(G \cup {m}) = Cardinality(G) + 1
         /\ G \cup {m} = Ranked(D, P, Cardinality(G) + 1)
         /\ \A g \in G \cup {m}, k \in D \ (G \cup {m}) : g \in P[k]
<1>1. /\ IsFiniteSet(G) /\ Cardinality(G) \in Nat
      /\ Cardinality(G \cup {m}) = Cardinality(G) + 1
  BY FS_Subset, FS_CardinalityType, FS_AddElement
<1>2. \A j \in D : IsFiniteSet(P[j]) /\ Cardinality(P[j]) \in Nat
  BY FS_Subset, FS_CardinalityType
<1>3. P[m] = G
  OBVIOUS
<1>4. ASSUME NEW k \in D \ (G \cup {m}) PROVE Cardinality(G) + 1 <= Cardinality(P[k])
  <2>1. G \cup {m} \in SUBSET P[k]
    OBVIOUS
  <2>2. QED
    BY <1>1, <1>2, <2>1, FS_Subset
<1>5. ASSUME NEW g \in G PROVE Cardinality(P[g]) < Cardinality(G)
  BY DEF Ranked
<1>6. Cardinality(P[m]) < Cardinality(G) + 1
  BY <1>1, <1>3
<1>7. G \cup {m} = Ranked(D, P, Cardinality(G) + 1)
  <2>1. ASSUME NEW j \in D
        PROVE  j \in G \cup {m} <=> Cardinality(P[j]) < Cardinality(G) + 1
    <3>1. CASE j \in G
      BY <1>1, <1>2, <1>5, <3>1
    <3>2. CASE j = m
      BY <1>6, <3>2
    <3>3. CASE j \notin G \cup {m}
      BY <1>1, <1>2, <1>4, <3>3
    <3>4. QED
      BY <3>1, <3>2, <3>3
  <2>2. G \cup {m} \subseteq D
    OBVIOUS
  <2>3. G \cup {m} = {j \in D : Cardinality(P[j]) < Cardinality(G) + 1}
    BY <2>1, <2>2, Zenon
  <2>4. QED
    BY <2>3, Zenon DEF Ranked
<1>8. QED
  BY <1>1, <1>7

\* When all have been taken, a larger n takes no more.
LEMMA AllRanked ==
  ASSUME NEW D, IsFiniteSet(D), NEW P \in [D -> SUBSET D],
         D = Ranked(D, P, Cardinality(D)), NEW n \in Nat, Cardinality(D) <= n
  PROVE  D = Ranked(D, P, n)
<1>1. \A j \in D : Cardinality(P[j]) \in Nat
  BY FS_Subset, FS_CardinalityType
<1>2. Cardinality(D) \in Nat
  BY FS_CardinalityType
<1>3. QED
  BY <1>1, <1>2 DEF Ranked

LEMMA Least ==
  ASSUME NEW S, S \subseteq Nat, S # {}
  PROVE  \E m \in S : \A k \in S : m <= k
<1>1. PICK m \in S : \A k \in S : ~(<<k, m>> \in OpToRel(<, Nat))
  BY WFMin, NatLessThanWellFounded, Zenon
<1>2. \A k \in S : ~(k < m)
  BY <1>1, Zenon DEF OpToRel
<1>3. QED
  BY <1>2

\* a comes before b in the ZSET z
Precedes(z, a, b) == z[a] < z[b] \/ (z[a] = z[b] /\ a < b)

\* What ZRANGE 0 0 answers is a member, and comes before the others.
LEMMA FirstIsLeast ==
  ASSUME NEW z, NEW S, S \subseteq Nat, S # {}, \A j \in S : z[j] \in Nat
  PROVE  /\ First(z, S) \in S
         /\ \A k \in S : k # First(z, S) => Precedes(z, First(z, S), k)
<1>1. PICK j \in S : \A k \in S \ {j} : z[j] < z[k] \/ (z[j] = z[k] /\ j < k)
  <2> DEFINE scores == {z[j] : j \in S}
  <2>1. scores \subseteq Nat /\ scores # {}
    OBVIOUS
  <2> HIDE DEF scores
  <2>2. PICK v \in scores : \A u \in scores : v <= u
    BY <2>1, Least
  <2> DEFINE lowest == {j \in S : z[j] = v}
  <2>3. lowest \subseteq Nat /\ lowest # {}
    BY DEF scores
  <2> HIDE DEF lowest
  <2>4. PICK j \in lowest : \A k \in lowest : j <= k
    BY <2>3, Least
  <2>5. j \in S /\ z[j] = v /\ v \in Nat
    BY <2>1 DEF lowest
  <2>6. ASSUME NEW k \in S \ {j} PROVE z[j] < z[k] \/ (z[j] = z[k] /\ j < k)
    <3>1. v <= z[k] /\ z[k] \in Nat /\ j \in Nat /\ k \in Nat
      BY <2>2, <2>5 DEF scores
    <3>2. z[k] = v => j <= k
      BY <2>4 DEF lowest
    <3>3. QED
      BY <2>5, <2>6, <3>1, <3>2
  <2>7. QED
    BY <2>5, <2>6
<1>2. /\ First(z, S) \in S
      /\ \A k \in S \ {First(z, S)} :
            z[First(z, S)] < z[k] \/ (z[First(z, S)] = z[k] /\ First(z, S) < k)
  BY <1>1, Zenon DEF First
<1>3. QED
  BY <1>2 DEF Precedes

-----------------------------------------------------------------------------
\* What a script found, in the terms of RedloopStore

DueAtStart == Store!Due(call.now)
Before == [j \in DueAtStart |-> {k \in DueAtStart : Store!TakenBefore(k, j)}]

ExpiredAtStart == Store!Expired(call.now)
Sooner == [j \in ExpiredAtStart |-> {k \in ExpiredAtStart : Store!ExpiresBefore(k, j)}]

Keys == [Jobs -> Nat \cup {Nil}]

StartTypes ==
    /\ call.now \in Nat /\ call.bound \in Nat
    /\ start.ready \in Keys /\ start.scheduled \in Keys /\ start.leased \in Keys
    /\ start.lease_meta \in [Jobs -> [worker : Workers, token : Nat] \cup {Nil}]
    /\ start.workers_leases \in [Workers -> Nat]
    /\ \A j \in Jobs : ~(In(start.ready, j) /\ In(start.leased, j))
    /\ Reserving => call.tokens = call.bound

LEMMA StartSame ==
  ASSUME UNCHANGED <<call, start>>
  PROVE  /\ DueAtStart' = DueAtStart /\ Before' = Before
         /\ ExpiredAtStart' = ExpiredAtStart /\ Sooner' = Sooner
         /\ \A w \in Workers : Store!LeasesOf(w)' = Store!LeasesOf(w)
         /\ \A n : Ranked(DueAtStart, Before, n)' = Ranked(DueAtStart, Before, n)
         /\ StartTypes => StartTypes'
<1>1. DueAtStart' = DueAtStart
  BY DEF DueAtStart, Store!Due, Disregarded, Store!In, In
<1>2. \A a, b : Store!TakenBefore(a, b)' <=> Store!TakenBefore(a, b)
  BY DEF Store!TakenBefore, Store!ActivationScore, Disregarded, Store!In, In
<1>3. Before' = Before
  BY <1>1, <1>2 DEF Before
<1>4. ExpiredAtStart' = ExpiredAtStart
  BY DEF ExpiredAtStart, Store!Expired, Store!In
<1>5. \A a, b : Store!ExpiresBefore(a, b)' <=> Store!ExpiresBefore(a, b)
  BY DEF Store!ExpiresBefore
<1>6. Sooner' = Sooner
  BY <1>4, <1>5 DEF Sooner
<1>7. \A w \in Workers : Store!LeasesOf(w)' = Store!LeasesOf(w)
  BY DEF Store!LeasesOf
<1>8. StartTypes => StartTypes'
  BY DEF StartTypes, Keys, In, Reserving
<1>9. \A n : Ranked(DueAtStart, Before, n)' = Ranked(DueAtStart, Before, n)
  BY <1>1, <1>3 DEF Ranked
<1>10. QED
  BY <1>1, <1>3, <1>4, <1>6, <1>7, <1>8, <1>9

\* RedloopStore counts as this module does.
LEMMA SameCardinality ==
  ASSUME NEW S
  PROVE  Store!Cardinality(S) = Cardinality(S)
BY Zenon DEF Store!Cardinality, Cardinality

\* RedloopStore's sets are rankings.
LEMMA ReservedIsRanked ==
  ASSUME NEW n
  PROVE  Store!Reserved(call.now, n) = Ranked(DueAtStart, Before, n)
<1>1. \A j \in DueAtStart : Before[j] = {k \in Store!Due(call.now) : Store!TakenBefore(k, j)}
  BY DEF Before, DueAtStart
<1>2. \A j \in DueAtStart : Cardinality(Before[j])
         = Store!Cardinality({k \in Store!Due(call.now) : Store!TakenBefore(k, j)})
  BY <1>1, SameCardinality
<1>3. QED
  BY <1>2 DEF Store!Reserved, Ranked, DueAtStart

LEMMA ReapedIsRanked ==
  ASSUME NEW n
  PROVE  Store!Reaped(call.now, n) = Ranked(ExpiredAtStart, Sooner, n)
<1>1. \A j \in ExpiredAtStart :
         Sooner[j] = {k \in Store!Expired(call.now) : Store!ExpiresBefore(k, j)}
  BY DEF Sooner, ExpiredAtStart
<1>2. \A j \in ExpiredAtStart : Cardinality(Sooner[j])
         = Store!Cardinality({k \in Store!Expired(call.now) : Store!ExpiresBefore(k, j)})
  BY <1>1, SameCardinality
<1>3. QED
  BY <1>2 DEF Store!Reaped, Ranked, ExpiredAtStart

\* The order in which leases expire is one.
LEMMA SoonerIsAnOrder ==
  ASSUME StartTypes
  PROVE  /\ IsFiniteSet(ExpiredAtStart) /\ ExpiredAtStart \subseteq Jobs
         /\ \A j \in ExpiredAtStart : start.leased[j] \in Nat /\ start.leased[j] <= call.now
         /\ Sooner \in [ExpiredAtStart -> SUBSET ExpiredAtStart]
         /\ \A a, b \in ExpiredAtStart : a \in Sooner[b] <=> Precedes(start.leased, a, b)
         /\ \A a, b \in ExpiredAtStart : a \in Sooner[b] => b \notin Sooner[a]
<1>1. ExpiredAtStart \subseteq Jobs
      /\ \A j \in ExpiredAtStart : start.leased[j] \in Nat /\ start.leased[j] <= call.now
  BY DEF ExpiredAtStart, Store!Expired, Store!In, StartTypes, Keys
<1>2. \A a, b \in ExpiredAtStart : a \in Sooner[b] <=> Precedes(start.leased, a, b)
  BY DEF Sooner, Store!ExpiresBefore, Precedes
<1>3. \A a, b \in ExpiredAtStart : a \in Nat /\ b \in Nat
  BY <1>1, LoopAssumption
<1>4. \A a, b \in ExpiredAtStart : a \in Sooner[b] => b \notin Sooner[a]
  BY <1>1, <1>2, <1>3 DEF Precedes
<1>5. QED
  BY <1>1, <1>2, <1>4, LoopAssumption, FS_Subset DEF Sooner

\* The order in which jobs are reserved is one.
LEMMA BeforeIsAnOrder ==
  ASSUME StartTypes
  PROVE  /\ IsFiniteSet(DueAtStart) /\ DueAtStart \subseteq Jobs
         /\ \A j \in DueAtStart : \/ In(start.ready, j)
                                  \/ /\ ~In(start.ready, j) /\ In(Disregarded, j)
                                     /\ Disregarded[j] <= call.now
         /\ Before \in [DueAtStart -> SUBSET DueAtStart]
         /\ \A a, b \in DueAtStart : a \in Before[b] <=> Store!TakenBefore(a, b)
         /\ \A a, b \in DueAtStart : a \in Before[b] => b \notin Before[a]
<1>1. DueAtStart \subseteq Jobs
      /\ \A j \in DueAtStart : \/ In(start.ready, j)
                               \/ /\ ~In(start.ready, j) /\ In(Disregarded, j)
                                  /\ Disregarded[j] <= call.now
  BY DEF DueAtStart, Store!Due, Store!In, In
<1>2. \A a, b \in DueAtStart : a \in Before[b] <=> Store!TakenBefore(a, b)
  BY DEF Before
<1>3. \A j \in DueAtStart : j \in Nat /\ Store!ActivationScore(j) \in Nat
  BY <1>1, LoopAssumption DEF Store!ActivationScore, Store!In, In, StartTypes, Keys, Disregarded
<1>4. \A a, b \in DueAtStart : a \in Before[b] => b \notin Before[a]
  BY <1>2, <1>3 DEF Store!TakenBefore
<1>5. QED
  BY <1>1, <1>2, <1>4, LoopAssumption, FS_Subset DEF Before

-----------------------------------------------------------------------------
\* reap_expired.lua

ReapedSoFar == Ranked(ExpiredAtStart, Sooner, reaped)

Floor(n, m) == IF n <= m THEN 0 ELSE n - m

\* After each turn of the loop the keys are RedloopStore's ReapExpired with the
\* number of turns for its limit.
ReapLoop ==
    /\ reaped \in Nat /\ reaped <= call.bound /\ Cardinality(ReapedSoFar) = reaped
    /\ \A g \in ReapedSoFar, k \in ExpiredAtStart \ ReapedSoFar : g \in Sooner[k]
    /\ ready = [j \in Jobs |-> IF j \in ReapedSoFar THEN call.now ELSE Nil]
    /\ leased = [j \in Jobs |-> IF j \in ReapedSoFar THEN Nil ELSE start.leased[j]]
    /\ lease_meta = [j \in Jobs |-> IF j \in ReapedSoFar THEN Nil ELSE start.lease_meta[j]]
    /\ workers_leases =
          [w \in Workers |-> Floor(start.workers_leases[w],
                                   Cardinality(ReapedSoFar \cap Store!LeasesOf(w)))]
    /\ ~running => reaped = call.bound \/ Expired = {}

\* The leases that are expired now are those that were at the start, without
\* those that have been reaped.
LEMMA ExpiredNow ==
  ASSUME StartTypes, ReapLoop
  PROVE  /\ Expired = ExpiredAtStart \ ReapedSoFar
         /\ ReapedSoFar \subseteq ExpiredAtStart
BY DEF ReapLoop, Expired, ExpiredAtStart, Store!Expired, Store!In, In, Ranked, ReapedSoFar

LEMMA ReapStep ==
  ASSUME StartTypes, ReapLoop, ReapNext
  PROVE  ReapLoop'
<1> DEFINE S == ReapedSoFar
           j == First(leased, Expired)
<1>1. /\ running /\ reaped < call.bound /\ Expired # {}
      /\ leased' = [leased EXCEPT ![j] = Nil]
      /\ lease_meta' = [lease_meta EXCEPT ![j] = Nil]
      /\ ready' = [ready EXCEPT ![j] = call.now]
      /\ workers_leases' =
            IF lease_meta[j] = Nil THEN workers_leases
            ELSE [workers_leases EXCEPT ![lease_meta[j].worker] = Decremented(@)]
      /\ reaped' = reaped + 1
      /\ UNCHANGED <<call, start, running>>
  BY DEF ReapNext
<1>2. /\ Expired = ExpiredAtStart \ S /\ S \subseteq ExpiredAtStart /\ ExpiredAtStart \subseteq Jobs
      /\ reaped \in Nat /\ call.bound \in Nat /\ Cardinality(S) = reaped
      /\ \A g \in S, k \in ExpiredAtStart \ S : g \in Sooner[k]
  BY ExpiredNow, SoonerIsAnOrder DEF ReapLoop, StartTypes
<1>3. j \in ExpiredAtStart \ S /\ \A k \in ExpiredAtStart \ S : k # j => j \in Sooner[k]
  <2>1. \A k \in Expired : leased[k] = start.leased[k] /\ leased[k] \in Nat
    BY <1>2, SoonerIsAnOrder DEF ReapLoop
  <2>2. Expired \subseteq Nat
    BY <1>2, LoopAssumption
  <2>3. j \in Expired /\ \A k \in Expired : k # j => Precedes(leased, j, k)
    BY <1>1, <2>1, <2>2, FirstIsLeast
  <2> HIDE DEF j
  <2>4. \A k \in Expired : k # j => Precedes(start.leased, j, k)
    BY <2>1, <2>3 DEF Precedes
  <2>5. QED
    BY <1>2, <2>3, <2>4, SoonerIsAnOrder
<1> HIDE DEF j
<1>4. /\ Cardinality(S \cup {j}) = reaped + 1
      /\ S \cup {j} = Ranked(ExpiredAtStart, Sooner, reaped + 1)
      /\ \A g \in S \cup {j}, k \in ExpiredAtStart \ (S \cup {j}) : g \in Sooner[k]
  <2>1. S = Ranked(ExpiredAtStart, Sooner, Cardinality(S))
    BY <1>2 DEF ReapedSoFar
  <2> HIDE DEF S
  <2>2. /\ Cardinality(S \cup {j}) = Cardinality(S) + 1
        /\ S \cup {j} = Ranked(ExpiredAtStart, Sooner, Cardinality(S) + 1)
        /\ \A g \in S \cup {j}, k \in ExpiredAtStart \ (S \cup {j}) : g \in Sooner[k]
    BY <1>2, <1>3, <2>1, SoonerIsAnOrder, NextRank
  <2>3. QED
    BY <1>2, <2>2
<1>5. ReapedSoFar' = S \cup {j} /\ ExpiredAtStart' = ExpiredAtStart /\ Sooner' = Sooner
  BY <1>1, <1>4, StartSame DEF ReapedSoFar, Ranked
<1>6. /\ ready' = [k \in Jobs |-> IF k \in S \cup {j} THEN call.now ELSE Nil]
      /\ leased' = [k \in Jobs |-> IF k \in S \cup {j} THEN Nil ELSE start.leased[k]]
      /\ lease_meta' = [k \in Jobs |-> IF k \in S \cup {j} THEN Nil ELSE start.lease_meta[k]]
  BY <1>1, <1>2, <1>3 DEF ReapLoop
<1>7. workers_leases' =
         [w \in Workers |-> Floor(start.workers_leases[w],
                                  Cardinality((S \cup {j}) \cap Store!LeasesOf(w)))]
  <2>1. j \in Jobs /\ j \notin S /\ lease_meta[j] = start.lease_meta[j]
    BY <1>2, <1>3 DEF ReapLoop
  <2>2. ASSUME NEW w \in Workers
        PROVE  /\ IsFiniteSet(S \cap Store!LeasesOf(w))
               /\ Cardinality(S \cap Store!LeasesOf(w)) \in Nat
    <3>1. IsFiniteSet(S)
      BY <1>2, LoopAssumption, FS_Subset
    <3>2. QED
      BY <3>1, FS_Intersection, FS_CardinalityType
  <2>3. workers_leases = [w \in Workers |-> Floor(start.workers_leases[w],
                                                  Cardinality(S \cap Store!LeasesOf(w)))]
    BY DEF ReapLoop
  <2> HIDE DEF S
  <2>4. CASE lease_meta[j] = Nil
    <3>1. \A w \in Workers : (S \cup {j}) \cap Store!LeasesOf(w) = S \cap Store!LeasesOf(w)
      BY <2>1, <2>4 DEF Store!LeasesOf
    <3>2. QED
      BY <1>1, <2>3, <2>4, <3>1
  <2>5. CASE lease_meta[j] # Nil
    <3> DEFINE v == lease_meta[j].worker
    <3>1. v \in Workers
      BY <2>1, <2>5 DEF StartTypes
    <3>2. ASSUME NEW w \in Workers, w # v
          PROVE  (S \cup {j}) \cap Store!LeasesOf(w) = S \cap Store!LeasesOf(w)
      BY <2>1, <2>5, <3>2 DEF Store!LeasesOf
    <3>3. Cardinality((S \cup {j}) \cap Store!LeasesOf(v))
            = Cardinality(S \cap Store!LeasesOf(v)) + 1
      <4>1. /\ (S \cup {j}) \cap Store!LeasesOf(v) = (S \cap Store!LeasesOf(v)) \cup {j}
            /\ j \notin S \cap Store!LeasesOf(v)
        BY <2>1, <2>5 DEF Store!LeasesOf
      <4>2. QED
        BY <2>2, <3>1, <4>1, FS_AddElement
    <3>4. workers_leases' = [workers_leases EXCEPT ![v] = Decremented(@)]
      BY <1>1, <2>5
    <3> HIDE DEF v
    <3>5. ASSUME NEW n \in Nat, NEW m \in Nat
          PROVE  Decremented(Floor(n, m)) = Floor(n, m + 1)
      BY DEF Decremented, Floor
    <3>6. /\ start.workers_leases[v] \in Nat
          /\ Cardinality(S \cap Store!LeasesOf(v)) \in Nat
      BY <2>2, <3>1 DEF StartTypes
    <3>7. workers_leases'[v] = Floor(start.workers_leases[v],
                                     Cardinality((S \cup {j}) \cap Store!LeasesOf(v)))
      BY <2>3, <3>1, <3>3, <3>4, <3>5, <3>6
    <3>8. \A w \in Workers \ {v} : workers_leases'[w] = workers_leases[w]
      BY <2>3, <3>4
    <3>9. workers_leases' = [w \in Workers |-> workers_leases'[w]]
      BY <2>3, <3>4
    <3>10. QED
      BY <2>3, <3>1, <3>2, <3>7, <3>8, <3>9
  <2>6. QED
    BY <2>4, <2>5
<1>8. /\ reaped' \in Nat /\ reaped' <= call'.bound /\ Cardinality(ReapedSoFar') = reaped'
      /\ \A w \in Workers : Store!LeasesOf(w)' = Store!LeasesOf(w)
  BY <1>1, <1>2, <1>4, <1>5, StartSame
<1> HIDE DEF S
<1>9. /\ \A g \in ReapedSoFar', k \in ExpiredAtStart' \ ReapedSoFar' : g \in Sooner'[k]
      /\ ready' = [k \in Jobs |-> IF k \in ReapedSoFar' THEN call'.now ELSE Nil]
      /\ leased' = [k \in Jobs |-> IF k \in ReapedSoFar' THEN Nil ELSE start'.leased[k]]
      /\ lease_meta' = [k \in Jobs |-> IF k \in ReapedSoFar' THEN Nil ELSE start'.lease_meta[k]]
  BY <1>1, <1>4, <1>5, <1>6
<1>10. workers_leases' =
         [w \in Workers |-> Floor(start'.workers_leases[w],
                                  Cardinality(ReapedSoFar' \cap Store!LeasesOf(w)'))]
  BY <1>1, <1>5, <1>7, <1>8
<1>11. running'
  BY <1>1
<1>12. QED
  BY <1>8, <1>9, <1>10, <1>11 DEF ReapLoop

-----------------------------------------------------------------------------
\* reserve.lua

GrantedSoFar == Granted(Len(granted))

\* After each turn of the loop the granted jobs are RedloopStore's Reserved with
\* the number of turns for its capacity, and the keys are what they were without
\* them; duplicates may have been dropped.
ReserveLoop ==
    /\ granted \in Seq(DueAtStart) /\ Len(granted) <= call.bound
    /\ Cardinality(GrantedSoFar) = Len(granted)
    /\ \A n \in 0 .. Len(granted) : Granted(n) = Ranked(DueAtStart, Before, n)
    /\ \A g \in GrantedSoFar, k \in DueAtStart \ GrantedSoFar : g \in Before[k]
    /\ ready = [j \in Jobs |-> IF j \in GrantedSoFar THEN Nil ELSE start.ready[j]]
    /\ scheduled \in Keys /\ leased \in Keys
    /\ \A j \in Jobs :
          /\ In(leased, j) <=> In(start.leased, j) \/ j \in GrantedSoFar
          /\ In(start.leased, j) => leased[j] = start.leased[j]
          /\ scheduled[j] \in {Nil, start.scheduled[j]}
          /\ In(Disregarded, j) =>
                scheduled[j] = IF j \in GrantedSoFar THEN Nil ELSE start.scheduled[j]
    /\ ~running => Len(granted) = call.bound \/ (Members(ready) = {} /\ Due(scheduled) = {})

\* The jobs that are due and scheduled, and have not been granted.
StillScheduled == {j \in DueAtStart \ GrantedSoFar : ~In(start.ready, j)}

LEMMA GrantedAreDue ==
  ASSUME StartTypes, ReserveLoop
  PROVE  /\ GrantedSoFar \subseteq DueAtStart /\ DueAtStart \subseteq Jobs
         /\ GrantedSoFar = Ranked(DueAtStart, Before, Len(granted))
         /\ Len(granted) \in Nat
         /\ \A j \in GrantedSoFar : ~In(start.leased, j)
<1>1. Len(granted) \in Nat /\ GrantedSoFar \subseteq DueAtStart
  <2>1. granted \in Seq(DueAtStart)
    BY DEF ReserveLoop
  <2>2. Len(granted) \in Nat /\ \A i \in 1 .. Len(granted) : granted[i] \in DueAtStart
    BY <2>1
  <2>3. QED
    BY <2>2 DEF GrantedSoFar, Granted
<1>2. GrantedSoFar = Ranked(DueAtStart, Before, Len(granted))
  BY <1>1 DEF ReserveLoop, GrantedSoFar
<1>3. \A j \in DueAtStart : j \in Jobs /\ ~In(start.leased, j)
  BY BeforeIsAnOrder DEF StartTypes, Disregarded, In
<1>4. QED
  BY <1>1, <1>2, <1>3

\* A scheduled job that is due now is one of those, or a duplicate.
LEMMA DueScheduled ==
  ASSUME StartTypes, ReserveLoop
  PROVE  LET duplicates == {j \in Due(scheduled) : In(ready, j) \/ In(leased, j)} IN
         /\ Due(scheduled) \ duplicates = StillScheduled
         /\ \A j \in Due(scheduled) : j \in Jobs /\ scheduled[j] \in Nat
         /\ \A j \in StillScheduled : /\ j \in Jobs
                                      /\ scheduled[j] = Disregarded[j]
                                      /\ In(Disregarded, j)
<1> DEFINE duplicates == {j \in Due(scheduled) : In(ready, j) \/ In(leased, j)}
<1>1. \A j \in Due(scheduled) : j \in Jobs /\ scheduled[j] \in Nat /\ scheduled[j] <= call.now
                                /\ In(scheduled, j)
  BY DEF ReserveLoop, Due, Members, In, Keys
<1>2. \A j \in StillScheduled : /\ j \in Jobs /\ j \notin GrantedSoFar
                                /\ ~In(start.ready, j) /\ In(Disregarded, j)
                                /\ Disregarded[j] <= call.now
  BY BeforeIsAnOrder DEF StillScheduled
<1>3. \A j \in Jobs : In(Disregarded, j) =>
         /\ ~In(start.ready, j) /\ ~In(start.leased, j)
         /\ Disregarded[j] = start.scheduled[j]
  BY DEF Disregarded, In
<1>4. ASSUME NEW j \in StillScheduled PROVE scheduled[j] = Disregarded[j]
  BY <1>2, <1>3 DEF ReserveLoop
<1>5. ASSUME NEW j \in StillScheduled PROVE j \in Due(scheduled) \ duplicates
  <2>1. j \in Due(scheduled)
    BY <1>2, <1>4 DEF Due, Members, In
  <2>2. ~In(ready, j) /\ ~In(leased, j)
    BY <1>2, <1>3 DEF ReserveLoop, In
  <2>3. QED
    BY <2>1, <2>2
<1>6. ASSUME NEW j \in Due(scheduled) \ duplicates PROVE j \in StillScheduled
  <2>1. /\ j \in Jobs /\ In(scheduled, j) /\ scheduled[j] <= call.now
        /\ ~In(ready, j) /\ ~In(leased, j)
    BY <1>1
  <2>2. /\ j \notin GrantedSoFar /\ ~In(start.leased, j) /\ ~In(start.ready, j)
        /\ scheduled[j] = start.scheduled[j]
    BY <2>1 DEF ReserveLoop, In
  <2>3. In(Disregarded, j) /\ Disregarded[j] <= call.now
    BY <2>1, <2>2 DEF Disregarded, In
  <2>4. j \in DueAtStart
    BY <2>1, <2>3 DEF DueAtStart, Store!Due, Store!In, In
  <2>5. QED
    BY <2>2, <2>4 DEF StillScheduled
<1>7. QED
  BY <1>1, <1>2, <1>4, <1>5, <1>6

\* The inner loop leaves a scheduled job at the head, if one is left, and the
\* earliest one; it drops nothing but duplicates.
LEMMA HeadOfScheduled ==
  ASSUME StartTypes, ReserveLoop
  PROVE  LET sched == AfterDrops
             due == Due(sched)
             s == First(sched, due)
         IN  /\ \A j \in Jobs : /\ sched[j] \in {Nil, scheduled[j]}
                                /\ In(Disregarded, j) => sched[j] = scheduled[j]
             /\ StillScheduled \subseteq due
             /\ due = {} <=> StillScheduled = {}
             /\ \A j \in due : sched[j] \in Nat
             /\ due # {} => s \in StillScheduled /\ \A k \in due : k # s => Precedes(sched, s, k)
<1> DEFINE duplicates == {j \in Due(scheduled) : In(ready, j) \/ In(leased, j)}
           dropped == {d \in duplicates :
                          \A j \in Due(scheduled) \ duplicates :
                              scheduled[d] < scheduled[j] \/ (scheduled[d] = scheduled[j] /\ d < j)}
           sched == AfterDrops
           due == Due(sched)
           s == First(sched, due)
<1>1. /\ Due(scheduled) \ duplicates = StillScheduled
      /\ \A j \in Due(scheduled) : j \in Jobs /\ j \in Nat /\ scheduled[j] \in Nat
      /\ \A j \in StillScheduled : j \in Jobs /\ scheduled[j] = Disregarded[j] /\ In(Disregarded, j)
  BY DueScheduled, LoopAssumption
<1>2. sched = [j \in Jobs |-> IF j \in dropped THEN Nil ELSE scheduled[j]]
  BY DEF AfterDrops
<1> HIDE DEF sched
<1>3. \A d \in dropped : d \in Due(scheduled) /\ d \notin StillScheduled
  BY <1>1
<1>4. \A j \in Jobs : sched[j] = IF j \in dropped THEN Nil ELSE scheduled[j]
  BY <1>2
<1>5. \A j \in dropped : ~In(Disregarded, j)
  <2>1. \A j \in dropped : j \in Jobs /\ (In(ready, j) \/ In(leased, j)) /\ In(scheduled, j)
    BY <1>1 DEF Due, Members
  <2>2. \A j \in Jobs : In(Disregarded, j) /\ In(scheduled, j) => ~In(ready, j) /\ ~In(leased, j)
    BY DEF ReserveLoop, Disregarded, In
  <2>3. QED
    BY <2>1, <2>2
<1>6. due = Due(scheduled) \ dropped
  <2>1. dropped \subseteq Jobs
    BY <1>1
  <2> HIDE DEF dropped
  <2>2. QED
    BY <1>4, <2>1 DEF Due, Members, In
<1>7. StillScheduled \subseteq due
  BY <1>1, <1>3, <1>6
<1>8. \A j \in due : sched[j] \in Nat /\ j \in Nat /\ sched[j] = scheduled[j]
  BY <1>1, <1>4, <1>6
<1>9. StillScheduled = {} => due = {}
  BY <1>1, <1>6
<1>10. ASSUME due # {} PROVE s \in StillScheduled /\ \A k \in due : k # s => Precedes(sched, s, k)
  <2> HIDE DEF dropped, due
  <2>1. s \in due /\ \A k \in due : k # s => Precedes(sched, s, k)
    BY <1>8, <1>10, FirstIsLeast
  <2>2. ASSUME s \notin StillScheduled PROVE FALSE
    <3> HIDE DEF s
    <3>1. s \in duplicates /\ s \notin dropped
      BY <1>1, <1>6, <2>1, <2>2
    <3>2. PICK j \in StillScheduled :
             ~(scheduled[s] < scheduled[j] \/ (scheduled[s] = scheduled[j] /\ s < j))
      BY <1>1, <3>1 DEF dropped
    <3>3. Precedes(sched, s, j)
      BY <1>7, <2>1, <2>2, <3>2
    <3>4. QED
      BY <1>7, <1>8, <2>1, <3>2, <3>3 DEF Precedes
  <2>3. QED
    BY <2>1, <2>2
<1>11. \A j \in Jobs : /\ sched[j] \in {Nil, scheduled[j]}
                       /\ In(Disregarded, j) => sched[j] = scheduled[j]
  BY <1>4, <1>5
<1> HIDE DEF due, s
<1>12. QED
  BY <1>7, <1>8, <1>9, <1>10, <1>11 DEF due, s, sched

\* Granting the job that comes before all others keeps what the loop has so far.
LEMMA GrantStep ==
  ASSUME StartTypes, ReserveLoop, Reserving, running, Len(granted) < call.bound,
         UNCHANGED <<call, start>>,
         NEW j \in DueAtStart \ GrantedSoFar,
         \A k \in DueAtStart \ GrantedSoFar : k # j => j \in Before[k],
         Grant(j),
         ready' = [k \in Jobs |-> IF k = j THEN Nil ELSE ready[k]],
         scheduled' \in Keys,
         \A k \in Jobs : /\ scheduled'[k] \in {Nil, scheduled[k]}
                         /\ In(Disregarded, k) =>
                               scheduled'[k] = IF k = j THEN Nil ELSE scheduled[k]
  PROVE  ReserveLoop'
<1> DEFINE G == GrantedSoFar
<1>1. /\ G \subseteq DueAtStart /\ DueAtStart \subseteq Jobs
      /\ G = Ranked(DueAtStart, Before, Len(granted)) /\ Len(granted) \in Nat
      /\ \A k \in DueAtStart : ~In(start.leased, k)
  BY GrantedAreDue, BeforeIsAnOrder DEF StartTypes, Disregarded, In
<1>2. /\ granted' = Append(granted, j)
      /\ leased' = [leased EXCEPT ![j] = call.now + LeaseDuration]
      /\ running
  BY DEF Grant, StartTypes
<1>3. /\ DueAtStart' = DueAtStart /\ Before' = Before /\ Disregarded' = Disregarded
      /\ \A n : Ranked(DueAtStart, Before, n)' = Ranked(DueAtStart, Before, n)
  BY StartSame DEF Disregarded, In
<1>4. /\ granted \in Seq(DueAtStart) /\ granted' \in Seq(DueAtStart)
      /\ Len(granted') = Len(granted) + 1
      /\ granted'[Len(granted) + 1] = j
      /\ \A i \in 1 .. Len(granted) : granted'[i] = granted[i]
  BY <1>2 DEF ReserveLoop
<1>5. /\ \A n \in 0 .. Len(granted) : Granted(n)' = Granted(n)
      /\ GrantedSoFar' = G \cup {j}
      /\ \A n : n = Len(granted) + 1 => Granted(n)' = G \cup {j}
  <2>1. \A n : Granted(n)' = {granted'[i] : i \in 1 .. n}
    BY DEF Granted
  <2>2. \A n \in 0 .. Len(granted) : Granted(n)' = Granted(n)
    BY <1>1, <1>4, <2>1 DEF Granted
  <2>3. {granted'[i] : i \in 1 .. Len(granted) + 1} = {granted[i] : i \in 1 .. Len(granted)} \cup {j}
    BY <1>1, <1>4
  <2>4. GrantedSoFar' = {granted'[i] : i \in 1 .. Len(granted')}
    BY DEF GrantedSoFar, Granted
  <2>5. G = {granted[i] : i \in 1 .. Len(granted)}
    BY DEF GrantedSoFar, Granted
  <2> HIDE DEF G
  <2>6. GrantedSoFar' = G \cup {j}
    BY <1>4, <2>3, <2>4, <2>5
  <2>7. \A n : n = Len(granted) + 1 => Granted(n)' = G \cup {j}
    BY <2>1, <2>3, <2>5
  <2>8. QED
    BY <2>2, <2>6, <2>7
<1>6. /\ Cardinality(G \cup {j}) = Len(granted) + 1
      /\ G \cup {j} = Ranked(DueAtStart, Before, Len(granted) + 1)
      /\ \A g \in G \cup {j}, k \in DueAtStart \ (G \cup {j}) : g \in Before[k]
  <2>1. /\ Cardinality(G) = Len(granted)
        /\ \A g \in G, k \in DueAtStart \ G : g \in Before[k]
    BY DEF ReserveLoop
  <2> HIDE DEF G
  <2>2. G = Ranked(DueAtStart, Before, Cardinality(G))
    BY <1>1, <2>1
  <2>3. G \in SUBSET DueAtStart /\ j \in DueAtStart \ G
        /\ \A k \in DueAtStart \ G : k # j => j \in Before[k]
    BY <1>1 DEF G
  <2>4. /\ Cardinality(G \cup {j}) = Cardinality(G) + 1
        /\ G \cup {j} = Ranked(DueAtStart, Before, Cardinality(G) + 1)
        /\ \A g \in G \cup {j}, k \in DueAtStart \ (G \cup {j}) : g \in Before[k]
    BY <2>1, <2>2, <2>3, BeforeIsAnOrder, NextRank
  <2>5. QED
    BY <2>1, <2>4
<1>7. j \in Jobs /\ ~In(start.leased, j) /\ call.now + LeaseDuration \in Nat
  BY <1>1, LoopAssumption DEF StartTypes
<1>8. \A n \in 0 .. Len(granted') : Granted(n)' = Ranked(DueAtStart, Before, n)'
  <2>1. \A n \in 0 .. Len(granted) : Granted(n) = Ranked(DueAtStart, Before, n)
    BY DEF ReserveLoop
  <2> HIDE DEF G
  <2>2. ASSUME NEW n \in 0 .. Len(granted')
        PROVE  Granted(n)' = Ranked(DueAtStart, Before, n)
    <3>1. CASE n \in 0 .. Len(granted)
      BY <1>5, <2>1, <3>1
    <3>2. CASE n = Len(granted) + 1
      BY <1>5, <1>6, <3>2
    <3>3. QED
      BY <1>1, <1>4, <3>1, <3>2
  <2>3. QED
    BY <1>3, <2>2
<1>9. ready' = [k \in Jobs |-> IF k \in GrantedSoFar' THEN Nil ELSE start'.ready[k]]
  BY <1>5 DEF ReserveLoop
<1>10. leased' \in Keys
       /\ \A k \in Jobs : /\ In(leased', k) <=> In(start'.leased, k) \/ k \in GrantedSoFar'
                          /\ In(start'.leased, k) => leased'[k] = start'.leased[k]
  <2>1. leased \in Keys /\ \A k \in Jobs : /\ In(leased, k) <=> In(start.leased, k) \/ k \in G
                                           /\ In(start.leased, k) => leased[k] = start.leased[k]
    BY DEF ReserveLoop
  <2> HIDE DEF G
  <2>2. QED
    BY <1>2, <1>5, <1>7, <2>1, LoopAssumption DEF Keys, In
<1>11. \A k \in Jobs : /\ scheduled'[k] \in {Nil, start'.scheduled[k]}
                       /\ In(Disregarded', k) =>
                             scheduled'[k] = IF k \in GrantedSoFar' THEN Nil ELSE start'.scheduled[k]
  <2>1. \A k \in Jobs : /\ scheduled[k] \in {Nil, start.scheduled[k]}
                        /\ In(Disregarded, k) =>
                              scheduled[k] = IF k \in G THEN Nil ELSE start.scheduled[k]
    BY DEF ReserveLoop
  <2> HIDE DEF G
  <2>2. QED
    BY <1>3, <1>5, <2>1
<1>12. /\ granted' \in Seq(DueAtStart') /\ Len(granted') <= call'.bound
       /\ Cardinality(GrantedSoFar') = Len(granted')
       /\ \A g \in GrantedSoFar', k \in DueAtStart' \ GrantedSoFar' : g \in Before'[k]
  <2>1. Len(granted) + 1 <= call.bound
    BY <1>1 DEF StartTypes
  <2> HIDE DEF G
  <2>2. QED
    BY <1>3, <1>4, <1>5, <1>6, <2>1
<1>13. running'
  BY DEF Grant, StartTypes
<1>14. Keys' = Keys
  BY DEF Keys
<1>15. QED
  BY <1>8, <1>9, <1>10, <1>11, <1>12, <1>13, <1>14 DEF ReserveLoop, In

\* Whichever head the loop takes, it comes before all the jobs that are left.
LEMMA ReserveStep ==
  ASSUME StartTypes, ReserveLoop, GrantNext
  PROVE  ReserveLoop'
<1> DEFINE sched == AfterDrops
           due == Due(sched)
           r == First(ready, Members(ready))
           s == First(sched, due)
           Left == DueAtStart \ GrantedSoFar
<1>1. /\ Reserving /\ running /\ Len(granted) < call.bound /\ UNCHANGED <<call, reaped, start>>
      /\ \/ /\ Members(ready) # {}
            /\ ReadyFirst(r, due, sched)
            /\ ready' = [ready EXCEPT ![r] = Nil]
            /\ scheduled' = sched
            /\ Grant(r)
         \/ /\ due # {}
            /\ Members(ready) # {} => ~ReadyFirst(r, due, sched)
            /\ scheduled' = [sched EXCEPT ![s] = Nil]
            /\ Grant(s)
            /\ UNCHANGED ready
         \/ /\ Exhausted(due)
            /\ running' = FALSE
            /\ scheduled' = sched
            /\ UNCHANGED <<ready, leased, lease_meta, workers_leases, granted>>
  BY DEF GrantNext, Reserving
<1>2. /\ \A j \in Jobs : /\ sched[j] \in {Nil, scheduled[j]}
                         /\ In(Disregarded, j) => sched[j] = scheduled[j]
      /\ StillScheduled \subseteq due
      /\ due = {} <=> StillScheduled = {}
      /\ \A j \in due : sched[j] \in Nat
      /\ due # {} => s \in StillScheduled /\ \A k \in due : k # s => Precedes(sched, s, k)
  BY HeadOfScheduled
<1>3. sched \in Keys
  BY DEF ReserveLoop, Keys, AfterDrops
<1>4. /\ \A j \in StillScheduled : /\ j \in Left /\ j \in Jobs /\ ~In(start.ready, j)
                                   /\ In(Disregarded, j)
                                   /\ scheduled[j] = Disregarded[j] /\ sched[j] = Disregarded[j]
      /\ \A j \in Left : j \in Jobs /\ j \in Nat /\ (j \in StillScheduled \/ In(start.ready, j))
  BY <1>2, DueScheduled, GrantedAreDue, LoopAssumption DEF StillScheduled
<1>5. /\ \A j \in Members(ready) : /\ j \in Left /\ In(start.ready, j)
                                   /\ ready[j] = start.ready[j] /\ ready[j] \in Nat
      /\ \A j \in Left : In(start.ready, j) => j \in Members(ready)
  <2>1. \A j \in Jobs : In(start.ready, j) => j \in DueAtStart
    BY DEF DueAtStart, Store!Due, Store!In, In
  <2>2. \A j \in Jobs : In(start.ready, j) => start.ready[j] \in Nat
    BY DEF StartTypes, Keys, In
  <2>3. ready = [j \in Jobs |-> IF j \in GrantedSoFar THEN Nil ELSE start.ready[j]]
    BY DEF ReserveLoop
  <2>4. QED
    BY <1>4, <2>1, <2>2, <2>3 DEF Members, In
<1>6. \A a, b \in Left : a \in Before[b] <=> Store!TakenBefore(a, b)
  BY BeforeIsAnOrder
<1>7. /\ \A j \in Left : In(start.ready, j) => Store!ActivationScore(j) = start.ready[j]
      /\ \A j \in Left : ~In(start.ready, j) => Store!ActivationScore(j) = Disregarded[j]
  BY DEF Store!ActivationScore, Store!In, In
<1> HIDE DEF sched, due, r, s, Left
<1>8. CASE /\ Members(ready) # {}
           /\ ReadyFirst(r, due, sched)
           /\ ready' = [ready EXCEPT ![r] = Nil]
           /\ scheduled' = sched
           /\ Grant(r)
  <2>1. /\ r \in Members(ready) /\ \A k \in Members(ready) : k # r => Precedes(ready, r, k)
    <3>1. Members(ready) \subseteq Nat /\ \A j \in Members(ready) : ready[j] \in Nat
      BY <1>4, <1>5
    <3>2. QED
      BY <1>8, <3>1, FirstIsLeast DEF r
  <2>2. r \in Left /\ r \in Jobs /\ In(start.ready, r) /\ ready[r] = start.ready[r] /\ ready[r] \in Nat
    BY <1>4, <1>5, <2>1
  <2>3. ASSUME NEW k \in Left, k # r PROVE r \in Before[k]
    <3>1. CASE In(start.ready, k)
      <4>1. k \in Members(ready) /\ ready[k] = start.ready[k] /\ Precedes(ready, r, k)
        BY <1>5, <2>1, <2>3, <3>1
      <4>2. QED
        BY <1>6, <1>7, <2>2, <3>1, <4>1 DEF Precedes, Store!TakenBefore, Store!In, In
    <3>2. CASE ~In(start.ready, k)
      <4>1. k \in due /\ sched[k] = Disregarded[k] /\ sched[k] \in Nat
        BY <1>2, <1>4, <3>2
      <4>2. ready[r] <= sched[k]
        BY <1>8, <4>1 DEF ReadyFirst
      <4>3. start.ready[r] <= Disregarded[k] /\ start.ready[r] \in Nat /\ Disregarded[k] \in Nat
        BY <2>2, <4>1, <4>2
      <4>4. Store!ActivationScore(r) <= Store!ActivationScore(k)
            /\ Store!ActivationScore(r) \in Nat /\ Store!ActivationScore(k) \in Nat
        BY <1>7, <2>2, <3>2, <4>3
      <4>5. Store!TakenBefore(r, k)
        BY <2>2, <3>2, <4>4 DEF Store!TakenBefore, Store!In, In
      <4>6. QED
        BY <1>6, <2>2, <4>5
    <3>3. QED
      BY <3>1, <3>2
  <2>4. ready' = [k \in Jobs |-> IF k = r THEN Nil ELSE ready[k]]
    BY <1>8 DEF ReserveLoop
  <2>5. ~In(Disregarded, r)
    BY <2>2 DEF Disregarded, In
  <2>6. /\ scheduled' \in Keys
        /\ \A k \in Jobs : /\ scheduled'[k] \in {Nil, scheduled[k]}
                           /\ In(Disregarded, k) =>
                                 scheduled'[k] = IF k = r THEN Nil ELSE scheduled[k]
    BY <1>2, <1>3, <1>8, <2>5
  <2>7. r \in DueAtStart \ GrantedSoFar
        /\ \A k \in DueAtStart \ GrantedSoFar : k # r => r \in Before[k]
    BY <2>2, <2>3 DEF Left
  <2>8. UNCHANGED <<call, start>>
    BY <1>1
  <2>9. QED
    BY <1>1, <1>8, <2>4, <2>6, <2>7, <2>8, GrantStep
<1>9. CASE /\ due # {}
           /\ Members(ready) # {} => ~ReadyFirst(r, due, sched)
           /\ scheduled' = [sched EXCEPT ![s] = Nil]
           /\ Grant(s)
           /\ UNCHANGED ready
  <2>1. /\ s \in Left /\ s \in Jobs /\ s \in due /\ ~In(start.ready, s) /\ In(Disregarded, s)
        /\ sched[s] = Disregarded[s] /\ sched[s] \in Nat
        /\ \A k \in due : k # s => Precedes(sched, s, k)
    BY <1>2, <1>4, <1>9
  <2>2. ASSUME NEW k \in Left, k # s PROVE s \in Before[k]
    <3>1. CASE In(start.ready, k)
      <4>1. k \in Members(ready) /\ ready[k] = start.ready[k] /\ ready[k] \in Nat
        BY <1>5, <3>1
      <4>2. r \in Members(ready) /\ ready[r] \in Nat /\ ready[r] <= ready[k]
        <5>1. Members(ready) \subseteq Nat /\ \A j \in Members(ready) : ready[j] \in Nat
          BY <1>4, <1>5
        <5>2. r \in Members(ready) /\ \A i \in Members(ready) : i # r => Precedes(ready, r, i)
          BY <4>1, <5>1, FirstIsLeast DEF r
        <5>3. QED
          BY <4>1, <5>1, <5>2 DEF Precedes
      <4>3. PICK i \in due : ~(ready[r] <= sched[i])
        BY <1>9, <4>1 DEF ReadyFirst
      <4>4. sched[i] \in Nat /\ sched[s] <= sched[i]
        BY <1>2, <2>1, <4>3 DEF Precedes
      <4>5. sched[s] < ready[k]
        BY <2>1, <4>1, <4>2, <4>3, <4>4
      <4>6. Store!ActivationScore(s) < Store!ActivationScore(k)
        BY <1>7, <2>1, <3>1, <4>1, <4>5
      <4>7. QED
        BY <1>6, <2>1, <4>6 DEF Store!TakenBefore
    <3>2. CASE ~In(start.ready, k)
      <4>1. k \in due /\ sched[k] = Disregarded[k] /\ sched[k] \in Nat /\ Precedes(sched, s, k)
        BY <1>2, <1>4, <2>1, <2>2, <3>2
      <4>2. QED
        BY <1>6, <1>7, <2>1, <3>2, <4>1 DEF Precedes, Store!TakenBefore, Store!In, In
    <3>3. QED
      BY <3>1, <3>2
  <2>3. ready' = [k \in Jobs |-> IF k = s THEN Nil ELSE ready[k]]
    BY <1>9, <2>1 DEF ReserveLoop, In
  <2>4. /\ scheduled' \in Keys
        /\ \A k \in Jobs : /\ scheduled'[k] \in {Nil, scheduled[k]}
                           /\ In(Disregarded, k) =>
                                 scheduled'[k] = IF k = s THEN Nil ELSE scheduled[k]
    BY <1>2, <1>3, <1>9, <2>1 DEF Keys
  <2>5. s \in DueAtStart \ GrantedSoFar
        /\ \A k \in DueAtStart \ GrantedSoFar : k # s => s \in Before[k]
    BY <2>1, <2>2 DEF Left
  <2>6. UNCHANGED <<call, start>>
    BY <1>1
  <2>7. QED
    BY <1>1, <1>9, <2>3, <2>4, <2>5, <2>6, GrantStep
<1>10. CASE /\ Exhausted(due)
            /\ running' = FALSE
            /\ scheduled' = sched
            /\ UNCHANGED <<ready, leased, lease_meta, workers_leases, granted>>
  <2>1. Members(ready) = {} /\ due = {}
    BY <1>10 DEF Exhausted
  <2>2. Members(ready)' = {} /\ Due(scheduled)' = {}
    BY <1>1, <1>10, <2>1 DEF due, Members, In, Due
  <2>3. /\ DueAtStart' = DueAtStart /\ Before' = Before /\ Disregarded' = Disregarded
        /\ \A n : Ranked(DueAtStart, Before, n)' = Ranked(DueAtStart, Before, n)
    BY <1>1, StartSame DEF Disregarded, In
  <2>4. GrantedSoFar' = GrantedSoFar /\ \A n : Granted(n)' = Granted(n)
    BY <1>10 DEF GrantedSoFar, Granted
  <2>5. Keys' = Keys
    BY DEF Keys
  <2>6. /\ granted' \in Seq(DueAtStart') /\ Len(granted') <= call'.bound
        /\ Cardinality(GrantedSoFar') = Len(granted')
        /\ \A n \in 0 .. Len(granted') : Granted(n)' = Ranked(DueAtStart, Before, n)'
        /\ \A g \in GrantedSoFar', k \in DueAtStart' \ GrantedSoFar' : g \in Before'[k]
    BY <1>1, <1>10, <2>3, <2>4 DEF ReserveLoop
  <2>7. ready' = [j \in Jobs |-> IF j \in GrantedSoFar' THEN Nil ELSE start'.ready[j]]
    BY <1>1, <1>10, <2>4 DEF ReserveLoop
  <2>8. \A j \in Jobs :
          /\ In(leased', j) <=> In(start'.leased, j) \/ j \in GrantedSoFar'
          /\ In(start'.leased, j) => leased'[j] = start'.leased[j]
          /\ scheduled'[j] \in {Nil, start'.scheduled[j]}
          /\ In(Disregarded', j) =>
                scheduled'[j] = IF j \in GrantedSoFar' THEN Nil ELSE start'.scheduled[j]
    BY <1>1, <1>2, <1>10, <2>3, <2>4 DEF ReserveLoop, In
  <2>9. scheduled' \in Keys' /\ leased' \in Keys'
    BY <1>3, <1>10, <2>5 DEF ReserveLoop
  <2>10. QED
    BY <2>2, <2>6, <2>7, <2>8, <2>9 DEF ReserveLoop, In
<1>11. QED
  BY <1>1, <1>8, <1>9, <1>10 DEF due, s, sched, r

\* LeasesAsGranted with the number of turns for the number of leases, and the
\* types of what it talks about.
Recorded ==
    /\ call.worker \in Workers
    /\ lease_meta \in [Jobs -> [worker : Workers, token : Nat] \cup {Nil}]
    /\ \A i \in 1 .. Len(granted) :
          /\ leased[granted[i]] = call.now + LeaseDuration
          /\ lease_meta[granted[i]] = [worker |-> call.worker, token |-> i]
    /\ \A j \in Jobs \ GrantedSoFar :
          leased[j] = start.leased[j] /\ lease_meta[j] = start.lease_meta[j]
    /\ workers_leases = [start.workers_leases EXCEPT ![call.worker] = @ + Len(granted)]

\* A job granted in a turn is none that was granted before, or there would be
\* fewer granted jobs than turns.
LEMMA GrantedAnew ==
  ASSUME StartTypes, ReserveLoop, ReserveLoop', UNCHANGED <<call, start>>,
         NEW j, granted' = Append(granted, j)
  PROVE  /\ j \in Jobs \ GrantedSoFar /\ GrantedSoFar' = GrantedSoFar \cup {j}
         /\ Len(granted) \in Nat /\ Len(granted') = Len(granted) + 1
         /\ granted'[Len(granted) + 1] = j
         /\ \A i \in 1 .. Len(granted) : granted'[i] = granted[i] /\ granted[i] \in GrantedSoFar
<1>1. granted \in Seq(DueAtStart) /\ Len(granted) \in Nat
  BY DEF ReserveLoop
<1>2. /\ Len(granted') = Len(granted) + 1 /\ granted'[Len(granted) + 1] = j
      /\ \A i \in 1 .. Len(granted) : granted'[i] = granted[i]
  BY <1>1
<1>3. GrantedSoFar' = GrantedSoFar \cup {j}
  BY <1>1, <1>2 DEF GrantedSoFar, Granted
<1>4. Cardinality(GrantedSoFar') = Len(granted') /\ Cardinality(GrantedSoFar) = Len(granted)
  BY DEF ReserveLoop
<1>5. j \notin GrantedSoFar
  <2>1. j \in GrantedSoFar => GrantedSoFar' = GrantedSoFar
    BY <1>3
  <2>2. QED
    BY <1>1, <1>2, <1>4, <2>1
<1>6. j \in Jobs
  <2>1. StartTypes' /\ DueAtStart' = DueAtStart
    BY StartSame
  <2>2. granted' \in Seq(DueAtStart) /\ Len(granted) + 1 \in 1 .. Len(granted')
    BY <1>1, <1>2, <2>1 DEF ReserveLoop
  <2>3. j \in DueAtStart
    BY <1>2, <2>2
  <2>4. QED
    BY <2>3, GrantedAreDue
<1>7. \A i \in 1 .. Len(granted) : granted[i] \in GrantedSoFar
  BY DEF GrantedSoFar, Granted
<1>8. QED
  BY <1>1, <1>2, <1>3, <1>5, <1>6, <1>7

LEMMA RecordedStep ==
  ASSUME StartTypes, ReserveLoop, ReserveLoop', Recorded, GrantNext
  PROVE  Recorded'
<1>1. UNCHANGED <<call, start>>
  BY DEF GrantNext
<1>2. ASSUME UNCHANGED <<leased, lease_meta, workers_leases, granted>> PROVE Recorded'
  BY <1>1, <1>2 DEF Recorded, GrantedSoFar, Granted
<1>3. ASSUME NEW j, Grant(j), Len(granted) < call.tokens PROVE Recorded'
  <2>1. /\ leased' = [leased EXCEPT ![j] = call.now + LeaseDuration]
        /\ lease_meta' = [lease_meta EXCEPT ![j] =
                            [worker |-> call.worker, token |-> Len(granted) + 1]]
        /\ workers_leases' = [workers_leases EXCEPT ![call.worker] = @ + 1]
        /\ granted' = Append(granted, j)
    BY <1>3 DEF Grant
  <2>2. /\ j \in Jobs \ GrantedSoFar /\ GrantedSoFar' = GrantedSoFar \cup {j}
        /\ Len(granted) \in Nat /\ Len(granted') = Len(granted) + 1
        /\ granted'[Len(granted) + 1] = j
        /\ \A i \in 1 .. Len(granted) : granted'[i] = granted[i] /\ granted[i] \in GrantedSoFar
    BY <1>1, <2>1, GrantedAnew
  <2>3. call.worker \in Workers /\ leased \in Keys
    BY DEF Recorded, ReserveLoop
  <2>4. GrantedSoFar \subseteq Jobs
    BY GrantedAreDue
  <2>5. lease_meta' \in [Jobs -> [worker : Workers, token : Nat] \cup {Nil}]
    BY <2>1, <2>2, <2>3 DEF Recorded
  <2>6. ASSUME NEW i \in 1 .. Len(granted')
        PROVE  /\ leased'[granted'[i]] = call.now + LeaseDuration
               /\ lease_meta'[granted'[i]] = [worker |-> call.worker, token |-> i]
    <3>1. CASE i = Len(granted) + 1
      BY <2>1, <2>2, <2>3, <3>1 DEF Recorded, Keys
    <3>2. CASE i \in 1 .. Len(granted)
      <4>1. /\ granted'[i] = granted[i] /\ granted[i] # j /\ granted[i] \in Jobs
            /\ leased[granted[i]] = call.now + LeaseDuration
            /\ lease_meta[granted[i]] = [worker |-> call.worker, token |-> i]
        BY <2>2, <2>4, <3>2 DEF Recorded
      <4>2. QED
        BY <2>1, <2>3, <4>1 DEF Recorded, Keys
    <3>3. QED
      BY <2>2, <3>1, <3>2
  <2>7. ASSUME NEW k \in Jobs \ GrantedSoFar'
        PROVE  leased'[k] = start.leased[k] /\ lease_meta'[k] = start.lease_meta[k]
    BY <2>1, <2>2, <2>3 DEF Recorded, Keys
  <2>8. workers_leases' = [start.workers_leases EXCEPT ![call.worker] = @ + Len(granted')]
    <3>1. workers_leases = [start.workers_leases EXCEPT ![call.worker] = @ + Len(granted)]
      BY DEF Recorded
    <3>2. start.workers_leases \in [Workers -> Nat]
      BY DEF StartTypes
    <3>3. QED
      BY <2>1, <2>2, <2>3, <3>1, <3>2
  <2>9. QED
    BY <1>1, <2>3, <2>5, <2>6, <2>7, <2>8 DEF Recorded
<1>4. ASSUME NEW j, Grant(j), ~(Len(granted) < call.tokens) PROVE Recorded'
  BY <1>2, <1>4 DEF Grant
<1>5. \/ \E j : Grant(j)
      \/ UNCHANGED <<leased, lease_meta, workers_leases, granted>>
  BY DEF GrantNext
<1>6. QED
  BY <1>2, <1>3, <1>4, <1>5

-----------------------------------------------------------------------------
\* The invariant

LoopInv ==
    /\ StartTypes
    /\ Reserving => ReserveLoop /\ Recorded
    /\ ~Reserving => call.script = "reap_expired" /\ ReapLoop

LEMMA Rank0 ==
  ASSUME NEW D, IsFiniteSet(D), NEW P \in [D -> SUBSET D]
  PROVE  Ranked(D, P, 0) = {}
<1>1. \A j \in D : Cardinality(P[j]) \in Nat
  BY FS_Subset, FS_CardinalityType
<1>2. QED
  BY <1>1 DEF Ranked

LEMMA InitStart ==
  ASSUME Init
  PROVE  /\ StartTypes
         /\ Reserving \/ call.script = "reap_expired"
         /\ start = [ready |-> ready, scheduled |-> scheduled, leased |-> leased,
                     lease_meta |-> lease_meta, workers_leases |-> workers_leases]
<1>1. start = [ready |-> ready, scheduled |-> scheduled, leased |-> leased,
               lease_meta |-> lease_meta, workers_leases |-> workers_leases]
  BY DEF Init
<1>2. Placements \subseteq Keys
  BY LoopAssumption DEF Placements, Keys
<1>3. leased \in Keys
  BY <1>2 DEF Init
<1>4. Cardinality(Jobs) \in Nat
  BY LoopAssumption, FS_CardinalityType
<1>5. CASE InitReserve
  <2>1. /\ Reserving /\ call.now \in Nat /\ call.bound \in Nat /\ call.tokens = call.bound
    BY <1>5, LoopAssumption DEF InitReserve, Reserving, Drawn
  <2>2. /\ ready \in Keys /\ scheduled \in Keys /\ workers_leases \in [Workers -> Nat]
        /\ \A j \in Jobs : ~(In(ready, j) /\ In(leased, j))
        /\ lease_meta \in [Jobs -> [worker : Workers, token : Nat] \cup {Nil}]
    BY <1>2, <1>5 DEF InitReserve
  <2>3. QED
    BY <1>1, <1>3, <2>1, <2>2 DEF StartTypes, In
<1>6. CASE InitReap
  <2>1. /\ call.script = "reap_expired" /\ ~Reserving /\ call.now \in Nat /\ call.bound \in Nat
    BY <1>6, LoopAssumption DEF InitReap, Reserving
  <2>2. /\ ready \in Keys /\ scheduled \in Keys /\ \A j \in Jobs : ~In(ready, j)
    BY <1>6 DEF InitReap, Keys, In
  <2>3. workers_leases \in [Workers -> Nat]
    BY <1>4, <1>6 DEF InitReap
  <2>4. lease_meta \in [Jobs -> [worker : Workers, token : Nat] \cup {Nil}]
    BY <1>6, LoopAssumption DEF InitReap
  <2>5. QED
    BY <1>1, <1>3, <2>1, <2>2, <2>3, <2>4 DEF StartTypes, In
<1>7. QED
  BY <1>1, <1>5, <1>6 DEF Init

LEMMA InitLoop ==
  ASSUME Init
  PROVE  LoopInv
<1>1. /\ StartTypes
      /\ Reserving \/ call.script = "reap_expired"
      /\ start = [ready |-> ready, scheduled |-> scheduled, leased |-> leased,
                  lease_meta |-> lease_meta, workers_leases |-> workers_leases]
      /\ granted = <<>> /\ reaped = 0 /\ running
  BY InitStart DEF Init
<1>2. /\ start.ready = ready /\ start.scheduled = scheduled /\ start.leased = leased
      /\ start.lease_meta = lease_meta /\ start.workers_leases = workers_leases
  BY <1>1
<1>3. Cardinality({}) = 0
  BY FS_EmptySet
<1>4. ASSUME Reserving PROVE ReserveLoop
  <2>1. \A n \in 0 .. Len(granted) : Granted(n) = {} /\ n = 0
    BY <1>1 DEF Granted
  <2>2. GrantedSoFar = {} /\ Len(granted) = 0 /\ granted \in Seq(DueAtStart)
    BY <1>1 DEF GrantedSoFar, Granted
  <2>3. Ranked(DueAtStart, Before, 0) = {}
    BY <1>1, BeforeIsAnOrder, Rank0
  <2>4. ready \in Keys /\ scheduled \in Keys /\ leased \in Keys /\ call.bound \in Nat
    BY <1>1, <1>2 DEF StartTypes
  <2>5. ready = [j \in Jobs |-> IF j \in GrantedSoFar THEN Nil ELSE start.ready[j]]
    BY <1>2, <2>2, <2>4 DEF Keys
  <2>6. /\ Cardinality(GrantedSoFar) = Len(granted) /\ Len(granted) <= call.bound
        /\ \A g \in GrantedSoFar, k \in DueAtStart \ GrantedSoFar : g \in Before[k]
    BY <1>3, <2>2, <2>4
  <2>7. ASSUME NEW n \in 0 .. Len(granted) PROVE Granted(n) = Ranked(DueAtStart, Before, n)
    <3>1. n = 0 /\ Granted(n) = {}
      BY <2>1
    <3>2. QED
      BY <2>3, <3>1
  <2>8. \A j \in Jobs :
          /\ In(leased, j) <=> In(start.leased, j) \/ j \in GrantedSoFar
          /\ In(start.leased, j) => leased[j] = start.leased[j]
          /\ scheduled[j] \in {Nil, start.scheduled[j]}
          /\ In(Disregarded, j) =>
                scheduled[j] = IF j \in GrantedSoFar THEN Nil ELSE start.scheduled[j]
    BY <1>2, <2>2
  <2>9. QED
    BY <1>1, <2>2, <2>4, <2>5, <2>6, <2>7, <2>8 DEF ReserveLoop
<1>5. ASSUME ~Reserving PROVE ReapLoop
  <2>1. ReapedSoFar = {}
    BY <1>1, SoonerIsAnOrder, Rank0 DEF ReapedSoFar
  <2>2. ready = [j \in Jobs |-> Nil]
    BY <1>5, <1>1 DEF Init, InitReap, InitReserve, Reserving
  <2>3. /\ leased \in Keys /\ call.bound \in Nat
        /\ lease_meta \in [Jobs -> [worker : Workers, token : Nat] \cup {Nil}]
        /\ workers_leases \in [Workers -> Nat]
    BY <1>1, <1>2 DEF StartTypes
  <2>4. /\ leased = [j \in Jobs |-> start.leased[j]]
        /\ lease_meta = [j \in Jobs |-> start.lease_meta[j]]
    BY <1>2, <2>3 DEF Keys
  <2>5. workers_leases =
          [w \in Workers |-> Floor(start.workers_leases[w],
                                   Cardinality(ReapedSoFar \cap Store!LeasesOf(w)))]
    <3>1. \A w \in Workers : Cardinality(ReapedSoFar \cap Store!LeasesOf(w)) = 0
      BY <1>3, <2>1
    <3>2. \A n \in Nat : Floor(n, 0) = n
      BY DEF Floor
    <3>3. QED
      BY <1>2, <2>3, <3>1, <3>2
  <2>6. QED
    BY <1>1, <1>3, <2>1, <2>2, <2>3, <2>4, <2>5 DEF ReapLoop
<1>6. ASSUME Reserving PROVE Recorded
  <2>1. call.worker \in Workers
    BY <1>6 DEF Init, InitReserve, InitReap, Reserving
  <2>2. Len(granted) = 0 /\ GrantedSoFar = {}
    BY <1>1 DEF GrantedSoFar, Granted
  <2>3. /\ lease_meta \in [Jobs -> [worker : Workers, token : Nat] \cup {Nil}]
        /\ workers_leases \in [Workers -> Nat]
    BY <1>1, <1>2 DEF StartTypes
  <2>4. workers_leases = [start.workers_leases EXCEPT ![call.worker] = @ + Len(granted)]
    BY <1>2, <2>2, <2>3
  <2>5. QED
    BY <1>2, <2>1, <2>2, <2>3, <2>4 DEF Recorded
<1>7. QED
  BY <1>1, <1>4, <1>5, <1>6 DEF LoopInv

\* A call that returns, or does nothing, has the sets it had.
LEMMA ReturnLoop ==
  ASSUME LoopInv, UNCHANGED <<keys, call, granted, reaped, start>>,
         Return \/ UNCHANGED running
  PROVE  LoopInv'
<1>1. UNCHANGED <<ready, scheduled, leased, lease_meta, workers_leases, call, granted, reaped, start>>
  BY DEF keys
<1>2. /\ DueAtStart' = DueAtStart /\ Before' = Before
      /\ ExpiredAtStart' = ExpiredAtStart /\ Sooner' = Sooner
      /\ \A w \in Workers : Store!LeasesOf(w)' = Store!LeasesOf(w)
      /\ \A n : Ranked(DueAtStart, Before, n)' = Ranked(DueAtStart, Before, n)
      /\ StartTypes'
  BY <1>1, StartSame DEF LoopInv
<1>3. /\ GrantedSoFar' = GrantedSoFar /\ \A n : Granted(n)' = Granted(n)
      /\ ReapedSoFar' = ReapedSoFar /\ Keys' = Keys /\ Disregarded' = Disregarded
      /\ Reserving' = Reserving /\ Members(ready)' = Members(ready)
      /\ Due(scheduled)' = Due(scheduled) /\ Expired' = Expired
  BY <1>1, <1>2
     DEF GrantedSoFar, Granted, ReapedSoFar, Ranked, Keys, Disregarded, In, Reserving, Members,
         Due, Expired
<1>4. ASSUME Reserving PROVE ReserveLoop'
  <2>1. /\ ReserveLoop
        /\ ~running' => Len(granted) = call.bound
                        \/ (Members(ready) = {} /\ Due(scheduled) = {})
    BY <1>4 DEF LoopInv, ReserveLoop, Return, Reserving
  <2>2. QED
    BY <1>1, <1>2, <1>3, <2>1 DEF ReserveLoop, In
<1>5. ASSUME ~Reserving PROVE ReapLoop'
  <2>1. /\ ReapLoop
        /\ ~running' => reaped = call.bound \/ Expired = {}
    BY <1>5 DEF LoopInv, ReapLoop, Return, Reserving
  <2>2. QED
    BY <1>1, <1>2, <1>3, <2>1 DEF ReapLoop
<1>6. ASSUME Reserving PROVE Recorded'
  <2>1. Recorded
    BY <1>6 DEF LoopInv
  <2>2. QED
    BY <1>1, <1>3, <2>1 DEF Recorded
<1>7. QED
  BY <1>1, <1>2, <1>3, <1>4, <1>5, <1>6 DEF LoopInv

\* Every turn of either loop keeps the invariant.
THEOREM LoopInvHolds == Spec => []LoopInv
<1>1. Init => LoopInv
  BY InitLoop
<1>2. LoopInv /\ [Next]_loopVars => LoopInv'
  <2> SUFFICES ASSUME LoopInv, [Next]_loopVars PROVE LoopInv'
    OBVIOUS
  <2>1. CASE GrantNext
    <3>1. Reserving /\ UNCHANGED <<call, start>>
      BY <2>1 DEF GrantNext, Reserving
    <3>2. StartTypes' /\ ReserveLoop' /\ Reserving'
      BY <2>1, <3>1, StartSame, ReserveStep DEF LoopInv, Reserving
    <3>3. Recorded'
      BY <2>1, <3>1, <3>2, RecordedStep DEF LoopInv
    <3>4. QED
      BY <3>2, <3>3 DEF LoopInv
  <2>2. CASE ReapNext
    <3>1. call.script = "reap_expired" /\ ~Reserving /\ UNCHANGED <<call, start>>
      BY <2>2 DEF ReapNext, Reserving
    <3>2. StartTypes' /\ ReapLoop' /\ ~Reserving' /\ call'.script = "reap_expired"
      BY <2>2, <3>1, StartSame, ReapStep DEF LoopInv, Reserving
    <3>3. QED
      BY <3>2 DEF LoopInv
  <2>3. CASE Return
    BY <2>3, ReturnLoop DEF Return
  <2>4. CASE UNCHANGED loopVars
    BY <2>4, ReturnLoop DEF loopVars
  <2>5. QED
    BY <2>1, <2>2, <2>3, <2>4 DEF Next
<1>3. QED
  BY <1>1, <1>2, PTL DEF Spec

-----------------------------------------------------------------------------
\* What the loops do, for the module that takes each for one step

\* reserve.lua leases the n earliest due jobs, for every n, whatever duplicates
\* lie in between (reserve.lua:26-75).
THEOREM GrantsTheEarliestHolds == Spec => []GrantsTheEarliest
<1>1. LoopInv => GrantsTheEarliest
  <2> SUFFICES ASSUME LoopInv, Reserving
               PROVE  /\ \A n \in 1 .. Len(granted) : Granted(n) = Store!Reserved(call.now, n)
                      /\ ~running =>
                            Granted(Len(granted)) = Store!Reserved(call.now, call.bound)
    BY DEF GrantsTheEarliest
  <2>1. StartTypes /\ ReserveLoop
    BY DEF LoopInv
  <2>2. /\ GrantedSoFar \subseteq DueAtStart /\ Len(granted) \in Nat /\ call.bound \in Nat
        /\ GrantedSoFar = Ranked(DueAtStart, Before, Len(granted))
        /\ Cardinality(GrantedSoFar) = Len(granted) /\ Len(granted) <= call.bound
    BY <2>1, GrantedAreDue DEF ReserveLoop, StartTypes
  <2>3. ASSUME NEW n \in 1 .. Len(granted) PROVE Granted(n) = Store!Reserved(call.now, n)
    BY <2>1, <2>2, ReservedIsRanked DEF ReserveLoop
  <2>4. ASSUME ~running PROVE GrantedSoFar = Ranked(DueAtStart, Before, call.bound)
    <3>1. CASE Len(granted) = call.bound
      BY <2>2, <3>1
    <3>2. CASE Members(ready) = {} /\ Due(scheduled) = {}
      <4>1. GrantedSoFar = DueAtStart
        <5>1. StillScheduled = {}
          BY <2>1, <3>2, DueScheduled
        <5>2. \A j \in DueAtStart \ GrantedSoFar : j \in Jobs /\ In(start.ready, j)
          BY <2>1, <5>1, GrantedAreDue DEF StillScheduled
        <5>3. \A j \in DueAtStart \ GrantedSoFar : In(ready, j)
          BY <2>1, <5>2 DEF ReserveLoop, In
        <5>4. DueAtStart \ GrantedSoFar = {}
          BY <3>2, <5>2, <5>3 DEF Members
        <5>5. QED
          BY <2>2, <5>4
      <4>2. IsFiniteSet(DueAtStart) /\ Before \in [DueAtStart -> SUBSET DueAtStart]
        BY <2>1, BeforeIsAnOrder
      <4>3. DueAtStart = Ranked(DueAtStart, Before, Cardinality(DueAtStart))
            /\ Cardinality(DueAtStart) <= call.bound
        BY <2>2, <4>1
      <4>4. DueAtStart = Ranked(DueAtStart, Before, call.bound)
        BY <2>2, <4>2, <4>3, AllRanked
      <4>5. QED
        BY <4>1, <4>4
    <3>3. QED
      BY <2>1, <2>4, <3>1, <3>2 DEF ReserveLoop
  <2>5. QED
    BY <2>3, <2>4, ReservedIsRanked DEF GrantedSoFar
<1>2. QED
  BY <1>1, LoopInvHolds, PTL

\* reserve.lua neither loses a job it takes nor leaves a due one behind while it
\* has capacity, and touches nothing else (reserve.lua:26-96).
THEOREM NothingLostHolds == Spec => []NothingLost
<1>1. LoopInv => NothingLost
  <2> SUFFICES ASSUME LoopInv, Reserving PROVE NothingLost
    BY DEF NothingLost
  <2>1. StartTypes /\ ReserveLoop
    BY DEF LoopInv
  <2>2. ASSUME NEW j \in Jobs
        PROVE  /\ In(start.ready, j) => (In(ready, j) <=> j \notin Granted(Len(granted)))
               /\ In(Disregarded, j) => (In(scheduled, j) <=> j \notin Granted(Len(granted)))
               /\ In(start.leased, j) => leased[j] = start.leased[j]
    <3>1. In(start.ready, j) => (In(ready, j) <=> j \notin GrantedSoFar)
      BY <2>1 DEF ReserveLoop, In
    <3>2. In(Disregarded, j) => (In(scheduled, j) <=> j \notin GrantedSoFar)
      BY <2>1 DEF ReserveLoop, In, Disregarded
    <3>3. In(start.leased, j) => leased[j] = start.leased[j]
      BY <2>1 DEF ReserveLoop
    <3>4. QED
      BY <3>1, <3>2, <3>3 DEF GrantedSoFar
  <2>3. ASSUME ~running, Len(granted) < call.bound
        PROVE  Members(ready) = {} /\ Due(scheduled) = {}
    <3>1. Len(granted) \in Nat /\ call.bound \in Nat
      BY <2>1, GrantedAreDue DEF StartTypes
    <3>2. QED
      BY <2>1, <2>3, <3>1 DEF ReserveLoop
  <2>4. QED
    BY <2>2, <2>3 DEF NothingLost
<1>2. QED
  BY <1>1, LoopInvHolds, PTL

\* The records of the leases reserve.lua grants are those RedloopStore's Reserve
\* writes: one token each, one count for each (reserve.lua:78-95).
THEOREM LeasesAsGrantedHolds == Spec => []LeasesAsGranted
<1>1. LoopInv => LeasesAsGranted
  <2> SUFFICES ASSUME LoopInv, Reserving PROVE LeasesAsGranted
    BY DEF LeasesAsGranted
  <2>1. ReserveLoop /\ Recorded
    BY DEF LoopInv
  <2>2. Cardinality(GrantedSoFar) = Len(granted)
    BY <2>1 DEF ReserveLoop
  <2>3. QED
    BY <2>1, <2>2 DEF Recorded, LeasesAsGranted, GrantedSoFar
<1>2. QED
  BY <1>1, LoopInvHolds, PTL

\* reap_expired.lua ends the leases that expired first, as many as its limit
\* allows, and its decrements add up to one subtraction (reap_expired.lua:3-40).
THEOREM ReapsTheEarliestHolds == Spec => []ReapsTheEarliest
<1>1. LoopInv => ReapsTheEarliest
  <2> SUFFICES ASSUME LoopInv, ~Reserving, ~running PROVE ReapsTheEarliest
    BY DEF ReapsTheEarliest
  <2> DEFINE S == Store!Reaped(call.now, call.bound)
  <2>1. StartTypes /\ ReapLoop
    BY DEF LoopInv
  <2>2. IsFiniteSet(ExpiredAtStart) /\ Sooner \in [ExpiredAtStart -> SUBSET ExpiredAtStart]
        /\ \A j \in ExpiredAtStart : In(start.leased, j)
    BY <2>1, SoonerIsAnOrder DEF ExpiredAtStart, Store!Expired, Store!In, In
  <2>3. ReapedSoFar = Ranked(ExpiredAtStart, Sooner, call.bound)
    <3>1. CASE reaped = call.bound
      BY <3>1 DEF ReapedSoFar
    <3>2. CASE Expired = {}
      <4>1. ReapedSoFar = ExpiredAtStart
        BY <2>1, <3>2, ExpiredNow
      <4>2. /\ reaped = Cardinality(ExpiredAtStart) /\ reaped <= call.bound /\ call.bound \in Nat
            /\ ExpiredAtStart = Ranked(ExpiredAtStart, Sooner, reaped)
        BY <2>1, <4>1 DEF ReapLoop, StartTypes, ReapedSoFar
      <4>3. QED
        BY <2>2, <4>1, <4>2, AllRanked
    <3>3. QED
      BY <2>1, <3>1, <3>2 DEF ReapLoop
  <2>4. S = ReapedSoFar
    BY <2>3, ReapedIsRanked
  <2> HIDE DEF S
  <2>5. ASSUME NEW j \in Jobs
        PROVE  /\ In(ready, j) <=> j \in S
               /\ In(leased, j) <=> In(start.leased, j) /\ j \notin S
               /\ lease_meta[j] = IF j \in S THEN Nil ELSE start.lease_meta[j]
    <3>1. call.now # Nil
      BY <2>1, LoopAssumption DEF StartTypes
    <3>2. QED
      BY <2>1, <2>4, <3>1 DEF ReapLoop, In
  <2>6. ASSUME NEW w \in Workers
        PROVE  LET n == Cardinality(S \cap Store!LeasesOf(w)) IN
               workers_leases[w] = IF start.workers_leases[w] <= n THEN 0
                                   ELSE start.workers_leases[w] - n
    BY <2>1, <2>4 DEF ReapLoop, Floor
  <2>7. QED
    BY <2>5, <2>6 DEF ReapsTheEarliest, S
<1>2. QED
  BY <1>1, LoopInvHolds, PTL
=============================================================================
