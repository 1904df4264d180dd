----------------------------- MODULE PollLoopProofs -----------------------------
(***************************************************************************)
(* The bound on the gap between two polls, proved for every configuration    *)
(* that WorkerConfig::validate accepts.                                      *)
(*                                                                          *)
(* The bound alone says nothing about the next step.  The inductive form      *)
(* counts charges of one longest poll delay each: the sleep itself, one for   *)
(* each handler that has returned since the poll, one for each failure, one   *)
(* for each interval that has ticked.  Time only passes while a charge is     *)
(* being used up, and nothing starts the sleep over without a new one.  That  *)
(* an interval ticks once only is where the bound is its own hypothesis: to    *)
(* tick twice, more time would have to pass than the charges pay for.         *)
(***************************************************************************)
EXTENDS PollLoop, TLAPS

LoopTypes ==
    /\ running \in Nat /\ done \in Nat
    /\ poll_delay \in 1 .. PollMax
    /\ nap \in 0 .. PollMax /\ nap_left \in 0 .. nap
    /\ backoff_left \in 0 .. PollMin
    /\ reap_in \in 1 .. ReapInterval /\ reaps \in Nat
    /\ beat_in \in 1 .. HeartbeatInterval /\ beats \in Nat
    /\ idle \in 0 .. MaxIdle
    /\ failed \in 0 .. MaxFailed

\* A worker is at capacity only since its last poll, which left it no nap.
Full == ~HasCapacity => idle = 0 /\ nap = 0

Time(n) == n * PollMax

\* An interval has ticked since the last poll.
Ticked(left, interval) == IF left + idle > interval THEN 1 ELSE 0

Charges ==
    Concurrency - running + failed
        + Ticked(reap_in, ReapInterval) + Ticked(beat_in, HeartbeatInterval)

\* Something is about to start the sleep over, at this very time.
Restarting ==
    done > 0 \/ reaps > 0 \/ (active > 0 /\ beats > 0)

\* The time since the last poll, and what is left of the sleep or of the
\* backoff, are paid for.
Paid ==
    /\ ~backing => idle + nap_left <= Time(Charges)
    /\ backing \/ Restarting => idle + backoff_left <= Time(Charges - 1)

\* What PollGapBounded assumes, where it is not obvious.
Tight ==
    LET gap == Time(Concurrency + 2 + failed) IN
    /\ failed < MaxFailed /\ gap < MaxIdle
    /\ ReapInterval >= gap /\ HeartbeatInterval >= gap
    /\ HasCapacity

GapInv ==
    /\ LoopTypes
    /\ Full
    /\ ~backing => backoff_left = 0
    /\ Tight => Paid

LEMMA TimeLinear ==
  ASSUME NEW n \in Int
  PROVE  Time(n) \in Int /\ Time(n + 1) = Time(n) + PollMax /\ Time(n - 1) = Time(n) - PollMax
BY ConfigAssumption DEF Time, ValidConfig

LEMMA TimeMonotone ==
  ASSUME NEW n \in Int, NEW m \in Int, n <= m
  PROVE  Time(n) <= Time(m)
<1>1. PollMax \in Nat
  BY ConfigAssumption DEF ValidConfig
<1>2. (m - n) * PollMax >= 0
  BY <1>1
<1>3. m * PollMax = n * PollMax + (m - n) * PollMax
  BY <1>1
<1>4. QED
  BY <1>1, <1>2, <1>3 DEF Time

\* There is always a charge left for the sleep itself, and never more charges
\* than the bound allows.
LEMMA ChargesBounded ==
  LoopTypes /\ HasCapacity =>
      Charges \in Int /\ 1 <= Charges /\ Charges <= Concurrency + 2 + failed
<1> SUFFICES ASSUME LoopTypes, HasCapacity
             PROVE  Charges \in Int /\ 1 <= Charges /\ Charges <= Concurrency + 2 + failed
  OBVIOUS
<1>1. Concurrency \in Nat /\ ReapInterval \in Nat /\ HeartbeatInterval \in Nat
      /\ MaxFailed \in Nat /\ MaxIdle \in Nat
  BY ConfigAssumption DEF ValidConfig
<1>2. Ticked(reap_in, ReapInterval) \in 0 .. 1 /\ Ticked(beat_in, HeartbeatInterval) \in 0 .. 1
  BY DEF Ticked
<1>3. running \in Nat /\ running <= Concurrency - 1 /\ failed \in Nat
  BY <1>1 DEF LoopTypes, HasCapacity, active
<1>4. QED
  BY <1>1, <1>2, <1>3 DEF Charges

LEMMA InitGap == Init => GapInv
<1> SUFFICES ASSUME Init PROVE GapInv
  OBVIOUS
<1>1. LoopTypes /\ Full /\ backoff_left = 0
  BY ConfigAssumption DEF ValidConfig, Init, LoopTypes, Full, HasCapacity, active
<1>2. ASSUME HasCapacity PROVE Paid
  <2>1. Charges \in Int /\ 1 <= Charges
    BY <1>1, <1>2, ChargesBounded
  <2>2. Time(Charges) >= Time(0) /\ Time(Charges - 1) >= Time(0)
    BY <2>1, TimeMonotone
  <2>3. Time(0) = 0
    BY ConfigAssumption DEF Time, ValidConfig
  <2>4. QED
    BY <2>1, <2>2, <2>3, TimeLinear DEF Init, Paid
<1>3. QED
  BY <1>1, <1>2 DEF GapInv, Tight

LEMMA NextTypes == LoopTypes /\ [Next]_loopVars => LoopTypes'
<1> SUFFICES ASSUME LoopTypes, [Next]_loopVars PROVE LoopTypes'
  OBVIOUS
<1>1. /\ Concurrency \in Nat \ {0} /\ PollMin \in Nat \ {0} /\ PollMax \in Nat \ {0}
      /\ ReapInterval \in Nat \ {0} /\ HeartbeatInterval \in Nat \ {0}
      /\ MaxIdle \in Nat \ {0} /\ MaxFailed \in Nat \ {0} /\ MaxMissed \in Nat \ {0}
      /\ PollMin <= PollMax
  BY ConfigAssumption DEF ValidConfig
<1>2. /\ Doubled(poll_delay) \in 1 .. PollMax
      /\ Capped(failed + 1, MaxFailed) \in 0 .. MaxFailed
      /\ Capped(idle + 1, MaxIdle) \in 0 .. MaxIdle
      /\ Capped(reaps + 1, MaxMissed) \in Nat /\ Capped(beats + 1, MaxMissed) \in Nat
  BY <1>1 DEF LoopTypes, Doubled, Capped
<1> USE DEF LoopTypes, jobs, sleep, backoff, ticks
<1>3. CASE UNCHANGED loopVars
  BY <1>3 DEF loopVars
<1>4. CASE Resolve
  BY <1>1, <1>4 DEF Resolve, ResolveReady
<1>5. CASE ResolveFails
  BY <1>1, <1>2, <1>5 DEF ResolveFails, BacksOff
<1>6. CASE Heartbeat
  BY <1>1, <1>2, <1>6 DEF Heartbeat, AtBeat, BeatReady, BacksOff, NapRestarts
<1>7. CASE Reap
  BY <1>1, <1>2, <1>7 DEF Reap, AtReap, ReapReady, BacksOff, NapRestarts
<1>8. CASE BackoffOver
  BY <1>1, <1>8 DEF BackoffOver, NapRestarts
<1>9. CASE ReserveAnswered
  BY <1>1, <1>9 DEF ReserveAnswered, Polled, Sleeps, SleepDurations
<1>10. CASE ReserveTimesOut
  BY <1>1, <1>2, <1>10 DEF ReserveTimesOut, Polled, Sleeps
<1>11. CASE NapOver
  BY <1>1, <1>2, <1>11 DEF NapOver
<1>12. CASE Join
  BY <1>1, <1>12 DEF Join, NapRestarts
<1>13. CASE NewWork
  BY <1>1, <1>13 DEF NewWork
<1>14. CASE TimePasses
  BY <1>1, <1>2, <1>14 DEF TimePasses, BackoffReady, Left, Owed
<1>15. QED
  BY <1>3, <1>4, <1>5, <1>6, <1>7, <1>8, <1>9, <1>10, <1>11, <1>12, <1>13, <1>14
     DEF Next, LoopStep

LEMMA NextFull ==
  ASSUME LoopTypes, Full, ~backing => backoff_left = 0, [Next]_loopVars
  PROVE  Full' /\ (~backing' => backoff_left' = 0)
<1> USE DEF Full, LoopTypes, HasCapacity, active, jobs, sleep, backoff, ticks
<1>1. Concurrency \in Nat
  BY ConfigAssumption DEF ValidConfig
<1>2. CASE UNCHANGED loopVars
  BY <1>2 DEF loopVars
<1>3. CASE Resolve \/ ResolveFails \/ Join \/ NewWork
  BY <1>1, <1>3 DEF Resolve, ResolveReady, ResolveFails, BacksOff, Join, NapRestarts, NewWork
<1>4. CASE Heartbeat \/ Reap \/ BackoffOver
  BY <1>1, <1>4 DEF Heartbeat, Reap, BackoffOver, BacksOff, NapRestarts
<1>5. CASE ReserveAnswered \/ ReserveTimesOut
  BY <1>1, <1>5 DEF ReserveAnswered, ReserveTimesOut, AtReserve, ReserveReady, Polled, Sleeps
<1>6. CASE NapOver \/ TimePasses
  BY <1>1, <1>6 DEF NapOver, AtNap, NapReady, TimePasses
<1>7. QED
  BY <1>2, <1>3, <1>4, <1>5, <1>6 DEF Next, LoopStep

\* Right after a poll, or when a job that kept the worker at capacity has been
\* reported, one charge pays for the whole sleep.
LEMMA PolledPaid ==
  ASSUME LoopTypes', HasCapacity', idle' = 0, ~backing', backoff_left' = 0,
         Charges' \in Int, 1 <= Charges'
  PROVE  Paid'
<1>1. PollMax \in Nat /\ nap_left' \in Nat /\ nap_left' <= PollMax
  BY ConfigAssumption DEF ValidConfig, LoopTypes
<1>2. Time(Charges') >= Time(1) /\ Time(Charges' - 1) >= Time(0)
  BY TimeMonotone
<1>3. Time(1) = PollMax /\ Time(0) = 0
  BY <1>1 DEF Time
<1>4. Time(Charges') \in Int /\ Time(Charges' - 1) \in Int
  BY TimeLinear
<1>5. (idle + nap_left)' <= Time(Charges') /\ (idle + backoff_left)' <= Time(Charges' - 1)
  BY <1>1, <1>2, <1>3, <1>4
<1>6. Time(Charges)' = Time(Charges') /\ Time(Charges - 1)' = Time(Charges' - 1)
  BY DEF Time
<1>7. QED
  BY <1>5, <1>6 DEF Paid

\* A step that starts nothing over keeps what is paid for.
LEMMA QuietPaid ==
  ASSUME LoopTypes, LoopTypes', Paid, Charges' = Charges, Charges \in Int,
         idle' = idle, nap_left' <= nap_left, backing' = backing,
         backoff_left' = backoff_left, Restarting' => Restarting
  PROVE  Paid'
<1>1. /\ idle \in Nat /\ nap_left \in Nat /\ nap_left' \in Nat /\ backoff_left \in Nat
      /\ backing' <=> backing
  BY ConfigAssumption DEF LoopTypes, ValidConfig
<1>2. Time(Charges') = Time(Charges) /\ Time(Charges' - 1) = Time(Charges - 1)
      /\ Time(Charges) \in Int
  BY TimeLinear
<1>3. ~backing' => (idle + nap_left)' <= Time(Charges')
  BY <1>1, <1>2 DEF Paid
<1>4. backing' \/ Restarting' => (idle + backoff_left)' <= Time(Charges' - 1)
  BY <1>1, <1>2 DEF Paid
<1>5. Time(Charges)' = Time(Charges') /\ Time(Charges - 1)' = Time(Charges' - 1)
  BY DEF Time
<1>6. QED
  BY <1>3, <1>4, <1>5 DEF Paid

\* The sleep starts over on a charge that was set aside for it.
LEMMA RestartPaid ==
  ASSUME LoopTypes, LoopTypes', Paid, Charges' = Charges, Charges \in Int,
         backing \/ Restarting, idle' = idle,
         backoff_left' <= backoff_left
  PROVE  Paid'
<1>1. /\ idle \in Nat /\ nap_left' \in Nat /\ backoff_left \in Nat /\ backoff_left' \in Nat
      /\ nap_left' <= PollMax /\ PollMax \in Nat
  BY ConfigAssumption DEF LoopTypes, ValidConfig
<1>2. Time(Charges') = Time(Charges) /\ Time(Charges' - 1) = Time(Charges - 1)
      /\ Time(Charges) \in Int /\ Time(Charges - 1) = Time(Charges) - PollMax
  BY TimeLinear
<1>3. idle + backoff_left <= Time(Charges - 1)
  BY DEF Paid
<1>4. (idle + nap_left)' <= Time(Charges') /\ (idle + backoff_left)' <= Time(Charges' - 1)
  BY <1>1, <1>2, <1>3
<1>5. Time(Charges)' = Time(Charges') /\ Time(Charges - 1)' = Time(Charges' - 1)
  BY DEF Time
<1>6. QED
  BY <1>4, <1>5 DEF Paid

\* A failure pays for its own backoff.
LEMMA FailurePaid ==
  ASSUME LoopTypes, Paid, Charges' = Charges + 1, Charges \in Int,
         backing \/ Restarting, idle' = idle, backing' = TRUE, backoff_left' = PollMin
  PROVE  Paid'
<1>1. /\ idle \in Nat /\ backoff_left \in Nat
      /\ PollMax \in Nat /\ PollMin \in Nat /\ PollMin <= PollMax
  BY ConfigAssumption DEF LoopTypes, ValidConfig
<1>2. Time(Charges' - 1) = Time(Charges)
      /\ Time(Charges) \in Int /\ Time(Charges - 1) = Time(Charges) - PollMax
  BY TimeLinear
<1>3. idle + backoff_left <= Time(Charges - 1)
  BY DEF Paid
<1>4. (idle + backoff_left)' <= Time(Charges' - 1)
  BY <1>1, <1>2, <1>3
<1>5. Time(Charges - 1)' = Time(Charges' - 1)
  BY DEF Time
<1>6. QED
  BY <1>4, <1>5 DEF Paid

\* A handler that returns pays for the sleep it starts over.
LEMMA JoinPaid ==
  ASSUME LoopTypes, LoopTypes', Paid, Charges' = Charges + 1, Charges \in Int,
         ~backing => backoff_left = 0,
         idle' = idle, backing' = backing, backoff_left' = backoff_left
  PROVE  Paid'
<1>1. /\ idle \in Nat /\ nap_left \in Nat /\ nap_left' \in Nat /\ backoff_left \in Nat
      /\ nap_left' <= PollMax /\ PollMax \in Nat
      /\ backing' <=> backing
  BY ConfigAssumption DEF LoopTypes, ValidConfig
<1>2. Time(Charges' - 1) = Time(Charges) /\ Time(Charges') = Time(Charges) + PollMax
      /\ Time(Charges) \in Int /\ Time(Charges - 1) = Time(Charges) - PollMax
  BY TimeLinear
<1>3. ~backing' => (idle + nap_left)' <= Time(Charges')
  BY <1>1, <1>2 DEF Paid
<1>4. (idle + backoff_left)' <= Time(Charges' - 1)
  BY <1>1, <1>2 DEF Paid
<1>5. Time(Charges)' = Time(Charges') /\ Time(Charges - 1)' = Time(Charges' - 1)
  BY DEF Time
<1>6. QED
  BY <1>3, <1>4, <1>5 DEF Paid

\* What an interval's tick does to its charge: a second tick would need more
\* time since the last poll than the interval has.
LEMMA TickCharges ==
  ASSUME NEW left \in Nat \ {0}, NEW interval \in Nat \ {0}, left <= interval,
         idle \in Nat, idle' = idle + 1, idle < interval
  PROVE  /\ Ticked(left, interval) <= Ticked(Left(left, interval), interval)'
         /\ left = 1 => Ticked(Left(left, interval), interval)' = Ticked(left, interval) + 1
         /\ Ticked(left, interval) \in 0 .. 1 /\ Ticked(Left(left, interval), interval)' \in 0 .. 1
BY DEF Ticked, Left

LEMMA TightBefore ==
  ASSUME LoopTypes, LoopTypes', HasCapacity, Tight', failed <= failed'
  PROVE  Tight
<1>1. /\ failed \in Nat /\ failed' \in Nat /\ Concurrency \in Nat /\ MaxFailed \in Nat
      /\ MaxIdle \in Nat /\ ReapInterval \in Nat /\ HeartbeatInterval \in Nat
  BY ConfigAssumption DEF ValidConfig, LoopTypes
<1>2. /\ Time(Concurrency + 2 + failed) <= Time(Concurrency + 2 + failed')
      /\ Time(Concurrency + 2 + failed) \in Int /\ Time(Concurrency + 2 + failed') \in Int
  <2>1. /\ Concurrency + 2 + failed \in Int /\ Concurrency + 2 + failed' \in Int
        /\ Concurrency + 2 + failed <= Concurrency + 2 + failed'
    <3>1. \A a, b, c \in Nat : a <= b => /\ c + 2 + a \in Int /\ c + 2 + b \in Int
                                        /\ c + 2 + a <= c + 2 + b
      OBVIOUS
    <3>2. QED
      BY <1>1, <3>1
  <2>2. QED
    BY <2>1, TimeMonotone, TimeLinear
<1>3. Time(Concurrency + 2 + failed)' = Time(Concurrency + 2 + failed')
  BY DEF Time
<1>4. QED
  BY <1>1, <1>2, <1>3 DEF Tight

\* Time passes on charges that are set aside for it.
LEMMA TimePaid ==
  ASSUME LoopTypes, LoopTypes', Tight, Paid, HasCapacity', TimePasses
  PROVE  Paid'
<1>1. /\ idle \in Nat /\ nap_left \in Nat /\ backoff_left \in Nat /\ failed \in Nat
      /\ nap_left <= nap /\ nap \in Nat /\ running \in Nat
      /\ reap_in \in Nat \ {0} /\ reap_in <= ReapInterval
      /\ beat_in \in Nat \ {0} /\ beat_in <= HeartbeatInterval
      /\ PollMax \in Nat /\ Concurrency \in Nat /\ MaxIdle \in Nat
      /\ ReapInterval \in Nat \ {0} /\ HeartbeatInterval \in Nat \ {0}
  BY ConfigAssumption DEF LoopTypes, ValidConfig
<1>2. /\ HasCapacity
      /\ ~Restarting \/ backing
      /\ backing => backoff_left > 0
      /\ ~backing => nap_left > 0
  BY <1>1 DEF TimePasses, ResolveReady, BeatReady, ReapReady, BackoffReady, ReserveReady, NapReady,
              Restarting, Tight
<1>3. /\ Charges \in Int /\ Charges <= Concurrency + 2 + failed
      /\ Time(Charges) \in Int /\ Time(Charges - 1) = Time(Charges) - PollMax
  BY <1>2, ChargesBounded, TimeLinear DEF Tight
<1>4. idle + 1 <= Time(Charges)
  BY <1>1, <1>2, <1>3 DEF Paid
<1>5. /\ Time(Charges) <= Time(Concurrency + 2 + failed)
      /\ Time(Concurrency + 2 + failed) \in Int
  <2>1. Charges \in Int /\ Concurrency + 2 + failed \in Int
    BY <1>1, <1>3
  <2>2. QED
    BY <1>3, <2>1, TimeMonotone, TimeLinear
<1>6. idle < ReapInterval /\ idle < HeartbeatInterval /\ idle + 1 < MaxIdle
  BY <1>1, <1>3, <1>4, <1>5 DEF Tight
<1>7. /\ idle' = idle + 1
      /\ running' = running /\ done' = done /\ failed' = failed
      /\ reap_in' = Left(reap_in, ReapInterval) /\ reaps' = Owed(reap_in, reaps)
      /\ beat_in' = Left(beat_in, HeartbeatInterval) /\ beats' = Owed(beat_in, beats)
      /\ backing' = backing
      /\ backing => backoff_left' = backoff_left - 1
      /\ ~backing => nap_left' = nap_left - 1 /\ backoff_left' = 0
  BY <1>1, <1>2, <1>6 DEF TimePasses, jobs, Capped, Tight
<1>8. /\ Ticked(reap_in, ReapInterval) <= Ticked(reap_in, ReapInterval)'
      /\ reap_in = 1 => Ticked(reap_in, ReapInterval)' = Ticked(reap_in, ReapInterval) + 1
      /\ Ticked(reap_in, ReapInterval) \in Int /\ Ticked(reap_in, ReapInterval)' \in Int
  BY <1>1, <1>6, <1>7, TickCharges DEF Ticked, Left
<1>9. /\ Ticked(beat_in, HeartbeatInterval) <= Ticked(beat_in, HeartbeatInterval)'
      /\ beat_in = 1 => Ticked(beat_in, HeartbeatInterval)' = Ticked(beat_in, HeartbeatInterval) + 1
      /\ Ticked(beat_in, HeartbeatInterval) \in Int /\ Ticked(beat_in, HeartbeatInterval)' \in Int
  BY <1>1, <1>6, <1>7, TickCharges DEF Ticked, Left
<1>10. /\ Charges' \in Int /\ Charges <= Charges'
       /\ reap_in = 1 \/ beat_in = 1 => Charges + 1 <= Charges'
  BY <1>1, <1>7, <1>8, <1>9 DEF Charges
<1>11. /\ Time(Charges) <= Time(Charges') /\ Time(Charges') \in Int
       /\ Time(Charges' - 1) = Time(Charges') - PollMax
       /\ reap_in = 1 \/ beat_in = 1 => Time(Charges) <= Time(Charges' - 1)
  <2>1. Charges \in Int /\ Charges' \in Int /\ Charges' - 1 \in Int
    BY <1>3, <1>10
  <2>2. reap_in = 1 \/ beat_in = 1 => Charges <= Charges' - 1
    <3>1. \A a, b \in Int : a + 1 <= b => a <= b - 1
      OBVIOUS
    <3>2. QED
      BY <1>10, <2>1, <3>1
  <2>3. QED
    BY <1>10, <2>1, <2>2, TimeMonotone, TimeLinear
<1>12. ~backing' => (idle + nap_left)' <= Time(Charges')
  BY <1>1, <1>2, <1>3, <1>7, <1>11 DEF Paid
<1>13. backing' \/ Restarting' => (idle + backoff_left)' <= Time(Charges' - 1)
  <2>1. ASSUME backing PROVE (idle + backoff_left)' <= Time(Charges' - 1)
    BY <1>1, <1>3, <1>7, <1>11, <2>1 DEF Paid
  <2>2. ASSUME ~backing, Restarting' PROVE (idle + backoff_left)' <= Time(Charges' - 1)
    <3>1. reap_in = 1 \/ beat_in = 1
      BY <1>2, <1>7, <2>2 DEF Restarting, Owed, active
    <3>2. QED
      BY <1>1, <1>3, <1>4, <1>7, <1>11, <2>2, <3>1
  <2>3. QED
    BY <1>7, <2>1, <2>2
<1>14. Time(Charges)' = Time(Charges') /\ Time(Charges - 1)' = Time(Charges' - 1)
  BY DEF Time
<1>15. QED
  BY <1>12, <1>13, <1>14 DEF Paid

LEMMA NextPaid ==
  ASSUME GapInv, [Next]_loopVars, LoopTypes', Tight'
  PROVE  Paid'
<1>1. /\ LoopTypes /\ Full /\ (~backing => backoff_left = 0)
      /\ HasCapacity' /\ Charges' \in Int /\ 1 <= Charges'
  <2>1. (LoopTypes /\ HasCapacity => Charges \in Int /\ 1 <= Charges)'
    BY ChargesBounded, PTL
  <2>2. QED
    BY <2>1 DEF GapInv, Tight
<1>2. ASSUME failed <= failed', HasCapacity
      PROVE  Tight /\ Paid /\ Charges \in Int
  BY <1>1, <1>2, TightBefore, ChargesBounded DEF GapInv
<1>3. ASSUME UNCHANGED <<reap_in, beat_in, idle>>, HasCapacity, failed <= failed'
      PROVE  Charges' = Charges + (running - running') + (failed' - failed)
  <2>1. /\ Ticked(reap_in, ReapInterval)' = Ticked(reap_in, ReapInterval)
        /\ Ticked(beat_in, HeartbeatInterval)' = Ticked(beat_in, HeartbeatInterval)
        /\ Ticked(reap_in, ReapInterval) \in Int /\ Ticked(beat_in, HeartbeatInterval) \in Int
    BY <1>3 DEF Ticked
  <2>2. /\ running \in Int /\ running' \in Int /\ failed \in Int /\ failed' \in Int
        /\ Concurrency \in Int
    BY <1>1, ConfigAssumption DEF LoopTypes, ValidConfig
  <2>3. QED
    BY <2>1, <2>2 DEF Charges
<1>4. ASSUME BacksOff PROVE failed' = failed + 1
  <2>1. failed' = Capped(failed + 1, MaxFailed) /\ failed' < MaxFailed
    BY <1>4 DEF BacksOff, Tight
  <2>2. failed' = failed + 1 \/ failed' = MaxFailed
    BY <2>1 DEF Capped
  <2>3. QED
    BY <2>1, <2>2, ConfigAssumption
<1>5. ASSUME UNCHANGED jobs PROVE HasCapacity
  BY <1>1, <1>5 DEF jobs, HasCapacity, active
<1>6. failed \in Nat /\ running \in Nat /\ done \in Nat /\ nap_left \in Nat /\ nap_left <= nap
      /\ Concurrency \in Nat /\ reaps \in Nat /\ beats \in Nat /\ nap \in Nat
      /\ backoff_left \in Nat
  BY <1>1, ConfigAssumption DEF LoopTypes, ValidConfig
<1> USE DEF jobs, sleep, backoff, ticks
<1>7. CASE UNCHANGED loopVars
  <2>1. UNCHANGED <<jobs, sleep, backoff, ticks, idle, failed>>
    BY <1>7 DEF loopVars
  <2>2. Charges' = Charges /\ nap_left' <= nap_left /\ (Restarting' => Restarting)
    BY <1>3, <1>5, <1>6, <2>1, <1>2 DEF Restarting, active
  <2>3. QED
    BY <1>1, <1>2, <1>5, <1>6, <2>1, <2>2, QuietPaid
<1>8. CASE Resolve
  <2>1. /\ ~backing /\ done > 0 /\ done' = done - 1
        /\ idle' = IF HasCapacity THEN idle ELSE 0
        /\ UNCHANGED <<running, sleep, backoff, ticks, failed>>
    BY <1>8 DEF Resolve, ResolveReady
  <2>2. CASE HasCapacity
    <3>1. Charges' = Charges /\ nap_left' <= nap_left /\ (Restarting' => Restarting)
      BY <1>3, <1>2, <1>6, <2>1, <2>2 DEF Restarting, active
    <3>2. QED
      BY <1>1, <1>2, <1>6, <2>1, <2>2, <3>1, QuietPaid
  <2>3. CASE ~HasCapacity
    BY <1>1, <2>1, <2>3, PolledPaid
  <2>4. QED
    BY <2>2, <2>3
<1>9. CASE ResolveFails
  <2>1. /\ done > 0 /\ BacksOff /\ UNCHANGED <<jobs, sleep, ticks, idle>>
    BY <1>9 DEF ResolveFails, ResolveReady
  <2>2. HasCapacity /\ failed' = failed + 1 /\ Restarting
    BY <1>4, <1>5, <2>1 DEF Restarting
  <2>3. Charges' = Charges + 1
    BY <1>2, <1>3, <1>6, <2>1, <2>2
  <2>4. QED
    BY <1>1, <1>2, <1>6, <2>1, <2>2, <2>3, FailurePaid DEF BacksOff
<1>10. CASE Heartbeat \/ Reap
  <2>1. /\ Restarting
        /\ BacksOff \/ UNCHANGED <<backoff, failed>>
        /\ UNCHANGED <<jobs, reap_in, beat_in, idle>>
    BY <1>10 DEF Heartbeat, Reap, AtBeat, BeatReady, AtReap, ReapReady, Restarting
  <2>2. HasCapacity
    BY <1>5, <2>1
  <2>3. CASE BacksOff
    <3>1. failed' = failed + 1 /\ Charges' = Charges + 1
      BY <1>2, <1>3, <1>4, <1>6, <2>1, <2>2, <2>3
    <3>2. QED
      BY <1>1, <1>2, <1>6, <2>1, <2>2, <2>3, <3>1, FailurePaid DEF BacksOff
  <2>4. CASE UNCHANGED <<backoff, failed>>
    <3>1. Charges' = Charges /\ backoff_left' <= backoff_left
      BY <1>2, <1>3, <1>6, <2>1, <2>2, <2>4
    <3>2. QED
      BY <1>1, <1>2, <1>6, <2>1, <2>2, <2>4, <3>1, RestartPaid
  <2>5. QED
    BY <2>1, <2>3, <2>4
<1>11. CASE BackoffOver
  <2>1. backing /\ backoff_left' = 0 /\ UNCHANGED <<jobs, ticks, idle, failed>>
    BY <1>11 DEF BackoffOver, AtBackoff, BackoffReady
  <2>2. HasCapacity /\ Charges' = Charges /\ backoff_left' <= backoff_left
    BY <1>2, <1>3, <1>5, <1>6, <2>1
  <2>3. QED
    BY <1>1, <1>2, <1>6, <2>1, <2>2, RestartPaid
<1>12. CASE ReserveAnswered \/ ReserveTimesOut
  <2>1. ~backing /\ idle' = 0 /\ UNCHANGED backoff
    BY <1>12 DEF ReserveAnswered, ReserveTimesOut, AtReserve, ReserveReady, Polled
  <2>2. QED
    BY <1>1, <2>1, PolledPaid
<1>13. CASE NapOver
  <2>1. nap_left' = 0 /\ UNCHANGED <<jobs, backoff, ticks, idle, failed>>
    BY <1>13 DEF NapOver
  <2>2. HasCapacity /\ Charges' = Charges /\ nap_left' <= nap_left /\ (Restarting' => Restarting)
    BY <1>2, <1>3, <1>5, <1>6, <2>1 DEF Restarting, active
  <2>3. QED
    BY <1>1, <1>2, <1>6, <2>1, <2>2, QuietPaid
<1>14. CASE NewWork
  <2>1. UNCHANGED <<running, done, sleep, backoff, ticks, idle, failed>>
    BY <1>14 DEF NewWork
  <2>2. HasCapacity
    BY <1>1, <2>1 DEF HasCapacity, active
  <2>3. Charges' = Charges /\ nap_left' <= nap_left /\ (Restarting' => Restarting)
    BY <1>2, <1>3, <1>6, <2>1, <2>2 DEF Restarting, active
  <2>4. QED
    BY <1>1, <1>2, <1>6, <2>1, <2>2, <2>3, QuietPaid
<1>15. CASE Join
  <2>1. /\ running > 0 /\ running' = running - 1 /\ done' = done + 1
        /\ UNCHANGED <<backoff, ticks, idle, failed>>
    BY <1>15 DEF Join
  <2>2. HasCapacity
    BY <1>1, <1>6, <2>1 DEF HasCapacity, active
  <2>3. Charges' = Charges + 1
    BY <1>2, <1>3, <1>6, <2>1, <2>2
  <2>4. QED
    BY <1>1, <1>2, <1>6, <2>1, <2>2, <2>3, JoinPaid
<1>16. CASE TimePasses
  <2>1. UNCHANGED <<jobs, failed>>
    BY <1>16 DEF TimePasses
  <2>2. QED
    BY <1>1, <1>2, <1>5, <1>6, <1>16, <2>1, TimePaid
<1>17. QED
  BY <1>7, <1>8, <1>9, <1>10, <1>11, <1>12, <1>13, <1>14, <1>15, <1>16 DEF Next, LoopStep

LEMMA NextGap == GapInv /\ [Next]_loopVars => GapInv'
BY NextTypes, NextFull, NextPaid DEF GapInv

\* A worker with spare capacity polls within the bound, whatever its intervals,
\* delays and concurrency, whatever fails and whatever returns meanwhile.
THEOREM PollGapBoundedHolds == Spec => []PollGapBounded
<1>1. ASSUME GapInv PROVE PollGapBounded
  <2> DEFINE gap == (Concurrency + 2 + failed) * PollMax
  <2> SUFFICES ASSUME failed < MaxFailed, ReapInterval >= gap, HeartbeatInterval >= gap, HasCapacity
               PROVE  idle <= gap
    BY DEF PollGapBounded
  <2>1. /\ idle \in 0 .. MaxIdle /\ nap_left \in Nat /\ backoff_left \in Nat /\ failed \in Nat
        /\ Concurrency \in Nat /\ PollMax \in Nat /\ MaxIdle \in Nat
    BY <1>1, ConfigAssumption DEF GapInv, LoopTypes, ValidConfig
  <2>2. gap \in Nat /\ gap = Time(Concurrency + 2 + failed)
    BY <2>1 DEF Time
  <2> HIDE DEF gap
  <2>3. CASE MaxIdle <= gap
    BY <2>1, <2>2, <2>3
  <2>4. CASE gap < MaxIdle
    <3>1. Paid
      BY <1>1, <2>2, <2>4 DEF GapInv, Tight
    <3>2. /\ Charges \in Int /\ Charges - 1 \in Int /\ Charges <= Concurrency + 2 + failed
          /\ Concurrency + 2 + failed \in Int
      BY <1>1, <2>1, ChargesBounded DEF GapInv
    <3>3. /\ Time(Charges) <= gap /\ Time(Charges - 1) <= gap
          /\ Time(Charges) \in Int /\ Time(Charges - 1) \in Int
      <4>1. Charges - 1 <= Concurrency + 2 + failed
        BY <3>2
      <4>2. QED
        BY <2>2, <3>2, <4>1, TimeMonotone, TimeLinear
    <3>4. QED
      BY <2>1, <2>2, <3>1, <3>3 DEF Paid
  <2>5. QED
    BY <2>1, <2>2, <2>3, <2>4
<1>2. QED
  BY <1>1, InitGap, NextGap, PTL DEF Spec
=============================================================================
