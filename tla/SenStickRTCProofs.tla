-------------------------- MODULE SenStickRTCProofs --------------------------
(***************************************************************************)
(* The clock of senstick_rtc.c for every frequency, turn of the counter,   *)
(* period of the timer and delay of its handler that RTCAssumption allows. *)
(***************************************************************************)
EXTENDS SenStickRTC, TLAPS

\* What the counter has counted between two readings less than a turn apart
\* is the time between them.
LEMMA TurnOfCounter ==
    ASSUME NEW w \in Nat \ {0}, NEW a \in Nat, NEW b \in Nat,
           a <= b, b - a < w
    PROVE  ((b % w) - (a % w) + w) % w = b - a
<1> DEFINE qa == a \div w
           ra == a % w
           qb == b \div w
           rb == b % w
<1>1. /\ qa \in Nat /\ ra \in 0 .. w - 1 /\ a = w * qa + ra
      /\ qb \in Nat /\ rb \in 0 .. w - 1 /\ b = w * qb + rb
  OBVIOUS
<1> HIDE DEF qa, ra, qb, rb
<1>2. qb = qa \/ qb = qa + 1
  <2>1. CASE qb < qa
    <3>1. w * qa >= w * (qb + 1)
      BY <1>1, <2>1
    <3>2. w * (qb + 1) = w * qb + w
      BY <1>1
    <3> QED
      BY <1>1, <3>1, <3>2
  <2>2. CASE qb > qa + 1
    <3>1. w * qb >= w * (qa + 2)
      BY <1>1, <2>2
    <3>2. w * (qa + 2) = w * qa + w + w
      BY <1>1
    <3> QED
      BY <1>1, <3>1, <3>2
  <2> QED
    BY <1>1, <2>1, <2>2
<1>3. CASE qb = qa
  <2>1. rb - ra = b - a
    BY <1>1, <1>3
  <2>2. rb - ra + w = w * 1 + (b - a)
    BY <2>1, <1>1
  <2>3. (w * 1 + (b - a)) % w = b - a
    BY <1>1
  <2> QED
    BY <2>2, <2>3 DEF ra, rb
<1>4. CASE qb = qa + 1
  <2>1. w * qb = w * qa + w
    BY <1>1, <1>4
  <2>2. rb - ra + w = b - a
    BY <1>1, <2>1
  <2>3. (b - a) % w = b - a
    OBVIOUS
  <2> QED
    BY <2>2, <2>3 DEF ra, rb
<1> QED
  BY <1>2, <1>3, <1>4

\* Whole seconds leave less than one.
LEMMA WholeSeconds ==
    ASSUME NEW f \in Nat \ {0}, NEW t \in Nat
    PROVE  /\ t \div f \in Nat
           /\ (t \div f) * f <= t
           /\ t - (t \div f) * f <= f - 1
<1>1. t % f \in 0 .. f - 1 /\ t = f * (t \div f) + (t % f) /\ t \div f \in Nat
  OBVIOUS
<1>2. f * (t \div f) = (t \div f) * f
  BY <1>1
<1> QED
  BY <1>1, <1>2

-----------------------------------------------------------------------------
\* The timer is due within a period of now and never later than its handler
\* may be delayed, and once the clock is set the counter was read since, or
\* when, it was set, and within a period of the timer's next run.
Schedule ==
    /\ due <= now + Period /\ now <= due + Latency
    /\ readAt <= now
    /\ current_time # 0 =>
         /\ due <= readAt + Period
         /\ date \in Dates /\ current_time >= mktime(date)
         /\ setAt <= readAt
         /\ previous_rtc_value = readAt % Wrap

IInv == TypeOK /\ Schedule /\ NeverAhead /\ LosesFractionsOnly

\* The clock starts unset.
LEMMA InitIInv == Init => IInv
<1> SUFFICES ASSUME Init PROVE IInv
  OBVIOUS
<1>1. TypeOK
  BY RTCAssumption DEF Init, TypeOK
<1>2. Schedule
  BY RTCAssumption DEF Init, Schedule
<1> QED
  BY <1>1, <1>2 DEF Init, IInv, NeverAhead, LosesFractionsOnly

\* Between two steps less than a turn of the counter passes, so that
\* updateCurrentTime sees all of it.
LEMMA DurationIsElapsed ==
    ASSUME IInv, current_time # 0
    PROVE  /\ now - readAt < Wrap
           /\ Duration = now - readAt
           /\ Duration \in Nat
<1>1. now \in Nat /\ readAt \in Nat /\ due \in Nat
  BY DEF IInv, TypeOK
<1>2. now - readAt < Wrap
  BY <1>1, RTCAssumption DEF IInv, Schedule
<1>3. readAt <= now /\ previous_rtc_value = readAt % Wrap
  BY DEF IInv, Schedule
<1>4. Duration = now - readAt
  BY <1>1, <1>2, <1>3, TurnOfCounter, RTCAssumption DEF Duration, rtc
<1> QED
  BY <1>1, <1>2, <1>3, <1>4

\* Reading the clock keeps the invariant, apart from the times that
\* updateCurrentTime leaves to its caller.
LEMMA UpdateIInv ==
    ASSUME IInv, updateCurrentTime, now' = now, UNCHANGED <<setAt, date>>,
           due' \in Nat, due <= due', due' <= now + Period,
           now <= due + Latency
    PROVE  IInv'
<1> USE RTCAssumption DEF IInv
<1>1. CASE current_time = 0
  <2>1. UNCHANGED <<current_time, previous_rtc_value, readAt, readings>>
    BY <1>1 DEF updateCurrentTime, clock
  <2>2. TypeOK'
    BY <2>1 DEF TypeOK
  <2>3. Schedule'
    BY <1>1, <2>1, <2>2 DEF Schedule, TypeOK
  <2> QED
    BY <1>1, <2>1, <2>2, <2>3 DEF NeverAhead, LosesFractionsOnly
<1>2. CASE current_time # 0
  <2> DEFINE elapsed == now - readAt
             q       == elapsed \div Freq
  <2>1. /\ current_time' = current_time + q
        /\ previous_rtc_value' = now % Wrap
        /\ readAt' = now
        /\ readings' = readings + 1
    BY <1>2, DurationIsElapsed DEF updateCurrentTime, Seconds, rtc
  <2>2. elapsed \in Nat
    BY <1>2, DurationIsElapsed
  <2> HIDE DEF elapsed
  <2>3. q \in Nat /\ q * Freq <= elapsed /\ elapsed - q * Freq <= Freq - 1
    BY <2>2, WholeSeconds
  <2> HIDE DEF q
  <2>4. /\ now \in Nat /\ readAt \in Nat /\ due \in Nat /\ setAt \in Nat
        /\ current_time \in Nat /\ readings \in Nat
    BY DEF TypeOK
  <2>5. mktime(date) \in Nat /\ current_time >= mktime(date)
    BY <1>2 DEF Schedule
  <2> DEFINE m == mktime(date)
  <2>6. mktime(date)' = m
    BY DEF mktime, DayNumber
  <2>7. TypeOK'
    BY <2>1, <2>3, <2>4 DEF TypeOK
  <2>8. Schedule'
    BY <1>2, <2>1, <2>3, <2>4, <2>5, <2>6 DEF Schedule
  <2> DEFINE c == current_time - m
  <2>9. c \in Nat /\ Counted' = c + q /\ Counted = c
    BY <2>1, <2>3, <2>4, <2>5, <2>6 DEF Counted
  <2> HIDE DEF c, m
  <2>10. (c + q) * Freq = c * Freq + q * Freq
    BY <2>3, <2>9
  <2>11. c * Freq \in Nat /\ q * Freq \in Nat
    BY <2>3, <2>9
  <2> DEFINE cf == c * Freq
             qf == q * Freq
  <2>12. c * Freq <= readAt - setAt
    BY <1>2, <2>9 DEF NeverAhead
  <2>13. NeverAhead'
    <3>1. cf + qf <= now - setAt
      <4> HIDE DEF cf, qf
      <4>1. cf \in Nat /\ qf \in Nat /\ cf <= readAt - setAt /\ qf <= now - readAt
        BY <2>3, <2>11, <2>12 DEF cf, qf, elapsed
      <4> QED
        BY <4>1, <2>4
    <3> QED
      BY <3>1, <2>1, <2>9, <2>10 DEF NeverAhead
  <2>14. LosesFractionsOnly'
    <3> DEFINE n == readings * (Freq - 1)
    <3>1. (readings + 1) * (Freq - 1) = n + (Freq - 1) /\ n \in Nat
      BY <2>4
    <3>2. (readAt - setAt) - cf <= n
      BY <1>2, <2>9 DEF LosesFractionsOnly
    <3>3. (now - setAt) - (cf + qf) <= n + (Freq - 1)
      <4> HIDE DEF cf, qf, n
      <4>1. cf \in Nat /\ qf \in Nat /\ (now - readAt) - qf <= Freq - 1
        BY <2>3, <2>11 DEF cf, qf, elapsed
      <4> QED
        BY <4>1, <3>1, <3>2, <2>4
    <3> QED
      BY <3>1, <3>3, <2>1, <2>9, <2>10 DEF LosesFractionsOnly
  <2> QED
    BY <2>7, <2>8, <2>13, <2>14
<1> QED
  BY <1>1, <1>2

\* Every step keeps the invariant.
LEMMA NextIInv == IInv /\ [Next]_vars => IInv'
<1> SUFFICES ASSUME IInv, [Next]_vars PROVE IInv'
  OBVIOUS
<1> USE RTCAssumption
<1>1. ASSUME NEW d \in Steps, Advance(d)
      PROVE  IInv'
  <2>1. TypeOK'
    BY <1>1 DEF Advance, clock, IInv, TypeOK
  <2>2. Schedule'
    BY <1>1 DEF Advance, clock, IInv, TypeOK, Schedule, mktime, DayNumber
  <2>3. (NeverAhead /\ LosesFractionsOnly)'
    BY <1>1 DEF Advance, clock, IInv, NeverAhead, LosesFractionsOnly, Counted,
                mktime, DayNumber
  <2> QED
    BY <2>1, <2>2, <2>3 DEF IInv
<1>2. CASE rtc_timer_handler
  <2>1. /\ now \in Nat /\ due \in Nat /\ now >= due /\ due' = due + Period
        /\ now <= due + Latency
    BY <1>2 DEF rtc_timer_handler, IInv, TypeOK, Schedule
  <2> QED
    BY <1>2, <2>1, UpdateIInv DEF rtc_timer_handler
<1>3. CASE getSenstickRTCDateTime
  <2>1. due' = due /\ due \in Nat /\ due <= now + Period /\ now <= due + Latency
    BY <1>3 DEF getSenstickRTCDateTime, IInv, TypeOK, Schedule
  <2> QED
    BY <1>3, <2>1, UpdateIInv DEF getSenstickRTCDateTime, IInv, TypeOK
<1>4. ASSUME NEW d \in Dates, setSenstickRTCDateTime(d)
      PROVE  IInv'
  <2>1. mktime(date)' = mktime(d) /\ mktime(d) \in Nat
    BY <1>4 DEF setSenstickRTCDateTime, mktime, DayNumber
  <2>2. TypeOK'
    BY <1>4, <2>1 DEF setSenstickRTCDateTime, IInv, TypeOK, rtc
  <2>3. Schedule'
    BY <1>4, <2>1 DEF setSenstickRTCDateTime, IInv, TypeOK, Schedule, rtc
  <2>4. Counted' = 0 /\ readings' = 0 /\ (readAt - setAt)' = 0
    BY <1>4, <2>1 DEF setSenstickRTCDateTime, Counted, IInv, TypeOK
  <2>5. (NeverAhead /\ LosesFractionsOnly)'
    BY <2>4 DEF NeverAhead, LosesFractionsOnly
  <2> QED
    BY <2>2, <2>3, <2>5 DEF IInv
<1>5. CASE UNCHANGED vars
  BY <1>5 DEF vars, clock, IInv, TypeOK, Schedule, NeverAhead,
              LosesFractionsOnly, Counted, mktime, DayNumber
<1> QED
  BY <1>1, <1>2, <1>3, <1>4, <1>5 DEF Next

LEMMA Invariance == Spec => []IInv
  BY InitIInv, NextIInv, PTL DEF Spec

\* Type correctness of the clock.
THEOREM TypeCorrect == Spec => []TypeOK
<1>1. IInv => TypeOK
  BY DEF IInv
<1> QED
  BY <1>1, Invariance, PTL

\* The clock of senstick_rtc.c:36-58 is never ahead of the time that has
\* passed since it was set, and each reading makes it lose less than a
\* second: for every period and delay of the timer shorter than a turn of
\* the counter.
THEOREM ClockNeverAhead == Spec => []NeverAhead
<1>1. IInv => NeverAhead
  BY DEF IInv
<1> QED
  BY <1>1, Invariance, PTL

\* And it loses less than a second at each reading, and nothing else.
THEOREM ClockLosesFractionsOnly == Spec => []LosesFractionsOnly
<1>1. IInv => LosesFractionsOnly
  BY DEF IInv
<1> QED
  BY <1>1, Invariance, PTL

\* The timer of senstick_rtc.c:93-109 lets no turn of the counter pass.
THEOREM NoTurnMissed == Spec => []EveryTurnSeen
<1>1. IInv => EveryTurnSeen
  BY DurationIsElapsed DEF EveryTurnSeen
<1> QED
  BY <1>1, Invariance, PTL
=============================================================================
