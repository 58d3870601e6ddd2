-------------------------- MODULE SamplingClockProofs --------------------------
(***************************************************************************)
(* The promises of SamplingClock for any sensors, phases and periods, and  *)
(* any ticks, that satisfy ClockAssumption and TimesAssumption.            *)
(*                                                                         *)
(* A period may be as long as 16 bits allow: the accumulator may pass the  *)
(* end of its range and start again from below, and what the invariant     *)
(* bounds it by from above stays true.                                     *)
(***************************************************************************)
EXTENDS SamplingClock, TLAPS

-----------------------------------------------------------------------------
(* The inductive invariant. *)

\* In its phase n a sensor has taken no more than n ticks since it was last
\* read, or since it became due, or since it had waited for conversion k.
Paced(s) ==
    \/ sampling[s] <= carried[s] + state[s] * TimerPeriod
    \/ sampling[s] < period[s] + state[s] * TimerPeriod
    \/ \E k \in DOMAIN Waits[s] :
          /\ 2 * k <= state[s] + 1
          /\ sampling[s] <=
                period[s] + Waits[s][k] + (state[s] + 1 - 2 * k) * TimerPeriod

\* Between the trigger and the reading of a conversion there is a wait; the
\* first one is measured from when the sample was due, which a sensor that was
\* not late triggers it at.
Waited(s) ==
    /\ state[s] > 0 /\ ~IsWaiting(s) =>
          waited[s] = MaxConversion \/ waited[s] >= TimerPeriod
    /\ state[s] = 1 /\ carried[s] < period[s] =>
          \/ waited[s] = MaxConversion
          \/ sampling[s] < period[s] + TimerPeriod + waited[s]
    /\ state[s] = 2 /\ carried[s] < period[s] =>
          \/ waited[s] = MaxConversion
          \/ Waits[s][1] + 2 <= waited[s] + TimerPeriod

IInv ==
    /\ TypeOK
    /\ DOMAIN state = Sensors
    /\ \A s \in Sensors : period[s] >= Shortest[s]
    /\ ~working => early = {}
    /\ working => \A s \in Sensors : Paced(s) /\ Waited(s)

-----------------------------------------------------------------------------
(* The arithmetic. *)

\* The constants, for one sensor.
LEMMA Times ==
    ASSUME NEW s \in Sensors
    PROVE  /\ TimerPeriod \in Nat \ {0}
           /\ Waits[s] \in Seq(Nat) /\ Conversions[s] \in Seq(Nat)
           /\ Len(Waits[s]) \in Nat
           /\ LastState(s) \in Nat
           /\ DOMAIN Waits[s] = 1 .. Len(Waits[s])
           /\ DOMAIN Conversions[s] = 1 .. Len(Waits[s])
           /\ \A k \in DOMAIN Waits[s] :
                 Waits[s][k] \in Nat /\ Conversions[s][k] \in Nat
           /\ Shortest[s] \in 1 .. MaxInt16
<1>1. /\ Waits[s] \in Seq(Nat) /\ Conversions[s] \in Seq(Nat)
      /\ DOMAIN Waits[s] = DOMAIN Conversions[s]
  BY ClockAssumption
<1>2. /\ Len(Waits[s]) \in Nat
      /\ DOMAIN Waits[s] = 1 .. Len(Waits[s])
      /\ DOMAIN Conversions[s] = 1 .. Len(Waits[s])
  BY <1>1
<1>3. \A k \in DOMAIN Waits[s] : Waits[s][k] \in Nat /\ Conversions[s][k] \in Nat
  BY <1>1, <1>2
<1>4. LastState(s) \in Nat
  BY <1>2 DEF LastState
<1>5. TimerPeriod \in Nat \ {0} /\ Shortest[s] \in 1 .. MaxInt16
  BY ClockAssumption
<1> QED
  BY <1>1, <1>2, <1>3, <1>4, <1>5

\* The 16-bit numbers, as an interval whose ends do not matter.
LEMMA Int16sAre ==
    /\ MaxInt16 \in Nat
    /\ \A i : i \in Int16s <=> i \in Int /\ i >= -(MaxInt16 + 1) /\ i <= MaxInt16
<1>1. MaxInt16 \in Nat
  BY DEF MaxInt16
<1> QED
  BY <1>1 DEF Int16s

\* A 16-bit number is one, and what is not below the range only gets less.
LEMMA Int16Bound ==
    ASSUME NEW n \in Int
    PROVE  /\ Int16(n) \in Int16s
           /\ n >= -MaxInt16 => Int16(n) <= n
           /\ n \in Int16s => Int16(n) = n
<1> DEFINE m == n + 32768
           r == m % 65536
<1>1. /\ r \in Int /\ 0 <= r /\ r <= 65535
      /\ m >= 0 => r <= m
      /\ m >= 0 /\ m <= 65535 => r = m
  <2>1. m \in Int
    OBVIOUS
  <2> HIDE DEF m
  <2> QED
    BY <2>1
<1>2. Int16(n) = r - 32768
  BY DEF Int16
<1>3. MaxInt16 = 32767
  BY DEF MaxInt16
<1> HIDE DEF r
<1> QED
  BY <1>1, <1>2, <1>3, Int16sAre

\* The accumulator gains at most a tick, and what a sensor that is due exceeds
\* its period by is a 16-bit number.
LEMMA AccumulatorBound ==
    ASSUME IInv, NEW s \in Sensors
    PROVE  /\ sampling[s] \in Int16s
           /\ period[s] \in 1 .. MaxInt16 /\ period[s] >= Shortest[s]
           /\ carried[s] \in Int16s
           /\ Accumulated(s) \in Int16s
           /\ Accumulated(s) <= sampling[s] + TimerPeriod
           /\ IsDue(s) => Duration(s) = Accumulated(s) - period[s]
<1>1. /\ sampling[s] \in Int16s /\ period[s] \in 1 .. MaxInt16
      /\ carried[s] \in Int16s /\ period[s] >= Shortest[s]
      /\ TimerPeriod \in Nat \ {0}
  BY Times DEF IInv, TypeOK
<1>2. /\ Accumulated(s) \in Int16s
      /\ Accumulated(s) <= sampling[s] + TimerPeriod
  <2> DEFINE n == sampling[s] + TimerPeriod
  <2>1. n \in Int /\ n >= -MaxInt16
    BY <1>1, Int16sAre
  <2> QED
    BY <2>1, Int16Bound DEF Accumulated
<1>3. ASSUME IsDue(s) PROVE Duration(s) = Accumulated(s) - period[s]
  <2>1. Accumulated(s) - period[s] \in Int16s
    BY <1>1, <1>2, <1>3, Int16sAre DEF IsDue
  <2> QED
    BY <2>1, Int16Bound, Int16sAre DEF Duration
<1> QED
  BY <1>1, <1>2, <1>3

\* What there is to calculate with.
LEMMA Numbers ==
    ASSUME IInv, NEW s \in Sensors
    PROVE  /\ TimerPeriod \in Nat \ {0} /\ Shortest[s] \in Int
           /\ LastState(s) \in Nat /\ state[s] \in Nat
           /\ sampling[s] \in Int /\ carried[s] \in Int /\ period[s] \in Int
           /\ Accumulated(s) \in Int
           /\ Accumulated(s) <= sampling[s] + TimerPeriod
           /\ period[s] >= Shortest[s]
           /\ \A k \in DOMAIN Waits[s] : k \in Nat /\ Waits[s][k] \in Nat
<1>1. /\ sampling[s] \in Int /\ carried[s] \in Int /\ Accumulated(s) \in Int
      /\ Accumulated(s) <= sampling[s] + TimerPeriod
      /\ period[s] >= Shortest[s] /\ period[s] \in Int
  BY AccumulatorBound, Int16sAre
<1>2. /\ TimerPeriod \in Nat \ {0} /\ Shortest[s] \in Int /\ LastState(s) \in Nat
      /\ \A k \in DOMAIN Waits[s] : k \in Nat /\ Waits[s][k] \in Nat
  BY Times, Int16sAre
<1>3. state[s] \in Nat
  BY <1>2 DEF IInv, TypeOK
<1> QED
  BY <1>1, <1>2, <1>3

\* Where a tick leaves a sensor.
LEMMA TickOf ==
    ASSUME IInv, tick, NEW s \in Sensors
    PROVE  /\ sampling'[s] = NextSampling(s)
           /\ state'[s] = NextState(s)
           /\ waited'[s] = IF Triggers(s) THEN 0 ELSE NowWaited(s)
           /\ carried'[s] = IF HasData(s) THEN NextSampling(s) ELSE carried[s]
           /\ period'[s] = period[s]
  BY DEF tick

\* The phases go on one at a time, and a phase that is not left is one that
\* is not due or one that waits.
LEMMA Phases ==
    ASSUME IInv, NEW s \in Sensors
    PROVE  /\ state[s] \in 0 .. LastState(s)
           /\ NextState(s) \in 0 .. LastState(s)
           /\ \/ HasData(s) /\ NextState(s) = 0
              \/ ~HasData(s) /\ NextState(s) = state[s] /\ ~IsDue(s)
              \/ /\ ~HasData(s) /\ NextState(s) = state[s]
                 /\ IsDue(s) /\ IsWaiting(s) /\ ~HasWaited(s)
              \/ /\ ~HasData(s) /\ NextState(s) = state[s] + 1
                 /\ IsDue(s) /\ (IsWaiting(s) => HasWaited(s))
                 /\ state[s] < LastState(s)
<1>1. LastState(s) \in Nat /\ state[s] \in 0 .. LastState(s)
  BY Times DEF IInv, TypeOK
<1>2. CASE ~IsDue(s)
  BY <1>1, <1>2 DEF NextState, HasData
<1>3. CASE HasData(s)
  <2>1. IsDue(s) /\ state[s] = 2 * Len(Waits[s]) /\ Len(Waits[s]) \in Nat
    BY <1>3, Times DEF HasData, LastState
  <2>2. \A l \in Nat : (2 * l) % 2 # 1
    OBVIOUS
  <2>3. ~IsWaiting(s)
    BY <2>1, <2>2 DEF IsWaiting
  <2>4. NextState(s) = 0
    BY <1>3, <2>1, <2>3 DEF NextState
  <2> QED
    BY <1>1, <1>3, <2>4
<1>4. CASE IsDue(s) /\ ~HasData(s) /\ IsWaiting(s) /\ ~HasWaited(s)
  BY <1>1, <1>4 DEF NextState
<1>5. CASE IsDue(s) /\ ~HasData(s) /\ (IsWaiting(s) => HasWaited(s))
  <2>1. NextState(s) = state[s] + 1
    BY <1>5 DEF NextState
  <2>2. state[s] < LastState(s)
    BY <1>1, <1>5 DEF HasData
  <2> QED
    BY <1>1, <1>5, <2>1, <2>2
<1> QED
  BY <1>2, <1>3, <1>4, <1>5

\* What the sensor in a waiting phase waits for.
LEMMA WaitingPhase ==
    ASSUME IInv, NEW s \in Sensors, IsWaiting(s)
    PROVE  \E k \in DOMAIN Waits[s] :
              state[s] = 2 * k - 1 /\ (state[s] + 1) \div 2 = k
<1>1. /\ state[s] \in 0 .. LastState(s) /\ state[s] % 2 = 1
      /\ Len(Waits[s]) \in Nat /\ DOMAIN Waits[s] = 1 .. Len(Waits[s])
  BY Times DEF IInv, TypeOK, IsWaiting
<1> DEFINE k == (state[s] + 1) \div 2
<1>2. k \in 1 .. Len(Waits[s]) /\ state[s] = 2 * k - 1
  BY <1>1 DEF LastState
<1> QED
  BY <1>1, <1>2

\* A reading phase follows the trigger of a conversion there is.
LEMMA ReadingPhase ==
    ASSUME IInv, NEW s \in Sensors, state[s] > 0, ~IsWaiting(s)
    PROVE  /\ state[s] \div 2 \in DOMAIN Waits[s]
           /\ state[s] = 2 * (state[s] \div 2)
<1>1. /\ state[s] \in 0 .. LastState(s) /\ state[s] % 2 # 1
      /\ Len(Waits[s]) \in Nat /\ DOMAIN Waits[s] = 1 .. Len(Waits[s])
  BY Times DEF IInv, TypeOK, IsWaiting
<1> QED
  BY <1>1 DEF LastState

-----------------------------------------------------------------------------
(* A tick. *)

\* A sensor that has not been read keeps pace.
LEMMA TickPaced ==
    ASSUME IInv, tick, NEW s \in Sensors, Paced(s), ~HasData(s)
    PROVE  Paced(s)'
<1> DEFINE T == TimerPeriod
           n == state[s]
           m == NextState(s)
           a == sampling[s]
           b == Accumulated(s)
<1>1. /\ sampling'[s] = b /\ state'[s] = m
      /\ carried'[s] = carried[s] /\ period'[s] = period[s]
  BY TickOf DEF NextSampling
<1>2. /\ T \in Nat \ {0} /\ n \in Nat /\ a \in Int /\ b \in Int /\ b <= a + T
      /\ carried[s] \in Int /\ period[s] \in Int
      /\ \A k \in DOMAIN Waits[s] : k \in Nat /\ Waits[s][k] \in Nat
  BY Numbers
<1>3. \A i \in Int : i * T \in Int /\ (i + 1) * T = i * T + T
  BY <1>2
<1> HIDE DEF T, n, m, a, b
<1>4. CASE ~IsDue(s)
  <2>1. m = n /\ b < period[s]
    BY <1>2, <1>4, Phases DEF IsDue, HasData, m, n, b
  <2>2. n * T >= 0
    BY <1>2
  <2>3. b < period[s] + m * T
    BY <1>2, <1>3, <2>1, <2>2
  <2> QED
    BY <1>1, <2>3 DEF Paced, T, n, m, a, b
<1>5. CASE IsDue(s) /\ IsWaiting(s) /\ ~HasWaited(s)
  <2>1. m = n
    BY <1>5, Phases DEF m, n
  <2>2. PICK k \in DOMAIN Waits[s] : n = 2 * k - 1 /\ (n + 1) \div 2 = k
    BY <1>5, WaitingPhase DEF n
  <2>3. b - period[s] <= Waits[s][k]
    BY <1>2, <1>5, <2>2, AccumulatorBound DEF HasWaited, n, b
  <2>4. /\ 2 * k <= m + 1
        /\ b <= period[s] + Waits[s][k] + (m + 1 - 2 * k) * T
    BY <1>2, <2>1, <2>2, <2>3
  <2> QED
    BY <1>1, <2>4 DEF Paced, T, n, m, a, b
<1>6. CASE IsDue(s) /\ (IsWaiting(s) => HasWaited(s))
  <2>1. m = n + 1
    BY <1>6, Phases DEF m, n
  <2>2. n * T \in Int /\ m * T = n * T + T
    BY <1>2, <1>3, <2>1
  <2>3. CASE a <= carried[s] + n * T
    <3>1. b <= carried[s] + m * T
      BY <1>2, <2>2, <2>3
    <3> QED
      BY <1>1, <3>1 DEF Paced, T, n, m, a, b
  <2>4. CASE a < period[s] + n * T
    <3>1. b < period[s] + m * T
      BY <1>2, <2>2, <2>4
    <3> QED
      BY <1>1, <3>1 DEF Paced, T, n, m, a, b
  <2>5. ASSUME NEW k \in DOMAIN Waits[s], 2 * k <= n + 1,
               a <= period[s] + Waits[s][k] + (n + 1 - 2 * k) * T
        PROVE  Paced(s)'
    <3> DEFINE i == n + 1 - 2 * k
    <3>1. i \in Int /\ m + 1 - 2 * k = i + 1 /\ 2 * k <= m + 1
      BY <1>2, <2>1, <2>5
    <3>2. i * T \in Int /\ (m + 1 - 2 * k) * T = i * T + T
      BY <1>3, <3>1
    <3>3. b <= period[s] + Waits[s][k] + (m + 1 - 2 * k) * T
      <4> HIDE DEF i
      <4>1. a <= period[s] + Waits[s][k] + i * T
        BY <2>5 DEF i
      <4> QED
        BY <1>2, <3>2, <4>1
    <3> QED
      BY <1>1, <3>1, <3>3 DEF Paced, T, n, m, a, b
  <2> QED
    BY <2>3, <2>4, <2>5 DEF Paced, T, n, m, a, b
<1> QED
  BY <1>4, <1>5, <1>6

\* A sensor that is read has taken a tick for each of its phases, or is not
\* due again.
LEMMA TickDrift ==
    ASSUME IInv, tick, NEW s \in Sensors, Paced(s), HasData(s)
    PROVE  \/ sampling'[s] < period[s]
           \/ sampling'[s] + period[s] <=
                 carried[s] + (LastState(s) + 1) * TimerPeriod
<1> DEFINE T == TimerPeriod
           n == LastState(s)
           a == sampling[s]
           p == period[s]
<1>1. sampling'[s] = Accumulated(s) - p
  <2>1. IsDue(s)
    BY DEF HasData
  <2> QED
    BY <2>1, AccumulatorBound, TickOf DEF NextSampling, Duration
<1>2. /\ T \in Nat \ {0} /\ n \in Nat /\ a \in Int /\ p \in Int /\ carried[s] \in Int
      /\ Accumulated(s) \in Int /\ Accumulated(s) <= a + T
      /\ Shortest[s] \in Int /\ p >= Shortest[s]
      /\ \A k \in DOMAIN Waits[s] : k \in Nat /\ Waits[s][k] \in Nat
  BY Numbers
<1>3. \A i \in Int : i * T \in Int /\ (i + 1) * T = i * T + T
  BY <1>2
<1>4. /\ (n + 1) * T <= Shortest[s]
      /\ \A k \in DOMAIN Waits[s] : Waits[s][k] + (n + 2 - 2 * k) * T < Shortest[s]
  BY TimesAssumption
<1>5. \/ a <= carried[s] + n * T
      \/ a < p + n * T
      \/ \E k \in DOMAIN Waits[s] : a <= p + Waits[s][k] + (n + 1 - 2 * k) * T
  BY DEF Paced, HasData
<1>6. n * T \in Int /\ (n + 1) * T = n * T + T
  BY <1>2, <1>3
<1> HIDE DEF T, n, a, p
<1>7. CASE a <= carried[s] + n * T
  <2>1. Accumulated(s) <= carried[s] + (n + 1) * T
    BY <1>2, <1>6, <1>7
  <2> QED
    BY <1>1, <1>2, <1>6, <2>1 DEF T, n, p
<1>8. CASE a < p + n * T
  <2>1. Accumulated(s) - p < p
    BY <1>2, <1>4, <1>6, <1>8
  <2> QED
    BY <1>1, <2>1 DEF p
<1>9. ASSUME NEW k \in DOMAIN Waits[s], a <= p + Waits[s][k] + (n + 1 - 2 * k) * T
      PROVE  Accumulated(s) - p < p
  <2> DEFINE i == n + 1 - 2 * k
             w == Waits[s][k]
  <2>1. i \in Int /\ n + 2 - 2 * k = i + 1 /\ w \in Nat
    BY <1>2
  <2>2. i * T \in Int /\ (n + 2 - 2 * k) * T = i * T + T
    BY <1>3, <2>1
  <2>3. w + (i * T + T) < Shortest[s]
    BY <1>4, <2>2
  <2>4. a <= p + w + i * T
    BY <1>9
  <2> HIDE DEF i, w
  <2> QED
    BY <1>2, <2>1, <2>2, <2>3, <2>4
<1> QED
  BY <1>1, <1>5, <1>7, <1>8, <1>9 DEF p

\* A sensor that has been read keeps pace with what is left.
LEMMA DataPaced ==
    ASSUME IInv, tick, NEW s \in Sensors, HasData(s)
    PROVE  Paced(s)'
<1>1. /\ sampling'[s] = carried'[s] /\ state'[s] = 0
      /\ sampling'[s] \in Int16s
  <2>1. IsDue(s) /\ NextState(s) = 0
    BY Phases DEF HasData
  <2>2. NextSampling(s) = Duration(s) /\ Duration(s) \in Int16s
    BY <2>1, AccumulatorBound, Int16sAre DEF NextSampling, Duration, IsDue
  <2> QED
    BY <2>1, <2>2, TickOf
<1>2. sampling'[s] <= carried'[s] + state'[s] * TimerPeriod
  BY <1>1, Int16sAre, Times
<1> QED
  BY <1>2 DEF Paced

\* The time waited goes on, up to the longest conversion.
LEMMA WaitedOn ==
    ASSUME IInv, NEW s \in Sensors
    PROVE  /\ waited[s] \in Nat /\ MaxConversion \in Nat
           /\ NowWaited(s) \in 0 .. MaxConversion
           /\ NowWaited(s) = MaxConversion \/ NowWaited(s) = waited[s] + TimerPeriod
           /\ waited[s] = MaxConversion => NowWaited(s) = MaxConversion
<1>1. MaxConversion \in Nat
  BY DEF MaxConversion
<1>2. waited[s] \in 0 .. MaxConversion /\ TimerPeriod \in Nat \ {0}
  BY Times DEF IInv, TypeOK
<1> QED
  BY <1>1, <1>2 DEF NowWaited

\* Between its trigger and its reading a conversion is waited for.
LEMMA TickWaited ==
    ASSUME IInv, tick, NEW s \in Sensors, Paced(s), Waited(s)
    PROVE  Waited(s)'
<1> DEFINE T == TimerPeriod
           n == state[s]
           m == NextState(s)
           a == sampling[s]
           b == Accumulated(s)
           v == waited[s]
           u == waited'[s]
           p == period[s]
           c == carried[s]
<1>1. state'[s] = m /\ period'[s] = p
  BY TickOf
<1>2. /\ T \in Nat \ {0} /\ n \in Nat /\ a \in Int /\ b \in Int /\ b <= a + T
      /\ p \in Int /\ c \in Int /\ v \in Nat /\ MaxConversion \in Nat
      /\ m \in Nat
  <2>1. n \in 0 .. LastState(s) /\ LastState(s) \in Nat /\ m \in 0 .. LastState(s)
    BY Phases, Times
  <2> QED
    BY <2>1, Numbers, WaitedOn
<1>3. CASE HasData(s)
  <2>1. m = 0
    BY <1>3, Phases DEF HasData
  <2> QED
    BY <1>1, <2>1 DEF Waited
<1>4. CASE ~HasData(s)
  <2>1. sampling'[s] = b /\ carried'[s] = c
    BY <1>4, TickOf DEF NextSampling
  <2>2. u = IF Triggers(s) THEN 0 ELSE NowWaited(s)
    BY TickOf
  <2>3. /\ NowWaited(s) = MaxConversion \/ NowWaited(s) = v + T
        /\ v = MaxConversion => NowWaited(s) = MaxConversion
    BY WaitedOn
  <2>4. \/ m = n /\ ~IsDue(s)
        \/ m = n /\ IsDue(s) /\ IsWaiting(s)
        \/ m = n + 1 /\ IsDue(s) /\ (IsWaiting(s) => HasWaited(s)) /\ n < LastState(s)
    BY <1>4, Phases
  <2>5. IsWaiting(s) <=> n % 2 = 1
    BY DEF IsWaiting
  <2>6. IsWaiting(s)' <=> m % 2 = 1
    BY <1>1 DEF IsWaiting
  <2>7. Triggers(s) <=> IsDue(s) /\ ~IsWaiting(s) /\ n < LastState(s)
    BY DEF Triggers
  <2>8. ASSUME m > 0, ~IsWaiting(s)'
        PROVE  u = MaxConversion \/ u >= T
    <3>1. CASE m = n
      <4>1. ~Triggers(s) /\ ~IsWaiting(s) /\ n > 0
        BY <2>4, <2>5, <2>6, <2>7, <2>8, <3>1, <1>2
      <4>2. v = MaxConversion \/ v >= T
        BY <4>1 DEF Waited
      <4> QED
        BY <1>2, <2>2, <2>3, <4>1, <4>2
    <3>2. CASE m = n + 1
      <4>1. IsWaiting(s)
        BY <1>2, <2>5, <2>6, <2>8, <3>2
      <4> QED
        BY <1>2, <2>2, <2>3, <2>7, <4>1
    <3> QED
      BY <2>4, <3>1, <3>2
  <2>9. ASSUME m = 1, c < p
        PROVE  u = MaxConversion \/ b < p + T + u
    <3>1. CASE n = 1
      <4>1. ~Triggers(s)
        BY <2>5, <2>7, <3>1
      <4>2. v = MaxConversion \/ a < p + T + v
        BY <2>9, <3>1 DEF Waited
      <4> QED
        BY <1>2, <2>2, <2>3, <4>1, <4>2
    <3>2. CASE n = 0
      <4>1. a <= c \/ a < p
        <5>1. 0 * T = 0
          BY <1>2
        <5>2. \A k \in DOMAIN Waits[s] : k \in Nat \ {0}
          BY Times
        <5> QED
          BY <1>2, <3>2, <5>1, <5>2 DEF Paced
      <4>2. Triggers(s)
        BY <2>4, <2>5, <2>7, <2>9, <3>2
      <4> QED
        BY <1>2, <2>2, <2>9, <4>1, <4>2
    <3> QED
      BY <1>2, <2>4, <2>9, <3>1, <3>2
  <2>10. ASSUME m = 2, c < p
         PROVE  u = MaxConversion \/ Waits[s][1] + 2 <= u + T
    <3>1. CASE n = 2
      <4>1. ~Triggers(s)
        BY <2>4, <2>7, <2>10, <3>1
      <4>2. v = MaxConversion \/ Waits[s][1] + 2 <= v + T
        BY <2>10, <3>1 DEF Waited
      <4>3. 1 \in DOMAIN Waits[s] /\ Waits[s][1] \in Nat
        <5>1. 2 <= LastState(s)
          BY <3>1, Phases
        <5> QED
          BY <5>1, Times DEF LastState
      <4> QED
        BY <1>2, <2>2, <2>3, <4>1, <4>2, <4>3
    <3>2. CASE n = 1
      <4>1. /\ IsWaiting(s) /\ IsDue(s) /\ HasWaited(s) /\ ~Triggers(s)
            /\ n < LastState(s)
        BY <2>4, <2>5, <2>7, <2>10, <3>2
      <4>2. 1 \in DOMAIN Waits[s] /\ Waits[s][1] \in Nat
        BY <3>2, <4>1, Times DEF LastState
      <4>3. b - p > Waits[s][1]
        <5>1. (n + 1) \div 2 = 1
          BY <3>2
        <5> QED
          BY <4>1, <5>1, AccumulatorBound DEF HasWaited
      <4>4. v = MaxConversion \/ a < p + T + v
        BY <2>10, <3>2 DEF Waited
      <4> QED
        BY <1>2, <2>2, <2>3, <4>1, <4>2, <4>3, <4>4
    <3> QED
      BY <1>2, <2>4, <2>10, <3>1, <3>2
  <2> QED
    BY <1>1, <2>1, <2>6, <2>8, <2>9, <2>10 DEF Waited
<1> QED
  BY <1>3, <1>4

\* A conversion that is read has been waited for, unless the sensor was late
\* when it was read last.
LEMMA ReadAfterWait ==
    ASSUME IInv, NEW s \in Sensors, Waited(s), IsEarly(s)
    PROVE  carried[s] >= period[s]
<1> DEFINE T == TimerPeriod
           k == state[s] \div 2
           v == waited[s]
           w == NowWaited(s)
           d == Conversions[s][k]
<1>1. state[s] > 0 /\ ~IsWaiting(s) /\ w < d
  BY DEF IsEarly, ReadsConversion
<1>2. k \in DOMAIN Waits[s] /\ state[s] = 2 * k
  BY <1>1, ReadingPhase
<1>3. /\ T \in Nat \ {0} /\ v \in Nat /\ w \in Nat /\ MaxConversion \in Nat
      /\ d \in Nat /\ Waits[s][k] \in Nat
      /\ carried[s] \in Int /\ period[s] \in Int
      /\ w = MaxConversion \/ w = v + T
      /\ v = MaxConversion => w = MaxConversion
  <2>1. T \in Nat \ {0} /\ d \in Nat /\ Waits[s][k] \in Nat
    <3> HIDE DEF k
    <3> QED
      BY <1>2, Times
  <2>2. /\ v \in Nat /\ w \in Nat /\ MaxConversion \in Nat
        /\ w = MaxConversion \/ w = v + T
        /\ v = MaxConversion => w = MaxConversion
    BY WaitedOn
  <2>3. carried[s] \in Int /\ period[s] \in Int
    BY AccumulatorBound, Int16sAre
  <2> QED
    BY <2>1, <2>2, <2>3
<1>4. /\ d <= MaxConversion
      /\ d <= 2 * T \/ (k = 1 /\ d <= Waits[s][k] + 2)
  BY <1>2, TimesAssumption
<1>5. v = MaxConversion \/ v >= T
  BY <1>1 DEF Waited
<1>6. CASE d <= 2 * T
  BY <1>1, <1>3, <1>4, <1>5, <1>6
<1>7. CASE k = 1 /\ d <= Waits[s][k] + 2
  <2>1. SUFFICES ASSUME carried[s] < period[s] PROVE FALSE
    BY <1>3
  <2>2. v = MaxConversion \/ Waits[s][1] + 2 <= v + T
    BY <1>2, <1>7, <2>1 DEF Waited
  <2> QED
    BY <1>1, <1>3, <1>4, <1>7, <2>2
<1> QED
  BY <1>4, <1>6, <1>7

-----------------------------------------------------------------------------
(* The invariant. *)

LEMMA InitIInv == Init => IInv
<1> SUFFICES ASSUME Init PROVE IInv
  OBVIOUS
<1>1. 200 \in 1 .. MaxInt16 /\ 0 \in Int16s /\ 0 \in 0 .. MaxConversion
  <2>1. 200 <= MaxInt16 /\ MaxInt16 \in Nat /\ MaxConversion \in Nat
    BY DEF MaxInt16, MaxConversion
  <2> QED
    BY <2>1, Int16sAre
<1>2. \A s \in Sensors : LastState(s) \in Nat /\ 200 >= Shortest[s]
  BY Times, TimesAssumption
<1>3. TypeOK
  <2>1. /\ period = [s \in Sensors |-> 200] /\ sampling = [s \in Sensors |-> 0]
        /\ state = [s \in Sensors |-> 0] /\ waited = [s \in Sensors |-> 0]
        /\ carried = [s \in Sensors |-> 0] /\ working = FALSE /\ early = {}
    BY DEF Init
  <2>2. \A s \in Sensors : state[s] \in 0 .. LastState(s)
    BY <1>2, <2>1
  <2> QED
    BY <1>1, <2>1, <2>2 DEF TypeOK
<1> QED
  BY <1>2, <1>3 DEF Init, IInv

LEMMA TickIInv ==
    ASSUME IInv, tick
    PROVE  IInv'
<1>1. \A s \in Sensors : /\ NextSampling(s) \in Int16s
                         /\ NextState(s) \in 0 .. LastState(s)
                         /\ NowWaited(s) \in 0 .. MaxConversion
                         /\ 0 \in 0 .. MaxConversion
                         /\ carried[s] \in Int16s
  <2> TAKE s \in Sensors
  <2>1. NextSampling(s) \in Int16s
    <3>1. CASE HasData(s)
      <4>1. IsDue(s)
        BY <3>1 DEF HasData
      <4>2. Duration(s) \in Int16s
        BY <4>1, AccumulatorBound, Int16sAre DEF IsDue
      <4> QED
        BY <3>1, <4>2 DEF NextSampling, Duration
    <3>2. CASE ~HasData(s)
      BY <3>2, AccumulatorBound DEF NextSampling
    <3> QED
      BY <3>1, <3>2
  <2> QED
    BY <2>1, Phases, WaitedOn, AccumulatorBound
<1>2. TypeOK'
  <2>1. working' \in BOOLEAN /\ period' \in [Sensors -> 1 .. MaxInt16]
    BY DEF tick, IInv, TypeOK
  <2>2. /\ sampling' \in [Sensors -> Int16s]
        /\ waited' \in [Sensors -> 0 .. MaxConversion]
        /\ carried' \in [Sensors -> Int16s]
    BY <1>1 DEF tick
  <2>3. \A s \in Sensors : state'[s] \in 0 .. LastState(s)
    BY <1>1 DEF tick
  <2>4. early' \subseteq Sensors
    BY DEF tick
  <2> QED
    BY <2>1, <2>2, <2>3, <2>4 DEF TypeOK
<1>3. ASSUME NEW s \in Sensors
      PROVE  Paced(s)' /\ Waited(s)'
  <2>1. Paced(s) /\ Waited(s)
    BY DEF IInv, tick
  <2> QED
    BY <2>1, TickPaced, DataPaced, TickWaited
<1>4. /\ DOMAIN state' = Sensors
      /\ \A s \in Sensors : period'[s] >= Shortest[s]
      /\ working'
  BY DEF tick, IInv
<1> QED
  BY <1>2, <1>3, <1>4 DEF IInv

LEMMA StartIInv ==
    ASSUME IInv, start
    PROVE  IInv'
<1>1. \A s \in Sensors : 0 \in 0 .. LastState(s) /\ 0 \in 0 .. MaxConversion
  BY Times DEF MaxConversion
<1>2. TypeOK'
  <2>1. /\ state' = [s \in Sensors |-> 0] /\ waited' = [s \in Sensors |-> 0]
        /\ carried' = sampling /\ sampling' = sampling /\ period' = period
        /\ working' = TRUE /\ early' = {}
    BY DEF start
  <2> QED
    BY <1>1, <2>1 DEF IInv, TypeOK
<1>3. ASSUME NEW s \in Sensors
      PROVE  Paced(s)' /\ Waited(s)'
  <2>1. /\ state'[s] = 0 /\ carried'[s] = sampling'[s]
        /\ sampling'[s] \in Int
    BY Int16sAre DEF start, IInv, TypeOK
  <2>2. sampling'[s] <= carried'[s] + state'[s] * TimerPeriod
    BY <2>1, Times
  <2> QED
    BY <2>1, <2>2 DEF Paced, Waited
<1> QED
  BY <1>2, <1>3 DEF start, IInv

LEMMA StoppedIInv ==
    ASSUME IInv,
           stop \/ \E s \in Sensors : \E d \in Periods[s] : writeSetting(s, d)
    PROVE  IInv'
<1>1. CASE stop
  BY <1>1 DEF stop, IInv, TypeOK
<1>2. ASSUME NEW s \in Sensors, NEW d \in Periods[s], writeSetting(s, d)
      PROVE  IInv'
  <2>1. d \in 1 .. MaxInt16 /\ d >= Shortest[s]
    <3>1. Periods[s] \subseteq Int16s
      BY ClockAssumption
    <3> QED
      BY <1>2, <3>1, Times, Int16sAre DEF writeSetting
  <2>2. /\ period' \in [Sensors -> 1 .. MaxInt16]
        /\ \A t \in Sensors : period'[t] >= Shortest[t]
    BY <1>2, <2>1 DEF writeSetting, IInv, TypeOK
  <2>3. TypeOK'
    BY <1>2, <2>2 DEF writeSetting, IInv, TypeOK
  <2> QED
    BY <1>2, <2>2, <2>3 DEF writeSetting, IInv
<1> QED
  BY <1>1, <1>2

LEMMA StutterIInv ==
    ASSUME IInv, UNCHANGED clockVars
    PROVE  IInv'
<1>1. /\ working' = working /\ period' = period /\ sampling' = sampling
      /\ state' = state /\ early' = early /\ waited' = waited
      /\ carried' = carried
  BY DEF clockVars
<1>2. TypeOK'
  BY <1>1 DEF IInv, TypeOK
<1>3. \A s \in Sensors : (Paced(s) => Paced(s)') /\ (Waited(s) => Waited(s)')
  <2> TAKE s \in Sensors
  <2>1. Paced(s)' <=> Paced(s)
    BY <1>1 DEF Paced
  <2>2. Waited(s)' <=> Waited(s)
    BY <1>1 DEF Waited, IsWaiting
  <2> QED
    BY <2>1, <2>2
<1> QED
  BY <1>1, <1>2, <1>3 DEF IInv

LEMMA NextIInv == IInv /\ [Next]_clockVars => IInv'
<1> SUFFICES ASSUME IInv, [Next]_clockVars PROVE IInv'
  OBVIOUS
<1> QED
  BY TickIInv, StartIInv, StoppedIInv, StutterIInv DEF Next

-----------------------------------------------------------------------------
(* The promises. *)

\* The accumulators, phases and periods keep their types, whatever is started,
\* stopped and set.
THEOREM Types == Spec => []TypeOK
<1>1. IInv => TypeOK
  BY DEF IInv
<1> QED
  BY <1>1, InitIInv, NextIInv, PTL DEF Spec

\* No recording drifts: a sensor that has been read is not due again, or it
\* was late and has taken no more than a tick for each of its phases since
\* (senstick_sensor_controller.c:309-321, 613-635).
THEOREM RecordingsDoNotDrift == Spec => NoDrift
<1>1. ASSUME IInv
      PROVE  [\A s \in Sensors :
                tick /\ HasData(s) =>
                   \/ sampling'[s] < period[s]
                   \/ sampling'[s] + period[s] <=
                         carried[s] + (LastState(s) + 1) * TimerPeriod]_clockVars
  <2>1. ASSUME NEW s \in Sensors, tick, HasData(s)
        PROVE  \/ sampling'[s] < period[s]
               \/ sampling'[s] + period[s] <=
                     carried[s] + (LastState(s) + 1) * TimerPeriod
    <3>1. Paced(s)
      BY <1>1, <2>1 DEF IInv, tick
    <3> QED
      BY <1>1, <2>1, <3>1, TickDrift
  <2> QED
    BY <2>1
<1> QED
  BY <1>1, InitIInv, NextIInv, PTL DEF Spec, NoDrift

\* A sensor that was not late when it was read last, or started, is waited for
\* (brightness_sensor_base.c:30-50, humidity_sensor_base.c:33-70).
THEOREM OnlyLateSensorsAreReadEarly == Spec => EarlyOnlyWhenLate
<1>1. ASSUME IInv, [Next]_clockVars
      PROVE  [\A s \in early' : carried[s] >= period[s]]_clockVars
  <2>1. CASE tick
    <3>1. ASSUME NEW s \in early' PROVE carried[s] >= period[s]
      <4>1. s \in Sensors /\ IsEarly(s)
        BY <2>1, <3>1 DEF tick
      <4>2. Waited(s)
        BY <1>1, <2>1, <4>1 DEF IInv, tick
      <4> QED
        BY <1>1, <4>1, <4>2, ReadAfterWait
    <3> QED
      BY <3>1
  <2>2. CASE start \/ stop
    BY <2>2 DEF start, stop
  <2>3. CASE \E s \in Sensors : \E d \in Periods[s] : writeSetting(s, d)
    BY <1>1, <2>3 DEF writeSetting, IInv
  <2> QED
    BY <1>1, <2>1, <2>2, <2>3 DEF Next
<1> QED
  BY <1>1, InitIInv, NextIInv, PTL DEF Spec, EarlyOnlyWhenLate
=============================================================================
