---------------------------- MODULE MonitorProofs ----------------------------
(***************************************************************************)
(* The properties of Monitor for every radio setting, every step of the    *)
(* filter's arithmetic and every answer of a controller.                   *)
(*                                                                         *)
(* A step of Monitor is a step of DevicePoll, so what is proved there      *)
(* holds here.  The filter needs an argument of its own: its gain is       *)
(* between 0 and 1, and rounding to the nearest integer keeps a number     *)
(* between two integers if it was there.                                   *)
(***************************************************************************)
EXTENDS Monitor, DevicePollProofs

LEMMA AwayFacts == Away \in Int /\ Patience \in Nat
BY PatienceAssumption

USE UnitAssumption, RadiosAssumption, AnswersAssumption, AwayFacts

------------------------------------------------------------------------------
(* Arithmetic.                                                             *)

\* A quotient is the one integer that its dividend allows.
LEMMA Quotient ==
  ASSUME NEW m \in Int, NEW n \in Nat \ {0}, NEW k \in Int
  PROVE  /\ m \div n \in Int
         /\ k * n <= m => k <= m \div n
         /\ m < (k + 1) * n => m \div n <= k
<1> DEFINE d == m \div n
<1>1. d \in Int /\ d * n <= m /\ m < (d + 1) * n
  OBVIOUS
<1>2. k * n <= m => k <= d
  <2> SUFFICES ASSUME k * n <= m, d + 1 <= k PROVE FALSE
    BY <1>1
  <2>1. (d + 1) * n <= k * n
    BY <1>1
  <2> QED BY <1>1, <2>1
<1>3. m < (k + 1) * n => d <= k
  <2> SUFFICES ASSUME m < (k + 1) * n, k + 1 <= d PROVE FALSE
    BY <1>1
  <2>1. (k + 1) * n <= d * n
    BY <1>1
  <2> QED BY <1>1, <2>1
<1> QED BY <1>1, <1>2, <1>3

\* Rounding respects integer bounds.
LEMMA NearestBounds ==
  ASSUME NEW a \in Int, NEW b \in Nat \ {0}, NEW c \in Int, NEW e \in Int, e = c * b
  PROVE  /\ Nearest(a, b) \in Int
         /\ e <= a => c <= Nearest(a, b)
         /\ a <= e => Nearest(a, b) <= c
<1>1. 2 * a + b \in Int /\ 2 * b \in Nat \ {0}
  OBVIOUS
<1>2. c * (2 * b) = 2 * e /\ (c + 1) * (2 * b) = 2 * e + 2 * b
  OBVIOUS
<1>3. e <= a => c * (2 * b) <= 2 * a + b
  BY <1>2
<1>4. a <= e => 2 * a + b < (c + 1) * (2 * b)
  BY <1>2
<1> QED BY <1>1, <1>3, <1>4, Quotient DEF Nearest

\* A weight between 0 and 1 leaves the estimate between itself and the loss.
LEMMA Weighted ==
  ASSUME NEW w \in Nat \ {0}, NEW r \in Nat \ {0}, NEW d \in Int
  PROVE  /\ Nearest(w * d, w + r) \in Int
         /\ 0 <= d => 0 <= Nearest(w * d, w + r) /\ Nearest(w * d, w + r) <= d
         /\ d <= 0 => d <= Nearest(w * d, w + r) /\ Nearest(w * d, w + r) <= 0
<1>1. PICK a \in Int, b \in Nat \ {0}, e \in Int : a = w * d /\ b = w + r /\ e = d * b
  OBVIOUS
<1>2. e = w * d + r * d /\ 0 = 0 * b
  BY <1>1
<1>3. /\ 0 <= d => 0 <= w * d /\ 0 <= r * d
      /\ d <= 0 => w * d <= 0 /\ r * d <= 0
  OBVIOUS
<1>4. /\ w * d \in Int /\ r * d \in Int
      /\ 0 <= d => 0 <= a /\ a <= e
      /\ d <= 0 => e <= a /\ a <= 0
  BY <1>1, <1>2, <1>3
<1>5. Nearest(a, b) \in Int /\ (0 <= a => 0 <= Nearest(a, b)) /\ (a <= 0 => Nearest(a, b) <= 0)
  BY <1>2, NearestBounds
<1>6. (e <= a => d <= Nearest(a, b)) /\ (a <= e => Nearest(a, b) <= d)
  BY <1>1, NearestBounds
<1>7. /\ 0 <= d => 0 <= Nearest(a, b) /\ Nearest(a, b) <= d
      /\ d <= 0 => d <= Nearest(a, b) /\ Nearest(a, b) <= 0
  BY <1>4, <1>5, <1>6
<1> QED BY <1>1, <1>5, <1>7

\* The covariance stays positive and below the noise of a reading.
LEMMA Covariance ==
  ASSUME NEW w \in Nat \ {0}, NEW r \in Nat \ {0}
  PROVE  Nearest(w * r, w + r) \in 1..r
<1>1. w * r \in Nat /\ w * r >= w /\ w * r >= r /\ r * r \in Nat
  OBVIOUS
<1>2. PICK a \in Int, b \in Nat \ {0}, e \in Int : a = w * r /\ b = w + r /\ e = r * b
  OBVIOUS
<1>3. a <= e
  <2>1. e = w * r + r * r
    BY <1>2
  <2> QED BY <1>1, <1>2, <2>1
<1>4. Nearest(a, b) \in Int /\ Nearest(a, b) <= r
  <2>1. PICK c \in Int : c = r /\ e = c * b
    BY <1>2
  <2>2. Nearest(a, b) \in Int /\ (a <= e => Nearest(a, b) <= c)
    BY <2>1, NearestBounds
  <2> QED BY <1>3, <2>1, <2>2
<1>5. 1 <= Nearest(a, b)
  <2>1. 1 * (2 * b) <= 2 * a + b
    BY <1>1, <1>2
  <2> QED BY <2>1, Quotient DEF Nearest
<1> QED BY <1>2, <1>4, <1>5

\* More weight on a larger step moves the estimate as far at least.
LEMMA NearestMonotone ==
  ASSUME NEW v \in Nat \ {0}, NEW w \in Nat \ {0}, NEW r \in Nat \ {0}, v <= w,
         NEW e \in Nat, NEW d \in Nat, e <= d
  PROVE  Nearest(v * e, v + r) <= Nearest(w * d, w + r)
<1>1. PICK a \in Nat, b \in Nat \ {0}, m \in Nat, n \in Nat \ {0} :
        a = v * e /\ b = v + r /\ m = w * d /\ n = w + r
  OBVIOUS
<1>2. PICK k \in Int : k = Nearest(a, b)
  <2>1. 2 * a + b \in Int /\ 2 * b \in Nat \ {0}
    OBVIOUS
  <2> QED BY <2>1, Quotient DEF Nearest
<1>3. k * (2 * b) <= 2 * a + b
  <2>1. 2 * a + b \in Int /\ 2 * b \in Nat \ {0}
    OBVIOUS
  <2>2. ((2 * a + b) \div (2 * b)) * (2 * b) <= 2 * a + b
    BY <2>1
  <2> QED BY <1>2, <2>2 DEF Nearest
<1>4. k * (2 * n) <= 2 * m + n
  <2>1. CASE k <= 0
    <3>1. k * (2 * n) <= 0
      BY <2>1
    <3> QED BY <3>1
  <2>2. CASE k >= 1
    <3>1. PICK t \in Nat : t = 2 * k - 1
      BY <2>2
    <3>2. t * b <= 2 * a
      BY <1>3, <3>1
    <3>3. t * v + t * r <= v * (2 * e)
      BY <1>1, <3>2
    <3>4. t * r <= v * (2 * e - t)
      BY <3>3
    <3>5. PICK g \in Int : g = 2 * e - t
      <4>1. 2 * e - t \in Int
        OBVIOUS
      <4> QED BY <4>1
    <3>6. g >= 0
      <4> SUFFICES ASSUME g < 0 PROVE FALSE
        OBVIOUS
      <4>1. t * r >= 0
        OBVIOUS
      <4>2. v * g < 0
        <5>1. PICK h \in Nat \ {0} : g = -h
          OBVIOUS
        <5>2. v * h > 0 /\ v * g = -(v * h)
          BY <5>1
        <5> QED BY <5>2
      <4> QED BY <3>4, <3>5, <4>1, <4>2
    <3>7. v * g <= w * g
      BY <3>6
    <3>8. t * r <= w * g
      BY <3>4, <3>5, <3>7
    <3>9. t * w + t * r <= w * (2 * e)
      BY <3>5, <3>8
    <3>10. w * (2 * e) <= w * (2 * d)
      OBVIOUS
    <3>11. t * n <= 2 * m
      BY <1>1, <3>9, <3>10
    <3> QED BY <3>1, <3>11
  <2> QED BY <2>1, <2>2
<1>5. k <= Nearest(m, n)
  <2>1. 2 * m + n \in Int /\ 2 * n \in Nat \ {0}
    OBVIOUS
  <2> QED BY <1>4, <2>1, Quotient DEF Nearest
<1> QED BY <1>1, <1>2, <1>5

------------------------------------------------------------------------------
(* The monitor.                                                            *)

MonitorIInv ==
  /\ TypeOK
  /\ MonitorTypeOK
  /\ AmongLosses
  /\ filter = [x |-> filter.x, p |-> filter.p]

LEMMA RadioFacts ==
  ASSUME NEW s \in Radios
  PROVE  /\ s.q \in Nat \ {0} /\ s.r \in Nat \ {0} /\ s.initial \in Int
         /\ s.threshold \in Int /\ s.fallback \in Int
BY DEF Radio, Power

\* What one loss does to the filter.
LEMMA UpdateFacts ==
  ASSUME NEW s \in Radios, NEW x \in Int, NEW c \in Nat \ {0}, NEW z \in Int
  PROVE  LET f == Update(s, [x |-> x, p |-> c], z) IN
           /\ f = [x |-> f.x, p |-> f.p]
           /\ f.x \in Int /\ f.p \in 1..s.r
           /\ x <= z => x <= f.x /\ f.x <= z
           /\ z <= x => z <= f.x /\ f.x <= x
<1> DEFINE w == c + s.q
           n == Nearest(w * (z - x), w + s.r)
<1>1. s.r \in Nat \ {0} /\ w \in Nat \ {0} /\ z - x \in Int
  BY RadioFacts
<1>2. /\ n \in Int
      /\ 0 <= z - x => 0 <= n /\ n <= z - x
      /\ z - x <= 0 => z - x <= n /\ n <= 0
  <2> HIDE DEF w
  <2> QED BY <1>1, Weighted
<1>3. Nearest(w * s.r, w + s.r) \in 1..s.r
  <2> HIDE DEF w
  <2> QED BY <1>1, Covariance
<1>4. Update(s, [x |-> x, p |-> c], z) = [x |-> x + n, p |-> Nearest(w * s.r, w + s.r)]
  BY DEF Update
<1> HIDE DEF n, w
<1> QED BY <1>2, <1>3, <1>4

LEMMA MonitorInitIInv == MonitorInit => MonitorIInv
<1> SUFFICES ASSUME MonitorInit PROVE MonitorIInv
  OBVIOUS
<1>1. TypeOK
  BY InitIInv DEF MonitorInit, IInv
<1>2. radio \in Radios /\ radio.initial \in Int /\ radio.r \in Nat \ {0}
  BY RadioFacts DEF MonitorInit
<1> QED BY <1>1, <1>2, RunCapAssumption DEF MonitorInit, MonitorIInv, MonitorTypeOK, AmongLosses, NewFilter

\* A step of the monitor is a step of DevicePoll.
LEMMA MonitorStep == [MonitorNext]_monitorVars => [Next]_vars
<1> SUFFICES ASSUME [MonitorNext]_monitorVars PROVE [Next]_vars
  OBVIOUS
<1>1. CASE PollFails
  BY <1>1 DEF PollFails, Next, Reading
<1>2. CASE \E a \in Answers : PollAnswers(a[1], a[2])
  BY <1>2 DEF PollAnswers, ReadingOf, Next, Reading
<1>3. CASE UNCHANGED monitorVars
  BY <1>3 DEF monitorVars
<1> QED BY <1>1, <1>2, <1>3 DEF MonitorNext

LEMMA AnswersIInv ==
  ASSUME MonitorIInv, TypeOK', NEW a \in Answers, PollAnswers(a[1], a[2])
  PROVE  MonitorIInv'
<1>1. PICK z \in Int : z = RawLoss(radio, a[1], a[2])
  <2>1. a[1] \in Int /\ a[2] \in Int /\ radio.fallback \in Int
    BY RadioFacts DEF Power, MonitorIInv, MonitorTypeOK
  <2> QED BY <2>1 DEF RawLoss, EffectiveTx
<1>2. /\ filter' = Update(radio, filter, z) /\ radio' = radio
      /\ least' = Smaller(least, z) /\ most' = Larger(most, z)
      /\ awayRun' \in 0..(Patience + RunCap)
  BY <1>1, RunCapAssumption DEF PollAnswers, MonitorIInv, MonitorTypeOK
<1>3. PICK x \in Int, c \in Nat \ {0} : filter = [x |-> x, p |-> c] /\ least <= x /\ x <= most
  BY DEF MonitorIInv, MonitorTypeOK, AmongLosses
<1>4. /\ radio \in Radios /\ radio.r \in Nat \ {0} /\ least \in Int /\ most \in Int
  BY RadioFacts DEF MonitorIInv, MonitorTypeOK
<1>5. /\ filter' = [x |-> filter'.x, p |-> filter'.p]
      /\ filter'.x \in Int /\ filter'.p \in 1..radio.r
      /\ x <= z => x <= filter'.x /\ filter'.x <= z
      /\ z <= x => z <= filter'.x /\ filter'.x <= x
  BY <1>2, <1>3, <1>4, UpdateFacts
<1>6. AmongLosses'
  BY <1>2, <1>3, <1>4, <1>5 DEF AmongLosses, Smaller, Larger
<1>7. MonitorTypeOK'
  BY <1>2, <1>4, <1>5 DEF MonitorTypeOK, Smaller, Larger
<1> QED BY <1>5, <1>6, <1>7 DEF MonitorIInv

LEMMA MonitorNextIInv ==
  ASSUME MonitorIInv, TypeOK', [MonitorNext]_monitorVars
  PROVE  MonitorIInv'
<1>1. CASE UNCHANGED radioVars
  BY <1>1 DEF radioVars, MonitorIInv, MonitorTypeOK, AmongLosses
<1>2. CASE \E a \in Answers : PollAnswers(a[1], a[2])
  BY <1>2, AnswersIInv
<1> QED BY <1>1, <1>2 DEF MonitorNext, PollFails, monitorVars

------------------------------------------------------------------------------
\* A monitor with a radio is a monitor: whatever the controller answers, the
\* rounds are those of DevicePoll, and its theorems hold.
THEOREM MonitorIsPoll == MonitorSpec => Spec
<1>1. MonitorInit => Init
  BY DEF MonitorInit
<1> QED BY <1>1, MonitorStep, PTL DEF MonitorSpec, Spec

LEMMA MonitorInductive == MonitorSpec => []MonitorIInv
<1>1. MonitorIInv /\ TypeOK' /\ [MonitorNext]_monitorVars => MonitorIInv'
  BY MonitorNextIInv
<1> QED BY <1>1, MonitorInitIInv, MonitorIsPoll, TypeCorrect, PTL DEF MonitorSpec

\* Types of the filter and of the history.
THEOREM MonitorTypeCorrect == MonitorSpec => []MonitorTypeOK
<1>1. MonitorIInv => MonitorTypeOK
  BY DEF MonitorIInv
<1> QED BY <1>1, MonitorInductive, PTL

\* The filter's estimate lies among the losses it was given.
THEOREM FilterInventsNothing == MonitorSpec => []AmongLosses
<1>1. MonitorIInv => AmongLosses
  BY DEF MonitorIInv
<1> QED BY <1>1, MonitorInductive, PTL

------------------------------------------------------------------------------
(* The filter does not go deaf.                                            *)

\* A covariance above c stays above it.  c(c + q + r) <= (c + q)r says so of
\* a filter that does not round; and it is an integer that is rounded to.
LEMMA CovarianceKept ==
  ASSUME NEW s \in Radios, NEW c \in Nat \ {0}, NEW m \in Nat \ {0}, c <= m,
         StaysOpen(s, c), NEW x \in Int, NEW z \in Int
  PROVE  c <= Update(s, [x |-> x, p |-> m], z).p
<1>1. PICK v \in Nat \ {0}, w \in Nat \ {0}, r \in Nat \ {0} :
        v = c + s.q /\ w = m + s.q /\ r = s.r /\ v <= w
  BY RadioFacts
<1>2. PICK a \in Int, b \in Nat \ {0}, e \in Int : a = v * r /\ b = v + r /\ e = c * b
  OBVIOUS
<1>3. e <= a
  BY <1>1, <1>2 DEF StaysOpen
<1>4. c <= Nearest(v * r, v + r)
  BY <1>2, <1>3, NearestBounds
<1>5. Nearest(v * r, v + r) <= Nearest(w * r, w + r)
  BY <1>1, NearestMonotone
<1>6. Nearest(v * r, v + r) \in Int /\ Nearest(w * r, w + r) \in Int
  BY Covariance
<1>7. Update(s, [x |-> x, p |-> m], z).p = Nearest(w * r, w + r)
  BY <1>1 DEF Update
<1> QED BY <1>4, <1>5, <1>6, <1>7

Open(c) == c <= filter.p

\* KalmanFilter::update never hardens: the process noise kalman_q keeps the
\* covariance, and with it the gain, from sinking below a level that kalman_q
\* and kalman_r alone determine, however many losses the filter is given.
THEOREM FilterStaysOpen ==
  ASSUME NEW c \in Nat \ {0}, \A s \in Radios : StaysOpen(s, c)
  PROVE  MonitorSpec => []Open(c)
<1>1. MonitorInit => Open(c)
  BY DEF MonitorInit, NewFilter, StaysOpen, Open
<1>2. MonitorIInv /\ Open(c) /\ [MonitorNext]_monitorVars => Open(c)'
  <2>1. ASSUME Open(c), UNCHANGED radioVars PROVE Open(c)'
    BY <2>1 DEF radioVars, Open
  <2>2. ASSUME MonitorIInv, Open(c), NEW a \in Answers, PollAnswers(a[1], a[2])
        PROVE  Open(c)'
    <3>1. PICK z \in Int : filter' = Update(radio, filter, z)
      <4>1. a[1] \in Int /\ a[2] \in Int /\ radio.fallback \in Int
        BY <2>2, RadioFacts DEF Power, MonitorIInv, MonitorTypeOK
      <4> QED BY <2>2, <4>1 DEF PollAnswers, RawLoss, EffectiveTx
    <3>2. PICK x \in Int, m \in Nat \ {0} : filter = [x |-> x, p |-> m]
      BY <2>2 DEF MonitorIInv, MonitorTypeOK
    <3>3. radio \in Radios /\ c <= m /\ StaysOpen(radio, c)
      BY <2>2, <3>2 DEF MonitorIInv, MonitorTypeOK, Open
    <3> QED BY <3>1, <3>2, <3>3, CovarianceKept DEF Open
  <2> QED BY <2>1, <2>2 DEF MonitorNext, PollFails, monitorVars
<1> QED BY <1>1, <1>2, MonitorInductive, PTL DEF MonitorSpec

------------------------------------------------------------------------------
(* How soon: the ladder that IsLadder speaks of.                           *)

\* Adding a multiple of the divisor adds the multiplier.
LEMMA NearestShift ==
  ASSUME NEW a \in Int, NEW b \in Nat \ {0}, NEW k \in Int, NEW n \in Int, n = k * b
  PROVE  Nearest(a + n, b) = Nearest(a, b) + k
<1>1. PICK m \in Int, t \in Nat \ {0} : m = 2 * a + b /\ t = 2 * b
  OBVIOUS
<1>2. PICK d \in Int : d = m \div t /\ d * t <= m /\ m < (d + 1) * t
  OBVIOUS
<1>3. 2 * (a + n) + b = m + k * t
  BY <1>1
<1>4. PICK e \in Int : e = d + k
  OBVIOUS
<1>5. e * t = d * t + k * t /\ (e + 1) * t = (d + 1) * t + k * t
  BY <1>4
<1>6. PICK g \in Int : g = m + k * t
  OBVIOUS
<1>7. e * t <= g /\ g < (e + 1) * t
  <2>1. PICK kt \in Int : kt = k * t
    OBVIOUS
  <2>2. PICK dt \in Int, du \in Int : dt = d * t /\ du = (d + 1) * t
    OBVIOUS
  <2> QED BY <1>2, <1>5, <1>6, <2>1, <2>2
<1>8. g \div t = e
  <2>1. g \div t \in Int /\ e <= g \div t /\ g \div t <= e
    BY <1>7, Quotient
  <2> QED BY <2>1
<1> QED BY <1>1, <1>2, <1>3, <1>4, <1>6, <1>8 DEF Nearest

LEMMA NearestOrder ==
  ASSUME NEW a \in Int, NEW e \in Int, NEW b \in Nat \ {0}, a <= e
  PROVE  Nearest(a, b) <= Nearest(e, b)
<1>1. PICK m \in Int, g \in Int, t \in Nat \ {0} : m = 2 * a + b /\ g = 2 * e + b /\ t = 2 * b
  OBVIOUS
<1>2. PICK d \in Int : d = m \div t /\ d * t <= m
  OBVIOUS
<1>3. d * t <= g
  <2>1. PICK dt \in Int : dt = d * t
    OBVIOUS
  <2> QED BY <1>1, <1>2, <2>1
<1>4. d <= g \div t
  BY <1>3, Quotient
<1> QED BY <1>1, <1>2, <1>4 DEF Nearest

\* A higher estimate, with more weight on a larger loss, ends up higher.
LEMMA RungOrder ==
  ASSUME NEW v \in Nat \ {0}, NEW w \in Nat \ {0}, NEW r \in Nat \ {0}, v <= w,
         NEW u \in Int, NEW x \in Int, NEW y \in Int, NEW z \in Int,
         u <= x, x <= y, y <= z
  PROVE  u + Nearest(v * (y - u), v + r) <= x + Nearest(w * (z - x), w + r)
<1>1. PICK k \in Nat, d \in Nat, e \in Nat : k = x - u /\ d = y - x /\ e = z - x /\ d <= e
  OBVIOUS
<1>2. Nearest(v * d, v + r) <= Nearest(w * e, w + r)
  BY <1>1, NearestMonotone
<1>3. PICK b \in Nat \ {0}, a \in Int, n \in Int, m \in Int :
        b = v + r /\ a = v * d /\ n = k * b /\ m = v * (y - u)
  OBVIOUS
<1>4. m <= a + n
  <2>1. y - u = d + k
    BY <1>1
  <2>2. m = a + v * k
    BY <1>3, <2>1
  <2>3. n = v * k + r * k /\ r * k >= 0 /\ v * k \in Int /\ r * k \in Int
    BY <1>3
  <2> QED BY <2>2, <2>3
<1>5. Nearest(m, b) <= Nearest(a + n, b) /\ Nearest(a + n, b) = Nearest(a, b) + k
  BY <1>3, <1>4, NearestOrder, NearestShift
<1>6. PICK p1 \in Int, p2 \in Int, p3 \in Int :
        p1 = Nearest(m, b) /\ p2 = Nearest(a, b) /\ p3 = Nearest(w * e, w + r)
  <2>1. \A i \in Int, j \in Nat \ {0} : Nearest(i, j) \in Int
    <3> SUFFICES ASSUME NEW i \in Int, NEW j \in Nat \ {0} PROVE Nearest(i, j) \in Int
      OBVIOUS
    <3>1. 2 * i + j \in Int /\ 2 * j \in Nat \ {0}
      OBVIOUS
    <3> QED BY <3>1, Quotient DEF Nearest
  <2>2. w * e \in Int /\ w + r \in Nat \ {0}
    OBVIOUS
  <2> QED BY <2>1, <2>2
<1>7. p1 <= p2 + k /\ p2 <= p3
  BY <1>2, <1>3, <1>5, <1>6
<1>8. u + p1 <= x + p3
  BY <1>1, <1>7
<1> QED BY <1>1, <1>3, <1>6, <1>8

\* Where the filter is on a ladder of its settings.
OnLadder(c, up) ==
  /\ IsLadder(radio, c, up)
  /\ c <= filter.p
  /\ up[0] <= least
  /\ filter.x >= radio.threshold \/ (awayRun <= Patience /\ filter.x >= up[awayRun])

Climbing == \E c \in Nat \ {0}, up \in [0..Patience -> Int] : OnLadder(c, up)

LEMMA ClimbOn ==
  ASSUME MonitorIInv, NEW c \in Nat \ {0}, NEW up \in [0..Patience -> Int], OnLadder(c, up),
         NEW a \in Answers, PollAnswers(a[1], a[2])
  PROVE  OnLadder(c, up)'
<1>1. PICK z \in Int : z = RawLoss(radio, a[1], a[2]) /\ up[0] <= z
  <2>1. a[1] \in Int /\ a[2] \in Int
    <3>1. a \in Power \X Power
      BY AnswersAssumption
    <3>2. a[1] \in Power /\ a[2] \in Power
      BY <3>1
    <3>3. \A i \in Power : i \in Int
      BY DEF Power
    <3> QED BY <3>2, <3>3
  <2>4. radio \in Radios
    BY DEF MonitorIInv, MonitorTypeOK
  <2>5. radio.fallback \in Int
    BY <2>4, RadioFacts
  <2>2. RawLoss(radio, a[1], a[2]) \in Int
    BY <2>1, <2>5 DEF RawLoss, EffectiveTx
  <2>3. up[0] <= RawLoss(radio, a[1], a[2])
    BY DEF OnLadder, IsLadder, PollAnswers
  <2> QED BY <2>2, <2>3
<1>2. /\ filter' = Update(radio, filter, z) /\ radio' = radio
      /\ least' = Smaller(least, z)
      /\ awayRun' = IF z < Away THEN 0
                    ELSE IF awayRun < Patience + RunCap THEN awayRun + 1 ELSE awayRun
  BY <1>1 DEF PollAnswers
<1>3. PICK x \in Int, m \in Nat \ {0} : filter = [x |-> x, p |-> m] /\ least <= x
  BY DEF MonitorIInv, MonitorTypeOK, AmongLosses
<1>4. /\ radio \in Radios /\ radio.threshold \in Int /\ radio.threshold <= Away
      /\ least \in Int /\ awayRun \in Nat /\ Away \in Int
      /\ radio.q \in Nat \ {0} /\ radio.r \in Nat \ {0}
  BY RadioFacts DEF MonitorIInv, MonitorTypeOK, OnLadder, IsLadder
<1>5. /\ filter'.x \in Int
      /\ x <= z => x <= filter'.x /\ filter'.x <= z
      /\ z <= x => z <= filter'.x /\ filter'.x <= x
  BY <1>2, <1>3, <1>4, UpdateFacts
<1>6. up[0] \in Int /\ up[0] <= least /\ up[0] <= least' /\ up[0] <= filter'.x
  BY <1>1, <1>2, <1>3, <1>4, <1>5 DEF OnLadder, Smaller
<1>7. c <= filter'.p
  <2>1. c <= m /\ StaysOpen(radio, c)
    BY <1>3 DEF OnLadder, IsLadder
  <2> QED BY <1>2, <1>3, <1>4, <2>1, CovarianceKept
<1>8. filter'.x >= radio.threshold \/ (awayRun' <= Patience /\ filter'.x >= up[awayRun'])
  <2>1. CASE z < Away
    BY <1>2, <1>6, <2>1
  <2>2. CASE z >= Away /\ x >= radio.threshold
    <3>1. filter'.x >= radio.threshold
      BY <1>3, <1>4, <1>5, <2>2
    <3> QED BY <3>1
  <2>3. CASE z >= Away /\ x < radio.threshold
    <3>0. awayRun \in 0..Patience /\ x >= up[awayRun]
      BY <1>3, <1>4, <2>3 DEF OnLadder
    <3>1. x >= up[awayRun] /\ up[awayRun] \in Int
      BY <3>0
    <3>2. awayRun \in 0..(Patience - 1)
      <4>1. up[Patience] >= radio.threshold /\ up[Patience] \in Int
        BY DEF OnLadder, IsLadder
      <4> QED BY <1>4, <2>3, <3>0, <4>1
    <3>3. awayRun' = awayRun + 1
      BY <1>2, <1>4, <2>3, <3>2, RunCapAssumption
    <3>4. PICK u \in Int, v \in Nat \ {0}, w \in Nat \ {0}, r \in Nat \ {0} :
            u = up[awayRun] /\ v = c + radio.q /\ w = m + radio.q /\ r = radio.r /\ v <= w
      <4>1. c \in Nat \ {0} /\ c <= m
        BY <1>3 DEF OnLadder
      <4>2. PICK q \in Nat \ {0} : q = radio.q
        BY <1>4
      <4>3. c + q \in Nat \ {0} /\ m + q \in Nat \ {0} /\ c + q <= m + q
        BY <4>1
      <4> QED BY <1>4, <3>1, <4>2, <4>3
    <3>5. PICK k \in Int : k = up[awayRun + 1] /\ (k - u) * (v + r) <= v * (Away - u)
      BY <3>2, <3>4 DEF OnLadder, IsLadder, Reaches
    <3>6. k <= u + Nearest(v * (Away - u), v + r)
      <4>1. PICK d \in Int, n \in Int, b \in Nat \ {0}, e \in Int :
              d = k - u /\ n = v * (Away - u) /\ b = v + r /\ e = d * b
        BY <1>4, <3>5
      <4>2. e <= n
        BY <3>5, <4>1
      <4>3. Nearest(n, b) \in Int /\ d <= Nearest(n, b)
        BY <4>1, <4>2, NearestBounds
      <4>4. k <= u + Nearest(n, b)
        BY <4>1, <4>3
      <4> QED BY <4>1, <4>4
    <3>7. filter'.x = x + Nearest(w * (z - x), w + r)
      BY <1>2, <1>3, <3>4 DEF Update
    <3>8. u + Nearest(v * (Away - u), v + r) <= x + Nearest(w * (z - x), w + r)
      <4>2. u <= x
        BY <3>1, <3>4
      <4>3. x <= Away
        <5>1. PICK h \in Int : h = radio.threshold /\ h <= Away
          BY <1>4
        <5> QED BY <5>1, <2>3, <1>4
      <4>4. Away <= z
        BY <2>3, <1>4
      <4>1. u <= x /\ x <= Away /\ Away <= z
        BY <4>2, <4>3, <4>4
      <4> QED BY <1>4, <3>4, <4>1, RungOrder
    <3>9. PICK t \in Int : t = u + Nearest(v * (Away - u), v + r)
      <4>1. Away - u \in Int
        BY <1>4
      <4>2. Nearest(v * (Away - u), v + r) \in Int
        BY <4>1, Weighted
      <4> QED BY <4>2
    <3>10. filter'.x >= up[awayRun'] /\ awayRun' <= Patience
      <4>1. k = up[awayRun']
        BY <3>3, <3>5
      <4>2. PICK y \in Int : y = filter'.x
        BY <1>5
      <4>3. k <= t
        BY <3>6, <3>9
      <4>4. t <= y
        BY <3>7, <3>8, <3>9, <4>2
      <4>5. y >= k
        BY <4>3, <4>4
      <4>6. awayRun' <= Patience
        BY <3>2, <3>3, AwayFacts
      <4> QED BY <4>1, <4>2, <4>5, <4>6
    <3> QED BY <3>10
  <2> QED BY <1>4, <2>1, <2>2, <2>3
<1>9. IsLadder(radio, c, up)
  BY DEF OnLadder
<1> QED BY <1>2, <1>6, <1>7, <1>8, <1>9 DEF OnLadder

Past == awayRun >= Patience => filter.x >= radio.threshold

\* Past the threshold every loss of a device that is away is a far reading.
Lagging == awayRun >= Patience /\ ph.name = "Near" => farRun > awayRun - Patience

LEMMA NextLagging ==
  ASSUME Past, Past', MonitorIInv, IInv, IInv', Lagging, [MonitorNext]_monitorVars
  PROVE  Lagging'
<1>0. /\ awayRun \in Nat /\ farRun \in Nat /\ farRun <= RunCap /\ Patience \in Nat
      /\ ph.name \in PhaseName
  BY DEF MonitorIInv, MonitorTypeOK, IInv, TypeOK, Phase
<1>1. CASE UNCHANGED monitorVars
  BY <1>1 DEF monitorVars, vars, radioVars, Lagging
<1>2. CASE PollFails
  <2>1. ph' = Disconnected
    BY <1>2 DEF PollFails, Poll, PhaseAfter
  <2> QED BY <2>1 DEF Disconnected, Lagging
<1>3. ASSUME NEW a \in Answers, PollAnswers(a[1], a[2]), awayRun' >= Patience,
             ph'.name = "Near"
      PROVE  farRun' > awayRun' - Patience
  <2>1. filter'.x >= radio.threshold
    BY <1>3 DEF Past, PollAnswers
  <2>2. Poll("far")
    BY <1>3, <2>1 DEF PollAnswers, ReadingOf
  <2>3. ph.name = "Near" /\ farRun' = Longer(farRun)
    BY <1>0, <1>3, <2>2 DEF Poll, PhaseAfter, FromFar, FromDisconnected, MovesBack, Far,
       PhaseName
  <2>4. awayRun' = awayRun + 1 \/ awayRun' = awayRun \/ awayRun' = 0
    BY <1>3 DEF PollAnswers
  <2>5. farRun' < p'.lock /\ p'.lock <= RunCap /\ p'.lock \in Nat /\ farRun' \in Nat
    BY <1>3, ProfileFacts DEF IInv, TypeOK, Safe, CountIsRun
  <2>6. farRun' = farRun + 1
    BY <1>0, <2>3, <2>5, RunCapAssumption DEF Longer
  <2> QED BY <1>0, <1>3, <2>3, <2>4, <2>6 DEF Lagging
<1> QED BY <1>1, <1>2, <1>3 DEF MonitorNext, Lagging

LEMMA LaggingNotices ==
  ASSUME MonitorIInv, IInv, Past, Lagging
  PROVE  Noticed
<1>1. /\ awayRun \in Nat /\ farRun \in Nat /\ Patience \in Nat
      /\ p.lock \in Nat /\ p.lock >= 1
  BY ProfileFacts DEF MonitorIInv, MonitorTypeOK, IInv, TypeOK
<1>2. ph.name = "Near" => farRun < p.lock
  BY DEF IInv, Safe, CountIsRun
<1> QED BY <1>1, <1>2 DEF Noticed, Past, Lagging

\* A device that has gone away is noticed within Patience losses, however low
\* its estimate was, and no longer near lock_count rounds from then on, if the
\* filter of each device has settings that are quick enough: the shipped ones
\* are, as MCDevicePoll has checked.
THEOREM NoticedInTime ==
  ASSUME \A s \in Radios : QuickEnough(s)
  PROVE  MonitorSpec => []Noticed
<1>1. MonitorInit => Climbing
  <2> SUFFICES ASSUME MonitorInit PROVE Climbing
    OBVIOUS
  <2>1. PICK c \in Nat \ {0}, up \in [0..Patience -> Int] : IsLadder(radio, c, up)
    BY DEF MonitorInit, QuickEnough
  <2>2. /\ filter.x = radio.initial /\ filter.p = Grain /\ least = radio.initial
        /\ awayRun = 0 /\ radio \in Radios
    BY DEF MonitorInit, NewFilter
  <2>3. radio.initial \in Int /\ up[0] \in Int /\ up[0] <= radio.initial
    BY <2>1, <2>2, RadioFacts DEF IsLadder
  <2>4. c <= Grain
    BY <2>1 DEF IsLadder, StaysOpen
  <2>5. OnLadder(c, up)
    BY <2>1, <2>2, <2>3, <2>4 DEF OnLadder
  <2> QED BY <2>5 DEF Climbing
<1>2. MonitorIInv /\ Climbing /\ [MonitorNext]_monitorVars => Climbing'
  <2>1. ASSUME Climbing, UNCHANGED radioVars PROVE Climbing'
    BY <2>1 DEF radioVars, Climbing, OnLadder
  <2>2. ASSUME MonitorIInv, Climbing, NEW a \in Answers, PollAnswers(a[1], a[2])
        PROVE  Climbing'
    <3>1. PICK c \in Nat \ {0}, up \in [0..Patience -> Int] : OnLadder(c, up)
      BY <2>2 DEF Climbing
    <3>2. OnLadder(c, up)'
      BY <2>2, <3>1, ClimbOn
    <3> QED BY <3>2 DEF Climbing
  <2> QED BY <2>1, <2>2 DEF MonitorNext, PollFails, monitorVars
<1>3. MonitorIInv /\ Climbing => Past
  <2> SUFFICES ASSUME MonitorIInv, Climbing, awayRun >= Patience
               PROVE  filter.x >= radio.threshold
    BY DEF Past
  <2>1. PICK c \in Nat \ {0}, up \in [0..Patience -> Int] : OnLadder(c, up)
    BY DEF Climbing
  <2>2. /\ awayRun \in Nat /\ filter.x \in Int /\ radio.threshold \in Int
        /\ up[Patience] \in Int
    BY RadioFacts DEF MonitorIInv, MonitorTypeOK
  <2>3. up[Patience] >= radio.threshold
    BY <2>1 DEF OnLadder, IsLadder
  <2>4. filter.x >= radio.threshold \/ filter.x >= up[Patience]
    BY <2>1, <2>2 DEF OnLadder
  <2> QED BY <2>2, <2>3, <2>4
<1>4. Past /\ Past' /\ MonitorIInv /\ IInv /\ IInv' /\ Lagging /\ [MonitorNext]_monitorVars
      => Lagging'
  BY NextLagging
<1>5. MonitorInit => Lagging
  BY PatienceAssumption DEF MonitorInit, Init, Lagging
<1>6. MonitorIInv /\ IInv /\ Past /\ Lagging => Noticed
  BY LaggingNotices
<1> QED BY <1>1, <1>2, <1>3, <1>4, <1>5, <1>6, MonitorInductive, MonitorIsPoll, Inductive,
           PTL DEF MonitorSpec
==============================================================================
