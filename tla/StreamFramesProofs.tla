------------------------- MODULE StreamFramesProofs -------------------------
(***************************************************************************)
(* Proofs about StreamFrames, for any event lists, source rates and number *)
(* of frames.                                                              *)
(***************************************************************************)
EXTENDS StreamFrames, SequenceTheorems, NaturalsInduction,
        WellFoundedInduction, TLAPS

-----------------------------------------------------------------------------
(* Largest and smallest elements *)

\* A non-empty set of naturals has a smallest element.
LEMMA NatHasMin ==
  ASSUME NEW S \in SUBSET Nat, S # {}
  PROVE  \E x \in S : \A y \in S : x <= y
<1>1. IsWellFoundedOn(OpToRel(<, Nat), Nat)
  BY NatLessThanWellFounded
<1>2. PICK x \in S : \A y \in S : ~(<<y, x>> \in OpToRel(<, Nat))
  BY <1>1, WFMin, Zenon
<1>3. \A y \in S : ~(y < x)
  BY <1>2 DEF OpToRel
<1> QED
  BY <1>3

\* Max of a non-empty set of positions is one of them.
LEMMA MaxOfPositions ==
  ASSUME NEW len \in Nat, NEW S \in SUBSET (1..len), S # {}
  PROVE  Max(S) \in S
<1>1. PICK D : D = {len - i : i \in S}
  OBVIOUS
<1>2. D \in SUBSET Nat /\ D # {}
  <2>1. \A i \in S : len - i \in Nat
    OBVIOUS
  <2> QED
    BY <1>1, <2>1
<1>3. PICK d \in D : \A y \in D : d <= y
  BY <1>2, NatHasMin
<1>4. PICK i \in S : d = len - i
  BY <1>1, <1>3
<1>5. \A j \in S : len - i <= len - j
  BY <1>1, <1>3, <1>4
<1>6. \A j \in S : i >= j
  BY <1>5
<1>7. \E x \in S : \A y \in S : x >= y
  BY <1>6
<1> QED
  BY <1>7 DEF Max

\* Max and Min of two numbers.
LEMMA MaxMinOfTwo ==
  ASSUME NEW a \in Int, NEW b \in Int
  PROVE  /\ Max({a, b}) \in {a, b} /\ Max({a, b}) >= a /\ Max({a, b}) >= b
         /\ Min({a, b}) \in {a, b} /\ Min({a, b}) <= a /\ Min({a, b}) <= b
<1>1. \E x \in {a, b} : \A y \in {a, b} : x >= y
  <2>1. CASE a >= b
    BY <2>1
  <2>2. CASE b >= a
    BY <2>2
  <2> QED
    BY <2>1, <2>2
<1>2. \E x \in {a, b} : \A y \in {a, b} : x <= y
  <2>1. CASE a >= b
    BY <2>1
  <2>2. CASE b >= a
    BY <2>2
  <2> QED
    BY <2>1, <2>2
<1>3. Max({a, b}) \in {a, b} /\ \A y \in {a, b} : Max({a, b}) >= y
  BY <1>1 DEF Max
<1>4. Min({a, b}) \in {a, b} /\ \A y \in {a, b} : Min({a, b}) <= y
  BY <1>2 DEF Min
<1> QED
  BY <1>3, <1>4

-----------------------------------------------------------------------------
(* Quotients and remainders *)

\* Division with remainder.
LEMMA DivMod ==
  ASSUME NEW a \in Nat, NEW k \in Nat \ {0}
  PROVE  /\ a \div k \in Nat /\ a % k \in 0..(k - 1)
         /\ a = k * (a \div k) + (a % k)
  OBVIOUS

\* The quotient and the remainder are the only ones.
LEMMA DivUnique ==
  ASSUME NEW a \in Nat, NEW k \in Nat \ {0},
         NEW q \in Nat, NEW r \in 0..(k - 1), a = k * q + r
  PROVE  a \div k = q /\ a % k = r
<1>1. PICK p \in Nat, s \in 0..(k - 1) : p = a \div k /\ s = a % k /\ a = k * p + s
  BY DivMod
<1>2. k * (p - q) = r - s
  BY <1>1
<1>3. p - q >= 1 => k * (p - q) >= k
  BY <1>1
<1>4. p - q <= -1 => k * (p - q) <= -k
  BY <1>1
<1>5. p = q
  BY <1>1, <1>2, <1>3, <1>4
<1> QED
  BY <1>1, <1>2, <1>5

\* How many of the first m frames a select filter with interval k passes on.
Kept(k, m) == (m + k - 1) \div k

\* Frame m makes them one more exactly when k divides it.
LEMMA KeptStep ==
  ASSUME NEW m \in Nat, NEW k \in Nat \ {0}
  PROVE  /\ Kept(k, 0) = 0
         /\ Kept(k, m) \in Nat
         /\ m % k = 0 => Kept(k, m + 1) = Kept(k, m) + 1 /\ Kept(k, m) * k = m
         /\ m % k # 0 => Kept(k, m + 1) = Kept(k, m)
<1>1. PICK q \in Nat, r \in 0..(k - 1) : r = m % k /\ m = k * q + r
  BY DivMod
<1>2. Kept(k, 0) = 0
  <2>1. k - 1 \in Nat /\ k - 1 = k * 0 + (k - 1) /\ k - 1 \in 0..(k - 1) /\ 0 + k - 1 = k - 1
    OBVIOUS
  <2> QED
    BY <2>1, DivUnique DEF Kept
<1>3. Kept(k, m + 1) = q + 1
  <2>1. m + 1 + k - 1 \in Nat /\ m + 1 + k - 1 = k * (q + 1) + r /\ q + 1 \in Nat
    BY <1>1
  <2> QED
    BY <2>1, DivUnique DEF Kept
<1>4. CASE r = 0
  <2>1. m + k - 1 \in Nat /\ m + k - 1 = k * q + (k - 1) /\ k - 1 \in 0..(k - 1)
    BY <1>1, <1>4
  <2>2. Kept(k, m) = q
    BY <2>1, DivUnique DEF Kept
  <2>3. q * k = m
    BY <1>1, <1>4
  <2> QED
    BY <1>1, <1>2, <1>3, <1>4, <2>2, <2>3
<1>5. CASE r # 0
  <2>1. m + k - 1 \in Nat /\ m + k - 1 = k * (q + 1) + (r - 1) /\ r - 1 \in 0..(k - 1) /\ q + 1 \in Nat
    BY <1>1, <1>5
  <2>2. Kept(k, m) = q + 1
    BY <2>1, DivUnique DEF Kept
  <2> QED
    BY <1>1, <1>2, <1>3, <1>5, <2>2
<1> QED
  BY <1>4, <1>5

\* EveryNth grows by frame m when k divides it, and stays otherwise.
LEMMA EveryNthStep ==
  ASSUME NEW m \in Nat, NEW k \in Nat \ {0}
  PROVE  /\ EveryNth(k, 0) = <<>>
         /\ EveryNth(k, m) \in Seq(Nat) /\ Len(EveryNth(k, m)) = Kept(k, m)
         /\ m % k = 0 => EveryNth(k, m + 1) = Append(EveryNth(k, m), m)
         /\ m % k # 0 => EveryNth(k, m + 1) = EveryNth(k, m)
<1>1. \A x : EveryNth(k, x) = [j \in 1..Kept(k, x) |-> (j - 1) * k]
  BY DEF EveryNth, Kept
<1>2. /\ Kept(k, 0) = 0 /\ Kept(k, m) \in Nat
      /\ m % k = 0 => Kept(k, m + 1) = Kept(k, m) + 1 /\ Kept(k, m) * k = m
      /\ m % k # 0 => Kept(k, m + 1) = Kept(k, m)
  BY KeptStep
<1>3. PICK c \in Nat : c = Kept(k, m)
  BY <1>2
<1>4. \A j \in 1..(c + 1) : (j - 1) * k \in Nat
  <2> TAKE j \in 1..(c + 1)
  <2>1. PICK i \in Nat : i = j - 1
    OBVIOUS
  <2>2. i * k \in Nat
    OBVIOUS
  <2> QED
    BY <2>1, <2>2
<1>5. EveryNth(k, 0) = <<>>
  <2>1. EveryNth(k, 0) \in [1..0 -> Nat]
    BY <1>1, <1>2
  <2>2. EveryNth(k, 0) \in Seq(Nat) /\ Len(EveryNth(k, 0)) = 0
    BY <2>1, IsASeq, LenProperties
  <2> QED
    BY <2>2, EmptySeq
<1>6. EveryNth(k, m) \in Seq(Nat) /\ Len(EveryNth(k, m)) = c
  <2>1. EveryNth(k, m) = [j \in 1..c |-> (j - 1) * k]
    BY <1>1, <1>3
  <2>2. \A j \in 1..c : (j - 1) * k \in Nat
    BY <1>3, <1>4
  <2>3. EveryNth(k, m) \in [1..c -> Nat]
    BY <2>1, <2>2
  <2> QED
    BY <1>3, <2>3
<1>7. ASSUME m % k = 0 PROVE EveryNth(k, m + 1) = Append(EveryNth(k, m), m)
  <2>1. Append(EveryNth(k, m), m) \in Seq(Nat)
    BY <1>6
  <2>2. Len(Append(EveryNth(k, m), m)) = c + 1
    BY <1>6, <1>3
  <2>3. EveryNth(k, m + 1) = [j \in 1..(c + 1) |-> (j - 1) * k]
    BY <1>1, <1>2, <1>3, <1>7
  <2>4. EveryNth(k, m + 1) \in [1..(c + 1) -> Nat]
    BY <1>4, <2>3
  <2>5. EveryNth(k, m + 1) \in Seq(Nat) /\ Len(EveryNth(k, m + 1)) = c + 1
    BY <1>3, <2>4
  <2>6. \A j \in 1..(c + 1) : EveryNth(k, m + 1)[j] = Append(EveryNth(k, m), m)[j]
    <3> TAKE j \in 1..(c + 1)
    <3>1. CASE j = c + 1
      <4>1. Append(EveryNth(k, m), m)[j] = m
        BY <1>3, <1>6, <3>1, AppendProperties
      <4>2. EveryNth(k, m + 1)[j] = (j - 1) * k
        BY <2>3
      <4>3. j - 1 = c
        BY <3>1, <1>3
      <4>4. c * k = m
        BY <1>2, <1>3, <1>7
      <4> QED
        BY <4>1, <4>2, <4>3, <4>4
    <3>2. CASE j # c + 1
      <4>1. j \in 1..c
        BY <1>3, <3>2
      <4>2. Append(EveryNth(k, m), m)[j] = EveryNth(k, m)[j]
        BY <1>3, <1>6, <4>1, AppendProperties
      <4>3. EveryNth(k, m)[j] = (j - 1) * k
        BY <1>1, <1>3, <4>1
      <4> QED
        BY <2>3, <4>2, <4>3
    <3> QED
      BY <3>1, <3>2
  <2> QED
    BY <2>1, <2>2, <2>5, <2>6, SeqEqual
<1>8. ASSUME m % k # 0 PROVE EveryNth(k, m + 1) = EveryNth(k, m)
  BY <1>1, <1>2, <1>8
<1> QED
  BY <1>3, <1>5, <1>6, <1>7, <1>8

-----------------------------------------------------------------------------
(* Intervals and rates *)

Event == [name : STRING, target_fps : Int]

\* k is the interval of a target rate t at the source rate s: the quotient
\* rounded down, or 1 when the target is above the source rate.
Divides(s, t, k) == (k = 1 /\ s < t) \/ (t * k <= s /\ s < t * (k + 1))

\* The interval of an event is a positive int, and the rounded quotient of the
\* rates unless that overflows.
LEMMA IntervalFacts ==
  ASSUME NEW e \in Event, NEW s \in Nat \ {0}
  PROVE  /\ Target(e) \in Nat \ {0}
         /\ Intervals(e, s) \subseteq 1..IntMax
         /\ ~Overflows(e, s) => \A k \in Intervals(e, s) : Divides(s, Target(e), k)
<1>1. PICK t \in Nat \ {0} : t = Target(e)
  BY BoundsNat DEF BoundsNat, Event, Target
<1>2. IntMax \in Nat \ {0}
  BY BoundsNat DEF BoundsNat
<1>3. PICK q \in Nat, r \in 0..(t - 1) : q = s \div t /\ s = t * q + r
  BY DivMod
<1>4. PICK k : k = Max({1, q})
  OBVIOUS
<1>5. k \in {1, q} /\ k >= 1 /\ k >= q
  <2>1. 1 \in Int /\ q \in Int
    OBVIOUS
  <2> QED
    BY <1>4, <2>1, MaxMinOfTwo, Zenon
<1>6. k \in Nat \ {0}
  BY <1>5
<1>7. CASE q > IntMax
  <2>1. Overflows(e, s) /\ Intervals(e, s) = {1, IntMax}
    BY <1>1, <1>3, <1>7 DEF Overflows, Intervals
  <2> QED
    BY <1>1, <1>2, <2>1
<1>8. CASE ~(q > IntMax)
  <2>1. Intervals(e, s) = {k}
    BY <1>1, <1>3, <1>4, <1>8 DEF Overflows, Intervals
  <2>2. k \in 1..IntMax
    BY <1>2, <1>5, <1>6, <1>8
  <2>3. Divides(s, t, k)
    <3>1. CASE q = 0
      <4>1. k = 1 /\ s = r
        BY <1>3, <1>5, <3>1
      <4> QED
        BY <4>1 DEF Divides
    <3>2. CASE q # 0
      <4>1. k = q
        BY <1>5, <3>2
      <4>2. t * (q + 1) = t * q + t
        OBVIOUS
      <4>3. t * q <= s /\ s < t * (q + 1)
        BY <1>3, <4>2
      <4> QED
        BY <4>1, <4>3 DEF Divides
    <3> QED
      BY <3>1, <3>2
  <2> QED
    BY <1>1, <2>1, <2>2, <2>3
<1> QED
  BY <1>7, <1>8

\* Multiplying an inequality by a natural number.
LEMMA TimesMonotone ==
  ASSUME NEW a \in Nat, NEW b \in Nat, NEW c \in Nat, a <= b
  PROVE  a * c <= b * c /\ c * a <= c * b
<1>1. PICK d \in Nat : b = a + d
  <2>1. b - a \in Nat /\ b = a + (b - a)
    OBVIOUS
  <2> QED
    BY <2>1
<1>2. b * c = a * c + d * c /\ c * b = c * a + c * d
  BY <1>1
<1>3. d * c \in Nat /\ c * d \in Nat /\ a * c \in Nat /\ c * a \in Nat
  OBVIOUS
<1> QED
  BY <1>2, <1>3

\* The number of frames kept lies between the target rate and twice of it.
LEMMA RateBounds ==
  ASSUME NEW s \in Nat \ {0}, NEW t \in Nat \ {0}, NEW k \in Nat \ {0},
         NEW m \in Nat \ {0}, Divides(s, t, k)
  PROVE  /\ Kept(k, m) * s >= m * Min({t, s})
         /\ (Kept(k, m) - 1) * s <= 2 * t * (m - 1)
<1>1. PICK c \in Nat, r \in 0..(k - 1) : c = Kept(k, m) /\ m + k - 1 = k * c + r
  <2>1. m + k - 1 \in Nat
    OBVIOUS
  <2>2. PICK a \in Nat : a = m + k - 1
    BY <2>1
  <2>3. a \div k \in Nat /\ a % k \in 0..(k - 1) /\ a = k * (a \div k) + (a % k)
    BY DivMod
  <2> QED
    BY <2>2, <2>3 DEF Kept
<1>2. k * c >= m
  BY <1>1
<1>3. c # 0
  <2>1. c = 0 => k * c = 0
    OBVIOUS
  <2> QED
    BY <1>2, <2>1
<1>4. PICK d \in Nat : d = c - 1
  BY <1>3
<1>5. k * d <= m - 1
  <2>1. k * c = k * d + k
    BY <1>4
  <2> QED
    BY <1>1, <2>1
<1>6. PICK u \in Nat : u = m - 1
  OBVIOUS
<1>7. PICK w \in {t, s} : w = Min({t, s}) /\ w <= t /\ w <= s
  <2>1. t \in Int /\ s \in Int
    OBVIOUS
  <2>2. Min({t, s}) \in {t, s} /\ Min({t, s}) <= t /\ Min({t, s}) <= s
    BY <2>1, MaxMinOfTwo, Zenon
  <2> QED
    BY <2>2, Zenon
<1>8. CASE k = 1 /\ s < t
  <2>1. k * c = c /\ k * d = d
    BY <1>8
  <2>2. m <= c /\ d <= u
    BY <1>2, <1>5, <1>6, <2>1
  <2>3. m * w <= c * w /\ c * w <= c * s
    BY <1>7, <2>2, TimesMonotone
  <2>4. d * s <= u * s /\ u * s <= u * t
    BY <1>8, <2>2, TimesMonotone
  <2>5. u * t <= 2 * t * u
    <3>1. u * t \in Nat /\ 2 * t * u = u * t + u * t
      OBVIOUS
    <3> QED
      BY <3>1
  <2>6. m * w \in Nat /\ c * w \in Nat /\ c * s \in Nat /\ d * s \in Nat /\ u * s \in Nat
        /\ u * t \in Nat /\ 2 * t * u \in Nat
    BY <1>7
  <2>7. c * s >= m * w
    BY <2>3, <2>6
  <2>8. d * s <= 2 * t * u
    BY <2>4, <2>5, <2>6
  <2> QED
    BY <1>1, <1>4, <1>6, <1>7, <2>7, <2>8
<1>9. CASE t * k <= s /\ s < t * (k + 1)
  <2>1. m * w <= m * t
    BY <1>7, TimesMonotone
  <2>2. m * t <= (k * c) * t
    BY <1>2, TimesMonotone
  <2>3. (k * c) * t = c * (t * k)
    OBVIOUS
  <2>4. c * (t * k) <= c * s
    BY <1>9, TimesMonotone
  <2>5. m * w \in Nat /\ m * t \in Nat /\ c * (t * k) \in Nat /\ c * s \in Nat
    BY <1>7
  <2>6. c * s >= m * w
    BY <2>1, <2>2, <2>3, <2>4, <2>5
  <2>7. s <= 2 * (t * k)
    <3>1. t * (k + 1) = t * k + t /\ t <= t * k
      <4>1. t * 1 <= t * k
        BY TimesMonotone
      <4> QED
        BY <4>1
    <3> QED
      BY <1>9, <3>1
  <2>8. d * s <= d * (2 * (t * k))
    BY <2>7, TimesMonotone
  <2>9. d * (2 * (t * k)) = (2 * t) * (k * d)
    OBVIOUS
  <2>10. (2 * t) * (k * d) <= (2 * t) * u
    <3>1. 2 * t \in Nat /\ k * d \in Nat /\ k * d <= u
      BY <1>5, <1>6
    <3> QED
      BY <3>1, TimesMonotone
  <2>11. d * s \in Nat /\ (2 * t) * (k * d) \in Nat /\ (2 * t) * u \in Nat /\ 2 * t * u = (2 * t) * u
    OBVIOUS
  <2>12. d * s <= 2 * t * u
    BY <2>8, <2>9, <2>10, <2>11
  <2> QED
    BY <1>1, <1>4, <1>6, <1>7, <2>6, <2>12
<1> QED
  BY <1>8, <1>9 DEF Divides

-----------------------------------------------------------------------------
(* The inductive invariant *)

\* What Setup built for the connection: at least one event, for the rate the
\* container told, an interval of each event's rate, and per name the sink of the last event of that name.
GraphBuilt ==
  Connected =>
    /\ events # <<>>
    /\ source_fps = SourceFps(video_stream.avg_frame_rate, video_stream.r_frame_rate)
    /\ \A i \in DOMAIN events : interval[i] \in Intervals(events[i], source_fps)
    /\ \A name \in Names : sink_contexts[name] = Max(Named(name))

\* The drain has emptied the registered sinks of the events it has passed.
DrainedSoFar ==
  pc = "drain" =>
    \A i \in DOMAIN events :
      i < event /\ i = Max(Named(events[i].name)) => sinks[i] = <<>> \/ pull_failed

IInv ==
  /\ TypeOK
  /\ GraphBuilt
  /\ EachSelectedFrameOnce
  /\ DrainedSoFar
  /\ OnlyShadowedSinksPileUp

\* The events of the thread, and the sink registered for a name.
LEMMA EventFacts ==
  ASSUME events \in EventLists
  PROVE  /\ events \in Seq(Event) /\ Len(events) \in Nat /\ DOMAIN events = 1..Len(events)
         /\ \A i \in DOMAIN events : events[i] \in Event /\ events[i].name \in Names
         /\ \A name \in Names : Max(Named(name)) \in Named(name) /\ Max(Named(name)) \in DOMAIN events
<1>1. events \in Seq(Event)
  BY EventsTyped DEF EventsTyped, Event
<1>2. Len(events) \in Nat /\ DOMAIN events = 1..Len(events)
  BY <1>1, LenProperties
<1>3. \A i \in DOMAIN events : events[i] \in Event /\ events[i].name \in Names
  BY <1>1, <1>2, ElementOfSeq DEF Names
<1>4. ASSUME NEW name \in Names
      PROVE  Max(Named(name)) \in Named(name) /\ Max(Named(name)) \in DOMAIN events
  <2>1. Named(name) \subseteq DOMAIN events /\ Named(name) # {}
    BY DEF Names, Named
  <2>2. Max(Named(name)) \in Named(name)
    BY <1>2, <2>1, MaxOfPositions
  <2> QED
    BY <2>1, <2>2
<1> QED
  BY <1>1, <1>2, <1>3, <1>4

\* The first state.
LEMMA Initially == Init => IInv
<1> SUFFICES ASSUME Init PROVE IInv
  OBVIOUS
<1>1. pc = "setup" /\ n = 0 /\ events \in EventLists
  BY DEF Init
<1>2. ~Connected
  BY <1>1 DEF Connected
<1>3. TypeOK
  BY <1>1, <1>2, BoundsNat DEF TypeOK, BoundsNat
<1> QED
  BY <1>1, <1>2, <1>3 DEF IInv, GraphBuilt, EachSelectedFrameOnce, DrainedSoFar, OnlyShadowedSinksPileUp

\* A new connection: empty sinks, and nothing delivered of it yet.
LEMMA SetupStep ==
  ASSUME IInv, NEW avg \in AvgRates, NEW r \in RealRates, NEW actual \in ActualRates,
         Setup(avg, r, actual)
  PROVE  IInv'
<1>1. /\ pc' = "read" /\ events' = events /\ events # <<>> /\ n' = 0 /\ events \in EventLists
      /\ sinks' = [i \in DOMAIN events |-> <<>>]
      /\ delivered' = [name \in Names |-> <<>>]
      /\ sink_contexts' = [name \in Names |-> Max(Named(name))]
  BY DEF Setup, IInv, TypeOK
<1>2. Names' = Names /\ (\A name : Named(name)' = Named(name))
  BY <1>1 DEF Names, Named
<1>3. /\ source_fps' \in Nat \ {0}
      /\ video_stream' \in
           [avg_frame_rate : AvgRates, r_frame_rate : RealRates, actual : ActualRates]
      /\ source_fps' = SourceFps(video_stream'.avg_frame_rate, video_stream'.r_frame_rate)
  BY RatesInt, BoundsNat DEF RatesInt, BoundsNat, Setup, SourceFps
<1>4. \A i \in DOMAIN events : interval'[i] \in Intervals(events[i], source_fps')
  BY DEF Setup
<1>5. interval' \in [DOMAIN events -> 1..IntMax]
  <2>1. DOMAIN interval' = DOMAIN events /\ interval' = [i \in DOMAIN events |-> interval'[i]]
    BY DEF Setup
  <2>2. \A i \in DOMAIN events : interval'[i] \in 1..IntMax
    BY <1>1, <1>3, <1>4, EventFacts, IntervalFacts
  <2> QED
    BY <2>1, <2>2
<1>6. sinks' \in [DOMAIN events -> Seq(Nat)] /\ delivered' \in [Names -> Seq(Nat)]
  <2>1. <<>> \in Seq(Nat)
    BY EmptySeq
  <2> QED
    BY <1>1, <2>1
<1>7. sink_contexts' \in [Names -> DOMAIN events]
  BY <1>1, EventFacts
<1>8. TypeOK'
  <2>1. n' \in 0..MaxFrames
    BY <1>1, BoundsNat DEF BoundsNat
  <2> QED
    BY <1>1, <1>2, <1>3, <1>5, <1>6, <1>7, <2>1 DEF TypeOK
<1>9. GraphBuilt'
  BY <1>1, <1>2, <1>3, <1>4, Zenon DEF GraphBuilt, Intervals, SourceFps
<1>10. EachSelectedFrameOnce'
  <2> SUFFICES ASSUME NEW name \in Names
               PROVE  delivered'[name] \o sinks'[Max(Named(name))]
                        = EveryNth(interval'[Max(Named(name))], n')
    BY <1>2 DEF EachSelectedFrameOnce, EveryNth
  <2>1. PICK i \in DOMAIN events : i = Max(Named(name))
    BY <1>1, EventFacts
  <2>2. delivered'[name] = <<>> /\ sinks'[i] = <<>>
    BY <1>1
  <2>3. <<>> \o <<>> = <<>>
    BY EmptySeq, ConcatEmptySeq
  <2>4. interval'[i] \in Nat \ {0}
    BY <1>5, BoundsNat DEF BoundsNat
  <2>5. EveryNth(interval'[i], 0) = <<>>
    BY <2>4, EveryNthStep
  <2> QED
    BY <1>1, <2>1, <2>2, <2>3, <2>5
<1>11. DrainedSoFar' /\ OnlyShadowedSinksPileUp'
  BY <1>1 DEF DrainedSoFar, OnlyShadowedSinksPileUp
<1> QED
  BY <1>8, <1>9, <1>10, <1>11 DEF IInv

\* The thread returns, the loop ends, or the graph is freed.
LEMMA OtherSteps ==
  ASSUME IInv, SetupFails \/ ReadEnds \/ Flush \/ UNCHANGED vars
  PROVE  IInv'
<1>1. CASE UNCHANGED vars
  <2>1. /\ events' = events /\ pc' = pc /\ source_fps' = source_fps /\ interval' = interval
        /\ video_stream' = video_stream
        /\ sink_contexts' = sink_contexts /\ n' = n /\ sinks' = sinks /\ event' = event
        /\ delivered' = delivered /\ pull_failed' = pull_failed
    BY <1>1 DEF vars, graphVars
  <2>2. Names' = Names /\ (\A name : Named(name)' = Named(name)) /\ Connected' = Connected
    BY <2>1 DEF Names, Named, Connected
  <2>3. TypeOK' /\ GraphBuilt'
    BY <2>1, <2>2 DEF IInv, TypeOK, GraphBuilt, Intervals, Overflows, Target
  <2>4. EachSelectedFrameOnce'
    BY <2>1, <2>2 DEF IInv, EachSelectedFrameOnce
  <2>5. DrainedSoFar' /\ OnlyShadowedSinksPileUp'
    BY <2>1, <2>2 DEF IInv, DrainedSoFar, OnlyShadowedSinksPileUp
  <2> QED
    BY <2>3, <2>4, <2>5 DEF IInv
<1>2. CASE SetupFails \/ Flush
  <2>1. pc' \in {"setup", "returned"} /\ events' = events /\ n' = n
    BY <1>2 DEF SetupFails, Flush
  <2>2. ~Connected'
    BY <2>1 DEF Connected
  <2>3. TypeOK'
    BY <2>1, <2>2 DEF IInv, TypeOK
  <2> QED
    BY <2>1, <2>2, <2>3 DEF IInv, GraphBuilt, EachSelectedFrameOnce, DrainedSoFar, OnlyShadowedSinksPileUp
<1>3. CASE ReadEnds
  <2>1. /\ events' = events /\ pc = "read" /\ pc' = "flush" /\ source_fps' = source_fps
        /\ video_stream' = video_stream
        /\ interval' = interval /\ sink_contexts' = sink_contexts /\ n' = n /\ sinks' = sinks
        /\ delivered' = delivered
    BY <1>3 DEF ReadEnds, graphVars
  <2>2. Names' = Names /\ (\A name : Named(name)' = Named(name)) /\ Connected
    BY <2>1 DEF Names, Named, Connected
  <2>3. TypeOK' /\ GraphBuilt'
    BY <2>1, <2>2 DEF IInv, TypeOK, GraphBuilt, Intervals, Overflows, Target
  <2>4. EachSelectedFrameOnce'
    BY <2>1, <2>2 DEF IInv, EachSelectedFrameOnce
  <2> QED
    BY <2>1, <2>3, <2>4 DEF IInv, DrainedSoFar, OnlyShadowedSinksPileUp
<1> QED
  BY <1>1, <1>2, <1>3

\* A frame more in the graph is a frame more in the sinks whose interval
\* divides its number.
LEMMA PushFrameStep ==
  ASSUME IInv, PushFrame
  PROVE  IInv'
<1>1. /\ events' = events /\ pc = "read" /\ pc' = "drain" /\ source_fps' = source_fps
      /\ video_stream' = video_stream
      /\ interval' = interval /\ sink_contexts' = sink_contexts /\ n' = n + 1
      /\ delivered' = delivered /\ event' = 1 /\ n < MaxFrames
      /\ sinks' = [i \in DOMAIN sinks |->
                     IF n % interval[i] = 0 THEN Append(sinks[i], n) ELSE sinks[i]]
  BY DEF PushFrame, graphVars
<1>2. Names' = Names /\ (\A name : Named(name)' = Named(name)) /\ Connected
  BY <1>1 DEF Names, Named, Connected
<1>3. /\ events \in EventLists /\ n \in Nat /\ MaxFrames \in Nat /\ IntMax \in Nat
      /\ interval \in [DOMAIN events -> 1..IntMax]
      /\ sinks \in [DOMAIN events -> Seq(Nat)] /\ delivered \in [Names -> Seq(Nat)]
  BY <1>2, BoundsNat DEF IInv, TypeOK, BoundsNat
<1>4. events # <<>> /\ EachSelectedFrameOnce
  BY <1>2 DEF IInv, GraphBuilt
<1>5. 1 \in DOMAIN events
  BY <1>3, <1>4, EventFacts, EmptySeq
<1>6. sinks' \in [DOMAIN events -> Seq(Nat)]
  <2>1. \A i \in DOMAIN events : Append(sinks[i], n) \in Seq(Nat) /\ sinks[i] \in Seq(Nat)
    BY <1>3, AppendProperties
  <2> QED
    BY <1>1, <1>3, <2>1
<1>7. TypeOK'
  <2>1. n' \in 0..MaxFrames
    BY <1>1, <1>3
  <2> QED
    BY <1>1, <1>2, <1>5, <1>6, <2>1 DEF IInv, TypeOK
<1>8. GraphBuilt'
  BY <1>1, <1>2 DEF IInv, GraphBuilt, Intervals, Overflows, Target
<1>9. EachSelectedFrameOnce'
  <2> SUFFICES ASSUME NEW name \in Names
               PROVE  delivered[name] \o sinks'[Max(Named(name))]
                        = EveryNth(interval[Max(Named(name))], n + 1)
    BY <1>1, <1>2 DEF EachSelectedFrameOnce
  <2>1. PICK i \in DOMAIN events : i = Max(Named(name))
    BY <1>3, EventFacts
  <2>2. delivered[name] \o sinks[i] = EveryNth(interval[i], n)
    BY <1>2, <1>4, <2>1 DEF EachSelectedFrameOnce
  <2>3. PICK k \in Nat \ {0} : k = interval[i]
    BY <1>3
  <2>4. PICK d \in Seq(Nat), q \in Seq(Nat) : d = delivered[name] /\ q = sinks[i]
    BY <1>3
  <2>5. sinks'[i] = IF n % k = 0 THEN Append(q, n) ELSE q
    BY <1>1, <1>3, <2>3, <2>4
  <2>6. /\ n % k = 0 => EveryNth(k, n + 1) = Append(EveryNth(k, n), n)
        /\ n % k # 0 => EveryNth(k, n + 1) = EveryNth(k, n)
    BY <1>3, EveryNthStep
  <2>7. d \o Append(q, n) = Append(d \o q, n)
    <3>1. Append(q, n) = q \o <<n>> /\ <<n>> \in Seq(Nat) /\ d \o q \in Seq(Nat)
      BY <1>3, AppendIsConcat, ConcatProperties
    <3>2. Append(d \o q, n) = (d \o q) \o <<n>>
      BY <1>3, <3>1, AppendIsConcat
    <3> QED
      BY <3>1, <3>2, ConcatAssociative
  <2> QED
    BY <2>1, <2>2, <2>3, <2>4, <2>5, <2>6, <2>7
<1>10. DrainedSoFar' /\ OnlyShadowedSinksPileUp'
  <2>1. \A i \in DOMAIN events : ~(i < 1)
    BY <1>3, EventFacts
  <2> QED
    BY <1>1, <2>1 DEF DrainedSoFar, OnlyShadowedSinksPileUp
<1> QED
  BY <1>7, <1>8, <1>9, <1>10 DEF IInv

\* Cutting a sequence in two.
LEMMA Cut ==
  ASSUME NEW q \in Seq(Nat), NEW m \in Nat, m <= Len(q)
  PROVE  /\ SubSeq(q, 1, m) \in Seq(Nat) /\ SubSeq(q, m + 1, Len(q)) \in Seq(Nat)
         /\ SubSeq(q, 1, m) \o SubSeq(q, m + 1, Len(q)) = q
         /\ ~(m < Len(q)) => SubSeq(q, m + 1, Len(q)) = <<>>
         /\ q = <<>> => SubSeq(q, m + 1, Len(q)) = <<>>
<1>1. Len(q) \in Nat /\ DOMAIN q = 1..Len(q) /\ \A i \in 1..Len(q) : q[i] \in Nat
  BY LenProperties, ElementOfSeq
<1>2. SubSeq(q, 1, m) \in Seq(Nat) /\ SubSeq(q, m + 1, Len(q)) \in Seq(Nat)
  BY <1>1, SubSeqProperties
<1>3. SubSeq(q, 1, m) \o SubSeq(q, m + 1, Len(q)) = q
  <2>1. 1 \in 1..(Len(q) + 1) /\ m \in (1 - 1)..Len(q) /\ Len(q) \in m..Len(q)
    BY <1>1
  <2>2. SubSeq(q, 1, m) \o SubSeq(q, m + 1, Len(q)) = SubSeq(q, 1, Len(q))
    BY <2>1, ConcatAdjacentSubSeq
  <2> QED
    BY <2>2, SubSeqFull
<1>4. ~(m < Len(q)) => SubSeq(q, m + 1, Len(q)) = <<>>
  <2>1. ~(m < Len(q)) => Len(q) < m + 1
    BY <1>1
  <2> QED
    BY <1>1, <2>1, SubSeqEmpty
<1>5. q = <<>> => ~(m < Len(q))
  BY <1>1, EmptySeq
<1> QED
  BY <1>2, <1>3, <1>4, <1>5

\* The drain of one event moves frames from the sink registered for its name to
\* the queue.
LEMMA DrainStep ==
  ASSUME IInv, NEW m \in 0..MaxFrames, Drain(m)
  PROVE  IInv'
<1>1. /\ pc = "drain" /\ events' = events /\ source_fps' = source_fps /\ interval' = interval
      /\ video_stream' = video_stream
      /\ sink_contexts' = sink_contexts /\ n' = n /\ event' = event + 1
      /\ pc' = IF event = Len(events) THEN "read" ELSE "drain"
  BY DEF Drain, NextEvent, graphVars
<1>2. Names' = Names /\ (\A x : Named(x)' = Named(x)) /\ Connected /\ Connected'
  BY <1>1 DEF Names, Named, Connected
<1>3. /\ events \in EventLists /\ n \in Nat /\ m \in Nat /\ event \in DOMAIN events
      /\ sinks \in [DOMAIN events -> Seq(Nat)] /\ delivered \in [Names -> Seq(Nat)]
  BY <1>1, <1>2, BoundsNat DEF IInv, TypeOK, BoundsNat
<1>4. Len(events) \in Nat /\ DOMAIN events = 1..Len(events)
  BY <1>3, EventFacts
<1>5. PICK name \in Names : name = events[event].name
  BY <1>3, EventFacts
<1>6. PICK k \in DOMAIN events : k = sink_contexts[name] /\ k = Max(Named(name)) /\ events[k].name = name
  <2>1. sink_contexts[name] = Max(Named(name))
    BY <1>2 DEF IInv, GraphBuilt
  <2>2. Max(Named(name)) \in Named(name) /\ Max(Named(name)) \in DOMAIN events
    BY <1>3, EventFacts
  <2> QED
    BY <2>1, <2>2 DEF Named
<1>7. PICK q \in Seq(Nat), d \in Seq(Nat) : q = sinks[k] /\ d = delivered[name]
  BY <1>3
<1>8. /\ m <= Len(q)
      /\ delivered' = [delivered EXCEPT ![name] = d \o SubSeq(q, 1, m)]
      /\ sinks' = [sinks EXCEPT ![k] = SubSeq(q, m + 1, Len(q))]
      /\ pull_failed' = (pull_failed \/ m < Len(q))
  BY <1>5, <1>6, <1>7 DEF Drain
<1>9. PICK head \in Seq(Nat), rest \in Seq(Nat) :
        /\ head = SubSeq(q, 1, m) /\ rest = SubSeq(q, m + 1, Len(q)) /\ head \o rest = q
        /\ (~(m < Len(q)) => rest = <<>>) /\ (q = <<>> => rest = <<>>)
  BY <1>3, <1>8, Cut
<1>10. /\ sinks' \in [DOMAIN events -> Seq(Nat)] /\ delivered' \in [Names -> Seq(Nat)]
       /\ sinks'[k] = rest /\ \A i \in DOMAIN events : i # k => sinks'[i] = sinks[i]
       /\ delivered'[name] = d \o head /\ \A x \in Names : x # name => delivered'[x] = delivered[x]
  <2>1. d \o head \in Seq(Nat)
    BY ConcatProperties
  <2> QED
    BY <1>3, <1>8, <1>9, <2>1
<1>11. TypeOK'
  <2>1. pc' = "drain" => event' \in DOMAIN events
    BY <1>1, <1>3, <1>4
  <2> QED
    BY <1>1, <1>2, <1>10, <2>1 DEF IInv, TypeOK
<1>12. GraphBuilt'
  BY <1>1, <1>2 DEF IInv, GraphBuilt, Intervals, Overflows, Target
<1>13. EachSelectedFrameOnce'
  <2> SUFFICES ASSUME NEW x \in Names
               PROVE  delivered'[x] \o sinks'[Max(Named(x))]
                        = EveryNth(interval[Max(Named(x))], n)
    BY <1>1, <1>2 DEF EachSelectedFrameOnce
  <2>1. PICK i \in DOMAIN events : i = Max(Named(x)) /\ events[i].name = x
    BY <1>3, EventFacts DEF Named
  <2>2. delivered[x] \o sinks[i] = EveryNth(interval[i], n)
    BY <1>2, <2>1 DEF IInv, EachSelectedFrameOnce
  <2>3. CASE x = name
    <3>1. i = k
      BY <1>6, <2>1, <2>3
    <3>2. d \o q = EveryNth(interval[i], n)
      BY <1>7, <2>2, <2>3, <3>1
    <3>3. (d \o head) \o rest = d \o (head \o rest)
      BY ConcatAssociative
    <3> QED
      BY <1>9, <1>10, <2>1, <2>3, <3>1, <3>2, <3>3
  <2>4. CASE x # name
    <3>1. i # k
      BY <1>6, <2>1, <2>4
    <3> QED
      BY <1>10, <2>1, <2>2, <2>4, <3>1
  <2> QED
    BY <2>3, <2>4
<1>14. ASSUME NEW i \in DOMAIN events, i < event + 1, i = Max(Named(events[i].name))
       PROVE  sinks'[i] = <<>> \/ pull_failed'
  <2>1. CASE i = k
    <3>1. rest = <<>> \/ pull_failed'
      BY <1>8, <1>9
    <3> QED
      BY <1>10, <2>1, <3>1
  <2>2. CASE i # k
    <3>1. i # event
      BY <1>5, <1>6, <1>14, <2>2
    <3>2. i < event
      <4>1. i \in Nat /\ event \in Nat /\ i < event + 1
        BY <1>3, <1>4, <1>14
      <4> QED
        BY <3>1, <4>1
    <3>3. sinks[i] = <<>> \/ pull_failed
      BY <1>1, <1>14, <3>2 DEF IInv, DrainedSoFar
    <3> QED
      BY <1>8, <1>10, <2>2, <3>3
  <2> QED
    BY <2>1, <2>2
<1>15. DrainedSoFar'
  BY <1>1, <1>2, <1>14 DEF DrainedSoFar
<1>16. OnlyShadowedSinksPileUp'
  <2> SUFFICES ASSUME pc' = "read", NEW i \in DOMAIN events, sinks'[i] # <<>>
               PROVE  pull_failed' \/ i # Max(Named(events[i].name))
    BY <1>1, <1>2, <1>10 DEF OnlyShadowedSinksPileUp
  <2>1. i < event + 1
    BY <1>1, <1>4
  <2> QED
    BY <1>14, <2>1
<1> QED
  BY <1>11, <1>12, <1>13, <1>15, <1>16 DEF IInv

\* Every step preserves the inductive invariant.
LEMMA Inductive == IInv /\ [Next]_vars => IInv'
<1> SUFFICES ASSUME IInv, [Next]_vars PROVE IInv'
  OBVIOUS
<1>1. CASE \E avg \in AvgRates, r \in RealRates, actual \in ActualRates : Setup(avg, r, actual)
  BY <1>1, SetupStep
<1>2. CASE PushFrame
  BY <1>2, PushFrameStep
<1>3. CASE \E m \in 0..MaxFrames : Drain(m)
  BY <1>3, DrainStep
<1>4. CASE SetupFails \/ ReadEnds \/ Flush \/ UNCHANGED vars
  BY <1>4, OtherSteps
<1> QED
  BY <1>1, <1>2, <1>3, <1>4 DEF Next, run_stream, Returned

\* The inductive invariant holds throughout.
LEMMA Invariant == Spec => []IInv
<1>1. Init => IInv
  BY Initially
<1>2. IInv /\ [Next]_vars => IInv'
  BY Inductive
<1> QED
  BY <1>1, <1>2, PTL DEF Spec

-----------------------------------------------------------------------------
(* While a connection lasts every event has a sink, a registered one for    *)
(* its name, and an interval from 1 to IntMax, so that its select filter    *)
(* never divides by zero: for any event lists and source rates.             *)
THEOREM TypeCorrect == Spec => []TypeOK
<1>1. IInv => TypeOK
  BY DEF IInv
<1> QED
  BY <1>1, Invariant, PTL

(* Under every event name decoded_frame_queue_ gets exactly the frames its  *)
(* select filter chose, in order and once each; what a failed pull leaves   *)
(* behind is still in the sink.                                             *)
THEOREM SelectedOnce == Spec => []EachSelectedFrameOnce
<1>1. IInv => EachSelectedFrameOnce
  BY DEF IInv
<1> QED
  BY <1>1, Invariant, PTL

(* Between two reads frames wait only in the sinks of shadowed events or    *)
(* behind a pull that has just failed.                                      *)
THEOREM NothingElseWaits == Spec => []OnlyShadowedSinksPileUp
<1>1. IInv => OnlyShadowedSinksPileUp
  BY DEF IInv
<1> QED
  BY <1>1, Invariant, PTL

\* An interval for a target above half the source rate is 1.
LEMMA IntervalOne ==
  ASSUME NEW s \in Nat \ {0}, NEW t \in Nat \ {0}, NEW k \in Nat \ {0},
         Divides(s, t, k), 2 * t > s
  PROVE  k = 1
<1> SUFFICES ASSUME 2 <= k PROVE FALSE
  OBVIOUS
<1>1. t * 2 <= t * k /\ t * 2 = 2 * t /\ t * k \in Nat
  BY TimesMonotone
<1>2. t * k <= s
  BY DEF Divides
<1> QED
  BY <1>1, <1>2

\* The rate follows: the frames delivered are every interval-th one.
LEMMA RateFollows == IInv => RateKeptOnlyIfKnown
<1> SUFFICES ASSUME IInv, pc = "read", ~pull_failed, n > 0,
                    NEW i \in DOMAIN events,
                    Named(events[i].name) = {i}, ~Overflows(events[i], source_fps)
             PROVE  /\ source_fps = video_stream.actual =>
                         /\ Len(delivered[events[i].name]) * video_stream.actual
                              >= n * Min({Target(events[i]), video_stream.actual})
                         /\ (Len(delivered[events[i].name]) - 1) * video_stream.actual
                              <= 2 * Target(events[i]) * (n - 1)
                    /\ RateUnknown /\ 2 * Target(events[i]) > Fps =>
                         Len(delivered[events[i].name]) = n
  BY DEF RateKeptOnlyIfKnown
<1>1. Connected
  BY DEF Connected
<1>2. /\ events \in EventLists /\ n \in Nat \ {0} /\ source_fps \in Nat \ {0}
      /\ interval \in [DOMAIN events -> 1..IntMax] /\ IntMax \in Nat
      /\ sinks \in [DOMAIN events -> Seq(Nat)] /\ delivered \in [Names -> Seq(Nat)]
  BY <1>1, BoundsNat DEF IInv, TypeOK, BoundsNat
<1>3. events[i] \in Event /\ events[i].name \in Names
  BY <1>2, EventFacts
<1>4. Max(Named(events[i].name)) = i
  BY <1>2, <1>3, EventFacts
<1>5. sinks[i] = <<>>
  BY <1>2, <1>4 DEF IInv, OnlyShadowedSinksPileUp
<1>6. PICK k \in Nat \ {0} : k = interval[i]
  BY <1>2
<1>7. delivered[events[i].name] \o <<>> = EveryNth(k, n)
  BY <1>1, <1>3, <1>4, <1>5, <1>6 DEF IInv, EachSelectedFrameOnce
<1>8. delivered[events[i].name] = EveryNth(k, n)
  BY <1>2, <1>3, <1>7, ConcatEmptySeq
<1>9. Len(delivered[events[i].name]) = Kept(k, n)
  BY <1>2, <1>8, EveryNthStep
<1>10. k \in Intervals(events[i], source_fps)
  BY <1>1, <1>6 DEF IInv, GraphBuilt
<1>11. PICK t \in Nat \ {0} : t = Target(events[i]) /\ Divides(source_fps, t, k)
  BY <1>2, <1>3, <1>10, IntervalFacts
<1>12. /\ Kept(k, n) * source_fps >= n * Min({t, source_fps})
       /\ (Kept(k, n) - 1) * source_fps <= 2 * t * (n - 1)
  BY <1>2, <1>11, RateBounds
<1>13. ASSUME RateUnknown, 2 * t > Fps PROVE Kept(k, n) = n
  <2>1. source_fps = Fps
    <3>1. /\ source_fps = SourceFps(video_stream.avg_frame_rate, video_stream.r_frame_rate)
          /\ video_stream.avg_frame_rate \in Int /\ video_stream.r_frame_rate \in Int
      BY <1>1, RatesInt DEF IInv, TypeOK, GraphBuilt, RatesInt
    <3> QED
      BY <1>13, <3>1 DEF RateUnknown, SourceFps
  <2>2. k = 1
    BY <1>2, <1>11, <1>13, <2>1, IntervalOne
  <2> QED
    BY <1>2, <2>2 DEF Kept
<1> QED
  BY <1>9, <1>11, <1>12, <1>13

(* setup_multi_output_filter_graph gives an event at least its target rate  *)
(* (or every frame) and less than twice of it plus one frame, measured by   *)
(* the frames the source really delivers, if the container tells their      *)
(* rate and the quotient is an int; if it tells none, an event with a       *)
(* target above half a frame per second gets every frame.                   *)
THEOREM RateKept == Spec => []RateKeptOnlyIfKnown
<1>1. IInv => RateKeptOnlyIfKnown
  BY RateFollows
<1> QED
  BY <1>1, Invariant, PTL
=============================================================================
