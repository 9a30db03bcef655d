-------------------------- MODULE UserTimesProofs --------------------------
(***************************************************************************)
(* What UserTimes shows for every choice of its units, for a second of     *)
(* 10^9 nanoseconds and an int32 of 2^32 values among them.                *)
(***************************************************************************)
EXTENDS UserTimes, TLAPS

\* `created' is a whole number of seconds; the row, the last answer of the
\* user manager and that of the gateway are functions of it.
WholeSeconds == \A u \in Users : created[u] # None =>
    \E k \in Nat : created[u] = k * MicrosPerSecond

RowsFollow == \A u \in Users :
    /\ created[u] = None <=> table[u] = None
    /\ created[u] # None => table[u] = Image(created[u])

AnswersFollow == \A u \in Users :
    /\ wire[u] # None => created[u] # None /\ wire[u] = ToTimestamp(created[u])
    /\ shown[u] # None => created[u] # None /\ shown[u] = FromTimestamp(ToTimestamp(created[u]))

TimesIInv == TimesTypeOK /\ WholeSeconds /\ RowsFollow /\ AnswersFollow

-----------------------------------------------------------------------------
(***************************************************************************)
(* Arithmetic.                                                             *)
(***************************************************************************)

\* What \div and % are.
LEMMA Division ==
    ASSUME NEW n \in Nat, NEW d \in Nat \ {0}
    PROVE  /\ n \div d \in Nat
           /\ n % d \in 0 .. d - 1
           /\ n = d * (n \div d) + (n % d)
    BY Z3

\* The product of a nonzero factor is at least the other factor.
LEMMA Monotone ==
    ASSUME NEW a \in Int, NEW b \in Int, NEW d \in Nat \ {0}, a > b
    PROVE  a * d >= b * d + d
<1>1. (a - b - 1) * d >= 0
    BY Z3
<1>2. (a - b - 1) * d = a * d - b * d - d
    BY Z3
<1> QED
    BY <1>1, <1>2, Z3

\* A multiple of d divided by d.
LEMMA Multiple ==
    ASSUME NEW q \in Nat, NEW d \in Nat \ {0}
    PROVE  (q * d) \div d = q
<1> DEFINE k == (q * d) \div d
           r == (q * d) % d
<1>1. q * d \in Nat
    BY Z3
<1>2. k \in Nat /\ r \in 0 .. d - 1 /\ q * d = d * k + r
    BY <1>1, Division
<1>3. d * k = k * d
    BY <1>2, Z3
<1> HIDE DEF k, r
<1>4. ~(q > k)
    BY <1>2, <1>3, Monotone, Z3
<1>5. ~(k > q)
    BY <1>2, <1>3, Monotone, Z3
<1>6. k = q
    BY <1>2, <1>4, <1>5, Z3
<1> QED
    BY <1>6 DEF k

\* The microseconds of a second.
LEMMA SecondIsPositive == MicrosPerSecond \in Nat \ {0}
    BY UnitsAssumption, Z3 DEF MicrosPerSecond

\* An int32 has the range of an int32.
LEMMA Int32Range ==
    ASSUME NEW n \in Nat
    PROVE  Int32(n) \in -HalfModulus .. HalfModulus - 1
<1>1. 2 * HalfModulus \in Nat \ {0} /\ HalfModulus \in Nat
    BY UnitsAssumption
<1>2. n % (2 * HalfModulus) \in 0 .. 2 * HalfModulus - 1
    BY <1>1, Division
<1> QED
    BY <1>1, <1>2 DEF Int32

\* A quotient that is rounded towards zero, multiplied back, does not pass n.
LEMMA QuotientBound ==
    ASSUME NEW n \in Int, NEW d \in Nat \ {0}
    PROVE  /\ Quotient(n, d) \in Int
           /\ n >= 0 => Quotient(n, d) * d \in 0 .. n
           /\ n < 0 => -(Quotient(n, d) * d) \in 0 .. -n
<1>1. CASE n >= 0
    <2>1. n \in Nat
        BY <1>1
    <2>2. n \div d \in Nat /\ n = d * (n \div d) + (n % d) /\ n % d \in 0 .. d - 1
        BY <2>1, Division
    <2> DEFINE k == n \div d
    <2>3. k * d = d * k /\ k * d >= 0
        BY <2>2, Z3
    <2>4. k * d \in 0 .. n
        BY <2>1, <2>2, <2>3
    <2> QED
        BY <1>1, <2>2, <2>4 DEF Quotient
<1>2. CASE n < 0
    <2>1. -n \in Nat
        BY <1>2
    <2> DEFINE m == -n
               k == m \div d
    <2>2. k \in Nat /\ m = d * k + (m % d) /\ m % d \in 0 .. d - 1
        BY <2>1, Division
    <2>3. Quotient(n, d) = -k
        BY <1>2 DEF Quotient
    <2> HIDE DEF k, m
    <2>4. k * d = d * k /\ k * d >= 0 /\ -((-k) * d) = k * d
        BY <2>2, Z3
    <2>5. k * d \in 0 .. m
        BY <2>1, <2>2, <2>4
    <2> QED
        BY <1>2, <2>2, <2>3, <2>4, <2>5 DEF m
<1> QED
    BY <1>1, <1>2

-----------------------------------------------------------------------------
(***************************************************************************)
(* The conversions.                                                        *)
(***************************************************************************)

\* second_clock gives a whole number of seconds.
LEMMA ClockIsWhole ==
    ASSUME NEW t \in Ptime
    PROVE  SecondClock(t) \in Ptime /\ \E k \in Nat : SecondClock(t) = k * MicrosPerSecond
<1>1. t \div MicrosPerSecond \in Nat
    BY SecondIsPositive, Division DEF Ptime
<1>2. (t \div MicrosPerSecond) * MicrosPerSecond \in Nat
    BY <1>1, SecondIsPositive, Z3
<1> QED
    BY <1>1, <1>2 DEF SecondClock, Ptime

\* The image of a whole number of seconds gives it back.
LEMMA RoundTrip ==
    ASSUME NEW k \in Nat
    PROVE  /\ Image(k * MicrosPerSecond) \in Nat
           /\ FromImage(Image(k * MicrosPerSecond)) = k * MicrosPerSecond
<1>1. MicrosPerMilli \in Nat \ {0} /\ MillisPerSecond \in Nat \ {0}
    BY UnitsAssumption
<1>2. k * MillisPerSecond \in Nat
    BY <1>1, Z3
<1>3. k * MicrosPerSecond = (k * MillisPerSecond) * MicrosPerMilli
    BY <1>1, Z3 DEF MicrosPerSecond
<1>4. Image(k * MicrosPerSecond) = k * MillisPerSecond
    BY <1>1, <1>2, <1>3, Multiple DEF Image
<1> QED
    BY <1>2, <1>3, <1>4 DEF FromImage

\* A Timestamp is one, whatever the time.
LEMMA TimestampType ==
    ASSUME NEW p \in Ptime
    PROVE  ToTimestamp(p) \in Timestamp
<1>1. p \div MicrosPerSecond \in Nat
    BY SecondIsPositive, Division DEF Ptime
<1>2. p * NanosPerMicro \in Nat
    BY UnitsAssumption, Z3 DEF Ptime
<1> QED
    BY <1>1, <1>2, Int32Range DEF ToTimestamp, Timestamp

\* The time that is shown misses a whole second by half the modulus at most.
LEMMA ShownBound ==
    ASSUME NEW k \in Nat
    PROVE  LET c == k * MicrosPerSecond
               s == FromTimestamp(ToTimestamp(c))
           IN  /\ s \in Int
               /\ (s - c) * NanosPerMicro <= HalfModulus
               /\ (c - s) * NanosPerMicro <= HalfModulus
<1> DEFINE c == k * MicrosPerSecond
           n == Int32(c * NanosPerMicro)
           q == Quotient(n, NanosPerMicro)
           s == FromTimestamp(ToTimestamp(c))
<1>1. c \in Nat /\ c * NanosPerMicro \in Nat
    <2>1. c \in Nat
        BY SecondIsPositive, Z3
    <2> HIDE DEF c
    <2> QED
        BY <2>1, UnitsAssumption, Z3
<1>2. n \in -HalfModulus .. HalfModulus - 1
    BY <1>1, Int32Range
<1>3. HalfModulus \in Nat /\ NanosPerMicro \in Nat \ {0}
    BY UnitsAssumption
<1>4. n \in Int
    BY <1>2, <1>3
<1>5. /\ q \in Int
      /\ n >= 0 => q * NanosPerMicro \in 0 .. n
      /\ n < 0 => -(q * NanosPerMicro) \in 0 .. -n
    <2> HIDE DEF n
    <2> QED
        BY <1>3, <1>4, QuotientBound
<1>6. c \div MicrosPerSecond = k
    BY SecondIsPositive, Multiple
<1>7. s = c + q
    BY <1>6 DEF FromTimestamp, ToTimestamp
<1> HIDE DEF c, n, q, s
<1>8. s - c = q /\ c - s = -q /\ s \in Int
    BY <1>1, <1>5, <1>7
<1>9. (-q) * NanosPerMicro = -(q * NanosPerMicro) /\ q * NanosPerMicro \in Int
    BY <1>3, <1>5, Z3
<1>10. q * NanosPerMicro <= HalfModulus /\ -(q * NanosPerMicro) <= HalfModulus
    BY <1>2, <1>3, <1>4, <1>5, <1>9
<1>11. /\ s \in Int
       /\ (s - c) * NanosPerMicro <= HalfModulus
       /\ (c - s) * NanosPerMicro <= HalfModulus
    BY <1>8, <1>9, <1>10
<1> QED
    BY <1>11 DEF c, s

-----------------------------------------------------------------------------
(***************************************************************************)
(* The inductive invariant.                                                *)
(***************************************************************************)

\* Before any user is created.
LEMMA TimesStart == TimesInit => TimesIInv
<1> SUFFICES ASSUME TimesInit PROVE TimesIInv
    OBVIOUS
<1>1. clock \in Ptime
    BY SecondIsPositive DEF TimesInit, Ptime
<1> QED
    BY <1>1 DEF TimesInit, TimesIInv, TimesTypeOK, WholeSeconds, RowsFollow, AnswersFollow

\* No action breaks it.
LEMMA TimesStep == TimesIInv /\ [TimesNext]_timesVars => TimesIInv'
<1> SUFFICES ASSUME TimesIInv, [TimesNext]_timesVars PROVE TimesIInv'
    OBVIOUS
<1> USE DEF TimesIInv
<1>0. None \notin Int
    BY UnitsAssumption
<1>1. CASE Tick
    BY <1>1 DEF Tick, TimesTypeOK, WholeSeconds, RowsFollow, AnswersFollow, Ptime
<1>2. ASSUME NEW u \in Users, CreateUser(u) PROVE TimesIInv'
    <2> DEFINE c == SecondClock(clock)
    <2>1. c \in Ptime /\ \E k \in Nat : c = k * MicrosPerSecond
        BY ClockIsWhole DEF TimesTypeOK
    <2>2. Image(c) \in Nat
        BY <2>1, RoundTrip
    <2>3. /\ created[u] = None
          /\ created' = [created EXCEPT ![u] = c]
          /\ table' = [table EXCEPT ![u] = Image(c)]
          /\ UNCHANGED <<clock, wire, shown>>
        BY <1>2 DEF CreateUser
    <2> HIDE DEF c
    <2>4. TimesTypeOK'
        BY <2>1, <2>2, <2>3 DEF TimesTypeOK
    <2>5. WholeSeconds'
        BY <2>1, <2>3 DEF WholeSeconds, TimesTypeOK
    <2>6. RowsFollow'
        BY <1>0, <2>1, <2>2, <2>3 DEF RowsFollow, TimesTypeOK, Ptime
    <2>7. wire[u] = None /\ shown[u] = None
        BY <2>3 DEF AnswersFollow
    <2>8. AnswersFollow'
        BY <2>3, <2>7 DEF AnswersFollow, TimesTypeOK
    <2> QED
        BY <2>4, <2>5, <2>6, <2>8
<1>3. ASSUME NEW u \in Users, Reply(u) PROVE TimesIInv'
    <2>1. /\ table[u] # None
          /\ wire' = [wire EXCEPT ![u] = ToTimestamp(FromImage(table[u]))]
          /\ UNCHANGED <<clock, created, table, shown>>
        BY <1>3 DEF Reply
    <2>2. created[u] # None /\ table[u] = Image(created[u])
        BY <2>1 DEF RowsFollow
    <2>3. FromImage(table[u]) = created[u]
        BY <2>2, RoundTrip DEF WholeSeconds
    <2>4. ToTimestamp(created[u]) \in Timestamp
        BY <2>2, TimestampType DEF TimesTypeOK
    <2>5. TimesTypeOK'
        BY <2>1, <2>3, <2>4 DEF TimesTypeOK
    <2>6. AnswersFollow'
        BY <2>1, <2>2, <2>3 DEF AnswersFollow, TimesTypeOK
    <2> QED
        BY <2>1, <2>5, <2>6 DEF WholeSeconds, RowsFollow
<1>4. ASSUME NEW u \in Users, Show(u) PROVE TimesIInv'
    <2>1. /\ wire[u] # None
          /\ shown' = [shown EXCEPT ![u] = FromTimestamp(wire[u])]
          /\ UNCHANGED <<clock, created, table, wire>>
        BY <1>4 DEF Show
    <2>2. created[u] # None /\ wire[u] = ToTimestamp(created[u])
        BY <2>1 DEF AnswersFollow
    <2>3. FromTimestamp(wire[u]) \in Int
        BY <2>2, ShownBound DEF WholeSeconds
    <2>4. TimesTypeOK'
        BY <2>1, <2>3 DEF TimesTypeOK
    <2>5. AnswersFollow'
        BY <2>1, <2>2 DEF AnswersFollow, TimesTypeOK
    <2> QED
        BY <2>1, <2>4, <2>5 DEF WholeSeconds, RowsFollow
<1>5. CASE UNCHANGED timesVars
    BY <1>5 DEF timesVars, TimesTypeOK, WholeSeconds, RowsFollow, AnswersFollow
<1> QED
    BY <1>1, <1>2, <1>3, <1>4, <1>5 DEF TimesNext

\* The invariant holds in every state.
LEMMA TimesAlways == TimesSpec => []TimesIInv
    BY TimesStart, TimesStep, PTL DEF TimesSpec

\* Every variable keeps its type, `nanos' the range of an int32 among them.
THEOREM TimesTypes == TimesSpec => []TimesTypeOK
<1>1. TimesIInv => TimesTypeOK
    BY DEF TimesIInv
<1> QED
    BY <1>1, TimesAlways, PTL

\* Milliseconds are enough for what second_clock gives.
THEOREM CreationIsKept == TimesSpec => []TableKeepsCreation
<1>1. TimesIInv => TableKeepsCreation
    BY RoundTrip DEF TimesIInv, WholeSeconds, RowsFollow, TableKeepsCreation
<1> QED
    BY <1>1, TimesAlways, PTL

\* No shown time is off by more than half of what `nanos' can tell apart.
LEMMA InvImpliesNear == TimesIInv => ShownNearCreation
<1> SUFFICES ASSUME TimesIInv, NEW u \in Users, shown[u] # None
             PROVE  /\ (shown[u] - created[u]) * NanosPerMicro <= HalfModulus
                    /\ (created[u] - shown[u]) * NanosPerMicro <= HalfModulus
    BY DEF ShownNearCreation
<1>1. created[u] # None /\ shown[u] = FromTimestamp(ToTimestamp(created[u]))
    BY DEF TimesIInv, AnswersFollow
<1>2. PICK k \in Nat : created[u] = k * MicrosPerSecond
    BY <1>1 DEF TimesIInv, WholeSeconds
<1> QED
    BY <1>1, <1>2, ShownBound

\* The wrapped nanoseconds move a time by 2.15 s at most.
THEOREM ShownIsNear == TimesSpec => []ShownNearCreation
    BY InvImpliesNear, TimesAlways, PTL

\* What lies further apart than twice that error keeps its order.
THEOREM OrderIsKept == TimesSpec => []OrderKept
<1>1. TimesIInv => OrderKept
    <2> SUFFICES ASSUME TimesIInv, NEW u \in Users, NEW v \in Users,
                        shown[u] # None, shown[v] # None,
                        (created[v] - created[u]) * NanosPerMicro > 2 * HalfModulus
                 PROVE  shown[u] < shown[v]
        BY DEF OrderKept
    <2> DEFINE a == created[u]
               b == created[v]
               s == shown[u]
               t == shown[v]
    <2>1. a \in Int /\ b \in Int /\ s \in Int /\ t \in Int
        BY DEF TimesIInv, TimesTypeOK, AnswersFollow, Ptime
    <2>2. (s - a) * NanosPerMicro <= HalfModulus /\ (b - t) * NanosPerMicro <= HalfModulus
        BY InvImpliesNear DEF ShownNearCreation
    <2>3. NanosPerMicro \in Nat \ {0} /\ HalfModulus \in Nat
        BY UnitsAssumption
    <2>4. (b - a) * NanosPerMicro > 2 * HalfModulus
        OBVIOUS
    <2> HIDE DEF a, b, s, t
    <2>5. (t - s) * NanosPerMicro =
            (b - a) * NanosPerMicro - (s - a) * NanosPerMicro - (b - t) * NanosPerMicro
        BY <2>1, <2>3, Z3
    <2>6. (b - a) * NanosPerMicro \in Int /\ (s - a) * NanosPerMicro \in Int
          /\ (b - t) * NanosPerMicro \in Int
        BY <2>1, <2>3, Z3
    <2>7. (t - s) * NanosPerMicro > 0
        BY <2>2, <2>3, <2>4, <2>5, <2>6
    <2>8. t > s
        BY <2>1, <2>3, <2>7, Z3
    <2> QED
        BY <2>8, <2>1 DEF s, t
<1> QED
    BY <1>1, TimesAlways, PTL
=============================================================================
