----------------------------- MODULE UserTimes -----------------------------
(***************************************************************************)
(* The time of a user's creation on its way from the clock of the user     *)
(* manager to the JSON that the gateway shows: rounded to the second, put  *)
(* into the table as milliseconds, loaded, sent as a protobuf Timestamp    *)
(* and read back.  A ptime is the number of microseconds since 1970.       *)
(*                                                                         *)
(* The number of nanoseconds since 1970 goes into the int32 `nanos', which *)
(* keeps it modulo 2 * HalfModulus, with a sign.  The units are constants, *)
(* so that TLC can check a second of four microseconds.                    *)
(***************************************************************************)
EXTENDS Integers

CONSTANTS
    Users,            \* the users that are created, once each
    MicrosPerMilli,
    MillisPerSecond,
    NanosPerMicro,
    HalfModulus,      \* 2^31
    MaxClock,         \* bound: where the clock of the model stops
    None

ASSUME UnitsAssumption ==
    /\ MicrosPerMilli \in Nat \ {0}
    /\ MillisPerSecond \in Nat \ {0}
    /\ NanosPerMicro \in Nat \ {0}
    /\ HalfModulus \in Nat \ {0}
    /\ None \notin Int

MicrosPerSecond == MillisPerSecond * MicrosPerMilli

Ptime     == Nat
Timestamp == [seconds : Nat, nanos : -HalfModulus .. HalfModulus - 1]

VARIABLES
    clock,     \* the universal time, in microseconds
    created,   \* User::created of the object that CreateUser persists
    table,     \* the image that the row holds
    wire,      \* UserResponse::created, in the last answer that holds the user
    shown      \* UserDto::created, in the last answer of the gateway

timesVars == <<clock, created, table, wire, shown>>

TimesInit ==
    /\ clock \in 0 .. MicrosPerSecond
    /\ created = [u \in Users |-> None]
    /\ table = [u \in Users |-> None]
    /\ wire = [u \in Users |-> None]
    /\ shown = [u \in Users |-> None]

-----------------------------------------------------------------------------
(***************************************************************************)
(* The conversions.                                                        *)
(***************************************************************************)

\* Fault: the clock of microseconds, which Boost offers as well.
MicrosecClock(t) == t

\* second_clock::universal_time.
SecondClock(t) == (t \div MicrosPerSecond) * MicrosPerSecond

\* Fault: seconds are stored where milliseconds are loaded.
SecondsImage(p) == p \div MicrosPerSecond

\* convert<ptime, long long>.
Image(p) == p \div MicrosPerMilli

\* convert<long long, ptime>.
FromImage(i) == i * MicrosPerMilli

\* Fault: the field is taken for an unsigned one.
Int32Unsigned(n) == n % (2 * HalfModulus)

\* What an int32 keeps of an int64.
Int32(n) ==
    LET low == n % (2 * HalfModulus) IN
    IF low < HalfModulus THEN low ELSE low - 2 * HalfModulus

\* convert<ptime, Timestamp>: total_nanoseconds, not those past the second.
ToTimestamp(p) == [seconds |-> p \div MicrosPerSecond, nanos |-> Int32(p * NanosPerMicro)]

\* A division of C++, which rounds towards zero.
Quotient(n, d) == IF n >= 0 THEN n \div d ELSE -((-n) \div d)

\* Fault: the nanoseconds are added as if they were microseconds.
FromTimestampUndivided(t) == t.seconds * MicrosPerSecond + t.nanos

\* convert<Timestamp, ptime>.
FromTimestamp(t) == t.seconds * MicrosPerSecond + Quotient(t.nanos, NanosPerMicro)

-----------------------------------------------------------------------------
Tick ==
    /\ clock < MaxClock
    /\ clock' = clock + 1
    /\ UNCHANGED <<created, table, wire, shown>>

\* convert<UserRequest, User> takes the time; the insert writes its image.
CreateUser(u) ==
    /\ created[u] = None
    /\ created' = [created EXCEPT ![u] = SecondClock(clock)]
    /\ table' = [table EXCEPT ![u] = Image(SecondClock(clock))]
    /\ UNCHANGED <<clock, wire, shown>>

\* Every answer, that to CreateUser too, is made of what a query has loaded.
Reply(u) ==
    /\ table[u] # None
    /\ wire' = [wire EXCEPT ![u] = ToTimestamp(FromImage(table[u]))]
    /\ UNCHANGED <<clock, created, table, shown>>

Show(u) ==
    /\ wire[u] # None
    /\ shown' = [shown EXCEPT ![u] = FromTimestamp(wire[u])]
    /\ UNCHANGED <<clock, created, table, wire>>

TimesNext ==
    \/ Tick
    \/ \E u \in Users : CreateUser(u) \/ Reply(u) \/ Show(u)

TimesSpec == TimesInit /\ [][TimesNext]_timesVars

-----------------------------------------------------------------------------
(***************************************************************************)
(* Properties.                                                             *)
(***************************************************************************)

\* Every variable has its type; in particular `nanos' fits its field.
TimesTypeOK ==
    /\ clock \in Ptime
    /\ created \in [Users -> Ptime \cup {None}]
    /\ table \in [Users -> Nat \cup {None}]
    /\ wire \in [Users -> Timestamp \cup {None}]
    /\ shown \in [Users -> Int \cup {None}]

\* The table gives back the very time that the object was created with: its
\* milliseconds lose nothing of a time that second_clock has rounded.
TableKeepsCreation ==
    \A u \in Users : created[u] # None => FromImage(table[u]) = created[u]

\* How far off a shown time can be: half the range of an int32 of nanoseconds,
\* 2.147483648 s, since `nanos' holds those since 1970 and not those since the
\* last second.
ShownNearCreation ==
    \A u \in Users : shown[u] # None =>
        /\ (shown[u] - created[u]) * NanosPerMicro <= HalfModulus
        /\ (created[u] - shown[u]) * NanosPerMicro <= HalfModulus

\* Two users whose creations are further apart than the whole range, 4.29 s,
\* are shown in the order in which they were created.  Closer ones need not be.
OrderKept ==
    \A u, v \in Users :
        /\ shown[u] # None
        /\ shown[v] # None
        /\ (created[v] - created[u]) * NanosPerMicro > 2 * HalfModulus
        => shown[u] < shown[v]
=============================================================================
