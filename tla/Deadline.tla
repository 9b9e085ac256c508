------------------------------ MODULE Deadline ------------------------------
(***************************************************************************)
(* The arithmetic of deadlines on one key, in integers of the code's      *)
(* width: cmd_set and cmd_expire turn seconds into std::chrono durations, *)
(* and KvStore adds them to a clock that counts nanoseconds; nothing      *)
(* bounds the argument but from_chars.  KvStore.tla has the               *)
(* interleavings, in exact numbers, and the way back that TTL takes.      *)
(***************************************************************************)
EXTENDS Integers

CONSTANTS
    IntMax,       \* the greatest int64_t
    MsPerSecond,  \* milliseconds in a second
    TicksPerMs,   \* ticks of steady_clock in a millisecond
    MaxTime,      \* bound on the clock, in ticks
    None          \* std::nullopt

VARIABLES
    present,     \* the key is in data_
    expires_at,  \* its deadline, None without one
    now,         \* Clock::now()
    due          \* history: the deadline the client asked for, exactly

vars == <<present, expires_at, now, due>>

Int64 == (-IntMax - 1)..IntMax

\* What two's complement arithmetic makes of x.
Wrap(x) ==
    IF x \in Int64 THEN x
    ELSE ((x + IntMax + 1) % (2 * (IntMax + 1))) - (IntMax + 1)

Init ==
    /\ present = FALSE
    /\ expires_at = None
    /\ now = 0
    /\ due = None

(***************************************************************************)
(* Durations: seconds to milliseconds, milliseconds to ticks.             *)
(***************************************************************************)
ToMs(s)     == Wrap(s * MsPerSecond)
ToTicks(ms) == Wrap(ms * TicksPerMs)
After(ms)   == Wrap(now + ToTicks(ms))

IsExpired == expires_at # None /\ now >= expires_at

\* KvStore::set with a ttl in milliseconds; ticks is the time asked for.
Set(ms, ticks) ==
    /\ present' = TRUE
    /\ expires_at' = IF ms > 0 THEN After(ms) ELSE None
    /\ due' = IF ticks > 0 THEN now + ticks ELSE None
    /\ now' = now

\* cmd_set refuses a time that is not positive.
SetPlain == Set(0, 0)
SetEx == \E s \in 1..IntMax : Set(ToMs(s), s * MsPerSecond * TicksPerMs)
SetPx == \E m \in 1..IntMax : Set(m, m * TicksPerMs)

\* cmd_expire and KvStore::expire.
Expire ==
    \E s \in 0..IntMax :
        /\ present /\ ~IsExpired
        /\ expires_at' = After(ToMs(s))
        /\ due' = now + s * MsPerSecond * TicksPerMs
        /\ UNCHANGED <<present, now>>

Persist ==
    /\ present /\ ~IsExpired
    /\ expires_at' = None
    /\ due' = None
    /\ UNCHANGED <<present, now>>

\* DEL, or purge_expired once the deadline has passed.
Erase ==
    /\ present
    /\ present' = FALSE
    /\ expires_at' = None
    /\ due' = None
    /\ now' = now

Tick ==
    /\ now < MaxTime
    /\ now' = now + 1
    /\ UNCHANGED <<present, expires_at, due>>

Next == SetPlain \/ SetEx \/ SetPx \/ Expire \/ Persist \/ Erase \/ Tick

Spec == Init /\ [][Next]_vars

(***************************************************************************)
(* A statement of the documentation that the code does not keep.          *)
(***************************************************************************)
\* README.md, "Set a TTL in seconds", of every number of seconds EXPIRE and SET EX
\* accept: at every moment the key is expired exactly if the time the client
\* asked for has passed.  A product or a sum that does not fit an int64_t puts the
\* deadline into the past, or leaves a key of SET EX without one.
LapsesExactly == present => (IsExpired <=> (due # None /\ now >= due))
=============================================================================
