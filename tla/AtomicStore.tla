---------------------------- MODULE AtomicStore -----------------------------
(***************************************************************************)
(* What the store promises its clients: a map from keys to values in which *)
(* every command on a key happens at one instant between its call and its *)
(* return, and in which a key with a time to live, and only such a key,   *)
(* may lapse by itself.  There are no clock, no deadlines, no locks and no *)
(* expiry thread.  DEL and EXISTS promise this for each key they name.    *)
(***************************************************************************)
EXTENDS Integers, Sequences, FiniteSets

\* What a command computes is a parameter: the promise is when it takes effect.
CONSTANTS
    Keys, Commands, None,
    Immediate(_), ImmediateReply(_),  \* answered without the store, and how
    Handle(_, _),                     \* what a command on one key decides
    Number(_), Null                   \* replies

VARIABLES
    map,     \* for every key [value, volatile], or None
    stage,   \* "idle", "called", "done" or "closed"
    cmd,     \* the command called last
    index,   \* DEL and EXISTS: the next key
    count,   \* DEL and EXISTS: the keys counted so far
    result,  \* the reply that a performed command will return
    reply    \* the reply returned last

vars == <<map, stage, cmd, index, count, result, reply>>

Volatile(v) == [value |-> v, volatile |-> TRUE]
Stable(v)   == [value |-> v, volatile |-> FALSE]

\* The result of a TTL call on a key that has a time to live.
SomeTime == <<"time", 0>>

Init ==
    /\ map = [k \in Keys |-> None]
    /\ stage = "idle"
    /\ cmd = None
    /\ index = 1
    /\ count = 0
    /\ result = None
    /\ reply = Null

\* The command returns r now, or it has taken effect and will return r.
Finish(r) ==
    /\ stage' = "idle"
    /\ reply' = r
    /\ cmd' = None
    /\ index' = 1
    /\ count' = 0
    /\ result' = None

Answer(r) ==
    \/ Finish(r)
    \/ /\ stage' = "done"
       /\ result' = r
       /\ UNCHANGED <<cmd, index, count, reply>>

Call(c) ==
    /\ stage = "idle"
    /\ IF Immediate(c)
       THEN Finish(ImmediateReply(c))
       ELSE /\ stage' = "called"
            /\ cmd' = c
            /\ reply' = Null
            /\ UNCHANGED <<index, count, result>>
    /\ map' = map

\* What a command on one key makes of the key's state, and its reply.
Stored(o, cur) == CASE o.write = "none" -> cur
                    [] o.write = "del"  -> None
                    [] o.write = "put"  -> [value |-> o.value, volatile |-> o.ttl > 0]

Perform ==
    /\ stage = "called"
    /\ cmd.name \notin {"DEL", "EXISTS", "EXPIRE", "TTL", "PERSIST", "INFO"}
    /\ LET cur == map[cmd.key]
           o   == Handle(cmd, IF cur = None THEN None ELSE cur.value)
       IN  /\ map' = [map EXCEPT ![cmd.key] = Stored(o, cur)]
           /\ Answer(o.reply)

PerformExpire ==
    /\ stage = "called"
    /\ cmd.name = "EXPIRE"
    /\ LET cur == map[cmd.key] IN
       IF cur = None THEN map' = map /\ Answer(Number(0))
       ELSE /\ map' = [map EXCEPT ![cmd.key] =
                          IF cmd.secs = 0 THEN None ELSE Volatile(cur.value)]
            /\ Answer(Number(1))

PerformPersist ==
    /\ stage = "called"
    /\ cmd.name = "PERSIST"
    /\ LET cur == map[cmd.key] IN
       IF cur = None THEN map' = map /\ Answer(Number(0))
       ELSE /\ map' = [map EXCEPT ![cmd.key] = Stable(cur.value)]
            /\ Answer(Number(1))

PerformTtl ==
    /\ stage = "called"
    /\ cmd.name = "TTL"
    /\ map' = map
    /\ Answer(IF map[cmd.key] = None THEN Number(-2)
              ELSE IF ~map[cmd.key].volatile THEN Number(-1)
              ELSE SomeTime)
    /\ reply' # SomeTime

PerformKey ==
    /\ stage = "called"
    /\ cmd.name \in {"DEL", "EXISTS"}
    /\ LET k     == cmd.keys[index]
           total == count + (IF map[k] = None THEN 0 ELSE 1)
       IN  /\ map' = IF cmd.name = "DEL" THEN [map EXCEPT ![k] = None] ELSE map
           /\ IF index = Len(cmd.keys)
              THEN Finish(Number(total))
              ELSE /\ count' = total
                   /\ index' = index + 1
                   /\ UNCHANGED <<stage, cmd, result, reply>>

\* INFO may count keys that have lapsed.
PerformSize ==
    /\ stage = "called"
    /\ cmd.name = "INFO"
    /\ \E n \in Cardinality({k \in Keys : map[k] # None})..Cardinality(Keys) :
           Finish(Number(n))
    /\ map' = map

\* The time to live that TTL returns is any number.
Return ==
    /\ stage = "done"
    /\ IF result = SomeTime
       THEN reply'[2] \in Nat /\ Finish(Number(reply'[2]))
       ELSE Finish(result)
    /\ map' = map

\* Keys with a time to live may vanish, several at a time.
Lapse ==
    /\ map' # map
    /\ \A k \in Keys : \/ map'[k] = map[k]
                       \/ map[k] # None /\ map[k].volatile /\ map'[k] = None
    /\ DOMAIN map' = Keys
    /\ UNCHANGED <<stage, cmd, index, count, result, reply>>

Close ==
    /\ stage = "idle"
    /\ stage' = "closed"
    /\ UNCHANGED <<map, cmd, index, count, result, reply>>

Discard ==
    /\ stage = "closed"
    /\ map' = [k \in Keys |-> None]
    /\ UNCHANGED <<stage, cmd, index, count, result, reply>>

Next ==
    \/ \E c \in Commands : Call(c)
    \/ Perform \/ PerformExpire \/ PerformPersist \/ PerformTtl \/ PerformKey
    \/ PerformSize \/ Return \/ Lapse \/ Close \/ Discard

Spec == Init /\ [][Next]_vars
=============================================================================
