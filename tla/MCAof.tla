------------------------------- MODULE MCAof --------------------------------
(* Small instances of Aof.                                                 *)
EXTENDS Aof

CONSTANTS k1, k2, txt

Put1(k, v, unit, time) ==
    [name |-> "SET", key |-> k, value |-> v, unit |-> unit, time |-> time,
     nx |-> FALSE, xx |-> FALSE]
On(name, k)  == [name |-> name, key |-> k]
With(name, k) == [name |-> name, key |-> k, args |-> <<0>>]

\* A plain key, a key with deadlines, and a collection that comes and goes.
MCCommands ==
    {Put1(k1, 0, "none", 0), Put1(k2, 0, "PX", 1), On("GET", k1),
     [name |-> "EXPIRE", key |-> k2, secs |-> 1], On("PERSIST", k2),
     [name |-> "INCRBY", key |-> k1, delta |-> 1],
     With("SADD", k1), With("SREM", k1), [name |-> "DEL", keys |-> <<k1, k2>>]}

AllFaults == {"open", "read", "write", "resize", "reopen", "power"}
=============================================================================
