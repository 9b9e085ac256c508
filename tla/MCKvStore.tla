----------------------------- MODULE MCKvStore ------------------------------
(* Small instances of KvStore: one set of commands per family.             *)
EXTENDS KvStore

CONSTANTS k1, k2, txt

Named(names, k) == {[name |-> n, key |-> k] : n \in names}

SetWith(k, v, unit, time) ==
    {[name |-> "SET", key |-> k, value |-> v, unit |-> unit, time |-> time,
      nx |-> nx, xx |-> xx] : nx \in BOOLEAN, xx \in BOOLEAN}

Expiry(k) == {[name |-> "EXPIRE", key |-> k, secs |-> s] : s \in {-1, 0, 1}}
             \cup Named({"TTL", "PERSIST"}, k)

\* Strings, deadlines and the multi-key commands.
StringCommands ==
    SetWith(k1, 1, "none", 0) \cup SetWith(k1, 1, "EX", 1)
    \cup SetWith(k2, txt, "PX", 1) \cup SetWith(k2, txt, "PX", 0)
    \cup Named({"GET"}, k1) \cup Expiry(k1)
    \cup {[name |-> "INCRBY", key |-> k, delta |-> 1] : k \in {k1, k2}}
    \cup {[name |-> "DECRBY", key |-> k1, delta |-> d] : d \in {1, IntMin}}
    \cup {[name |-> n, keys |-> s] : n \in {"DEL", "EXISTS"},
                                     s \in {<<k1, k2>>, <<k1, k1>>}}
    \cup {[name |-> n] : n \in {"PING", "INFO"}}

Args(names, k) == {[name |-> n, key |-> k, args |-> a] :
                       n \in names, a \in {<<0>>, <<0, 1>>}}

\* Lists: with MaxList = 2 a list has up to three elements.
ListCommands ==
    Args({"LPUSH", "RPUSH"}, k1) \cup Expiry(k1)
    \cup Named({"LPOP", "RPOP", "LLEN", "GET", "SCARD"}, k1)
    \cup {[name |-> "LRANGE", key |-> k1, start |-> i, stop |-> j] :
              i \in {-2, 0, 1, txt}, j \in {-2, -1, 1}}
    \cup {[name |-> "LINDEX", key |-> k1, index |-> i] : i \in {-2, 0, 1, txt}}
    \cup {c \in SetWith(k1, 1, "PX", 1) : ~c.nx /\ ~c.xx}

SetHashCommands ==
    Args({"SADD", "SREM", "HDEL"}, k1) \cup Expiry(k1)
    \cup Named({"SMEMBERS", "SCARD", "HGETALL", "HLEN", "LLEN"}, k1)
    \cup {[name |-> n, key |-> k1, field |-> 1] :
              n \in {"SISMEMBER", "HGET", "HEXISTS"}}
    \cup {[name |-> "HSET", key |-> k1, pairs |-> p] :
              p \in {<< <<0, txt>> >>, << <<1, 0>>, <<0, 0>>, <<1, 1>> >>}}
    \cup {[name |-> "DEL", keys |-> <<k1>>]}

\* Enough to create, renew, replace and drop deadlines.
DeadlineCommands ==
    {c \in SetWith(k1, 1, "PX", 1) \cup SetWith(k1, 1, "none", 0) : ~c.nx /\ ~c.xx}
    \cup Expiry(k1) \cup {[name |-> "INCRBY", key |-> k1, delta |-> 1]}

CollectionCommands == ListCommands \cup SetHashCommands \cup DeadlineCommands
=============================================================================
