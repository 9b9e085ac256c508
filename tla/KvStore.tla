------------------------------ MODULE KvStore -------------------------------
(***************************************************************************)
(* KvStore (core/kv_store.cpp) and the command handlers that call it.     *)
(*                                                                         *)
(* Two threads use the store: the event loop, which runs one handler at a *)
(* time, and the expiry thread.  Each call of the store's API is one      *)
(* critical section, but a handler makes several calls, and KvStore::set  *)
(* reads the clock before it takes the lock: between two calls the clock  *)
(* may pass a deadline and the expiry thread may sweep.  A step of this   *)
(* module is one critical section, or one reading of the clock where a    *)
(* critical section reads it twice (expire, ttl).                         *)
(***************************************************************************)
EXTENDS Commands

CONSTANTS
    Commands,  \* the commands clients send
    MaxTime,   \* bound on the clock, in ticks
    MaxList    \* bound on the lists that are still pushed to

ASSUME CommandsAssumption == Commands \subseteq AnyCommand
ASSUME BoundsAssumption == MaxTime \in Nat /\ MaxList \in Nat
ASSUME NoneAssumption == None \notin Nat /\ None \notin Value
                         /\ None \notin [value : Value, expires_at : Nat \cup {None}]
                         /\ None \notin [value : Value, volatile : BOOLEAN]

VARIABLES
    data,      \* data_: for every key its Entry, or None
    now,       \* Clock::now()
    cmd,       \* the command the event loop executes, or executed last
    pc,        \* the next call of its handler
    todo,      \* the handler's decision between its read and its write
    deadline,  \* KvStore::set's local expires_at
    index,     \* DEL and EXISTS: the next key
    count,     \* DEL and EXISTS: the keys counted so far
    reply,     \* the reply of the last command
    began,     \* history: the time at which cmd was dispatched
    sweeper,   \* where run_expiry is
    stop       \* expiry_thread_'s stop token

store   == <<data, now>>
handler == <<cmd, pc, todo, deadline, index, count, reply, began>>
thread  == <<sweeper, stop>>
vars    == <<data, now, cmd, pc, todo, deadline, index, count, reply, began,
             sweeper, stop>>

Entry == [value : Value, expires_at : Nat \cup {None}]

\* Points of a handler at which the event loop holds mutex_.
Locked == {"expire_set", "ttl_clock"}
Points == {"idle", "read", "clock", "put", "del", "each", "expire", "ttl",
           "persist", "size", "destructor", "destroyed"} \cup Locked

TypeOK ==
    /\ data \in [Keys -> Entry \cup {None}]
    /\ now \in Nat
    /\ cmd \in Commands \cup {None}
    /\ pc \in Points
    /\ pc \in {"clock", "put"} => todo.value \in Value /\ todo.ttl \in Nat
    /\ deadline \in Nat \cup {None}
    /\ index \in Nat
    /\ count \in Nat
    /\ began \in Nat
    /\ sweeper \in {"test", "asleep", "awake", "exited"}
    /\ stop \in BOOLEAN

Init ==
    /\ data = [k \in Keys |-> None]
    /\ now = 0
    /\ cmd = None
    /\ pc = "idle"
    /\ todo = Keep(Null)
    /\ deadline = None
    /\ index = 1
    /\ count = 0
    /\ reply = Null
    /\ began = 0
    /\ sweeper = "test"
    /\ stop = FALSE

(***************************************************************************)
(* Entry::is_expired, and what get, exists, expire, ttl and persist take  *)
(* for a missing key.                                                     *)
(***************************************************************************)
IsExpired(e) == e.expires_at # None /\ now >= e.expires_at
IsLive(k)    == data[k] # None /\ ~IsExpired(data[k])
GetUnchecked(k) == IF data[k] # None THEN data[k].value ELSE None
Get(k)       == IF IsLive(k) THEN data[k].value ELSE None

(***************************************************************************)
(* The event loop.                                                        *)
(***************************************************************************)
\* The handler returns r; its locals are gone.
Finish(r) ==
    /\ pc' = "idle"
    /\ reply' = r
    /\ cmd' = None
    /\ todo' = Keep(Null)
    /\ deadline' = None
    /\ index' = 1
    /\ count' = 0
    /\ began' = 0

\* The handler goes on to the call p.
Continue(p) ==
    /\ pc' = p
    /\ UNCHANGED <<cmd, reply, began, index, count>>

\* The first store call of the handler of c.
FirstCall(c) ==
    CASE c.name \in {"DEL", "EXISTS"} -> "each"
      [] c.name = "EXPIRE"  -> "expire"
      [] c.name = "TTL"     -> "ttl"
      [] c.name = "PERSIST" -> "persist"
      [] c.name = "INFO"    -> "size"
      [] OTHER              -> "read"

\* The bound MaxList: clients push to short lists only.
HasRoom(c) ==
    c.name \in {"LPUSH", "RPUSH"} /\ data[c.key] # None
        /\ data[c.key].value.type = "list"
    => Len(data[c.key].value.elements) < MaxList

\* Dispatcher::dispatch enters the handler of c.
Dispatch(c) ==
    /\ pc = "idle"
    /\ HasRoom(c)
    /\ IF Immediate(c)
       THEN Finish(ImmediateReply(c))
       ELSE /\ pc' = FirstCall(c)
            /\ cmd' = c
            /\ began' = now
            /\ reply' = Null
            /\ UNCHANGED <<todo, deadline, index, count>>
    /\ UNCHANGED <<store, thread>>

\* store.get(key) or store.exists(key), and the handler's decision.
Read ==
    /\ pc = "read"
    /\ LET o == Handle(cmd, Get(cmd.key)) IN
       \/ o.write = "none" /\ Finish(o.reply)
       \/ /\ o.write # "none"
          /\ todo' = o
          /\ Continue(IF o.ttl > 0 THEN "clock" ELSE o.write)
          /\ UNCHANGED deadline
    /\ UNCHANGED <<store, thread>>

\* KvStore::set, before the lock: expires_at = Clock::now() + ttl.
SetClock ==
    /\ pc = "clock"
    /\ deadline' = now + Ticks(todo.ttl)
    /\ Continue("put")
    /\ UNCHANGED <<store, todo, thread>>

\* KvStore::set under the lock.  Without a ttl the entry has no deadline.
SetPutKeepingDeadline ==
    /\ pc = "put"
    /\ data' = [data EXCEPT ![cmd.key] =
                   [value |-> todo.value,
                    expires_at |-> IF deadline = None /\ data[cmd.key] # None
                                   THEN data[cmd.key].expires_at ELSE deadline]]
    /\ Finish(todo.reply)
    /\ UNCHANGED <<now, thread>>
SetPut ==
    /\ pc = "put"
    /\ data' = [data EXCEPT ![cmd.key] =
                   [value |-> todo.value, expires_at |-> deadline]]
    /\ Finish(todo.reply)
    /\ UNCHANGED <<now, thread>>

\* store.del by a handler that emptied a collection.
DelEmptied ==
    /\ pc = "del"
    /\ data' = [data EXCEPT ![cmd.key] = None]
    /\ Finish(todo.reply)
    /\ UNCHANGED <<now, thread>>

\* One turn of the loop of cmd_del or cmd_exists; each turn locks anew.
Each ==
    /\ pc = "each"
    /\ LET k     == cmd.keys[index]
           total == count + (IF IsLive(k) THEN 1 ELSE 0)
       IN  /\ data' = IF cmd.name = "DEL" THEN [data EXCEPT ![k] = None] ELSE data
           /\ IF index = Len(cmd.keys)
              THEN Finish(Number(total))
              ELSE /\ count' = total
                   /\ index' = index + 1
                   /\ UNCHANGED <<cmd, pc, todo, deadline, reply, began>>
    /\ UNCHANGED <<now, thread>>

\* KvStore::expire: the check, and then a second reading of the clock.
ExpireCheck ==
    /\ pc = "expire"
    /\ IF IsLive(cmd.key)
       THEN Continue("expire_set") /\ UNCHANGED <<todo, deadline>>
       ELSE Finish(Number(0))
    /\ UNCHANGED <<store, thread>>

ExpireTtlRaw == cmd.secs
ExpireTtl == cmd.secs * MsPerSecond

ExpireSet ==
    /\ pc = "expire_set"
    /\ data' = [data EXCEPT ![cmd.key].expires_at = now + Ticks(ExpireTtl)]
    /\ Finish(Number(1))
    /\ UNCHANGED <<now, thread>>

\* KvStore::ttl: the check, a second reading of the clock and the duration_cast
\* to milliseconds, which drops a part of one; cmd_ttl rounds up to seconds.
TtlCheck ==
    /\ pc = "ttl"
    /\ IF ~IsLive(cmd.key) THEN Finish(Number(-2))
       ELSE IF data[cmd.key].expires_at = None THEN Finish(Number(-1))
       ELSE Continue("ttl_clock") /\ UNCHANGED <<todo, deadline>>
    /\ UNCHANGED <<store, thread>>

Remaining(k) == IF data[k].expires_at > now
                THEN (data[k].expires_at - now) \div TicksPerMs ELSE 0
SecondsDown(ms) == ms \div MsPerSecond
Seconds(ms) == (ms + MsPerSecond - 1) \div MsPerSecond

TtlClock ==
    /\ pc = "ttl_clock"
    /\ Finish(Number(Seconds(Remaining(cmd.key))))
    /\ UNCHANGED <<store, thread>>

Persist ==
    /\ pc = "persist"
    /\ IF IsLive(cmd.key)
       THEN /\ data' = [data EXCEPT ![cmd.key].expires_at = None]
            /\ Finish(Number(1))
       ELSE data' = data /\ Finish(Number(0))
    /\ UNCHANGED <<now, thread>>

\* INFO keyspace: KvStore::size counts expired keys not yet swept.
StoredKeys == {k \in Keys : data[k] # None}

Size ==
    /\ pc = "size"
    /\ Finish(Number(Cardinality(StoredKeys)))
    /\ UNCHANGED <<store, thread>>

Handler == Read \/ SetClock \/ SetPut \/ DelEmptied \/ Each \/ ExpireCheck
           \/ ExpireSet \/ TtlCheck \/ TtlClock \/ Persist \/ Size

(***************************************************************************)
(* The expiry thread: run_expiry.                                         *)
(***************************************************************************)
SweeperTestInverted ==
    /\ sweeper = "test"
    /\ sweeper' = IF stop THEN "asleep" ELSE "exited"
    /\ UNCHANGED <<store, handler, stop>>
SweeperTestForever ==
    /\ sweeper = "test"
    /\ sweeper' = "asleep"
    /\ UNCHANGED <<store, handler, stop>>
SweeperTest ==
    /\ sweeper = "test"
    /\ sweeper' = IF stop THEN "exited" ELSE "asleep"
    /\ UNCHANGED <<store, handler, stop>>

\* The end of sleep_for(100ms).
SweeperWake ==
    /\ sweeper = "asleep"
    /\ sweeper' = "awake"
    /\ UNCHANGED <<store, handler, stop>>

SweepEarly ==
    /\ sweeper = "awake"
    /\ pc \notin Locked
    /\ data' = [k \in Keys |->
                   IF data[k] # None /\ data[k].expires_at # None
                      /\ data[k].expires_at <= now + 1 THEN None ELSE data[k]]
    /\ sweeper' = "test"
    /\ UNCHANGED <<now, handler, stop>>
Sweep ==
    /\ sweeper = "awake"
    /\ pc \notin Locked
    /\ data' = [k \in Keys |->
                   IF data[k] # None /\ IsExpired(data[k]) THEN None ELSE data[k]]
    /\ sweeper' = "test"
    /\ UNCHANGED <<now, handler, stop>>

Sweeper == SweeperTest \/ SweeperWake \/ Sweep

(***************************************************************************)
(* ~KvStore: the members are destroyed in reverse order of declaration,   *)
(* so the jthread asks for the stop and joins before data_ goes.          *)
(***************************************************************************)
Destructor ==
    /\ pc = "idle"
    /\ pc' = "destructor"
    /\ stop' = TRUE
    /\ UNCHANGED <<store, cmd, todo, deadline, index, count, reply, began, sweeper>>

Join ==
    /\ pc = "destructor"
    /\ sweeper = "exited"
    /\ pc' = "destroyed"
    /\ data' = [k \in Keys |-> None]
    /\ UNCHANGED <<now, cmd, todo, deadline, index, count, reply, began, thread>>

Tick ==
    /\ now < MaxTime
    /\ now' = now + 1
    /\ UNCHANGED <<data, handler, thread>>

\* The process is over.
Over == pc = "destroyed" /\ UNCHANGED vars

Next ==
    \/ \E c \in Commands : Dispatch(c)
    \/ Handler
    \/ Sweeper
    \/ Destructor
    \/ Join
    \/ Tick
    \/ Over

Spec == Init /\ [][Next]_vars

\* The operating system runs both threads; a started handler returns, and the
\* expiry thread's sleeps end; a mutex that is free again and again is taken by
\* the thread waiting for it (SF).  Nobody has to send commands or to shut down.
FairSpec == /\ Spec
            /\ WF_vars(Handler)
            /\ WF_vars(SweeperTest) /\ WF_vars(SweeperWake) /\ SF_vars(Sweep)
            /\ WF_vars(Join)

(***************************************************************************)
(* The map the clients see: the live entries, and in place of the key a   *)
(* handler is about to write, the entry it has decided on.                *)
(***************************************************************************)
Seen(e) == [value |-> e.value, volatile |-> e.expires_at # None]

Pending(k) == pc \in {"clock", "put", "del", "expire_set"} /\ cmd.key = k

PendingEntry ==
    CASE pc = "clock" -> [value |-> todo.value, volatile |-> TRUE]
      [] pc = "put"   -> IF deadline # None /\ now >= deadline THEN None
                         ELSE [value |-> todo.value, volatile |-> deadline # None]
      [] pc = "del"   -> None
      [] pc = "expire_set" ->
             IF cmd.secs = 0 THEN None
             ELSE [value |-> data[cmd.key].value, volatile |-> TRUE]

ClientMap == [k \in Keys |-> IF Pending(k) THEN PendingEntry
                             ELSE IF IsLive(k) THEN Seen(data[k])
                             ELSE None]

ClientStage ==
    CASE pc = "idle" -> "idle"
      [] pc \in {"destructor", "destroyed"} -> "closed"
      [] pc \in {"clock", "put", "del"} \cup Locked -> "done"
      [] OTHER -> "called"

ClientResult ==
    CASE pc \in {"clock", "put", "del"} -> todo.reply
      [] pc = "expire_set" -> Number(1)
      [] pc = "ttl_clock"  -> <<"time", 0>>
      [] OTHER -> None

Atomic == INSTANCE AtomicStore
          WITH map <- ClientMap, stage <- ClientStage, result <- ClientResult

(***************************************************************************)
(* Properties.                                                            *)
(***************************************************************************)

\* Every command takes effect at one instant, whatever the clock and the expiry
\* thread do between the calls of its handler (kv_store.cpp, *_cmds.cpp): the
\* store with its deadlines, lock sections and sweeps implements AtomicStore.
Linearizable == Atomic!Spec

\* LPOP, RPOP, SREM and HDEL delete a key whose collection they empty, and
\* pushes and adds store at least one element: no empty collection is stored.
NoEmptyCollection == \A k \in Keys : data[k] # None => ~IsEmpty(data[k].value)

\* The deadline that SET EX/PX or EXPIRE leaves lies a whole ttl after the call
\* and at most a ttl after the return (kv_store.cpp:24-28, 59-62), however the
\* clock moved in between.
DeadlineHonoured ==
    [][pc # "idle" /\ pc' = "idle" =>
         /\ cmd.name = "SET" /\ reply' = Ok /\ SetTtl(cmd) > 0 =>
               LET ttl == Ticks(SetTtl(cmd))
               IN  data'[cmd.key].expires_at \in began + ttl..now + ttl
         /\ cmd.name = "EXPIRE" /\ reply' = Number(1) =>
               LET ttl == Ticks(cmd.secs * MsPerSecond)
               IN  data'[cmd.key].expires_at \in began + ttl..now + ttl]_vars

\* TTL answers the remaining time rounded up (kv_store.cpp:65-76,
\* generic_cmds.cpp:65-72): short of what is left at the return by less than the
\* millisecond that ttl drops, and less than a second more than what was left at
\* the call.  A key that was live with a deadline does not answer -1 or -2.
TtlTruthful ==
    [][pc = "ttl_clock" /\ pc' = "idle" =>
         LET secs == reply'[2]
             left(t) == data[cmd.key].expires_at - t
         IN  /\ secs >= 0
             /\ Ticks(secs * MsPerSecond) > left(now) - TicksPerMs
             /\ Ticks((secs - 1) * MsPerSecond) < left(began)]_vars

\* Outside a command a key that clients see goes only at its deadline: the sweep
\* (kv_store.cpp:127-132) never takes a key that is still live, neither between
\* two calls of a handler nor while one holds the lock.
LapsesOnTime ==
    [][UNCHANGED handler =>
         \A k \in Keys : IsLive(k) /\ ~IsLive(k)' =>
             data[k].expires_at # None /\ now' >= data[k].expires_at]_vars

\* LRANGE answers exactly the elements whose positions lie between the two
\* indices, negative ones counted from the end (list_cmds.cpp:141-151): clamping
\* the bounds to the list neither adds nor loses an element.  LINDEX answers the
\* element at its index, and null exactly if there is none (list_cmds.cpp:173-180).
Position(i, n) == IF i < 0 THEN n + i ELSE i
Asked(start, end, n) == {p \in 1..n : /\ Position(start, n) <= p - 1
                                      /\ p - 1 <= Position(end, n)}
RangeExact ==
    [][pc = "read" /\ pc' = "idle" /\ Get(cmd.key) # None =>
         LET s == Get(cmd.key).elements
         IN  /\ cmd.name = "LRANGE" /\ reply'[1] = "array" =>
                   LET out == reply'[2]
                   IN  \E d \in 0..Len(s) :
                           /\ Asked(cmd.start, cmd.stop, Len(s)) = d + 1..d + Len(out)
                           /\ \A i \in 1..Len(out) : out[i] = s[d + i]
             /\ cmd.name = "LINDEX" /\ reply'[1] \in {"bulk", "null"} =>
                   LET at == Asked(cmd.index, cmd.index, Len(s))
                   IN  IF at = {} THEN reply' = Null
                       ELSE \A p \in at : reply' = Bulk(s[p])]_vars

\* An entry past its deadline does not stay in memory: it is swept or replaced,
\* or the process ends (run_expiry).
EventuallySwept ==
    \A k \in Keys :
        (data[k] # None /\ IsExpired(data[k])) ~>
            (data[k] = None \/ ~IsExpired(data[k]))

\* ~KvStore returns: the expiry thread sees the stop token and is joined.
ShutdownEnds == pc = "destructor" ~> pc = "destroyed"

\* The type a command needs; SET takes any.
NeededType(c) ==
    CASE c.name \in {"GET", "INCRBY", "DECRBY"} -> {"string"}
      [] c.name \in {"LPUSH", "RPUSH", "LPOP", "RPOP", "LLEN", "LRANGE", "LINDEX"}
             -> {"list"}
      [] c.name \in {"SADD", "SREM", "SMEMBERS", "SISMEMBER", "SCARD"} -> {"set"}
      [] c.name \in {"HSET", "HGET", "HDEL", "HGETALL", "HEXISTS", "HLEN"} -> {"hash"}
      [] OTHER -> {"string", "list", "set", "hash"}

\* What the documentation says and GET, INCR and DECR do not keep
\* (COMPATIBILITY.md:51): an operation on a key of another type answers WRONGTYPE.
CrossTypeReported ==
    [][pc = "read" /\ pc' = "idle" /\ Get(cmd.key) # None
         /\ Get(cmd.key).type \notin NeededType(cmd) => reply' = WrongType]_vars
=============================================================================
