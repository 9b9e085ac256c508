-------------------------------- MODULE Aof ---------------------------------
(***************************************************************************)
(* AofPersistence (persistence/aof_persistence.cpp) through runs of the   *)
(* process: main opens the file and replays it, handle_data logs a        *)
(* command and then dispatches it, and the process may end between any    *)
(* two steps.                                                             *)
(*                                                                         *)
(* The file is a sequence of entries; Torn stands for bytes the parser    *)
(* cannot finish or throws on.  A handler runs at one instant here, as    *)
(* KvStore.tla shows it may be thought to, and replay is one step: until  *)
(* its last call it changes only the memory of the process.               *)
(***************************************************************************)
EXTENDS Commands

CONSTANTS
    Commands,  \* the commands clients send
    Torn,      \* bytes of the file that are no complete entry
    Faults,    \* calls that may fail: see the actions
    MaxLog,    \* bound on the file and on the commands since the last start
    MaxTime    \* bound on the clock

ASSUME CommandsAssumption == Commands \subseteq AnyCommand
ASSUME TornAssumption == Torn \notin AnyCommand
ASSUME NoneIsNoCommand == None \notin AnyCommand
ASSUME FaultsAssumption ==
    Faults \subseteq {"open", "read", "write", "resize", "reopen", "power"}
ASSUME BoundsAssumption == MaxLog \in Nat /\ MaxTime \in Nat

VARIABLES
    file,      \* the contents of path_
    stream,    \* file_: "good", "failed" (badbit), "closed"; "off": no object
    phase,     \* "down", "opened", "up", or "logged" inside handle_data
    pending,   \* the command between log and dispatch
    data,      \* KvStore::data_
    now,       \* Clock::now()
    executed,  \* history: the write commands whose effect data has
    skipped,   \* history: replay() could not read the file in this run
    replayed,  \* the number replay() returned
    threw      \* history: of those, the commands whose handler threw

vars == <<file, stream, phase, pending, data, now, executed, skipped, replayed,
          threw>>

NoKeys == [k \in Keys |-> None]

LogTypes ==
    /\ file \in Seq(Commands \cup {Torn})
    /\ stream \in {"good", "failed", "closed", "off"}
    /\ phase \in {"down", "opened", "up", "logged"}
    /\ pending \in Commands \cup {None}
    /\ phase = "logged" <=> pending # None
    /\ now \in Nat
    /\ executed \in Seq(Commands)

\* The type invariant.
TypeOK ==
    /\ LogTypes
    /\ DOMAIN data = Keys
    /\ skipped \in BOOLEAN
    /\ replayed \in Nat /\ threw \in 0..replayed

Init ==
    /\ file = <<>>
    /\ stream = "closed"
    /\ phase = "down"
    /\ pending = None
    /\ data = NoKeys
    /\ now = 0
    /\ executed = <<>>
    /\ skipped = FALSE
    /\ replayed = 0
    /\ threw = 0

(***************************************************************************)
(* A command against a store d at time t.                                 *)
(***************************************************************************)
Live(d, k, t) == d[k] # None /\ (d[k].expires_at = None \/ t < d[k].expires_at)
Get(d, k, t)  == IF Live(d, k, t) THEN d[k].value ELSE None

Written(o, old, t) ==
    CASE o.write = "none" -> old
      [] o.write = "del"  -> None
      [] o.write = "put"  ->
             [value |-> o.value,
              expires_at |-> IF o.ttl = 0 THEN None ELSE t + Ticks(o.ttl)]

Execute(c, d, t) ==
    CASE Immediate(c) \/ c.name \in {"EXISTS", "TTL", "INFO"} -> d
      [] c.name = "DEL" ->
             [k \in Keys |-> IF k \in Elements(c.keys) THEN None ELSE d[k]]
      [] c.name = "EXPIRE" /\ ~Immediate(c) ->
             IF ~Live(d, c.key, t) THEN d
             ELSE [d EXCEPT ![c.key].expires_at = t + Ticks(c.secs * MsPerSecond)]
      [] c.name = "PERSIST" ->
             IF ~Live(d, c.key, t) THEN d ELSE [d EXCEPT ![c.key].expires_at = None]
      [] OTHER ->
             [d EXCEPT ![c.key] = Written(Handle(c, Get(d, c.key, t)), @, t)]

\* A handler without a try of its own lets bad_variant_access out.
Throws(c, d, t) ==
    /\ c.name \in {"GET", "INCRBY", "DECRBY"} /\ ~Immediate(c)
    /\ Handle(c, Get(d, c.key, t)).reply = Throw

\* The store and the number of exceptions after the commands of s at time t.
Dispatched(s, t) ==
    LET after[i \in 0..Len(s)] ==
            IF i = 0 THEN [data |-> NoKeys, threw |-> 0]
            ELSE LET r == after[i - 1] IN
                 [data  |-> Execute(s[i], r.data, t),
                  threw |-> r.threw + IF Throws(s[i], r.data, t) THEN 1 ELSE 0]
    IN  after[Len(s)]

(***************************************************************************)
(* The write path: handle_data.                                           *)
(***************************************************************************)
IsWriteCommandShort(name) == name \in {"SET", "DEL", "EXPIRE", "PERSIST",
    "INCRBY", "DECRBY", "LPUSH", "RPUSH", "LPOP", "RPOP", "SADD", "HSET", "HDEL"}
IsWriteCommand(name) == name \in {"SET", "DEL", "EXPIRE", "PERSIST", "INCRBY",
    "DECRBY", "LPUSH", "RPUSH", "LPOP", "RPOP", "SADD", "SREM", "HSET", "HDEL"}

\* log: write and flush.  A failed write may leave a part of the entry; the
\* stream's badbit then makes every later write do nothing.
LogRetries(c) ==
    \/ stream # "off" /\ file' = Append(file, c) /\ stream' = "good"
    \/ stream = "off" /\ UNCHANGED <<file, stream>>
    \/ /\ stream = "good" /\ "write" \in Faults
       /\ file' = file
       /\ stream' = "failed"
Log(c) ==
    \/ stream = "good" /\ file' = Append(file, c) /\ UNCHANGED stream
    \/ stream # "good" /\ UNCHANGED <<file, stream>>
    \/ /\ stream = "good" /\ "write" \in Faults
       /\ file' \in {file, Append(file, Torn)}
       /\ stream' = "failed"

HandleWrite(c) ==
    /\ phase = "up"
    /\ IsWriteCommand(c.name)
    /\ Len(executed) < MaxLog /\ Len(file) < MaxLog
    /\ Log(c)
    /\ pending' = c
    /\ phase' = "logged"
    /\ UNCHANGED <<data, now, executed, skipped, replayed, threw>>

\* A command that is not logged; a read changes nothing.
HandleRead(c) ==
    /\ phase = "up"
    /\ ~IsWriteCommand(c.name)
    /\ data' = Execute(c, data, now)
    /\ UNCHANGED <<file, stream, phase, pending, now, executed, skipped, replayed,
                   threw>>

Dispatch ==
    /\ phase = "logged"
    /\ data' = Execute(pending, data, now)
    /\ executed' = Append(executed, pending)
    /\ phase' = "up"
    /\ pending' = None
    /\ UNCHANGED <<file, stream, now, skipped, replayed, threw>>

(***************************************************************************)
(* The end of the process, and the loss of power, which may also lose     *)
(* what the operating system had not written yet.                         *)
(***************************************************************************)
Down ==
    /\ phase' = "down"
    /\ stream' = "closed"
    /\ pending' = None
    /\ data' = NoKeys
    /\ UNCHANGED <<now, executed, skipped, replayed, threw>>

Crash == phase # "down" /\ Down /\ UNCHANGED file

PowerLoss ==
    /\ phase # "down"
    /\ "power" \in Faults
    /\ \E n \in 0..Len(file) - 1 :
           file' \in {SubSeq(file, 1, n), Append(SubSeq(file, 1, n), Torn)}
    /\ Down

(***************************************************************************)
(* main: open the file, replay it, serve.                                 *)
(***************************************************************************)
Open ==
    /\ phase = "down"
    /\ \/ phase' = "opened" /\ stream' = "good" /\ UNCHANGED executed
       \/ /\ "open" \in Faults
          /\ phase' = "up" /\ stream' = "off" /\ executed' = <<>>
    /\ UNCHANGED <<file, pending, data, now, skipped, replayed, threw>>

\* replay could not open the file for reading: it starts afresh.
ReplayUnreadable ==
    /\ phase = "opened"
    /\ "read" \in Faults
    /\ phase' = "up"
    /\ executed' = <<>>
    /\ skipped' = TRUE
    /\ replayed' = 0 /\ threw' = 0
    /\ UNCHANGED <<file, stream, pending, data, now>>

\* The entries in front of the first bytes the parser gives up on.
Readable(f) == CHOOSE n \in 0..Len(f) :
                   /\ \A i \in 1..n : f[i] # Torn
                   /\ n < Len(f) => f[n + 1] = Torn

\* truncate_to, s the entries to keep: resize_file may throw, the reopening
\* may fail, and either leaves the stream closed.
TruncateNothing(s) == UNCHANGED file /\ stream' = "good"
TruncateShort(s) == file' = SubSeq(s, 1, Len(s) - 1) /\ stream' = "good"
TruncateTo(s) ==
    \/ file' = s /\ stream' = "good"
    \/ "resize" \in Faults /\ UNCHANGED file /\ stream' = "closed"
    \/ "reopen" \in Faults /\ file' = s /\ stream' = "closed"

\* reopen_append_stream; replay of an empty file returns before it.
Reopen ==
    /\ UNCHANGED file
    /\ \/ UNCHANGED stream
       \/ file # <<>> /\ "reopen" \in Faults /\ stream' = "closed"

\* The loop of replay over the entries s.
Redispatch(s) ==
    /\ data' = Dispatched(s, now).data
    /\ executed' = s
    /\ replayed' = Len(s)
    /\ threw' = Dispatched(s, now).threw

\* Torn bytes with entries behind them may run into these and parse, as some
\* command, before the parser meets bytes that begin no value.
Replay ==
    /\ phase = "opened"
    /\ LET n == Readable(file)
           s == SubSeq(file, 1, n)
       IN  \/ n = Len(file) /\ Redispatch(s) /\ Reopen
           \/ n < Len(file) /\ Redispatch(s) /\ TruncateTo(s)
           \/ /\ n + 1 < Len(file)
              /\ \E c \in Commands : Redispatch(Append(s, c)) /\ TruncateTo(Append(s, c))
    /\ phase' = "up"
    /\ skipped' = FALSE
    /\ UNCHANGED <<pending, now>>

Tick ==
    /\ now < MaxTime
    /\ now' = now + 1
    /\ UNCHANGED <<file, stream, phase, pending, data, executed, skipped, replayed,
                   threw>>

Next ==
    \/ \E c \in Commands : HandleWrite(c) \/ HandleRead(c)
    \/ Dispatch \/ Crash \/ PowerLoss
    \/ Open \/ ReplayUnreadable \/ Replay \/ Tick

Spec == Init /\ [][Next]_vars

(***************************************************************************)
(* Properties.                                                            *)
(***************************************************************************)
Serving == phase \in {"up", "logged"}

\* Safety, of replay's truncation: whatever a crash or a failed write left in
\* the file, an entry that log() appends is never behind bytes at which the
\* next replay stops, unless replay() could not read the file in this run.
LogReachable ==
    Serving /\ stream = "good" /\ ~skipped => \A i \in DOMAIN file : file[i] # Torn

\* The write commands handle_data has logged, or tried to, in this run.
Attempted == IF phase = "logged" THEN Append(executed, pending) ELSE executed

\* Safety, of log()'s sticky stream state: the entries a replay would read
\* are an initial part of the commands executed, in their order, so a failed
\* write loses a suffix and never one command from the middle.
GapFree ==
    Serving /\ stream # "off" /\ ~skipped =>
        /\ Readable(file) <= Len(Attempted)
        /\ \A i \in 1..Readable(file) : file[i] = Attempted[i]

\* Action property, of log() and truncate_to: the program never removes or
\* changes an entry a replay could read; only the loss of power does.
EntriesKept ==
    [][phase' # "down" =>
           /\ Len(file') >= Readable(file)
           /\ \A i \in 1..Readable(file) : file'[i] = file[i]]_vars

\* Commands that may give k a deadline.
GivesDeadline(c, k) ==
    \/ c.name = "SET" /\ c.key = k /\ c.unit # "none"
    \/ c.name = "EXPIRE" /\ c.key = k

\* Safety, of is_write_command and replay: while the file takes writes, a
\* restart would give every key that never had a deadline the value it has.
UnexpiringRestored ==
    phase = "up" /\ stream = "good" /\ ~skipped =>
        \A k \in Keys :
            (\A i \in DOMAIN file : ~GivesDeadline(file[i], k))
                => data[k] = Dispatched(file, now).data[k]

\* What aof_persistence.hpp says of replay, "to restore state": a restart at
\* this moment would show clients what they see now.  Deadlines are logged
\* relative to the time of the command, so replay counts them afresh.
RestoresState ==
    phase = "up" /\ stream = "good" /\ ~skipped =>
        \A k \in Keys :
            Get(data, k, now) = Get(Dispatched(file, now).data, k, now)

\* What aof_persistence.hpp says of logging: every mutating command is in the
\* file once it has been executed.  log() never looks at the stream's state.
EveryMutationLogged ==
    phase = "up" /\ stream # "off" /\ ~skipped => SubSeq(file, 1, Readable(file)) = executed

\* What aof_persistence.hpp says replay() returns: the number of commands
\* successfully replayed.  The code counts those whose handler threw as well.
ReplayCount ==
    [][phase = "opened" /\ phase' = "up" => replayed' = Len(executed') - threw']_vars
=============================================================================
