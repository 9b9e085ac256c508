# Vortek in TLA+

Vortek is a single-process key-value server that speaks RESP: clients send
commands over TCP, handlers execute them on an in-memory store whose keys may
have deadlines, writes are appended to a file, and clients may subscribe to
channels. This directory holds TLA+ models of its parts, TLC configurations that
check them on small instances, and TLAPS proofs for all instances. Paths below
are relative to `src/src/`.

## The system

| Part | Source | State | Who runs it | Model |
|---|---|---|---|---|
| Key-value store | `core/kv_store.*` | `data_`, `mutex_`, `expiry_thread_` | event loop and expiry thread | `KvStore`, `Deadline` |
| Values | `core/value.hpp` | none | | `Commands` |
| Data commands | `commands/handlers/{string,list,set,hash}_cmds.cpp` | none of their own | event loop | `Commands`, `KvStore` |
| Generic commands | `commands/handlers/generic_cmds.cpp` | none of their own | event loop | `Commands`, `KvStore` (not HEALTH, METRICS) |
| Dispatcher, command parsing | `commands/{dispatcher,command}.*` | handler table | event loop | `Handle`, `FirstCall`; item kinds of `Connection` |
| Connection | `server/connection.*` | socket, parser, write queue, timer, flags | event loop | `Connection`, `PubSub`, `Server` |
| Pub/sub broker | `server/pubsub_broker.*`, `pubsub_cmds.cpp` | `channels_` | event loop | `Broker`, `PubSub` |
| Server | `server/server.*`, `server_stats.hpp` | acceptor, counters, signal flag | main, event loop, signal handler | `Server` |
| Append-only file | `persistence/aof_persistence.*` | file, stream | event loop; start-up | `Aof` |
| RESP parser, serializer | `protocol/*` | parse buffer | event loop | `RespParser` |
| Configuration, start-up | `main.cpp`, `utils/config*` | none after start | main | `Config`, `Aof`, `Server` |
| Logger, errors, byte view | `utils/*` | none that matters | | not modelled |

Everything except the expiry thread runs on the one thread of the `io_context`.
So there are these sources of concurrency, each with a module: the handlers of
commands against the clock and the expiry thread (`KvStore`); the completion
handlers of one connection against each other, the peer, the kernel and the timer
(`Connection`); the handlers and posted writes of several connections (`PubSub`);
the process's start, its accept loop, its signals, its end and the owners of
connections (`Server`); and the process against crashes and failing calls (`Aof`).
`RespParser`, `Config` and `Deadline` are about computations: what the parser makes
of bytes cut anywhere, what the two passes over the arguments make of them, and
what 64-bit arithmetic makes of times to live.

The modules meet in this way. `KvStore` and `Aof` share the handlers of
`Commands`; `Aof` runs each at one instant, which `KvStore!Linearizable`
justifies. `PubSub` and `Server` share the broker's operations, `Broker`.
`Connection` takes from the parser whole, partial and malformed items,
`RespParser` shows that there is nothing else; its pushes come from `PubSub`'s
posts; `PubSub!DoWrite` and `Server!CloseSocket` are what other parts see of
`Connection`.

## Modules

**`Commands`** has the command handlers as functions. A handler on one key reads
the key once and then decides: `Handle(c, cur)` gives, for the command and the
value read, a decision (`Keep`, `Put`, `Drop`) and the reply. Payloads are the
integers of the width of `int64_t` (cut down to `IntMin..IntMax`) and texts that
`from_chars` refuses. `GET`, `INCR` and the like on a collection end in `Throw`,
the `std::bad_variant_access` of `as_string`.

**`KvStore`** runs these handlers. `data`, `now`, `sweeper` and `stop` are the
members; `cmd`, `pc`, `todo`, `deadline`, `index` and `count` are the locals of
the running handler, reset when it returns. Each action is one critical section
of `kv_store.cpp` or one reading of the clock outside or inside it:

| Action | Code |
|---|---|
| `Dispatch`, `Read` | argument checks; `get` or `exists` and the handler's decision |
| `SetClock`, `SetPut` | `KvStore::set`: deadline before the lock, entry under it |
| `DelEmptied`, `Each` | `KvStore::del` for an emptied collection; DEL and EXISTS key by key |
| `ExpireCheck`, `ExpireSet` | `KvStore::expire`: two clock readings under one lock |
| `TtlCheck`, `TtlClock` | `KvStore::ttl`, the same, and `cmd_ttl`'s rounding |
| `Persist`, `Size` | `KvStore::persist`; INFO's key count |
| `SweeperTest`, `SweeperWake`, `Sweep` | `run_expiry` |
| `Destructor`, `Join` | `~KvStore` |
| `Tick` | the clock |

`Sweep` is disabled while a handler holds the lock (`Locked`). The clock counts ticks, `TicksPerMs` to a
millisecond and `MsPerSecond` of these to a second: times to live are converted to
ticks, and `ttl` converts back by dropping the part of a millisecond, before `cmd_ttl`
rounds up to seconds. Critical sections
that read the clock once are atomic: the clock's movement before or after the
reading is a separate `Tick`.

**`AtomicStore`** is what the store promises: a map without clock, deadlines,
locks or thread, in which each command happens at one instant between call and
return, and a key with a time to live, and no other, may vanish by itself. DEL
and EXISTS promise this per key. What a command computes (`Handle` and the replies)
is a parameter of `AtomicStore`: the promise is about when it takes effect.
`KvStore!Linearizable` states that `KvStore` implements it: `ClientMap` shows the
live entries, and for the key a handler is about to write, what it has decided on.

**`Connection`** is one connection. `net` is a record of the socket, the
outstanding read and write, their flags, the write buffer and queue,
`pending_write_bytes_` and the timer. The private members that handlers call
(`CloseSocket`, `DoRead`, `DoWrite`, `FlushWriteQueue`, `ResetIdleTimer`) are
functions from `net` to `net`, so each handler is one action that contains all
its calls. `handle_data` is one handler; its loop is one step per command, during
which no other handler runs but peer, kernel and timer may move.

Abstractions: an item of input and a frame of output count one byte each; a
subscription is one flag, so one channel; the broker is always there (`main.cpp`
passes it); a timer handler that was cancelled does nothing in the code and is
left out; commands are known by what they do to the connection only.

**`Broker`** has the four operations of `PubSubBroker` as functions of
`channels_`. A vector of subscribers is the number of entries per id, so that a
double entry can be expressed and the order, which nobody sees, cannot.

**`PubSub`** is several clients on one event loop: `running` is the connection
whose `handle_data` runs, `call` the loop of its `handle_subscribe` or
`handle_unsubscribe` (one step per channel), `posted` the writes `push_message`
has posted, `got`, `told` and `answers` what clients have seen. `DoWrite` may find
the socket closed or close it; the queue behind it is in `Connection`.
**`Topics`** is what this promises: each message goes once, in the order of the
PUBLISH commands, to the members of its channel at that moment, and PUBLISH
answers how many they are. `PubSub!Delivery` is the refinement.

**`Server`** follows the process from `main` through `run` and `stop` to the
destruction of main's locals, `phase` being the point reached. A connection is in
`exists` while its object lives, in `open` while its socket is open, in `held`
while some handler holds a `shared_ptr` to it; the broker's `write_fn`s are the
other owners. `Arrive` completes a read, and `HandleData` runs its handler, one command
per step, also when the socket was closed in between: the handler does not look, and
may subscribe a connection that is closed. `LastHandler` drops the last handler's pointer: the object goes
unless the broker holds it. A signal is a step of its own at every point. An
exception out of the accept handler (`AcceptThrows`) ends the process.

**`Aof`** is the file through any number of runs of the process: `HandleWrite`
logs, `Dispatch` executes, `Crash` and `PowerLoss` end a run at any point, `Open`
and `Replay` start the next. The file is a sequence of commands and `Torn`, bytes
the parser cannot finish; `Faults` names the calls that may fail. When torn bytes
have entries behind them (after a start that could not read the file and appended
to it), they may combine with these into some other command before the parser stops, so `Replay`
also allows one arbitrary command there.

**`RespParser`** has `serialize` and every `parse_*` function over bytes, and
`handle_data`'s loop of `feed` over a stream cut into arbitrary chunks. Numbers are
those of an `int64_t` (`IntMax`), a count above `MaxCount` is one that
`vector::reserve` throws on, and the values a peer serializes are nested at most
`Depth` deep; the parser itself has no limit of depth. Calls of `parse` at all offsets
of a buffer are one recursive function, `Parsed`.
**`Config`** has the two passes of `parse_args` one argument at a time, and
`load_config_file` with its conversions. **`Deadline`** is one key's deadline in
integers of the code's width, which wrap, next to the deadline the client asked for.

The modules **`MC...`** define commands, chunks, messages and arguments for TLC,
the modules **`...Proofs`** hold the theorems, and **`Induction`** the lemmas by which
they reason about functions that are defined recursively over a sequence. Definitions such
as `SweepEarly` or `DoWriteOverlaps` that precede the definition they resemble
are faulty variants; each shows that the property named for it in `PROJECT.json`
fails when the code has that fault.

## What TLC checks

| Run | Question | Properties |
|---|---|---|
| `kv_strings` | strings, counters at their limits, deadlines, DEL and EXISTS over two keys | `TypeOK`, `Linearizable`, `DeadlineHonoured`, `TtlTruthful`, `LapsesOnTime` |
| `kv_collections` | lists, sets, hashes, strings and deadlines on one key; does what expired leave memory, does the destructor return | `NoEmptyCollection`, `Linearizable`, `RangeExact`, `EventuallySwept`, `ShutdownEnds` |
| `conn_pipeline` | a password, pipelines, errors, pushes, slow peers, limits, idle timer; does the connection go on, and does it end | `NeverStuck`, `OneOperationEach`, `PendingExact`, `AnswersInOrder`, `AllAnswered`, `NothingBeforeAuth`, `ClosingIsFinal`, `ClosingEnds`, `ReadsAgain`, `HandlersEnd` |
| `ps_delivery` | two clients, two channels, every interleaving of handlers and posts; do posted messages arrive | `RecordsAgree`, `BrokerTidy`, `ConfirmedFirst`, `Delivery`, `MessagesArrive` |
| `srv_lives` | accepting, limit, ownership, signals, shutdown; does a signal end the process, do closed connections go | `CountExact`, `NoDangling`, `ServingAccepts`, `SignalStops`, `ClosedGoAway` |
| `aof_restart` | what does a restart at any point restore, and what do failing calls and power loss leave in the file | `UnexpiringRestored`, `LogReachable`, `GapFree`, `EntriesKept` |
| `resp_decode` | serialized values and malformed bytes in arbitrary chunks | `DecodesPromptly`, `BufferExact`, `ChunkingIrrelevant` |
| `cfg_override` | every list of up to five arguments | `CliOverrides` |

All of these hold. Linearizability is the central result for the store: although
a handler releases the lock between reading and writing, and `set` computes its
deadline before it waits for the lock, no client can tell, because the only other
thread removes only what no client can see. For publish/subscribe it is
`Delivery`, for the file that a restart restores every key that never had a
deadline (`UnexpiringRestored`) and that no fault of one call makes later entries
unreadable (`LogReachable`, `GapFree`).

### Statements the code does not keep

Fourteen statements of documents, comments and tests do not hold of the code. For
four there is a run in which TLC finds the behaviour:

* `conn_idle` (`IdleMeansIdle`): the idle timer closes a connection on which bytes
  have just moved (README.md:74): when the timer expires while a completed read waits
  for its handler, the timer's handler may run first; once it is queued, a read handler
  that restarts the timer does not take it back; and a long write never restarts it.
* `srv_full` (`RefusedOnlyWhenFull`): a subscriber that disconnects stays alive
  through the `write_fn` in the broker and in `connected_clients`; such connections
  fill `--max-clients` for good (README.md:75).
* `aof_state` (`RestoresState`): after a restart times to live count afresh, and
  expired keys are back (persistence/aof_persistence.hpp:20).
* `dl_overflow` (`LapsesExactly`): times to live in seconds (README.md:11, 109) are
  multiplied and added without a check; one too large for the clock wraps, and the key
  is expired at once, or, after SET EX, has no deadline.

The others are defined in the modules. TLC refutes each when it takes the place of
the properties in the configuration named:

| Property | Configuration | What the code does |
|---|---|---|
| `CrossTypeReported` | `MCKvStore_collections` | GET, INCR, DECR, INCRBY and DECRBY on a collection answer a generic error, not `WRONGTYPE` (COMPATIBILITY.md:51) |
| `PipelineInOrder` | `MCConnection_pipeline` | in one buffer, SUBSCRIBE is answered before the commands ahead of it (COMPATIBILITY.md:11, pipelining) |
| `PipelineComplete` | `MCConnection_pipeline` | commands behind one whose handler throws are dropped (COMPATIBILITY.md:11) |
| `UnsubscribeStopsDelivery` | `MCPubSub_delivery` | a message posted before an UNSUBSCRIBE is written after its confirmation (tests/pubsub_tests.cpp:42 has the opposite, for the broker alone) |
| `CountedReceived` | `MCPubSub_delivery` | PUBLISH counts subscribers whose connection is closed (server/pubsub_broker.hpp:35) |
| `GracefulShutdown` | `MCServer_lives` | connections the broker owns are destroyed after the `io_context` of their sockets, and call the broker while it is being destroyed (CHANGELOG.md:14) |
| `EveryMutationLogged` | `MCAof_restart` | after a failed write commands are executed and not logged (persistence/aof_persistence.hpp:17) |
| `ReplayCount` | `MCAof_restart` | `replay` counts commands that threw (persistence/aof_persistence.hpp:38) |
| `ViolationsThrow` | `MCRespParser_decode` | the terminator of a bulk string is not looked at (protocol/resp_parser.hpp:27) |
| `PortAsGiven` | `MCConfig_override` | `--port 70000` listens on another port (README.md:67) |

### Bounds

* `IntMax = 1`: integers -2..1, so every counter is at most two steps from both
  limits and DECRBY meets the integer that has no negative.
* `MsPerSecond = 2`, `TicksPerMs = 2`, `MaxTime = 5` in `kv_strings`: times to live of
  a second and of a millisecond, both roundings of TTL (a part of a millisecond that is
  dropped, a part of a second that counts as one), and time left after the longest
  deadline. In `kv_collections` a millisecond is one tick, and `MaxTime = 3`; in `Aof`,
  which does not look at TTL's answers, all units are one.
* `MaxList = 2`: pushes go to lists shorter than two, so lists have up to three
  elements; LRANGE is asked with indices inside, at and beyond both ends.
* Two keys for the commands that name several, one otherwise: the other handlers
  touch only their own key.
* `MaxCommands = 5` items in chunks of up to three, AUTH among them, `MaxRequest`
  and `MaxPending` 3, `MaxPosted = 2`: each limit can be met exactly and exceeded, that
  of requests by a partial command in the parser, that of the output by answers and
  pushes in the queue. An oversized request of a subscriber needs more items than five:
  closing while pushes go on is in the proofs only. Two posts matter: with one, a subscriber's posts run out
  between any two pushes.
* Pub/sub: two clients, SUBSCRIBE and UNSUBSCRIBE of two channels at once, two
  PUBLISH commands (the smallest number with an order). A channel named twice in one
  command is in the proofs only.
* Server: three clients, a limit of three and two channels, so that the limit is met by
  open, closing and leaked connections in any mixture; the client that is refused then
  has no state and needs no name.
* Aof: files and runs of up to three commands, nine of them on a plain key, a key
  with deadlines and a set; a tick, so that a deadline may pass before or after a
  restart (two in `aof_state`); all faults at any point.
* RespParser: ten leaves (line ends, type bytes and two-digit lengths in the
  payload), nested arrays, up to three values in a stream; four of eleven pieces of
  protocol in any order for malformed streams. Every way to cut them. `IntMax = 30`
  and `MaxCount = 20`, so that two digits are enough for a number that is no
  `int64_t` and a count no vector has room for.
* Config: all 66,430 lists of up to five of nine words, with two files, one of
  them with a setting of the wrong type, and numbers above and below the ranges.
* Deadline: integers of seven bits, three milliseconds in a second and two ticks in a
  millisecond, so that each of the two products and the sum can overflow.

### Fairness

`KvStore!FairSpec`: a started handler goes on and the thread's steps happen (weak
fairness, the operating system schedules both threads); `Sweep` has strong
fairness, since the lock it needs is free again and again and a mutex does not
starve a waiter for ever on the platforms the server runs on. Nothing obliges
clients to send, the clock to advance, or anyone to shut down.

`Connection!FairSpec`: the `io_context` runs ready handlers in a queue, so a
handler that is ready again and again runs (strong fairness, as other handlers
disable it for the length of theirs); a write that was started ends, by success
or by failure, which the peer or TCP's own timeouts ensure. `ClosingEnds` and
`ReadsAgain` speak of connections that are not subscribed: a steady stream of
pushes may keep a subscriber's write queue non-empty for ever, and then the code
neither closes nor reads.

`PubSub!FairSpec`: a chunk is finite, so the loops and `handle_data` end; a posted
handler is queued in the `io_context` and runs (strong fairness: it is disabled
while another handler runs). Nothing obliges clients to send.

`Server!FairSpec`: the main thread runs, the poll timer expires, the handler of a
completed read runs and comes to the end of its chunk, and closing a socket completes
its operations, whose handlers run. Clients and signals are free. `ClosedGoAway` allows
a read that completed before the close to subscribe the connection, which then stays.

## What is proved

TLAPS checks the following for all values of the constants, under the
assumptions named in the modules: `IntMax` and the units of time positive, the set of
keys finite (INFO counts them), texts are no integers, `None` is no number, value or
entry and not what a client sees of one, commands and chunks are well-formed, the
limits are natural numbers, the bytes CR and LF differ from each other, from the minus
sign and from the digits, and no argument or file has the
name that stands for no path. TLC evaluates the assumptions in the runs.

`KvStoreProofs`:

* `TypeCorrect`: `TypeOK` is invariant; in particular a stored counter is an
  `int64_t`. `CollectionsNonEmpty`: `NoEmptyCollection` is invariant.
* `NoEarlyLapse`: `LapsesOnTime`. `RangeAnswers`: `RangeExact`, for LRANGE and LINDEX.
* `StoreLinearizable`: `Linearizable`, that is `Spec => Atomic!Spec`.
* `DeadlinesHonoured`: `DeadlineHonoured`. `TtlAnswers`: `TtlTruthful`, through both
  conversions: what TTL answers falls short of the time left by less than the
  millisecond that `ttl` drops (so it may be 0 in the last millisecond), and exceeds
  it by less than a second.

The inductive invariant is `Inv == TypeOK /\ NoEmptyCollection /\ InHandler`.
`NoEmptyCollection` alone is not inductive: between `Read` and `SetPut` the value
is in `todo`, and `InHandler` says that it is not empty there, that the command
fits the point its handler has reached, and that a key under the lock is there.
`HandleDecision` proves handler by handler that what is decided is a well-formed,
non-empty value or a deletion, given that what was read was one.

The last three theorems are about handlers of several steps and need a second
invariant, `Planned`: the point a handler has reached tells which command it runs,
the decision in `todo` is still the one of its read, the deadline it has computed
lies a time to live after some moment since the call, and the times it has seen are
in order. The refinement then has one lemma per action. A handler takes effect at
its read when it decides there (`ReadRefines`), under the lock otherwise; what comes
after is `Return`, and `MapAt` says that the map clients see does not change by the
write, because it showed the decided entry from the read on. A tick maps to `Lapse`
or to a stutter (`TickAtKey`), among others when the entry about to be written is
past its deadline before it is stored; the expiry thread always to a stutter
(`SweeperRefines`), as it takes only what is not live.

`ConnectionProofs`:

* `TypeCorrect`, `AlwaysWaiting` (`NeverStuck`), `SingleOperations`
  (`OneOperationEach`), `OutputBounded` (`PendingBounded`), `NoWorkWhileClosing`
  (`ClosingIsFinal`).

Here `Inv` adds `NoReadBehind` to these: while `handle_data` runs, and once the
connection is closing, no read is outstanding. Without it `DoRead` at the end of
`handle_data` could be refused, or a read could complete after the request that
exceeded the limit. The helpers are treated by a lemma each, the actions by one
step each.

* `SilentBeforeAuth`: `NothingBeforeAuth`. The strengthening, `Unknown`, says where
  a push could hide: for an unauthenticated client there is no subscription, no
  post, and only answers in the buffer, in the queue and among the batched replies.
* `OrderKept`: `AnswersInOrder`. `NoneForgotten`: `AllAnswered`. Both speak of what
  was delivered; inductively one needs the whole way of an answer, from the batch
  through the queue and the buffer to the peer. `Flow` says that no answer overtakes
  an earlier one of its kind anywhere on this way, `Numbering` that the items of a
  chunk are numbered on from those handled before, and `Complete` that, as long as
  nothing was lost, the answers on the way or delivered are those of all items
  handled. `Writes` and `Rests` are what each helper does to the output.
* `CountExact`: `PendingExact`. `Total` is a recursive function over the queue;
  `TotalAppend` and `TotalTail` say what it is after the two things the code does to
  the queue, and the invariant is `PendingExact` with `Drained`: an open connection
  that writes nothing has nothing to write.

`PubSubProofs` (with the lemmas of `BrokerProofs` on the four operations), for all
clients, channels and argument lists, the set of clients being finite:

* `Agreement` (`RecordsAgree`), `Tidiness` (`BrokerTidy`), `ConfirmationFirst`
  (`ConfirmedFirst`), and `Implements`: `Spec => Delivery`, every step of `PubSub` is
  one of `Topics` or a stutter.

`ConfirmedFirst` speaks of messages written; inductively one needs where the
confirmation of a channel is before: `Confirmed` says that an open client was told
of each of its channels or the loop that runs will tell it, and that posted
messages are about channels it was told of. The refinement needs the tidiness of
the map: only with at most one entry per client is the number of callbacks the
number of members.

`ServerProofs`, for all clients, channels and limits, the set of clients being
finite: `Counted` (`CountExact`), `Limited` (`LimitHolds`), `Safe` (`NoDangling`),
`Accepting` (`ServingAccepts`). `Owners` adds that a connection which is open or has a
completed read is held by the event loop, and that after the end of the server nothing is; `Started` says what
has been set in motion at each point of `run`.

At the end of that module is `Config`, for all lists of arguments and all files:
`Overriding` (`CliOverrides`), by induction over the arguments each pass has behind it
(`Passes`). The first pass before an argument has come past every `--config` option and
holds the path of the last (`Found`); the second pass has applied the last value each
option has before it, on top of the file's settings (`Settled`). Only the second pass
steps over the values of the other options: the first also takes a `--config` that is
such a value. The second pass accepts such a command line only if the word behind is an
option, and this word is the path. Hence the hypothesis `OrdinaryFiles`, that no file is
named like an option: with a file of that name, `--requirepass --config --no-aof` reads
the file `--no-aof` although no option asks for it.

`RespParserProofs`, for all payloads, widths and depths, all values and all bytes, and
every way to cut them:

* `Inverted`: `parse` reads from the bytes of a value exactly this value, and waits on
  every shorter beginning of them.
* `PromptDecoding` (`DecodesPromptly`), `ExactBuffer` (`BufferExact`), `AnyChunking`
  (`ChunkingIrrelevant`).

A recursive function of TLA+ is a `CHOOSE`, of which nothing is known before one such
function has been shown to exist. `ParseLocal` and `WireLocal` say that the parser and
the serializer look only at offsets behind the one at hand and at values nested less
deep; `ParsesExist` and `WritesExist` build the functions from this, and `ParsedIs` and
`SerializeIs` are the equations of the code, with which all else is proved.
`RoundTrip` goes by induction over the depth, with an induction over the elements inside
(`ElementsRead`); a number is read back from its decimal digits (`DecimalFacts`).
`ParseMoved` compares two buffers of which one is a part of the other: a value or an
exception of the part is that of the whole, at another offset; only waiting can change.
From it follow `FeedSees`, that each call of `feed` makes one step of the same parser on
the whole stream, and with `RoundTrip` `FeedSent`, that on serialized values this step
is the next value. The invariant `Inv` says of every state that the buffer is the part
of the stream between the values taken and the bytes not arrived, and that the values
are those the parser finds in the whole stream up to there.

`AofProofs`, for all commands and bounds and all sets of faults: `Reachable`
(`LogReachable`), `NoGaps` (`GapFree`), `Kept` (`EntriesKept`), `Restored`
(`UnexpiringRestored`). The invariant `IInv` adds that the file of a stream that takes
writes is exactly what was attempted: such a stream has missed nothing, and replay has
cut off everything it could not read. When the file opens for appending but not for
reading, the server starts empty and appends behind whatever is there. The history
variable `skipped` marks such a run of the process: `LogReachable`, `GapFree` and
`UnexpiringRestored` say nothing of it, and hold again in the runs behind it.

`Restored` needs to know what replaying a sequence of commands leaves. `SameEffect`:
a command that gives a key no deadline does to a key without one the same in every
store and at every time, and leaves it without one. `Timeless`: so do the commands of
a sequence, by induction over it. The invariant `Rebuilt` says of the store what
`UnexpiringRestored` says of the file, with `executed` in its place; `IInv` makes the
two sequences one.

`Induction` has induction on the natural numbers in the form the provers can apply:
for a set of numbers, by the well-foundedness of `<`, instead of for a predicate. From
it come the least and the greatest element of a set, and the existence of a function
defined by recursion.

The type invariants of `Connection`, `PubSub` and `Server`, that of `Aof` as
far as the file goes (`LogTypes`), and `LimitHolds` are left to the proofs and not
repeated in runs.

Only model-checked: liveness (`EventuallySwept`, `ShutdownEnds`, `ClosingEnds`,
`ReadsAgain`, `HandlersEnd`, `MessagesArrive`, `SignalStops`, `ClosedGoAway`), as TLAPS
1.4.5 has no rules for fairness and `ENABLED`. Every safety property of a passing run
has its theorem.

## Not modelled

* Wording of replies, logging, HEALTH, METRICS and INFO's other sections: they
  format counters. `total_commands` and the uptime are only reported.
* `approx_memory_bytes`, a read-only estimate.
* Wrong numbers of arguments and unknown commands: answered before anything is
  touched.
* The subscriber counts in the confirmations of SUBSCRIBE and UNSUBSCRIBE.
* The skipping of entries that are no command in `replay`: `log` writes only
  commands, and torn bytes that happen to parse are the arbitrary command of
  `Replay`.
* Memory that runs out below `vector::max_size`, and the depth of the stack that
  nested arrays take.
* Exceptions of the `Server` constructor (the port is in use), which end `main`
  before anything is served, and TOML's own grammar.
* The bytes of TCP, and the memory order of the atomics: one thread reads and
  writes them, but for the signal flag, which is one word.
* The error branch of the poll timer (`server/server.cpp:87-90`), which would end the
  polling: asio completes a wait that nobody cancels without an error, and only `stop`
  cancels this one.
* `utils/{logger,error,byte_view}.hpp`: output and helpers.
