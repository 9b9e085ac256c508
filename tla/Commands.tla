------------------------------ MODULE Commands ------------------------------
(***************************************************************************)
(* The command handlers of src/src/commands/handlers as functions.        *)
(*                                                                         *)
(* A handler on one key reads the key once (KvStore::get or exists) and   *)
(* then decides what to answer and whether to store a value, delete the   *)
(* key, or leave it alone.  Everything between the read and the write is  *)
(* local to the handler; it is the operator Handle(c, cur) below, where   *)
(* cur is what the read returned.  KvStore.tla interleaves these          *)
(* decisions with the clock and the expiry thread.                        *)
(***************************************************************************)
EXTENDS Integers, Sequences, FiniteSets

CONSTANTS
    Keys,              \* the names a client may use
    Text,              \* payloads from_chars does not read as an int64_t
    IntMax,            \* the greatest int64_t
    MsPerSecond,       \* milliseconds in a second: 1000
    TicksPerMs,        \* ticks of steady_clock in a millisecond: 1000000
    None               \* std::nullopt

ASSUME KeysAssumption == IsFiniteSet(Keys)
ASSUME IntAssumption == IntMax \in Nat \ {0}
ASSUME TextAssumption == \A t \in Text : t \notin Int
ASSUME TickAssumption == MsPerSecond \in Nat \ {0} /\ TicksPerMs \in Nat \ {0}

IntMin == -IntMax - 1
Int64  == IntMin..IntMax

\* A payload is the number from_chars reads in it, or it is text.
Payload == Int64 \cup Text

(***************************************************************************)
(* Value (core/value.hpp): a variant of four types.                       *)
(***************************************************************************)
StringValue == [type : {"string"}, data : Payload]
ListValue   == [type : {"list"}, elements : Seq(Payload)]
SetValue    == [type : {"set"}, members : SUBSET Payload]
HashValue   == [type : {"hash"},
                fields : UNION {[F -> Payload] : F \in SUBSET Payload}]
Value       == StringValue \cup ListValue \cup SetValue \cup HashValue

Str(x)  == [type |-> "string", data |-> x]
List(s) == [type |-> "list", elements |-> s]
Set(S)  == [type |-> "set", members |-> S]
Hash(h) == [type |-> "hash", fields |-> h]

\* v is a collection without an element.
IsEmpty(v) ==
    \/ v.type = "list" /\ v.elements = <<>>
    \/ v.type = "set"  /\ v.members = {}
    \/ v.type = "hash" /\ DOMAIN v.fields = {}

(***************************************************************************)
(* Commands, after parse_command and the handlers' argument parsing.      *)
(* Pushes and the multi-member commands take a non-empty sequence.        *)
(***************************************************************************)
NonEmptySeq(S) == Seq(S) \ {<<>>}

SetCommand ==
    [name : {"SET"}, key : Keys, value : Payload,
     unit : {"none", "EX", "PX"}, time : Int64, nx : BOOLEAN, xx : BOOLEAN]
DeltaCommand  == [name : {"INCRBY", "DECRBY"}, key : Keys, delta : Int64]
KeyCommand    == [name : {"GET", "LPOP", "RPOP", "LLEN", "SMEMBERS", "SCARD",
                          "HGETALL", "HLEN", "TTL", "PERSIST"}, key : Keys]
ArgsCommand   == [name : {"LPUSH", "RPUSH", "SADD", "SREM", "HDEL"},
                  key : Keys, args : NonEmptySeq(Payload)]
FieldCommand  == [name : {"SISMEMBER", "HGET", "HEXISTS"},
                  key : Keys, field : Payload]
HsetCommand   == [name : {"HSET"}, key : Keys,
                  pairs : NonEmptySeq(Payload \X Payload)]
RangeCommand  == [name : {"LRANGE"}, key : Keys, start : Payload, stop : Payload]
IndexCommand  == [name : {"LINDEX"}, key : Keys, index : Payload]
ExpireCommand == [name : {"EXPIRE"}, key : Keys, secs : Int64]
EachCommand   == [name : {"DEL", "EXISTS"}, keys : NonEmptySeq(Keys)]
ServerCommand == [name : {"PING", "INFO"}]

OneKeyCommand == SetCommand \cup DeltaCommand \cup KeyCommand \cup ArgsCommand
                 \cup FieldCommand \cup HsetCommand \cup RangeCommand
                 \cup IndexCommand \cup ExpireCommand
AnyCommand    == OneKeyCommand \cup EachCommand \cup ServerCommand

(***************************************************************************)
(* Replies: <<kind, payload>>.  "throw" is std::bad_variant_access leaving *)
(* the handler; the connection turns it into a generic error.             *)
(***************************************************************************)
Ok        == <<"ok", 0>>
Null      == <<"null", 0>>
WrongType == <<"err", "WRONGTYPE">>
NotAnInt  == <<"err", "not an integer">>
Overflow  == <<"err", "overflow">>
Invalid   == <<"err", "invalid">>
Throw     == <<"throw", "bad_variant_access">>
Number(n) == <<"int", n>>
Bulk(x)   == <<"bulk", x>>
Array(x)  == <<"array", x>>

(***************************************************************************)
(* What a handler decides after its read.                                 *)
(***************************************************************************)
Keep(r)        == [write |-> "none", value |-> None, ttl |-> 0, reply |-> r]
Put(v, ttl, r) == [write |-> "put", value |-> v, ttl |-> ttl, reply |-> r]
Drop(r)        == [write |-> "del", value |-> None, ttl |-> 0, reply |-> r]

\* store.set without a ttl, or store.del when the collection became empty.
PutAlways(v, r) == Put(v, 0, r)
PutOrDrop(v, r) == IF IsEmpty(v) THEN Drop(r) ELSE Put(v, 0, r)

\* A read that needs a value of the given type: `absent` when there is none.
Typed(cur, type, absent, found) ==
    IF cur = None THEN Keep(absent)
    ELSE IF cur.type # type THEN Keep(WrongType)
    ELSE found

(***************************************************************************)
(* Strings (string_cmds.cpp).                                             *)
(***************************************************************************)
\* cmd_set's argument checks.
SetRejected(c) == \/ c.unit # "none" /\ c.time <= 0
                  \/ c.nx /\ c.xx

\* A time to live is in milliseconds; adding it to a time makes it ticks.
SetTtl(c) == CASE c.unit = "none" -> 0
               [] c.unit = "PX"   -> c.time
               [] OTHER           -> c.time * MsPerSecond

Ticks(ms) == ms * TicksPerMs

CmdSet(c, cur) ==
    IF (c.nx /\ cur # None) \/ (c.xx /\ cur = None)
    THEN Keep(Null)
    ELSE Put(Str(c.value), SetTtl(c), Ok)

CmdGet(c, cur) ==
    IF cur = None THEN Keep(Null)
    ELSE IF cur.type # "string" THEN Keep(Throw)
    ELSE Keep(Bulk(cur.data))

\* The guard of apply_delta; the code evaluates the differences in int64_t.
WouldOverflowLoose(num, delta) ==
    \/ delta > 0 /\ num > IntMax - delta + 1
    \/ delta < 0 /\ num < IntMin - delta
WouldOverflow(num, delta) ==
    \/ delta > 0 /\ num > IntMax - delta
    \/ delta < 0 /\ num < IntMin - delta

ApplyDelta(cur, delta) ==
    LET num == IF cur = None THEN 0 ELSE cur.data IN
    IF cur # None /\ cur.type # "string" THEN Keep(Throw)
    ELSE IF num \notin Int64 THEN Keep(NotAnInt)
    ELSE IF WouldOverflow(num, delta) THEN Keep(Overflow)
    ELSE Put(Str(num + delta), 0, Number(num + delta))

\* INCR and DECR are INCRBY with 1 and -1; DECRBY refuses INT64_MIN.
CmdDelta(c, cur) ==
    IF c.name = "INCRBY" THEN ApplyDelta(cur, c.delta)
    ELSE ApplyDelta(cur, -c.delta)

(***************************************************************************)
(* Lists (list_cmds.cpp).                                                 *)
(***************************************************************************)
Backwards(s) == [i \in 1..Len(s) |-> s[Len(s) + 1 - i]]

CmdPush(c, cur) ==
    LET old  == IF cur = None THEN <<>> ELSE cur.elements
        new  == IF c.name = "LPUSH" THEN Backwards(c.args) \o old
                ELSE old \o c.args
    IN  IF cur # None /\ cur.type # "list" THEN Keep(WrongType)
        ELSE Put(List(new), 0, Number(Len(new)))

CmdPop(c, cur) ==
    LET s    == cur.elements
        n    == Len(s)
        left == c.name = "LPOP"
    IN  Typed(cur, "list", Null,
            IF s = <<>> THEN Keep(Null)
            ELSE PutOrDrop(List(IF left THEN Tail(s) ELSE SubSeq(s, 1, n - 1)),
                           Bulk(IF left THEN Head(s) ELSE s[n])))

CmdLlen(c, cur) ==
    Typed(cur, "list", Number(0), Keep(Number(Len(cur.elements))))

\* The 0-based bounds of LRANGE after normalisation.
RangeStartShort(start, n) ==
    LET s == IF start < 0 THEN start + n - 1 ELSE start
    IN  IF s < 0 THEN 0 ELSE s
RangeStart(start, n) ==
    LET s == IF start < 0 THEN start + n ELSE start
    IN  IF s < 0 THEN 0 ELSE s
RangeStop(stop, n) ==
    LET s == IF stop < 0 THEN stop + n ELSE stop
    IN  IF s >= n THEN n - 1 ELSE s

CmdLrange(c, cur) ==
    LET s == cur.elements
        n == Len(s)
    IN  Typed(cur, "list", Array(<<>>),
            IF c.start \notin Int64 \/ c.stop \notin Int64 THEN Keep(NotAnInt)
            ELSE Keep(Array(SubSeq(s, RangeStart(c.start, n) + 1,
                                      RangeStop(c.stop, n) + 1))))

CmdLindex(c, cur) ==
    LET s == cur.elements
        i == IF c.index < 0 THEN c.index + Len(s) ELSE c.index
    IN  Typed(cur, "list", Null,
            IF c.index \notin Int64 THEN Keep(NotAnInt)
            ELSE IF i < 0 \/ i >= Len(s) THEN Keep(Null)
            ELSE Keep(Bulk(s[i + 1])))

(***************************************************************************)
(* Sets (set_cmds.cpp).                                                   *)
(***************************************************************************)
Elements(s) == {s[i] : i \in DOMAIN s}

CmdSadd(c, cur) ==
    LET old == IF cur = None THEN {} ELSE cur.members IN
    IF cur # None /\ cur.type # "set" THEN Keep(WrongType)
    ELSE Put(Set(old \cup Elements(c.args)), 0,
             Number(Cardinality(Elements(c.args) \ old)))

CmdSrem(c, cur) ==
    Typed(cur, "set", Number(0),
        PutOrDrop(Set(cur.members \ Elements(c.args)),
                  Number(Cardinality(cur.members \cap Elements(c.args)))))

CmdSmembers(c, cur) ==
    Typed(cur, "set", Array({}), Keep(Array(cur.members)))

CmdSismember(c, cur) ==
    Typed(cur, "set", Number(0),
        Keep(Number(IF c.field \in cur.members THEN 1 ELSE 0)))

CmdScard(c, cur) ==
    Typed(cur, "set", Number(0), Keep(Number(Cardinality(cur.members))))

(***************************************************************************)
(* Hashes (hash_cmds.cpp).  A field given twice keeps its last value.     *)
(***************************************************************************)
LastPair(pairs, f) ==
    CHOOSE i \in DOMAIN pairs :
        /\ pairs[i][1] = f
        /\ \A j \in DOMAIN pairs : pairs[j][1] = f => j <= i

CmdHset(c, cur) ==
    LET old   == IF cur = None THEN <<>> ELSE cur.fields
        given == {c.pairs[i][1] : i \in DOMAIN c.pairs}
        new   == [f \in DOMAIN old \cup given |->
                     IF f \in given THEN c.pairs[LastPair(c.pairs, f)][2]
                     ELSE old[f]]
    IN  IF cur # None /\ cur.type # "hash" THEN Keep(WrongType)
        ELSE Put(Hash(new), 0, Number(Cardinality(given \ DOMAIN old)))

CmdHget(c, cur) ==
    Typed(cur, "hash", Null,
        IF c.field \in DOMAIN cur.fields THEN Keep(Bulk(cur.fields[c.field]))
        ELSE Keep(Null))

CmdHdel(c, cur) ==
    LET left == DOMAIN cur.fields \ Elements(c.args) IN
    Typed(cur, "hash", Number(0),
        PutOrDrop(Hash([f \in left |-> cur.fields[f]]),
                  Number(Cardinality(DOMAIN cur.fields \cap Elements(c.args)))))

CmdHgetall(c, cur) ==
    Typed(cur, "hash", Array({}),
        Keep(Array({<<f, cur.fields[f]>> : f \in DOMAIN cur.fields})))

CmdHexists(c, cur) ==
    Typed(cur, "hash", Number(0),
        Keep(Number(IF c.field \in DOMAIN cur.fields THEN 1 ELSE 0)))

CmdHlen(c, cur) ==
    Typed(cur, "hash", Number(0), Keep(Number(Cardinality(DOMAIN cur.fields))))

(***************************************************************************)
(* Dispatcher::dispatch: the handler registered under the command's name. *)
(***************************************************************************)
Handle(c, cur) ==
    CASE c.name = "SET"                  -> CmdSet(c, cur)
      [] c.name = "GET"                  -> CmdGet(c, cur)
      [] c.name \in {"INCRBY", "DECRBY"} -> CmdDelta(c, cur)
      [] c.name \in {"LPUSH", "RPUSH"}   -> CmdPush(c, cur)
      [] c.name \in {"LPOP", "RPOP"}     -> CmdPop(c, cur)
      [] c.name = "LLEN"                 -> CmdLlen(c, cur)
      [] c.name = "LRANGE"               -> CmdLrange(c, cur)
      [] c.name = "LINDEX"               -> CmdLindex(c, cur)
      [] c.name = "SADD"                 -> CmdSadd(c, cur)
      [] c.name = "SREM"                 -> CmdSrem(c, cur)
      [] c.name = "SMEMBERS"             -> CmdSmembers(c, cur)
      [] c.name = "SISMEMBER"            -> CmdSismember(c, cur)
      [] c.name = "SCARD"                -> CmdScard(c, cur)
      [] c.name = "HSET"                 -> CmdHset(c, cur)
      [] c.name = "HGET"                 -> CmdHget(c, cur)
      [] c.name = "HDEL"                 -> CmdHdel(c, cur)
      [] c.name = "HGETALL"              -> CmdHgetall(c, cur)
      [] c.name = "HEXISTS"              -> CmdHexists(c, cur)
      [] c.name = "HLEN"                 -> CmdHlen(c, cur)

\* Commands answered before the store is touched: argument checks, PING.
Immediate(c) ==
    \/ c.name = "PING"
    \/ c.name = "SET" /\ SetRejected(c)
    \/ c.name = "EXPIRE" /\ c.secs < 0
    \/ c.name = "DECRBY" /\ c.delta = IntMin

ImmediateReply(c) == CASE c.name = "PING"   -> Ok
                       [] c.name = "DECRBY" -> Overflow
                       [] OTHER             -> Invalid
=============================================================================
