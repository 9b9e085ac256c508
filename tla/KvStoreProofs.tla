--------------------------- MODULE KvStoreProofs ----------------------------
(***************************************************************************)
(* Proofs about KvStore for all keys, payloads, commands and bounds.      *)
(***************************************************************************)
EXTENDS KvStore, Induction

(***************************************************************************)
(* Durations: seconds, milliseconds and ticks of the clock.               *)
(***************************************************************************)

\* A duration in a coarser unit is no smaller number in a finer one, and is zero
\* in both or in neither.
LEMMA FinerUnits ==
  \A n \in Nat : /\ n * MsPerSecond \in Nat /\ (n * MsPerSecond = 0 <=> n = 0)
                 /\ Ticks(n) \in Nat /\ n <= Ticks(n)
  BY TickAssumption DEF Ticks

\* Multiplication by a positive number keeps the order.
LEMMA ProductOrder ==
  \A a, b \in Int, c \in Nat \ {0} : /\ a * c \in Int
                                     /\ a <= b => a * c <= b * c
                                     /\ a < b => a * c < b * c
  OBVIOUS

\* What truncating division by a positive number leaves.
LEMMA Quotient ==
  \A a \in Nat, c \in Nat \ {0} : /\ a \div c \in Nat
                                  /\ (a \div c) * c <= a
                                  /\ a < (a \div c) * c + c
  OBVIOUS

(***************************************************************************)
(* Values.                                                                *)
(***************************************************************************)

\* Each constructor of Value yields a Value of its type.
LEMMA ValueConstructors ==
  /\ \A x \in Payload : Str(x) \in Value /\ ~IsEmpty(Str(x))
  /\ \A s \in Seq(Payload) : List(s) \in Value /\ (IsEmpty(List(s)) <=> s = <<>>)
  /\ \A S \in SUBSET Payload : Set(S) \in Value /\ (IsEmpty(Set(S)) <=> S = {})
  /\ \A F \in SUBSET Payload : \A h \in [F -> Payload] :
        Hash(h) \in Value /\ (IsEmpty(Hash(h)) <=> F = {})
<1>1. \A x \in Payload : Str(x) \in Value /\ ~IsEmpty(Str(x))
  BY Zenon DEF Str, Value, StringValue, IsEmpty
<1>2. \A s \in Seq(Payload) : List(s) \in Value /\ (IsEmpty(List(s)) <=> s = <<>>)
  BY Zenon DEF List, Value, ListValue, IsEmpty
<1>3. \A S \in SUBSET Payload : Set(S) \in Value /\ (IsEmpty(Set(S)) <=> S = {})
  BY Zenon DEF Set, Value, SetValue, IsEmpty
<1>4. \A F \in SUBSET Payload : \A h \in [F -> Payload] :
        Hash(h) \in Value /\ (IsEmpty(Hash(h)) <=> F = {})
  BY Zenon DEF Hash, Value, HashValue, IsEmpty
<1>5. QED
  BY <1>1, <1>2, <1>3, <1>4, Zenon

\* The type tag of a Value tells what it holds.
LEMMA ValueContents ==
  ASSUME NEW v \in Value
  PROVE  /\ v.type \in {"string", "list", "set", "hash"}
         /\ v.type = "string" => v.data \in Payload
         /\ v.type = "list" => v.elements \in Seq(Payload)
         /\ v.type = "set" => v.members \in SUBSET Payload
         /\ v.type = "hash" => \E F \in SUBSET Payload : v.fields \in [F -> Payload]
  BY Zenon DEF Value, StringValue, ListValue, SetValue, HashValue

(***************************************************************************)
(* What the handlers decide.                                              *)
(***************************************************************************)

\* A decision that KvStore can carry out: only a Value is stored, never an empty
\* collection, and only a stored Value gets a time to live.
Decision(o) ==
    /\ o.write \in {"none", "put", "del"}
    /\ o.ttl \in Nat
    /\ o.write = "put" => o.value \in Value /\ ~IsEmpty(o.value)
    /\ o.ttl > 0 => o.write = "put"

\* The ways in which a handler ends are decisions.
LEMMA Decisions ==
  /\ \A r : Decision(Keep(r)) /\ Decision(Drop(r))
  /\ \A r : \A v \in Value, ttl \in Nat : ~IsEmpty(v) => Decision(Put(v, ttl, r))
  /\ \A r : \A v \in Value : Decision(PutOrDrop(v, r))
<1>1. \A r : Decision(Keep(r)) /\ Decision(Drop(r))
  BY DEF Decision, Keep, Drop
<1>2. \A r : \A v \in Value, ttl \in Nat : ~IsEmpty(v) => Decision(Put(v, ttl, r))
  BY Zenon DEF Decision, Put
<1>3. \A r : \A v \in Value : Decision(PutOrDrop(v, r))
  BY <1>1, <1>2, Zenon DEF PutOrDrop
<1>4. QED
  BY <1>1, <1>2, <1>3, Zenon

\* What a handler may have read: nothing, or a Value that is no empty collection.
Readable(cur) == cur # None => cur \in Value /\ ~IsEmpty(cur)

\* A command's name tells its arguments.
LEMMA CommandArguments ==
  ASSUME NEW c \in AnyCommand
  PROVE  /\ c.name = "SET" => c \in SetCommand
         /\ c.name \in {"INCRBY", "DECRBY"} => c \in DeltaCommand
         /\ c.name \in {"LPUSH", "RPUSH", "SADD", "SREM", "HDEL"} => c \in ArgsCommand
         /\ c.name = "HSET" => c \in HsetCommand
         /\ c.name = "EXPIRE" => c \in ExpireCommand
         /\ c.name \in {"DEL", "EXISTS"} => c \in EachCommand
         /\ c.name \in {"PING", "INFO"} => c \in ServerCommand
         /\ c.name \notin {"DEL", "EXISTS", "PING", "INFO"} => c.key \in Keys
  BY Zenon DEF AnyCommand, OneKeyCommand, SetCommand, DeltaCommand, KeyCommand, ArgsCommand,
         FieldCommand, HsetCommand, RangeCommand, IndexCommand, ExpireCommand,
         EachCommand, ServerCommand

\* The strings: SET stores its value with a whole time to live, and a sum that is
\* stored is again an int64_t (string_cmds.cpp:23-152).
LEMMA StringDecisions ==
  ASSUME NEW c \in AnyCommand, NEW cur, Readable(cur)
  PROVE  /\ c.name = "SET" /\ ~SetRejected(c) => Decision(CmdSet(c, cur))
         /\ Decision(CmdGet(c, cur))
         /\ c.name \in {"INCRBY", "DECRBY"} /\ ~Immediate(c) => Decision(CmdDelta(c, cur))
<1>1. ASSUME c.name = "SET", ~SetRejected(c) PROVE Decision(CmdSet(c, cur))
  <2>1. c.value \in Payload /\ c.time \in Int /\ c.unit \in {"none", "EX", "PX"}
    BY <1>1, CommandArguments DEF SetCommand, Int64
  <2>2. c.unit # "none" => c.time > 0
    BY <1>1, <2>1 DEF SetRejected
  <2>3. c.time > 0 => c.time * MsPerSecond \in Nat
    BY <2>1, FinerUnits
  <2>4. SetTtl(c) \in Nat
    BY <2>1, <2>2, <2>3 DEF SetTtl
  <2>5. QED
    BY <2>1, <2>4, Decisions, ValueConstructors, Zenon DEF CmdSet
<1>2. Decision(CmdGet(c, cur))
  BY Decisions, Zenon DEF CmdGet
<1>3. ASSUME NEW d \in -IntMax..IntMax \cup Int64 PROVE Decision(ApplyDelta(cur, d))
  <2> DEFINE num == IF cur = None THEN 0 ELSE cur.data
  <2>1. CASE (cur # None /\ cur.type # "string") \/ num \notin Int64
             \/ WouldOverflow(num, d)
    BY <2>1, Decisions, Zenon DEF ApplyDelta
  <2>2. CASE ~(cur # None /\ cur.type # "string") /\ num \in Int64
             /\ ~WouldOverflow(num, d)
    <3>1. num \in Int /\ d \in Int /\ IntMin <= num /\ num <= IntMax
          /\ IntMax \in Nat /\ IntMin \in Int /\ IntMin < 0
      BY <2>2, IntAssumption DEF Int64, IntMin
    <3> HIDE DEF num
    <3>2. IntMin <= num + d /\ num + d <= IntMax
      BY <2>2, <3>1 DEF WouldOverflow
    <3>3. num + d \in Payload
      BY <3>1, <3>2 DEF Payload, Int64
    <3>4. Decision(Put(Str(num + d), 0, Number(num + d)))
      BY <3>3, Decisions, ValueConstructors, Zenon
    <3>5. ApplyDelta(cur, d) = Put(Str(num + d), 0, Number(num + d))
      BY <2>2, Zenon DEF ApplyDelta, num
    <3>6. QED
      BY <3>4, <3>5, Zenon
  <2>3. QED
    BY <2>1, <2>2, Zenon
<1>4. ASSUME c.name \in {"INCRBY", "DECRBY"}, ~Immediate(c)
      PROVE  Decision(CmdDelta(c, cur))
  <2>1. c.delta \in Int64
    BY <1>4, CommandArguments, Zenon DEF DeltaCommand
  <2>2. c.name = "DECRBY" => -c.delta \in -IntMax..IntMax
    BY <1>4, <2>1, IntAssumption DEF Immediate, Int64, IntMin
  <2>3. QED
    BY <1>3, <1>4, <2>1, <2>2, Zenon DEF CmdDelta
<1>5. QED
  BY <1>1, <1>2, <1>4, Zenon

\* A typed read decides by the branch for its type.
LEMMA TypedDecision ==
  ASSUME NEW cur, NEW type, NEW absent, NEW found,
         cur # None /\ cur.type = type => Decision(found)
  PROVE  Decision(Typed(cur, type, absent, found))
  BY Decisions, Zenon DEF Typed

\* The lists (list_cmds.cpp:33-176).
LEMMA ListDecisions ==
  ASSUME NEW c \in AnyCommand, NEW cur, Readable(cur)
  PROVE  /\ c.name \in {"LPUSH", "RPUSH"} => Decision(CmdPush(c, cur))
         /\ Decision(CmdPop(c, cur))
         /\ Decision(CmdLlen(c, cur)) /\ Decision(CmdLrange(c, cur))
         /\ Decision(CmdLindex(c, cur))
<1>1. ASSUME c.name \in {"LPUSH", "RPUSH"}, cur # None => cur.type = "list"
      PROVE  Decision(CmdPush(c, cur))
  <2> DEFINE old == IF cur = None THEN <<>> ELSE cur.elements
             new == IF c.name = "LPUSH" THEN Backwards(c.args) \o old
                    ELSE old \o c.args
  <2>1. c.args \in Seq(Payload) /\ c.args # <<>>
    BY <1>1, CommandArguments, Zenon DEF ArgsCommand, NonEmptySeq
  <2>2. Len(c.args) \in Nat /\ Len(c.args) > 0
    BY <2>1
  <2>3. Backwards(c.args) \in Seq(Payload) /\ Len(Backwards(c.args)) = Len(c.args)
    BY <2>1 DEF Backwards
  <2>4. old \in Seq(Payload)
    BY <1>1, ValueContents DEF Readable
  <2> HIDE DEF old
  <2>5. new \in Seq(Payload) /\ new # <<>>
    BY <2>1, <2>2, <2>3, <2>4
  <2> HIDE DEF new
  <2>6. CmdPush(c, cur) = Put(List(new), 0, Number(Len(new)))
    BY <1>1, Zenon DEF CmdPush, new, old
  <2>7. QED
    BY <2>5, <2>6, Decisions, ValueConstructors, Zenon
<1>2. ASSUME c.name \in {"LPUSH", "RPUSH"}, ~(cur # None => cur.type = "list")
      PROVE  Decision(CmdPush(c, cur))
  BY <1>2, Decisions, Zenon DEF CmdPush
<1>3. Decision(CmdPop(c, cur))
  <2> DEFINE s == cur.elements
             rest == IF c.name = "LPOP" THEN Tail(s) ELSE SubSeq(s, 1, Len(s) - 1)
             elem == IF c.name = "LPOP" THEN Head(s) ELSE s[Len(s)]
             found == IF s = <<>> THEN Keep(Null) ELSE PutOrDrop(List(rest), Bulk(elem))
  <2>1. ASSUME cur # None, cur.type = "list", s # <<>> PROVE Decision(found)
    <3>1. s \in Seq(Payload)
      BY <2>1, ValueContents, Zenon DEF Readable
    <3> HIDE DEF s
    <3>2. Tail(s) \in Seq(Payload)
      BY <2>1, <3>1
    <3>3. SubSeq(s, 1, Len(s) - 1) \in Seq(Payload)
      BY <3>1
    <3>4. rest \in Seq(Payload)
      BY <3>2, <3>3, Zenon
    <3> HIDE DEF rest, elem
    <3>5. QED
      BY <2>1, <3>4, Decisions, ValueConstructors, Zenon
  <2>2. cur # None /\ cur.type = "list" => Decision(found)
    BY <2>1, Decisions, Zenon
  <2>3. CmdPop(c, cur) = Typed(cur, "list", Null, found)
    BY Zenon DEF CmdPop
  <2> HIDE DEF found
  <2>4. QED
    BY <2>2, <2>3, TypedDecision, Zenon
<1>4. Decision(CmdLlen(c, cur)) /\ Decision(CmdLrange(c, cur))
      /\ Decision(CmdLindex(c, cur))
  BY Decisions, Zenon DEF CmdLlen, CmdLrange, CmdLindex, Typed
<1>5. QED
  BY <1>1, <1>2, <1>3, <1>4, Zenon

\* The sets (set_cmds.cpp:29-103).
LEMMA SetDecisions ==
  ASSUME NEW c \in AnyCommand, NEW cur, Readable(cur)
  PROVE  /\ c.name = "SADD" => Decision(CmdSadd(c, cur))
         /\ c.name = "SREM" => Decision(CmdSrem(c, cur))
         /\ Decision(CmdSmembers(c, cur)) /\ Decision(CmdSismember(c, cur))
         /\ Decision(CmdScard(c, cur))
<1>1. ASSUME c.name \in {"SADD", "SREM"} PROVE c.args \in Seq(Payload) \ {<<>>}
  BY <1>1, CommandArguments, Zenon DEF ArgsCommand, NonEmptySeq
<1>2. ASSUME c.name = "SADD", cur # None => cur.type = "set"
      PROVE  Decision(CmdSadd(c, cur))
  <2> DEFINE old == IF cur = None THEN {} ELSE cur.members
             new == old \cup Elements(c.args)
  <2>1. Elements(c.args) \subseteq Payload /\ Elements(c.args) # {}
    <3>1. c.args \in Seq(Payload) /\ 1 \in DOMAIN c.args
      BY <1>1, <1>2
    <3>2. \A i \in DOMAIN c.args : c.args[i] \in Payload
      BY <3>1
    <3>3. QED
      BY <3>1, <3>2, Zenon DEF Elements
  <2>2. old \subseteq Payload
    BY <1>2, ValueContents, Zenon DEF Readable
  <2>3. new \in SUBSET Payload /\ new # {}
    BY <2>1, <2>2, Zenon
  <2>4. CmdSadd(c, cur) = Put(Set(new), 0, Number(Cardinality(Elements(c.args) \ old)))
    BY <1>2, Zenon DEF CmdSadd
  <2> HIDE DEF new, old
  <2>5. QED
    BY <2>3, <2>4, Decisions, ValueConstructors
<1>3. ASSUME c.name = "SADD", ~(cur # None => cur.type = "set")
      PROVE  Decision(CmdSadd(c, cur))
  BY <1>3, Decisions, Zenon DEF CmdSadd
<1>4. ASSUME c.name = "SREM" PROVE Decision(CmdSrem(c, cur))
  <2>1. cur # None /\ cur.type = "set" => cur.members \ Elements(c.args) \in SUBSET Payload
    BY ValueContents, Zenon DEF Readable
  <2>2. QED
    BY <2>1, Decisions, ValueConstructors, Zenon DEF CmdSrem, Typed
<1>5. Decision(CmdSmembers(c, cur)) /\ Decision(CmdSismember(c, cur))
      /\ Decision(CmdScard(c, cur))
  BY Decisions, Zenon DEF CmdSmembers, CmdSismember, CmdScard, Typed
<1>6. QED
  BY <1>2, <1>3, <1>4, <1>5, Zenon

\* HSET: a given field has a last pair (hash_cmds.cpp:40-43).
LEMMA LastPairExists ==
  ASSUME NEW pairs \in Seq(Payload \X Payload), NEW i \in DOMAIN pairs
  PROVE  LastPair(pairs, pairs[i][1]) \in DOMAIN pairs
<1> DEFINE f == pairs[i][1]
           n == Len(pairs)
           S == {j \in 1..n : pairs[j][1] = f}
<1>1. n \in Nat /\ DOMAIN pairs = 1..n /\ i \in S
  OBVIOUS
<1>2. S \subseteq 0..n /\ S # {}
  BY <1>1
<1>3. PICK m \in S : \A j \in S : j <= m
  <2> HIDE DEF S, n
  <2> QED
    BY <1>1, <1>2, Greatest, Zenon
<1>4. QED
  BY <1>1, <1>3, Zenon DEF LastPair

\* The hashes (hash_cmds.cpp:29-119).
LEMMA HashDecisions ==
  ASSUME NEW c \in AnyCommand, NEW cur, Readable(cur)
  PROVE  /\ c.name = "HSET" => Decision(CmdHset(c, cur))
         /\ c.name = "HDEL" => Decision(CmdHdel(c, cur))
         /\ Decision(CmdHget(c, cur)) /\ Decision(CmdHgetall(c, cur))
         /\ Decision(CmdHexists(c, cur)) /\ Decision(CmdHlen(c, cur))
<1>1. ASSUME c.name = "HSET", cur # None => cur.type = "hash"
      PROVE  Decision(CmdHset(c, cur))
  <2> DEFINE old == IF cur = None THEN <<>> ELSE cur.fields
             given == {c.pairs[i][1] : i \in DOMAIN c.pairs}
             val(f) == IF f \in given THEN c.pairs[LastPair(c.pairs, f)][2] ELSE old[f]
             new == [f \in DOMAIN old \cup given |-> val(f)]
  <2>1. c.pairs \in Seq(Payload \X Payload) /\ c.pairs # <<>>
    BY <1>1, CommandArguments, Zenon DEF HsetCommand, NonEmptySeq
  <2>2. given \subseteq Payload /\ given # {}
    <3>1. 1 \in DOMAIN c.pairs
      BY <2>1
    <3>2. \A i \in DOMAIN c.pairs : c.pairs[i] \in Payload \X Payload
      BY <2>1
    <3>3. \A i \in DOMAIN c.pairs : c.pairs[i][1] \in Payload
      BY <3>2, Zenon
    <3>4. QED
      BY <3>1, <3>3, Zenon
  <2>3. DOMAIN old \subseteq Payload /\ \A f \in DOMAIN old : old[f] \in Payload
    <3>1. CASE cur = None
      BY <3>1
    <3>2. CASE cur # None
      <4>1. PICK F \in SUBSET Payload : cur.fields \in [F -> Payload]
        BY <1>1, <3>2, ValueContents, Zenon DEF Readable
      <4>2. QED
        BY <3>2, <4>1, Zenon
    <3>3. QED
      BY <3>1, <3>2, Zenon
  <2> HIDE DEF old
  <2>4. \A f \in given : val(f) \in Payload
    <3>1. SUFFICES ASSUME NEW i \in DOMAIN c.pairs
                   PROVE  c.pairs[LastPair(c.pairs, c.pairs[i][1])][2] \in Payload
      BY Zenon
    <3>2. LastPair(c.pairs, c.pairs[i][1]) \in DOMAIN c.pairs
      BY <2>1, LastPairExists, Zenon
    <3>3. QED
      BY <2>1, <3>2
  <2>5. CmdHset(c, cur) = Put(Hash(new), 0, Number(Cardinality(given \ DOMAIN old)))
    BY <1>1, Zenon DEF CmdHset, old
  <2> HIDE DEF given
  <2>6. \A f \in DOMAIN old : val(f) \in Payload
    BY <2>3, <2>4, Zenon
  <2> DEFINE D == DOMAIN old \cup given
  <2>7. D \in SUBSET Payload /\ D # {} /\ \A f \in D : val(f) \in Payload
    BY <2>2, <2>3, <2>4, <2>6, Zenon
  <2> HIDE DEF val
  <2>8. new \in [D -> Payload]
    BY <2>7, Zenon
  <2> HIDE DEF new, D
  <2>9. Hash(new) \in Value /\ ~IsEmpty(Hash(new))
    BY <2>7, <2>8, ValueConstructors, Zenon
  <2>10. QED
    BY <2>5, <2>9, Decisions, Zenon
<1>2. ASSUME c.name = "HSET", ~(cur # None => cur.type = "hash")
      PROVE  Decision(CmdHset(c, cur))
  BY <1>2, Decisions, Zenon DEF CmdHset
<1>3. ASSUME c.name = "HDEL" PROVE Decision(CmdHdel(c, cur))
  <2> DEFINE left == DOMAIN cur.fields \ Elements(c.args)
             new == [f \in left |-> cur.fields[f]]
  <2>1. ASSUME cur # None, cur.type = "hash" PROVE Hash(new) \in Value
    <3>1. PICK F \in SUBSET Payload : cur.fields \in [F -> Payload]
      BY <2>1, ValueContents, Zenon DEF Readable
    <3>2. left \in SUBSET Payload /\ new \in [left -> Payload]
      BY <3>1, Zenon
    <3> HIDE DEF left, new
    <3>3. QED
      BY <3>2, ValueConstructors, Zenon
  <2> DEFINE found == PutOrDrop(Hash(new),
                          Number(Cardinality(DOMAIN cur.fields \cap Elements(c.args))))
  <2>2. CmdHdel(c, cur) = Typed(cur, "hash", Number(0), found)
    BY Zenon DEF CmdHdel
  <2> HIDE DEF new
  <2>3. cur # None /\ cur.type = "hash" => Decision(found)
    BY <2>1, Decisions, Zenon
  <2> HIDE DEF found
  <2>4. QED
    BY <2>2, <2>3, TypedDecision, Zenon
<1>4. Decision(CmdHget(c, cur)) /\ Decision(CmdHgetall(c, cur))
      /\ Decision(CmdHexists(c, cur)) /\ Decision(CmdHlen(c, cur))
  BY Decisions, Zenon DEF CmdHget, CmdHgetall, CmdHexists, CmdHlen, Typed
<1>5. QED
  BY <1>1, <1>2, <1>3, <1>4, Zenon

\* The commands whose handler starts with a read of its key.
Reading(c) ==
    c.name \notin {"DEL", "EXISTS", "EXPIRE", "TTL", "PERSIST", "INFO", "PING"}

\* Whatever the command and whatever it read, its handler makes a decision that
\* KvStore can carry out.
LEMMA HandleDecision ==
  ASSUME NEW c \in AnyCommand, Reading(c), ~Immediate(c), NEW cur, Readable(cur)
  PROVE  Decision(Handle(c, cur))
<1>1. c.name \in {"SET", "GET", "INCRBY", "DECRBY", "LPUSH", "RPUSH", "LPOP", "RPOP",
                  "LLEN", "LRANGE", "LINDEX", "SADD", "SREM", "SMEMBERS", "SISMEMBER",
                  "SCARD", "HSET", "HGET", "HDEL", "HGETALL", "HEXISTS", "HLEN"}
  BY Zenon DEF Reading, AnyCommand, OneKeyCommand, SetCommand, DeltaCommand, KeyCommand,
         ArgsCommand, FieldCommand, HsetCommand, RangeCommand, IndexCommand,
         ExpireCommand, EachCommand, ServerCommand
<1>2. c.name = "SET" => ~SetRejected(c)
  BY Zenon DEF Immediate
<1>3. QED
  BY <1>1, <1>2, StringDecisions, ListDecisions, SetDecisions, HashDecisions, Zenon DEF Handle

(***************************************************************************)
(* The inductive invariant.  TypeOK is not inductive by itself: what a    *)
(* step stores depends on the command and on the decision of its handler, *)
(* and EXPIRE sets a deadline on an entry that it found in an earlier     *)
(* step and that must still be there.                                     *)
(***************************************************************************)
Busy == pc \notin {"idle", "destructor", "destroyed"}

InHandler ==
    /\ Busy => cmd \in Commands /\ cmd \in AnyCommand
    /\ pc = "read" => Reading(cmd) /\ ~Immediate(cmd)
    /\ Busy /\ pc \notin {"each", "size"} => cmd.key \in Keys
    /\ pc = "each" => cmd.keys \in Seq(Keys) /\ index \in 1..Len(cmd.keys)
    /\ pc # "each" => index = 1
    /\ pc \in {"expire", "expire_set"} => cmd.secs \in Nat
    /\ pc \in {"clock", "put"} => ~IsEmpty(todo.value)
    /\ pc \in Locked => data[cmd.key] # None

Inv == TypeOK /\ NoEmptyCollection /\ InHandler

\* The store starts empty.
LEMMA InitInv == Init => Inv
<1> SUFFICES ASSUME Init PROVE Inv
  BY Zenon
<1>1. TypeOK
  BY Zenon DEF Init, TypeOK, Points
<1>2. NoEmptyCollection
  BY Zenon DEF Init, NoEmptyCollection
<1>3. InHandler
  BY Zenon DEF Init, InHandler, Busy, Locked
<1>4. QED
  BY <1>1, <1>2, <1>3, Zenon DEF Inv

\* A handler that returns leaves its locals as they were before it was entered.
LEMMA FinishInv ==
  ASSUME Inv, NEW r, Finish(r), data' \in [Keys -> Entry \cup {None}], NoEmptyCollection',
         now' \in Nat, UNCHANGED thread
  PROVE  Inv'
  BY Zenon DEF Inv, TypeOK, InHandler, Busy, Points, Locked, Finish, thread

\* A command enters its handler with the arguments its first call needs.
LEMMA DispatchInv == ASSUME Inv, NEW c \in Commands, Dispatch(c) PROVE Inv'
<1> USE DEF Inv
<1>0. data' = data /\ now' = now /\ UNCHANGED thread /\ pc = "idle"
  BY Zenon DEF Dispatch, store
<1>1. CASE Immediate(c)
  <2>1. Finish(ImmediateReply(c))
    BY <1>1, Zenon DEF Dispatch
  <2>2. data' \in [Keys -> Entry \cup {None}] /\ NoEmptyCollection' /\ now' \in Nat
    BY <1>0, Zenon DEF TypeOK, NoEmptyCollection
  <2>3. QED
    BY <1>0, <2>1, <2>2, FinishInv, Zenon
<1>2. CASE ~Immediate(c)
  <2>0. /\ pc' = FirstCall(c) /\ cmd' = c /\ began' = now
        /\ UNCHANGED <<todo, deadline, index, count>>
    BY <1>2, Zenon DEF Dispatch
  <2>1. c \in AnyCommand /\ index = 1
    BY <1>0, CommandsAssumption, Zenon DEF InHandler
  <2>2. pc' \in {"each", "expire", "ttl", "persist", "size", "read"}
    BY <2>0, Zenon DEF FirstCall
  <2>3. pc' = "read" => Reading(c)
    BY <1>2, <2>0, Zenon DEF FirstCall, Reading, Immediate
  <2>4. pc' \notin {"each", "size"} => c.key \in Keys
    BY <1>2, <2>0, <2>1, CommandArguments, Zenon DEF FirstCall, Immediate
  <2>5. pc' = "each" => c.keys \in Seq(Keys) /\ 1 \in 1..Len(c.keys)
    <3>1. pc' = "each" => c \in EachCommand
      BY <2>0, <2>1, CommandArguments, Zenon DEF FirstCall
    <3>2. c \in EachCommand => c.keys \in Seq(Keys) /\ c.keys # <<>>
      BY Zenon DEF EachCommand, NonEmptySeq
    <3>3. QED
      BY <3>1, <3>2
  <2>6. pc' = "expire" => c.secs \in Nat
    BY <1>2, <2>0, <2>1, CommandArguments
       DEF FirstCall, ExpireCommand, Immediate, Int64, IntMin, IntAssumption
  <2>7. TypeOK'
    BY <1>0, <2>0, <2>2, Zenon DEF TypeOK, Points, thread
  <2>8. NoEmptyCollection'
    BY <1>0, Zenon DEF NoEmptyCollection
  <2>9. InHandler'
    BY <1>2, <2>0, <2>1, <2>2, <2>3, <2>4, <2>5, <2>6, Zenon DEF InHandler, Busy, Locked
  <2>10. QED
    BY <2>7, <2>8, <2>9, Zenon
<1>3. QED
  BY <1>1, <1>2, Zenon

\* What get returns can be decided on.
LEMMA GetReadable == ASSUME Inv, NEW k \in Keys PROVE Readable(Get(k))
<1>1. data[k] # None => data[k].value \in Value /\ ~IsEmpty(data[k].value)
  BY Zenon DEF Inv, TypeOK, NoEmptyCollection, Entry
<1>2. QED
  BY <1>1, Zenon DEF Get, IsLive, Readable

\* So the handler that reads makes a decision.
LEMMA ReadDecision ==
  ASSUME Inv, pc = "read" PROVE Decision(Handle(cmd, Get(cmd.key)))
<1>1. cmd \in AnyCommand /\ Reading(cmd) /\ ~Immediate(cmd) /\ cmd.key \in Keys
  BY Zenon DEF Inv, InHandler, Busy
<1>2. QED
  BY <1>1, GetReadable, HandleDecision, Zenon

\* The read and its decision.
LEMMA ReadInv == ASSUME Inv, Read PROVE Inv'
<1> USE DEF Inv
<1> DEFINE o == Handle(cmd, Get(cmd.key))
<1>0. /\ pc = "read" /\ data' = data /\ now' = now /\ UNCHANGED thread
      /\ \/ o.write = "none" /\ Finish(o.reply)
         \/ /\ o.write # "none" /\ todo' = o
            /\ Continue(IF o.ttl > 0 THEN "clock" ELSE o.write)
            /\ UNCHANGED deadline
  BY Zenon DEF Read, store
<1>1. Decision(o)
  BY <1>0, ReadDecision, Zenon
<1> HIDE DEF o
<1>2. data' \in [Keys -> Entry \cup {None}] /\ NoEmptyCollection' /\ now' \in Nat
  BY <1>0, Zenon DEF TypeOK, NoEmptyCollection
<1>3. CASE o.write = "none" /\ Finish(o.reply)
  BY <1>0, <1>2, <1>3, FinishInv, Zenon
<1>4. CASE /\ o.write # "none" /\ todo' = o
           /\ Continue(IF o.ttl > 0 THEN "clock" ELSE o.write)
           /\ UNCHANGED deadline
  <2>1. pc' \in {"clock", "put", "del"}
    BY <1>1, <1>4, Zenon DEF Continue, Decision
  <2>2. pc' \in {"clock", "put"} => todo'.value \in Value /\ ~IsEmpty(todo'.value)
    BY <1>1, <1>4, Zenon DEF Continue, Decision
  <2>3. todo'.ttl \in Nat
    BY <1>1, <1>4, Zenon DEF Decision
  <2>4. UNCHANGED <<cmd, began, index, count>>
    BY <1>4, Zenon DEF Continue
  <2>5. TypeOK'
    BY <1>0, <1>2, <1>4, <2>1, <2>2, <2>3, <2>4, Zenon DEF TypeOK, Points, thread
  <2>6. InHandler'
    BY <1>0, <2>1, <2>2, <2>4, Zenon DEF InHandler, Busy, Locked
  <2>7. QED
    BY <1>2, <2>5, <2>6, Zenon
<1>5. QED
  BY <1>0, <1>3, <1>4, Zenon

\* KvStore::set stores the decided value with the deadline it computed.
LEMMA SetInv == ASSUME Inv, SetClock \/ SetPut PROVE Inv'
<1> USE DEF Inv
<1>1. CASE SetClock
  <2>1. /\ pc = "clock" /\ pc' = "put" /\ deadline' = now + Ticks(todo.ttl)
        /\ UNCHANGED <<data, now, todo, cmd, began, index, count>> /\ UNCHANGED thread
    BY <1>1, Zenon DEF SetClock, Continue, store
  <2>2. deadline' \in Nat
    <3>1. now \in Nat /\ todo.ttl \in Nat
      BY <2>1, Zenon DEF TypeOK, InHandler, Busy
    <3> QED
      BY <2>1, <3>1, FinerUnits
  <2>3. TypeOK'
    BY <2>1, <2>2, Zenon DEF TypeOK, Points, thread
  <2>4. QED
    BY <2>1, <2>3, Zenon DEF NoEmptyCollection, InHandler, Busy, Locked
<1>2. CASE SetPut
  <2> DEFINE e == [value |-> todo.value, expires_at |-> deadline]
  <2>1. /\ pc = "put" /\ data' = [data EXCEPT ![cmd.key] = e]
        /\ Finish(todo.reply) /\ now' = now /\ UNCHANGED thread
    BY <1>2, Zenon DEF SetPut
  <2>2. cmd.key \in Keys /\ todo.value \in Value /\ ~IsEmpty(todo.value)
        /\ data \in [Keys -> Entry \cup {None}] /\ deadline \in Nat \cup {None}
    BY <2>1, Zenon DEF InHandler, TypeOK, Busy
  <2>3. e \in Entry /\ e.value = todo.value
    BY <2>2, Zenon DEF Entry
  <2> HIDE DEF e
  <2>4. data' \in [Keys -> Entry \cup {None}]
    BY <2>1, <2>2, <2>3, Zenon
  <2>5. NoEmptyCollection'
    BY <2>1, <2>2, <2>3, Zenon DEF NoEmptyCollection
  <2>6. QED
    BY <2>1, <2>4, <2>5, FinishInv, Zenon DEF TypeOK
<1>3. QED
  BY <1>1, <1>2, Zenon

\* The key of an emptied collection goes.
LEMMA DelInv == ASSUME Inv, DelEmptied PROVE Inv'
<1> USE DEF Inv
<1>1. /\ pc = "del" /\ data' = [data EXCEPT ![cmd.key] = None]
      /\ Finish(todo.reply) /\ now' = now /\ UNCHANGED thread
  BY Zenon DEF DelEmptied
<1>2. data \in [Keys -> Entry \cup {None}]
  BY Zenon DEF TypeOK
<1>3. data' \in [Keys -> Entry \cup {None}]
      /\ \A k \in Keys : data'[k] = data[k] \/ data'[k] = None
  BY <1>1, <1>2, Zenon
<1>4. NoEmptyCollection'
  BY <1>3, Zenon DEF NoEmptyCollection
<1>5. QED
  BY <1>1, <1>3, <1>4, FinishInv, Zenon DEF TypeOK

\* One turn of DEL or EXISTS: the index stays within the keys.
LEMMA EachInv == ASSUME Inv, Each PROVE Inv'
<1> USE DEF Inv
<1> DEFINE k == cmd.keys[index]
           total == count + (IF IsLive(k) THEN 1 ELSE 0)
<1>1. /\ pc = "each" /\ now' = now /\ UNCHANGED thread
      /\ data' = IF cmd.name = "DEL" THEN [data EXCEPT ![k] = None] ELSE data
      /\ IF index = Len(cmd.keys) THEN Finish(Number(total))
         ELSE /\ count' = total /\ index' = index + 1
              /\ UNCHANGED <<cmd, pc, todo, deadline, reply, began>>
  BY Zenon DEF Each
<1>2. cmd.keys \in Seq(Keys) /\ index \in 1..Len(cmd.keys)
      /\ data \in [Keys -> Entry \cup {None}]
  BY <1>1, Zenon DEF InHandler, TypeOK
<1>3. total \in Nat
  BY DEF TypeOK
<1> HIDE DEF total, k
<1>4. data' \in [Keys -> Entry \cup {None}]
      /\ \A j \in Keys : data'[j] = data[j] \/ data'[j] = None
  BY <1>1, <1>2, Zenon
<1>5. NoEmptyCollection'
  BY <1>4, Zenon DEF NoEmptyCollection
<1>6. CASE index = Len(cmd.keys)
  BY <1>1, <1>4, <1>5, <1>6, FinishInv, Zenon DEF TypeOK
<1>7. CASE index # Len(cmd.keys)
  <2>1. index' \in 1..Len(cmd.keys) /\ index' \in Nat
    BY <1>1, <1>2, <1>7
  <2>2. UNCHANGED <<cmd, pc, todo, deadline, reply, began>> /\ count' = total
    BY <1>1, <1>7, Zenon
  <2>3. TypeOK'
    BY <1>1, <1>3, <1>4, <2>1, <2>2, Zenon DEF TypeOK, thread
  <2>4. InHandler'
    BY <1>1, <2>1, <2>2, Zenon DEF InHandler, Busy, Locked
  <2>5. QED
    BY <1>5, <2>3, <2>4, Zenon
<1>8. QED
  BY <1>6, <1>7, Zenon

\* EXPIRE, TTL and PERSIST change the deadline of an entry that is there.
LEMMA DeadlineInv ==
  ASSUME Inv, ExpireCheck \/ ExpireSet \/ TtlCheck \/ TtlClock \/ Persist
  PROVE  Inv'
<1> USE DEF Inv
<1>0. data \in [Keys -> Entry \cup {None}] /\ now \in Nat
  BY Zenon DEF TypeOK
<1>1. ASSUME data' = data, now' = now, UNCHANGED thread, NEW r, Finish(r) PROVE Inv'
  BY <1>0, <1>1, FinishInv, Zenon DEF NoEmptyCollection
<1>2. ASSUME data' = data, now' = now, UNCHANGED thread, UNCHANGED <<todo, deadline>>,
             NEW p \in Locked, Continue(p), IsLive(cmd.key), pc \in {"expire", "ttl"},
             p = "expire_set" => pc = "expire"
      PROVE  Inv'
  <2>1. pc' = p /\ UNCHANGED <<cmd, began, index, count>> /\ data[cmd.key] # None
    BY <1>2, Zenon DEF Continue, IsLive
  <2>2. TypeOK'
    BY <1>2, <2>1, Zenon DEF TypeOK, Points, Locked, thread
  <2>3. InHandler'
    BY <1>2, <2>1, Zenon DEF InHandler, Busy, Locked
  <2>4. QED
    BY <1>2, <2>2, <2>3, Zenon DEF NoEmptyCollection
<1>3. ASSUME NEW t \in Nat \cup {None}, cmd.key \in Keys, data[cmd.key] # None,
             data' = [data EXCEPT ![cmd.key].expires_at = t], now' = now,
             UNCHANGED thread, NEW r, Finish(r)
      PROVE  Inv'
  <2> DEFINE e == [data[cmd.key] EXCEPT !.expires_at = t]
  <2>1. data[cmd.key] \in Entry
    BY <1>0, <1>3, Zenon
  <2>2. e \in Entry /\ e.value = data[cmd.key].value
    BY <2>1, Zenon DEF Entry
  <2>3. data' = [data EXCEPT ![cmd.key] = e]
    BY <1>3, Zenon
  <2> HIDE DEF e
  <2>4. data' \in [Keys -> Entry \cup {None}]
    BY <1>0, <1>3, <2>2, <2>3, Zenon
  <2>5. NoEmptyCollection'
    BY <1>0, <1>3, <2>2, <2>3, Zenon DEF NoEmptyCollection
  <2>6. QED
    BY <1>0, <1>3, <2>4, <2>5, FinishInv, Zenon
<1>4. CASE ExpireCheck
  BY <1>1, <1>2, <1>4, Zenon DEF ExpireCheck, store, Locked
<1>5. CASE ExpireSet
  <2>1. pc = "expire_set"
    BY <1>5, Zenon DEF ExpireSet
  <2>2. cmd.key \in Keys /\ data[cmd.key] # None /\ cmd.secs \in Nat
    BY <2>1, Zenon DEF InHandler, Busy, Locked
  <2>3. now + Ticks(ExpireTtl) \in Nat
    BY <1>0, <2>2, FinerUnits DEF ExpireTtl
  <2>4. QED
    BY <1>3, <1>5, <2>2, <2>3, Zenon DEF ExpireSet
<1>6. CASE TtlCheck
  BY <1>1, <1>2, <1>6, Zenon DEF TtlCheck, store, Locked
<1>7. CASE TtlClock
  BY <1>1, <1>7, Zenon DEF TtlClock, store
<1>8. CASE Persist
  <2>1. pc = "persist"
    BY <1>8, Zenon DEF Persist
  <2>2. cmd.key \in Keys
    BY <2>1, Zenon DEF InHandler, Busy
  <2>3. QED
    BY <1>1, <1>3, <1>8, <2>2, Zenon DEF Persist, IsLive
<1>9. QED
  BY <1>4, <1>5, <1>6, <1>7, <1>8, Zenon

\* The sweep removes entries, and none while a handler holds the lock.
LEMMA SweeperInv == ASSUME Inv, Sweeper PROVE Inv'
<1> USE DEF Inv
<1>1. CASE SweeperTest \/ SweeperWake
  BY <1>1 DEF SweeperTest, SweeperWake, TypeOK, NoEmptyCollection, InHandler, Busy, store,
              handler
<1>2. CASE Sweep
  <2>1. /\ pc \notin Locked /\ UNCHANGED <<now, stop>> /\ UNCHANGED handler
        /\ sweeper' = "test"
        /\ data' = [k \in Keys |-> IF data[k] # None /\ IsExpired(data[k]) THEN None
                                   ELSE data[k]]
    BY <1>2, Zenon DEF Sweep
  <2>2. data' \in [Keys -> Entry \cup {None}]
        /\ \A k \in Keys : data'[k] = data[k] \/ data'[k] = None
    BY <2>1, Zenon DEF TypeOK
  <2>3. TypeOK'
    BY <2>1, <2>2, Zenon DEF TypeOK, handler
  <2>4. NoEmptyCollection'
    BY <2>2, Zenon DEF NoEmptyCollection
  <2>5. InHandler'
    BY <2>1, Zenon DEF InHandler, Busy, handler
  <2>6. QED
    BY <2>3, <2>4, <2>5, Zenon
<1>3. QED
  BY <1>1, <1>2, Zenon DEF Sweeper

\* Reading the size, the clock, and the end of the process.
LEMMA OtherInv == ASSUME Inv, Size \/ Destructor \/ Join \/ Tick PROVE Inv'
<1> USE DEF Inv
<1>1. CASE Size
  BY <1>1, FinishInv, Zenon DEF Size, store, TypeOK, NoEmptyCollection
<1>2. CASE Destructor
  BY <1>2, Zenon DEF Destructor, store, TypeOK, Points, NoEmptyCollection, InHandler, Busy, Locked
<1>3. CASE Join
  BY <1>3, Zenon DEF Join, thread, TypeOK, Points, NoEmptyCollection, InHandler, Busy, Locked
<1>4. CASE Tick
  BY <1>4 DEF Tick, handler, thread, TypeOK, NoEmptyCollection, InHandler, Busy
<1>5. QED
  BY <1>1, <1>2, <1>3, <1>4, Zenon

(***************************************************************************)
(* The theorems.                                                          *)
(***************************************************************************)

\* No step of a handler, the expiry thread or the clock leaves the invariant.
LEMMA NextInv == Inv /\ [Next]_vars => Inv'
<1> SUFFICES ASSUME Inv, [Next]_vars PROVE Inv'
  BY Zenon
<1>1. CASE UNCHANGED vars
  BY <1>1 DEF vars, Inv, TypeOK, NoEmptyCollection, InHandler, Busy
<1>2. CASE Over
  BY <1>1, <1>2, Zenon DEF Over
<1>3. CASE Handler
  BY <1>3, ReadInv, SetInv, DelInv, EachInv, DeadlineInv, OtherInv, Zenon DEF Handler
<1>4. CASE \E c \in Commands : Dispatch(c)
  BY <1>4, DispatchInv, Zenon
<1>5. QED
  BY <1>1, <1>2, <1>3, <1>4, SweeperInv, OtherInv, Zenon DEF Next

\* Inv holds in every reachable state.
THEOREM Invariance == Spec => []Inv
  BY InitInv, NextInv, PTL DEF Spec

\* Type correctness of the store: whatever the commands, what is stored is a Value;
\* in particular a counter never leaves int64_t (string_cmds.cpp:103-107).
THEOREM TypeCorrect == Spec => []TypeOK
<1>1. Inv => TypeOK
  BY Zenon DEF Inv
<1>2. QED
  BY <1>1, Invariance, PTL

\* No empty list, set or hash is ever stored (list_cmds.cpp:80-83, set_cmds.cpp:61-64,
\* hash_cmds.cpp:75-78).
THEOREM CollectionsNonEmpty == Spec => []NoEmptyCollection
<1>1. Inv => NoEmptyCollection
  BY Zenon DEF Inv
<1>2. QED
  BY <1>1, Invariance, PTL

\* The expiry thread and the clock never take a live key before its deadline
\* (kv_store.cpp:121-134).
THEOREM NoEarlyLapse == Spec => LapsesOnTime
<1> DEFINE OnTime(k) == IsLive(k) /\ ~IsLive(k)' =>
                          data[k].expires_at # None /\ now' >= data[k].expires_at
<1>1. Inv /\ [Next]_vars => [UNCHANGED handler => \A k \in Keys : OnTime(k)]_vars
  <2> SUFFICES ASSUME Inv, Next, UNCHANGED handler, NEW k \in Keys, IsLive(k), ~IsLive(k)'
               PROVE  data[k].expires_at # None /\ now' >= data[k].expires_at
    BY Zenon
  <2> USE DEF Inv, handler
  <2>1. data[k] # None /\ data[k] \in Entry /\ now \in Nat
    BY Zenon DEF TypeOK, IsLive
  <2>2. ASSUME data' = data, now' \in Nat
        PROVE  data[k].expires_at # None /\ now' >= data[k].expires_at
    BY <2>1, <2>2, Zenon DEF IsLive, IsExpired
  <2>3. CASE Tick
    <3>1. data' = data /\ now' \in Nat
      BY <2>1, <2>3 DEF Tick
    <3> QED
      BY <2>2, <3>1, Zenon
  <2>4. CASE Sweep
    BY <2>1, <2>4, Zenon DEF Sweep, IsLive, IsExpired
  <2>5. CASE SweeperTest \/ SweeperWake \/ Over \/ \E c \in Commands : Dispatch(c)
    BY <2>1, <2>2, <2>5, Zenon DEF SweeperTest, SweeperWake, Over, Dispatch, store, vars
  <2>6. CASE Handler \/ Destructor \/ Join
    <3>0. Read => pc' # pc
      BY ReadDecision, Zenon DEF Read, Finish, Continue, Decision
    <3>1. SetClock \/ SetPut \/ DelEmptied => pc' # pc
      BY Zenon DEF SetClock, SetPut, DelEmptied, Finish, Continue
    <3>2. Each => pc' # pc \/ index' # index
      <4>1. index \in Nat
        BY Zenon DEF TypeOK
      <4> QED
        BY <4>1 DEF Each, Finish
    <3>3. ExpireCheck \/ ExpireSet => pc' # pc
      BY Zenon DEF ExpireCheck, ExpireSet, Finish, Continue
    <3>4. TtlCheck \/ TtlClock => pc' # pc
      BY Zenon DEF TtlCheck, TtlClock, Finish, Continue
    <3>5. Persist \/ Size \/ Destructor \/ Join => pc' # pc
      BY Zenon DEF Persist, Size, Destructor, Join, Finish
    <3>6. pc' # pc \/ index' # index
      BY <2>6, <3>0, <3>1, <3>2, <3>3, <3>4, <3>5, Zenon DEF Handler
    <3> QED
      BY <3>6, Zenon
  <2>7. QED
    BY <2>3, <2>4, <2>5, <2>6, Zenon DEF Next, Sweeper
<1>2. QED
  BY <1>1, Invariance, PTL DEF Spec, LapsesOnTime

\* A cut of a list within its end is the elements at consecutive positions.
LEMMA Slice ==
  ASSUME NEW s \in Seq(Payload), NEW from \in Nat, NEW to \in Int, to < Len(s)
  PROVE  LET out == SubSeq(s, from + 1, to + 1)
         IN  \E d \in 0..Len(s) : /\ from + 1..to + 1 = d + 1..d + Len(out)
                                  /\ \A i \in 1..Len(out) : out[i] = s[d + i]
<1> DEFINE out == SubSeq(s, from + 1, to + 1)
           m == from + 1
           n == to + 1
<1>1. m \in Int /\ n \in Int /\ \A i \in m..n : s[i] \in Payload
  OBVIOUS
<1>2. /\ Len(SubSeq(s, m, n)) = IF m <= n THEN n - m + 1 ELSE 0
      /\ \A i \in 1..n - m + 1 : SubSeq(s, m, n)[i] = s[m + i - 1]
  <2> HIDE DEF m, n
  <2> QED  BY <1>1
<1>3. /\ Len(out) = IF from <= to THEN to - from + 1 ELSE 0
      /\ \A i \in 1..to - from + 1 : out[i] = s[from + 1 + i - 1]
  <2>1. n - m + 1 = to - from + 1 /\ (m <= n <=> from <= to)
    OBVIOUS
  <2>2. QED
    BY <1>2, <2>1, Zenon
<1> HIDE DEF out
<1>4. \A i \in 1..to - from + 1 : out[i] = s[from + i]
  <2>1. \A i \in Int : from + 1 + i - 1 = from + i
    OBVIOUS
  <2>2. QED
    BY <1>3, <2>1
<1>5. CASE from <= to
  <2>1. from \in 0..Len(s) /\ from + Len(out) = to + 1 /\ Len(out) = to - from + 1
    BY <1>3, <1>5
  <2>2. QED
    BY <1>4, <2>1, Zenon DEF out
<1>6. CASE ~(from <= to)
  <2>1. Len(out) = 0
    BY <1>3, <1>6, Zenon
  <2>2. from + 1..to + 1 = 0 + 1..0 + Len(out)
    BY <1>6, <2>1
  <2>3. 0 \in 0..Len(s) /\ \A i \in 1..Len(out) : out[i] = s[0 + i]
    BY <2>1
  <2>4. QED
    BY <2>2, <2>3, Zenon DEF out
<1>7. QED
  BY <1>5, <1>6, Zenon

\* The clamped bounds of LRANGE cut the list where the two indices say
\* (list_cmds.cpp:141-151).
LEMMA RangeCut ==
  ASSUME NEW s \in Seq(Payload), NEW start \in Int, NEW end \in Int
  PROVE  LET n   == Len(s)
             out == SubSeq(s, RangeStart(start, n) + 1, RangeStop(end, n) + 1)
         IN  \E d \in 0..n : /\ Asked(start, end, n) = d + 1..d + Len(out)
                             /\ \A i \in 1..Len(out) : out[i] = s[d + i]
<1> DEFINE n == Len(s)
           from == RangeStart(start, n)
           to == RangeStop(end, n)
<1>1. n \in Nat
  OBVIOUS
<1>2. from \in Nat /\ to \in Int /\ to < n
  BY <1>1 DEF RangeStart, RangeStop
<1>3. Asked(start, end, n) = from + 1..to + 1
  <2>1. \A p \in 1..n : /\ Position(start, n) <= p - 1 <=> from + 1 <= p
                        /\ p - 1 <= Position(end, n) <=> p <= to + 1
    BY <1>1 DEF Position, RangeStart, RangeStop
  <2>2. \A p \in from + 1..to + 1 : p \in 1..n
    BY <1>1, <1>2
  <2> HIDE DEF n, from, to
  <2>3. \A p : p \in Asked(start, end, n) <=> p \in from + 1..to + 1
    BY <1>1, <1>2, <2>1, <2>2 DEF Asked
  <2>4. QED
    BY <2>3, Zenon DEF Asked
<1>4. QED
  <2> HIDE DEF from, to
  <2>1. \E d \in 0..n :
          /\ from + 1..to + 1 = d + 1..d + Len(SubSeq(s, from + 1, to + 1))
          /\ \A i \in 1..Len(SubSeq(s, from + 1, to + 1)) :
                 SubSeq(s, from + 1, to + 1)[i] = s[d + i]
    <3>1. from \in Nat /\ to \in Int /\ to < Len(s)
      BY <1>2, Zenon
    <3>2. QED
      BY <3>1, Slice, Zenon
  <2>2. QED
    BY <1>3, <2>1, Zenon DEF from, to

\* What CmdLindex makes of an index, against the position it names.
LEMMA IndexAsked ==
  ASSUME NEW n \in Nat, NEW k \in Int
  PROVE  LET i == IF k < 0 THEN k + n ELSE k
         IN  /\ Asked(k, k, n) = IF i < 0 \/ i >= n THEN {} ELSE {i + 1}
<1> DEFINE i == IF k < 0 THEN k + n ELSE k
<1>1. i \in Int /\ Position(k, n) = i
  BY DEF Position
<1> HIDE DEF i
<1>2. Asked(k, k, n) = {p \in 1..n : i <= p - 1 /\ p - 1 <= i}
  BY <1>1, Zenon DEF Asked
<1>3. {p \in 1..n : i <= p - 1 /\ p - 1 <= i} = IF i < 0 \/ i >= n THEN {} ELSE {i + 1}
  BY <1>1
<1> QED
  BY <1>2, <1>3, Zenon DEF i

\* For every list and every pair of indices LRANGE answers exactly the elements
\* asked for (list_cmds.cpp:122-153), and LINDEX the one (155-181).
THEOREM RangeAnswers == Spec => RangeExact
<1> DEFINE cur == Get(cmd.key)
           Cut == \E d \in 0..Len(cur.elements) :
                    /\ Asked(cmd.start, cmd.stop, Len(cur.elements)) = d + 1..d + Len(reply'[2])
                    /\ \A i \in 1..Len(reply'[2]) : reply'[2][i] = cur.elements[d + i]
           Asks == pc = "read" /\ pc' = "idle" /\ cmd.name = "LRANGE"
                     /\ cur # None /\ reply'[1] = "array"
<1>1. Inv /\ [Next]_vars => [Asks => Cut]_vars
  <2> SUFFICES ASSUME Inv, Next, Asks PROVE Cut
    BY Zenon
  <2>1. Read
    BY Zenon DEF Next, Handler, Sweeper, Dispatch, SetClock, SetPut, DelEmptied, Each,
           ExpireCheck, ExpireSet, TtlCheck, TtlClock, Persist, Size, SweeperTest,
           SweeperWake, Sweep, Destructor, Join, Tick, Over, vars, handler
  <2>2. cmd.key \in Keys /\ cur \in Value
    <3>1. cmd.key \in Keys
      BY Zenon DEF Inv, InHandler, Busy
    <3>2. QED
      BY <3>1, GetReadable, Zenon DEF Readable
  <2>3. Handle(cmd, cur) = CmdLrange(cmd, cur)
    BY Zenon DEF Handle
  <2> HIDE DEF cur
  <2>4. reply' = CmdLrange(cmd, cur).reply
    <3>1. CmdLrange(cmd, cur).write = "none"
      BY Zenon DEF CmdLrange, Typed, Keep
    <3>2. QED
      BY <2>1, <2>3, <3>1, Zenon DEF Read, Finish, cur
  <2>5. /\ cur.type = "list" /\ cmd.start \in Int /\ cmd.stop \in Int
        /\ reply'[2] = SubSeq(cur.elements,
                              RangeStart(cmd.start, Len(cur.elements)) + 1,
                              RangeStop(cmd.stop, Len(cur.elements)) + 1)
    <3> DEFINE cut == SubSeq(cur.elements, RangeStart(cmd.start, Len(cur.elements)) + 1,
                                           RangeStop(cmd.stop, Len(cur.elements)) + 1)
    <3> HIDE DEF cut
    <3>1. CmdLrange(cmd, cur).reply =
            IF cur.type # "list" THEN WrongType
            ELSE IF cmd.start \notin Int64 \/ cmd.stop \notin Int64 THEN NotAnInt
            ELSE Array(cut)
      BY Zenon DEF CmdLrange, Typed, Keep, cut
    <3>2. WrongType[1] # "array" /\ NotAnInt[1] # "array" /\ Array(cut)[2] = cut
      BY Zenon DEF WrongType, NotAnInt, Array
    <3>3. cur.type = "list" /\ cmd.start \in Int64 /\ cmd.stop \in Int64 /\ reply'[2] = cut
      BY <2>4, <3>1, <3>2, Zenon
    <3>4. QED
      BY <3>3, IntAssumption DEF cut, Int64, IntMin
  <2>6. cur.elements \in Seq(Payload)
    BY <2>2, <2>5, ValueContents, Zenon
  <2>7. QED
    <3> DEFINE s == cur.elements
               out == SubSeq(s, RangeStart(cmd.start, Len(s)) + 1,
                                RangeStop(cmd.stop, Len(s)) + 1)
    <3>1. \E d \in 0..Len(s) : /\ Asked(cmd.start, cmd.stop, Len(s)) = d + 1..d + Len(out)
                               /\ \A i \in 1..Len(out) : out[i] = s[d + i]
      <4> HIDE DEF s
      <4>1. s \in Seq(Payload) /\ cmd.start \in Int /\ cmd.stop \in Int
        BY <2>5, <2>6, Zenon DEF s
      <4>2. QED
        BY <4>1, RangeCut, Zenon
    <3>2. reply'[2] = out
      BY <2>5, Zenon
    <3> HIDE DEF out
    <3>3. QED
      BY <3>1, <3>2, Zenon
<1> DEFINE at == Asked(cmd.index, cmd.index, Len(cur.elements))
           Names == pc = "read" /\ pc' = "idle" /\ cmd.name = "LINDEX"
                      /\ cur # None /\ reply'[1] \in {"bulk", "null"}
           There == IF at = {} THEN reply' = Null
                    ELSE \A p \in at : reply' = Bulk(cur.elements[p])
<1>2. Inv /\ [Next]_vars => [Names => There]_vars
  <2> SUFFICES ASSUME Inv, Next, Names PROVE There
    BY Zenon
  <2>1. Read
    BY Zenon DEF Next, Handler, Sweeper, Dispatch, SetClock, SetPut, DelEmptied, Each,
           ExpireCheck, ExpireSet, TtlCheck, TtlClock, Persist, Size, SweeperTest,
           SweeperWake, Sweep, Destructor, Join, Tick, Over, vars, handler
  <2>2. cmd.key \in Keys /\ cur \in Value
    <3>1. cmd.key \in Keys
      BY Zenon DEF Inv, InHandler, Busy
    <3>2. QED
      BY <3>1, GetReadable, Zenon DEF Readable
  <2>3. Handle(cmd, cur) = CmdLindex(cmd, cur)
    BY Zenon DEF Handle
  <2> HIDE DEF cur
  <2>4. reply' = CmdLindex(cmd, cur).reply
    <3>1. CmdLindex(cmd, cur).write = "none"
      BY Zenon DEF CmdLindex, Typed, Keep
    <3>2. QED
      BY <2>1, <2>3, <3>1, Zenon DEF Read, Finish, cur
  <2> DEFINE s == cur.elements
             i == IF cmd.index < 0 THEN cmd.index + Len(s) ELSE cmd.index
  <2>5. CmdLindex(cmd, cur).reply =
          IF cur.type # "list" THEN WrongType
          ELSE IF cmd.index \notin Int64 THEN NotAnInt
          ELSE IF i < 0 \/ i >= Len(s) THEN Null ELSE Bulk(s[i + 1])
    BY Zenon DEF CmdLindex, Typed, Keep
  <2> HIDE DEF i
  <2>6. WrongType[1] \notin {"bulk", "null"} /\ NotAnInt[1] \notin {"bulk", "null"}
    BY Zenon DEF WrongType, NotAnInt
  <2>7. /\ cur.type = "list" /\ cmd.index \in Int64
        /\ reply' = IF i < 0 \/ i >= Len(s) THEN Null ELSE Bulk(s[i + 1])
    BY <2>4, <2>5, <2>6, Zenon
  <2>8. Len(s) \in Nat /\ cmd.index \in Int
    <3>1. s \in Seq(Payload)
      BY <2>2, <2>7, ValueContents, Zenon
    <3> HIDE DEF s
    <3> QED
      BY <2>7, <3>1, IntAssumption DEF Int64, IntMin
  <2>9. at = IF i < 0 \/ i >= Len(s) THEN {} ELSE {i + 1}
    BY <2>8, IndexAsked, Zenon DEF i
  <2> QED
    BY <2>7, <2>9, Zenon
<1> DEFINE Exact == pc = "read" /\ pc' = "idle" /\ cur # None =>
                      /\ cmd.name = "LRANGE" /\ reply'[1] = "array" => Cut
                      /\ cmd.name = "LINDEX" /\ reply'[1] \in {"bulk", "null"} => There
<1>3. [Asks => Cut]_vars /\ [Names => There]_vars => [Exact]_vars
  <2> HIDE DEF Cut, There, cur
  <2> QED
    BY Zenon
<1>4. RangeExact <=> [][Exact]_vars
  BY Zenon DEF RangeExact
<1> QED
  BY <1>1, <1>2, <1>3, <1>4, Invariance, PTL DEF Spec

(***************************************************************************)
(* A second invariant, for what a handler does over several steps: where  *)
(* it is tells its command, its decision and deadline are still those of  *)
(* its read, and the times it has seen lie in order.                      *)
(***************************************************************************)
Planned ==
    /\ Busy => began <= now /\ reply = Null
    /\ pc \in {"read", "clock", "put", "del"} => Reading(cmd)
    /\ pc = "each" => cmd.name \in {"DEL", "EXISTS"}
    /\ pc \in {"expire", "expire_set"} => cmd.name = "EXPIRE"
    /\ pc \in {"ttl", "ttl_clock"} => cmd.name = "TTL"
    /\ pc = "persist" => cmd.name = "PERSIST"
    /\ pc = "size" => cmd.name = "INFO"
    /\ pc \in {"clock", "put", "del"} =>
          /\ todo.reply[1] # "time"
          /\ cmd.name = "SET" => pc # "del" /\ todo.ttl = SetTtl(cmd)
    /\ pc = "clock" => todo.ttl > 0
    /\ pc # "put" => deadline = None
    /\ pc = "put" => IF todo.ttl = 0 THEN deadline = None
                     ELSE deadline \in began + Ticks(todo.ttl)..now + Ticks(todo.ttl)
    /\ pc = "ttl_clock" => /\ data[cmd.key].expires_at # None
                           /\ began < data[cmd.key].expires_at

\* No handler that reads a value answers with a time, and SET stores for the time
\* it was given.
LEMMA HandleReply ==
  ASSUME NEW c \in AnyCommand, Reading(c), NEW cur
  PROVE  LET o == Handle(c, cur) IN
         /\ o.reply[1] # "time"
         /\ c.name = "SET" => /\ o.write \in {"none", "put"}
                              /\ o.write = "put" => o.ttl = SetTtl(c)
                              /\ o.write = "none" => o.reply = Null
<1>1. c.name \in {"SET", "GET", "INCRBY", "DECRBY", "LPUSH", "RPUSH", "LPOP", "RPOP",
                  "LLEN", "LRANGE", "LINDEX", "SADD", "SREM", "SMEMBERS", "SISMEMBER",
                  "SCARD", "HSET", "HGET", "HDEL", "HGETALL", "HEXISTS", "HLEN"}
  BY Zenon DEF Reading, AnyCommand, OneKeyCommand, SetCommand, DeltaCommand, KeyCommand,
         ArgsCommand, FieldCommand, HsetCommand, RangeCommand, IndexCommand,
         ExpireCommand, EachCommand, ServerCommand
<1> USE DEF Keep, Put, Drop, PutOrDrop, Typed, Ok, Null, WrongType, NotAnInt, Overflow,
            Throw, Number, Bulk, Array
<1>2. /\ CmdSet(c, cur).reply[1] # "time" /\ CmdSet(c, cur).write \in {"none", "put"}
      /\ CmdSet(c, cur).write = "put" => CmdSet(c, cur).ttl = SetTtl(c)
      /\ CmdSet(c, cur).write = "none" => CmdSet(c, cur).reply = Null
  BY Zenon DEF CmdSet
<1>3. CmdGet(c, cur).reply[1] # "time" /\ CmdDelta(c, cur).reply[1] # "time"
  BY Zenon DEF CmdGet, CmdDelta, ApplyDelta
<1>4. /\ CmdPush(c, cur).reply[1] # "time" /\ CmdPop(c, cur).reply[1] # "time"
      /\ CmdLlen(c, cur).reply[1] # "time" /\ CmdLrange(c, cur).reply[1] # "time"
      /\ CmdLindex(c, cur).reply[1] # "time"
  BY Zenon DEF CmdPush, CmdPop, CmdLlen, CmdLrange, CmdLindex
<1>5. /\ CmdSadd(c, cur).reply[1] # "time" /\ CmdSrem(c, cur).reply[1] # "time"
      /\ CmdSmembers(c, cur).reply[1] # "time" /\ CmdSismember(c, cur).reply[1] # "time"
      /\ CmdScard(c, cur).reply[1] # "time"
  BY Zenon DEF CmdSadd, CmdSrem, CmdSmembers, CmdSismember, CmdScard
<1>6. /\ CmdHset(c, cur).reply[1] # "time" /\ CmdHget(c, cur).reply[1] # "time"
      /\ CmdHdel(c, cur).reply[1] # "time" /\ CmdHgetall(c, cur).reply[1] # "time"
      /\ CmdHexists(c, cur).reply[1] # "time" /\ CmdHlen(c, cur).reply[1] # "time"
  BY Zenon DEF CmdHset, CmdHget, CmdHdel, CmdHgetall, CmdHexists, CmdHlen
<1> QED
  BY <1>1, <1>2, <1>3, <1>4, <1>5, <1>6, ZenonT(40) DEF Handle

\* A handler that returns plans nothing.
LEMMA FinishPlanned == ASSUME NEW r, Finish(r) PROVE Planned'
  BY Zenon DEF Finish, Planned, Busy

\* A handler plans from its read on, and neither the clock nor the expiry thread
\* upsets its plan.
LEMMA NextPlanned == Inv /\ Planned /\ [Next]_vars => Planned'
<1> SUFFICES ASSUME Inv, Planned, [Next]_vars PROVE Planned'
  BY Zenon
<1>0. now \in Nat /\ began \in Nat /\ (Busy => cmd \in AnyCommand)
  BY Zenon DEF Inv, TypeOK, InHandler
<1>1. ASSUME NEW c \in Commands, Dispatch(c) PROVE Planned'
  <2>1. CASE Immediate(c)
    BY <1>1, <2>1, FinishPlanned, Zenon DEF Dispatch
  <2>2. CASE ~Immediate(c)
    <3>1. /\ pc' = FirstCall(c) /\ cmd' = c /\ began' = now /\ reply' = Null
          /\ UNCHANGED deadline /\ now' = now /\ pc = "idle"
      BY <1>1, <2>2, Zenon DEF Dispatch, store
    <3>2. /\ pc' \in {"each", "expire", "ttl", "persist", "size", "read"}
          /\ pc' = "each" => c.name \in {"DEL", "EXISTS"}
          /\ pc' = "expire" => c.name = "EXPIRE"
          /\ pc' = "ttl" => c.name = "TTL"
          /\ pc' = "persist" => c.name = "PERSIST"
          /\ pc' = "size" => c.name = "INFO"
          /\ pc' = "read" => Reading(c)
      BY <2>2, <3>1, Zenon DEF FirstCall, Reading, Immediate
    <3>3. deadline' = None
      BY <3>1, Zenon DEF Planned
    <3>4. began' <= now' /\ reply' = Null
      BY <1>0, <3>1
    <3>5. /\ pc' \notin {"clock", "put", "del", "expire_set", "ttl_clock"}
          /\ pc' = "each" => cmd'.name \in {"DEL", "EXISTS"}
          /\ pc' = "expire" => cmd'.name = "EXPIRE"
          /\ pc' = "ttl" => cmd'.name = "TTL"
          /\ pc' = "persist" => cmd'.name = "PERSIST"
          /\ pc' = "size" => cmd'.name = "INFO"
          /\ pc' = "read" => Reading(cmd')
      BY <3>1, <3>2, Zenon
    <3> QED
      BY <3>3, <3>4, <3>5, Zenon DEF Planned
  <2> QED
    BY <2>1, <2>2, Zenon
<1>2. CASE Read
  <2> DEFINE o == Handle(cmd, Get(cmd.key))
  <2>1. /\ pc = "read" /\ now' = now
        /\ \/ o.write = "none" /\ Finish(o.reply)
           \/ /\ o.write # "none" /\ todo' = o
              /\ Continue(IF o.ttl > 0 THEN "clock" ELSE o.write)
              /\ UNCHANGED deadline
    BY <1>2, Zenon DEF Read, store
  <2>2. Busy /\ Reading(cmd) /\ cmd \in AnyCommand
    BY <1>0, <2>1, Zenon DEF Planned, Busy
  <2>3. Decision(o)
    BY <2>1, ReadDecision, Zenon
  <2>4. /\ o.reply[1] # "time"
        /\ cmd.name = "SET" => /\ o.write \in {"none", "put"}
                               /\ o.write = "put" => o.ttl = SetTtl(cmd)
    BY <2>2, HandleReply, Zenon
  <2> HIDE DEF o
  <2>5. CASE o.write # "none" /\ todo' = o /\ UNCHANGED deadline
             /\ Continue(IF o.ttl > 0 THEN "clock" ELSE o.write)
    <3>1. /\ pc' = (IF o.ttl > 0 THEN "clock" ELSE o.write)
          /\ UNCHANGED <<cmd, reply, began, now>>
      BY <2>1, <2>5, Zenon DEF Continue
    <3>2. pc' \in {"clock", "put", "del"} /\ (pc' = "clock" <=> todo'.ttl > 0)
          /\ (pc' = "del" => cmd.name # "SET") /\ todo'.ttl \in Nat
      BY <2>3, <2>4, <2>5, <3>1, Zenon DEF Decision
    <3>3. cmd.name = "SET" => todo'.ttl = SetTtl(cmd)
      BY <2>4, <2>5, Zenon
    <3>4. deadline' = None
      BY <2>1, <2>5, Zenon DEF Planned
    <3>5. began' <= now' /\ reply' = Null
      BY <2>2, <3>1, Zenon DEF Planned
    <3>6. /\ pc' \notin {"each", "expire", "expire_set", "ttl", "ttl_clock", "persist", "size"}
          /\ cmd' = cmd /\ Reading(cmd')
      BY <2>2, <3>1, <3>2, Zenon
    <3>7. /\ todo'.reply[1] # "time"
          /\ cmd'.name = "SET" => pc' # "del" /\ todo'.ttl = SetTtl(cmd')
      BY <2>4, <2>5, <3>2, <3>3, <3>6, Zenon
    <3>8. (pc' = "clock" => todo'.ttl > 0) /\ (pc' = "put" => todo'.ttl = 0)
      BY <3>2
    <3> QED
      BY <3>4, <3>5, <3>6, <3>7, <3>8, Zenon DEF Planned
  <2> QED
    BY <2>1, <2>5, FinishPlanned, Zenon
<1>3. CASE SetClock
  <2>1. /\ pc = "clock" /\ pc' = "put" /\ deadline' = now + Ticks(todo.ttl)
        /\ UNCHANGED <<now, todo, cmd, began, reply>>
    BY <1>3, Zenon DEF SetClock, Continue, store
  <2>2. todo.ttl \in Nat /\ todo.ttl > 0 /\ began <= now
    BY <2>1, Zenon DEF Planned, Inv, TypeOK, Busy
  <2>3. deadline' \in began + Ticks(todo.ttl)..now + Ticks(todo.ttl)
    BY <1>0, <2>1, <2>2, FinerUnits
  <2> QED
    BY <2>1, <2>2, <2>3, SMTT(30) DEF Planned, Busy
<1>4. CASE SetPut \/ DelEmptied \/ ExpireSet \/ TtlClock \/ Persist \/ Size
  BY <1>4, FinishPlanned, Zenon DEF SetPut, DelEmptied, ExpireSet, TtlClock, Persist, Size
<1>5. CASE Each
  <2>1. (\E r : Finish(r)) \/ UNCHANGED <<cmd, pc, todo, deadline, reply, began>>
    BY <1>5, Zenon DEF Each
  <2>2. pc = "each" /\ now' = now
    BY <1>5, Zenon DEF Each
  <2> QED
    BY <2>1, <2>2, FinishPlanned, Zenon DEF Planned, Busy
<1>6. CASE ExpireCheck
  <2>1. \/ \E r : Finish(r)
        \/ Continue("expire_set") /\ UNCHANGED <<todo, deadline>>
    BY <1>6, Zenon DEF ExpireCheck
  <2>2. pc = "expire" /\ now' = now
    BY <1>6, Zenon DEF ExpireCheck, store
  <2> QED
    BY <2>1, <2>2, FinishPlanned, Zenon DEF Planned, Busy, Continue
<1>7. CASE TtlCheck
  <2>1. \/ \E r : Finish(r)
        \/ /\ Continue("ttl_clock") /\ UNCHANGED <<todo, deadline>>
           /\ IsLive(cmd.key) /\ data[cmd.key].expires_at # None
    BY <1>7, Zenon DEF TtlCheck
  <2>2. pc = "ttl" /\ now' = now /\ data' = data
    BY <1>7, Zenon DEF TtlCheck, store
  <2>3. began <= now /\ data[cmd.key] \in Entry \cup {None}
    BY <2>2, Zenon DEF Planned, Busy, Inv, TypeOK, InHandler
  <2>4. CASE /\ Continue("ttl_clock") /\ UNCHANGED <<todo, deadline>>
             /\ IsLive(cmd.key) /\ data[cmd.key].expires_at # None
    <3>1. began < data[cmd.key].expires_at
      BY <1>0, <2>3, <2>4 DEF IsLive, IsExpired, Entry
    <3> QED
      BY <2>2, <2>4, <3>1, Zenon DEF Planned, Busy, Continue
  <2> QED
    BY <2>1, <2>4, FinishPlanned, Zenon
<1>8. CASE SweeperTest \/ SweeperWake
  BY <1>8, ZenonT(40) DEF SweeperTest, SweeperWake, store, handler, Planned, Busy
<1>9. CASE Sweep
  BY <1>9, Zenon DEF Sweep, handler, Locked, Planned, Busy
<1>10. CASE Tick
  <2>1. now' = now + 1 /\ data' = data /\ UNCHANGED handler
    BY <1>10, Zenon DEF Tick
  <2>3. /\ cmd' = cmd /\ pc' = pc /\ todo' = todo /\ deadline' = deadline
        /\ reply' = reply /\ began' = began
    BY <2>1, Zenon DEF handler
  <2>2. ASSUME pc = "put", todo.ttl # 0
        PROVE  deadline' \in began' + Ticks(todo'.ttl)..now' + Ticks(todo'.ttl)
    <3> DEFINE x == Ticks(todo.ttl)
    <3>1. x \in Nat
      BY <2>2, FinerUnits, Zenon DEF Inv, TypeOK
    <3>2. deadline \in began + x..now + x
      BY <2>2, Zenon DEF Planned
    <3> HIDE DEF x
    <3>3. deadline \in began + x..(now + 1) + x
      BY <1>0, <3>1, <3>2
    <3> QED
      BY <2>1, <2>3, <3>3, Zenon DEF x
  <2>4. (Busy' <=> Busy) /\ (began <= now => began' <= now')
    BY <1>0, <2>1, <2>3 DEF Busy
  <2>5. pc = "put" => IF todo'.ttl = 0 THEN deadline' = None
                      ELSE deadline' \in began' + Ticks(todo'.ttl)..now' + Ticks(todo'.ttl)
    BY <2>2, <2>3, Zenon DEF Planned
  <2> QED
    BY <2>1, <2>3, <2>4, <2>5, Zenon DEF Planned
<1>11. CASE Destructor \/ Join
  BY <1>11, Zenon DEF Destructor, Join, Planned, Busy
<1>12. CASE UNCHANGED vars
  BY <1>12, Zenon DEF vars, Planned, Busy
<1> QED
  BY <1>1, <1>2, <1>3, <1>4, <1>5, <1>6, <1>7, <1>8, <1>9, <1>10, <1>11, <1>12, Zenon DEF Next, Handler, Sweeper, Over

\* Planned holds in every reachable state.
THEOREM PlansHold == Spec => []Planned
<1>1. Init => Planned
  BY Zenon DEF Init, Planned, Busy
<1> QED
  BY <1>1, NextPlanned, Invariance, PTL DEF Spec

(***************************************************************************)
(* The refinement of AtomicStore.                                         *)
(***************************************************************************)

\* AtomicStore counts as the store does.
LEMMA SameCardinality == \A S : Atomic!Cardinality(S) = Cardinality(S)
  BY Zenon DEF Cardinality, IsFiniteSet, Atomic!Cardinality, Atomic!IsFiniteSet

\* The handler has decided and not yet written.
Writing == {"clock", "put", "del", "expire_set"}

\* What the clients see of the stored entries alone.
LiveMap == [k \in Keys |-> IF IsLive(k) THEN Seen(data[k]) ELSE None]

\* The stage and the result that AtomicStore sees at each point of a handler.
LEMMA StageAt ==
  /\ pc = "idle" => ClientStage = "idle"
  /\ pc \in {"destructor", "destroyed"} => ClientStage = "closed"
  /\ pc \in {"clock", "put", "del", "expire_set", "ttl_clock"} => ClientStage = "done"
  /\ pc \in {"read", "each", "expire", "ttl", "persist", "size"} => ClientStage = "called"
  /\ pc \in {"clock", "put", "del"} => ClientResult = todo.reply
  /\ pc = "expire_set" => ClientResult = Number(1)
  /\ pc = "ttl_clock" => ClientResult = <<"time", 0>>
  /\ pc \notin {"clock", "put", "del", "expire_set", "ttl_clock"} => ClientResult = None
  BY Zenon DEF ClientStage, ClientResult, Locked

\* The same after a step.
LEMMA StageAfter ==
  /\ pc' = "idle" => ClientStage' = "idle"
  /\ pc' \in {"destructor", "destroyed"} => ClientStage' = "closed"
  /\ pc' \in {"clock", "put", "del", "expire_set", "ttl_clock"} => ClientStage' = "done"
  /\ pc' \in {"read", "each", "expire", "ttl", "persist", "size"} => ClientStage' = "called"
  /\ pc' \in {"clock", "put", "del"} => ClientResult' = todo'.reply
  /\ pc' = "expire_set" => ClientResult' = Number(1)
  /\ pc' = "ttl_clock" => ClientResult' = <<"time", 0>>
  /\ pc' \notin {"clock", "put", "del", "expire_set", "ttl_clock"} => ClientResult' = None
  BY Zenon DEF ClientStage, ClientResult, Locked

\* The entry a handler has decided on.
LEMMA EntryAt ==
  /\ pc = "clock" => PendingEntry = [value |-> todo.value, volatile |-> TRUE]
  /\ pc = "put" => PendingEntry = IF deadline # None /\ now >= deadline THEN None
                      ELSE [value |-> todo.value, volatile |-> deadline # None]
  /\ pc = "del" => PendingEntry = None
  /\ pc = "expire_set" => PendingEntry = IF cmd.secs = 0 THEN None
                      ELSE [value |-> data[cmd.key].value, volatile |-> TRUE]
  BY Zenon DEF PendingEntry

\* The same after a step.
LEMMA EntryAfter ==
  /\ pc' = "clock" => PendingEntry' = [value |-> todo'.value, volatile |-> TRUE]
  /\ pc' = "put" => PendingEntry' = IF deadline' # None /\ now' >= deadline' THEN None
                      ELSE [value |-> todo'.value, volatile |-> deadline' # None]
  /\ pc' = "del" => PendingEntry' = None
  /\ pc' = "expire_set" => PendingEntry' = IF cmd'.secs = 0 THEN None
                      ELSE [value |-> data'[cmd'.key].value, volatile |-> TRUE]
  BY Zenon DEF PendingEntry

\* The map AtomicStore sees is the live entries, with the decided entry in the
\* place of the key that is about to be written.
LEMMA MapAt ==
  /\ pc \notin Writing => ClientMap = LiveMap
  /\ pc \in Writing => ClientMap = [LiveMap EXCEPT ![cmd.key] = PendingEntry]
  /\ pc' \notin Writing => ClientMap' = LiveMap'
  /\ pc' \in Writing => ClientMap' = [LiveMap' EXCEPT ![cmd'.key] = PendingEntry']
<1>1. /\ pc \notin Writing => ClientMap = LiveMap
      /\ pc' \notin Writing => ClientMap' = LiveMap'
  BY Zenon DEF ClientMap, LiveMap, Pending, Writing
<1> HIDE DEF PendingEntry
<1>2. pc \in Writing => ClientMap = [LiveMap EXCEPT ![cmd.key] = PendingEntry]
  BY Zenon DEF ClientMap, LiveMap, Pending, Writing
<1>3. pc' \in Writing => ClientMap' = [LiveMap' EXCEPT ![cmd'.key] = PendingEntry']
  BY Zenon DEF ClientMap, LiveMap, Pending, Writing
<1> QED
  BY <1>1, <1>2, <1>3, Zenon

\* An unchanged store shows the same live entries, and what is seen of an entry
\* is never mistaken for a missing key.
LEMMA LiveEntries ==
  /\ data' = data /\ now' = now => LiveMap' = LiveMap
  /\ \A k \in Keys : LiveMap[k] = IF IsLive(k) THEN Seen(data[k]) ELSE None
  /\ Inv => \A k \in Keys : IsLive(k) => Seen(data[k]) # None
<1>1. ASSUME Inv, NEW k \in Keys, IsLive(k) PROVE Seen(data[k]) # None
  <2>1. data[k].value \in Value
    BY <1>1, Zenon DEF Inv, TypeOK, Entry, IsLive
  <2>2. Seen(data[k]) \in [value : Value, volatile : BOOLEAN]
    BY <2>1, Zenon DEF Seen
  <2> QED
    BY <2>2, NoneAssumption, Zenon
<1>2. data' = data /\ now' = now => LiveMap' = LiveMap
  BY Zenon DEF LiveMap, IsLive, IsExpired, Seen
<1>3. \A k \in Keys : LiveMap[k] = IF IsLive(k) THEN Seen(data[k]) ELSE None
  BY Zenon DEF LiveMap
<1> QED
  BY <1>1, <1>2, <1>3, Zenon

\* The live entries after one of them has changed.
LEMMA LiveUpdate ==
  ASSUME NEW key \in Keys, NEW e, LiveMap'[key] = e,
         \A k \in Keys : k # key => LiveMap'[k] = LiveMap[k]
  PROVE  LiveMap' = [LiveMap EXCEPT ![key] = e]
<1>1. /\ LiveMap = [k \in Keys |-> LiveMap[k]]
      /\ LiveMap' = [k \in Keys |-> LiveMap'[k]]
  BY Zenon DEF LiveMap
<1> QED
  BY <1>1, Zenon

\* A handler that returns is a command that returns.
LEMMA FinishRefines == ASSUME NEW r, Finish(r) PROVE Atomic!Finish(r)
  BY StageAfter, Zenon DEF Finish, Atomic!Finish

\* Dispatch calls the command.
LEMMA DispatchRefines ==
  ASSUME Inv, NEW c \in Commands, Dispatch(c) PROVE Atomic!Call(c)
<1>1. pc = "idle" /\ data' = data /\ now' = now
  BY Zenon DEF Dispatch, store
<1>2. ClientStage = "idle"
  BY <1>1, StageAt, Zenon
<1>3. CASE Immediate(c)
  <2>1. Atomic!Finish(ImmediateReply(c)) /\ pc' = "idle"
    BY <1>3, FinishRefines, Zenon DEF Dispatch, Finish
  <2>2. ClientMap' = ClientMap
    BY <1>1, <2>1, MapAt, LiveEntries, Zenon DEF Writing
  <2> QED
    BY <1>2, <1>3, <2>1, <2>2, Zenon DEF Atomic!Call
<1>4. CASE ~Immediate(c)
  <2>1. /\ pc' = FirstCall(c) /\ cmd' = c /\ reply' = Null
        /\ UNCHANGED <<index, count>>
    BY <1>4, Zenon DEF Dispatch
  <2>2. pc' \in {"each", "expire", "ttl", "persist", "size", "read"}
    BY <2>1, Zenon DEF FirstCall
  <2>3. ClientMap' = ClientMap
    BY <1>1, <2>2, MapAt, LiveEntries, Zenon DEF Writing
  <2>4. ClientStage' = "called" /\ ClientResult' = None /\ ClientResult = None
    BY <1>1, <2>2, StageAt, StageAfter, Zenon
  <2> QED
    BY <1>2, <1>4, <2>1, <2>3, <2>4, Zenon DEF Atomic!Call
<1> QED
  BY <1>3, <1>4, Zenon

\* The read and its decision are the instant at which a command on one key takes
\* effect: what the handler decides is what AtomicStore stores.
LEMMA ReadRefines == ASSUME Inv, Planned, Read PROVE Atomic!Perform
<1> DEFINE key == cmd.key
           cur == ClientMap[key]
           o == Handle(cmd, Get(key))
<1>1. /\ pc = "read" /\ data' = data /\ now' = now
      /\ \/ o.write = "none" /\ Finish(o.reply)
         \/ /\ o.write # "none" /\ todo' = o
            /\ Continue(IF o.ttl > 0 THEN "clock" ELSE o.write)
            /\ UNCHANGED deadline
  BY Zenon DEF Read, store
<1>2. key \in Keys /\ Reading(cmd)
  BY <1>1, Zenon DEF Inv, InHandler, Busy
<1>3. Decision(o)
  BY <1>1, ReadDecision, Zenon
<1>4. ClientStage = "called" /\ ClientMap = LiveMap
  BY <1>1, StageAt, MapAt, Zenon DEF Writing
<1>5. Get(key) = IF cur = None THEN None ELSE cur.value
  <2>1. cur = IF IsLive(key) THEN Seen(data[key]) ELSE None
    BY <1>2, <1>4, LiveEntries, Zenon
  <2>2. IsLive(key) => Seen(data[key]) # None
    BY <1>2, LiveEntries, Zenon
  <2> QED
    BY <2>1, <2>2 DEF Get, Seen
<1>6. Handle(cmd, IF cur = None THEN None ELSE cur.value) = o
  BY <1>5, Zenon
<1>7. /\ ClientMap' = [ClientMap EXCEPT ![key] = Atomic!Stored(o, cur)]
      /\ Atomic!Answer(o.reply)
  <2> HIDE DEF o
  <2>1. /\ o.write = "none" => Atomic!Stored(o, cur) = cur
        /\ o.write = "del" => Atomic!Stored(o, cur) = None
        /\ o.write = "put" =>
              Atomic!Stored(o, cur) = [value |-> o.value, volatile |-> o.ttl > 0]
    BY Zenon DEF Atomic!Stored
  <2>2. CASE o.write = "none" /\ Finish(o.reply)
    <3>1. ClientMap' = ClientMap
      BY <1>1, <1>4, <2>2, MapAt, LiveEntries, Zenon DEF Finish, Writing
    <3>2. ClientMap = [ClientMap EXCEPT ![key] = cur]
      BY <1>2, <1>4, Zenon DEF LiveMap
    <3> QED
      BY <2>1, <2>2, <3>1, <3>2, FinishRefines, Zenon DEF Atomic!Answer
  <2>3. CASE /\ o.write # "none" /\ todo' = o
             /\ Continue(IF o.ttl > 0 THEN "clock" ELSE o.write)
             /\ UNCHANGED deadline
    <3>1. /\ pc' \in {"clock", "put", "del"} /\ (pc' = "clock" <=> o.ttl > 0)
          /\ (pc' # "clock" => pc' = o.write)
          /\ UNCHANGED <<cmd, reply, index, count>>
      BY <1>3, <2>3, Zenon DEF Continue, Decision
    <3>2. deadline' = None
      BY <1>1, <2>3, Zenon DEF Planned
    <3>3. PendingEntry' = Atomic!Stored(o, cur)
      <4>1. CASE pc' = "clock"
        <5>1. o.write = "put" /\ (o.ttl > 0) = TRUE
          BY <1>3, <3>1, <4>1, Zenon DEF Decision
        <5>2. PendingEntry' = [value |-> o.value, volatile |-> TRUE]
          BY <2>3, <4>1, EntryAfter, Zenon
        <5> QED
          BY <2>1, <5>1, <5>2, Zenon
      <4>2. CASE pc' = "put"
        <5>1. o.write = "put" /\ (o.ttl > 0) = FALSE
          BY <3>1, <4>2
        <5>2. PendingEntry' = [value |-> o.value, volatile |-> FALSE]
          BY <2>3, <3>2, <4>2, EntryAfter, Zenon
        <5> QED
          BY <2>1, <5>1, <5>2, Zenon
      <4>3. CASE pc' = "del"
        BY <2>1, <3>1, <4>3, EntryAfter, Zenon
      <4> QED
        BY <3>1, <4>1, <4>2, <4>3, Zenon
    <3>4. ClientMap' = [LiveMap' EXCEPT ![cmd'.key] = PendingEntry']
      BY <3>1, MapAt, Zenon DEF Writing
    <3>5. ClientMap' = [ClientMap EXCEPT ![key] = Atomic!Stored(o, cur)]
      BY <1>1, <1>4, <3>1, <3>3, <3>4, LiveEntries, Zenon
    <3>6. ClientStage' = "done" /\ ClientResult' = o.reply
      BY <2>3, <3>1, StageAfter, Zenon
    <3> QED
      BY <3>1, <3>5, <3>6, Zenon DEF Atomic!Answer
  <2> QED
    BY <1>1, <2>2, <2>3, Zenon
<1> QED
  BY <1>2, <1>4, <1>6, <1>7, Zenon DEF Atomic!Perform, Reading

\* KvStore::set's reading of the clock happens after the command took effect, and
\* clients see nothing of it.
LEMMA SetClockRefines ==
  ASSUME Inv, Planned, SetClock PROVE UNCHANGED Atomic!vars
<1>1. /\ pc = "clock" /\ pc' = "put" /\ deadline' = now + Ticks(todo.ttl)
      /\ UNCHANGED <<data, now, todo, cmd, reply, index, count>>
  BY Zenon DEF SetClock, Continue, store
<1>2. now \in Nat /\ todo.ttl \in Nat /\ todo.ttl > 0
  BY <1>1, Zenon DEF Inv, TypeOK, Planned
<1>3. deadline' # None /\ ~(now' >= deadline')
  BY <1>1, <1>2, FinerUnits, NoneAssumption
<1>4. PendingEntry = [value |-> todo.value, volatile |-> TRUE]
  BY <1>1, EntryAt, Zenon
<1>5. PendingEntry' = [value |-> todo'.value, volatile |-> TRUE]
  BY <1>1, <1>3, EntryAfter, Zenon
<1>6. ClientMap' = ClientMap
  BY <1>1, <1>4, <1>5, MapAt, LiveEntries, Zenon DEF Writing
<1>7. UNCHANGED <<ClientStage, ClientResult>>
  BY <1>1, StageAt, StageAfter, Zenon
<1> QED
  BY <1>1, <1>6, <1>7, Zenon DEF Atomic!vars

\* A handler that has decided returns what it decided.
LEMMA WriteReturns ==
  ASSUME NEW r, pc \in Writing, ClientResult = r, r[1] # "time", Finish(r),
         ClientMap' = ClientMap
  PROVE  Atomic!Return
<1>1. ClientStage = "done" /\ r # Atomic!SomeTime
  BY StageAt DEF Writing, Atomic!SomeTime
<1> QED
  BY <1>1, FinishRefines, Zenon DEF Atomic!Return

\* The write of a value, late as it may be, shows what was decided: an entry whose
\* deadline has passed meanwhile is not seen at all.
LEMMA SetPutRefines == ASSUME Inv, Planned, SetPut PROVE Atomic!Return
<1> DEFINE e == [value |-> todo.value, expires_at |-> deadline]
<1>1. /\ pc = "put" /\ pc' = "idle" /\ now' = now /\ Finish(todo.reply)
      /\ data' = [data EXCEPT ![cmd.key] = e]
  BY Zenon DEF SetPut, Finish
<1>2. /\ cmd.key \in Keys /\ data \in [Keys -> Entry \cup {None}]
      /\ todo.value \in Value /\ deadline \in Nat \cup {None} /\ todo.reply[1] # "time"
  BY <1>1, Zenon DEF Inv, InHandler, TypeOK, Busy, Planned
<1>3. e # None
  <2>1. e \in Entry
    BY <1>2, Zenon DEF Entry
  <2> HIDE DEF e
  <2> QED
    BY <2>1, NoneAssumption, Zenon DEF Entry
<1>4. PendingEntry = IF deadline # None /\ now >= deadline THEN None ELSE Seen(e)
  BY <1>1, EntryAt, Zenon DEF Seen
<1>5. LiveMap' = [LiveMap EXCEPT ![cmd.key] = PendingEntry]
  <2>1. ASSUME NEW k \in Keys, k # cmd.key PROVE LiveMap'[k] = LiveMap[k]
    BY <1>1, <1>2, <2>1, Zenon DEF LiveMap, IsLive, IsExpired
  <2>2. LiveMap'[cmd.key] = PendingEntry
    <3>1. data'[cmd.key] = e /\ e.expires_at = deadline
      BY <1>1, <1>2, Zenon
    <3>2. LiveMap'[cmd.key] = IF data'[cmd.key] # None
                                 /\ ~(data'[cmd.key].expires_at # None
                                      /\ now' >= data'[cmd.key].expires_at)
                              THEN Seen(data'[cmd.key]) ELSE None
      BY <1>2, Zenon DEF LiveMap, IsLive, IsExpired, Seen
    <3> HIDE DEF e
    <3> QED
      BY <1>1, <1>3, <1>4, <3>1, <3>2, Zenon
  <2> QED
    BY <1>2, <2>1, <2>2, LiveUpdate, Zenon
<1>6. ClientMap' = ClientMap
  BY <1>1, <1>5, MapAt, Zenon DEF Writing
<1> QED
  BY <1>1, <1>2, <1>6, StageAt, WriteReturns DEF Writing

\* The deletion of an emptied collection shows what was decided.
LEMMA DelRefines == ASSUME Inv, Planned, DelEmptied PROVE Atomic!Return
<1>1. /\ pc = "del" /\ pc' = "idle" /\ now' = now /\ Finish(todo.reply)
      /\ data' = [data EXCEPT ![cmd.key] = None]
  BY Zenon DEF DelEmptied, Finish
<1>2. /\ cmd.key \in Keys /\ data \in [Keys -> Entry \cup {None}]
      /\ todo.reply[1] # "time"
  BY <1>1, Zenon DEF Inv, InHandler, TypeOK, Busy, Planned
<1>3. LiveMap' = [LiveMap EXCEPT ![cmd.key] = None]
  BY <1>1, <1>2, Zenon DEF LiveMap, IsLive, IsExpired
<1>4. ClientMap' = ClientMap
  BY <1>1, <1>3, MapAt, EntryAt, Zenon DEF Writing
<1> QED
  BY <1>1, <1>2, <1>4, StageAt, WriteReturns DEF Writing

\* Each turn of DEL's or EXISTS' loop takes effect on its own key.
LEMMA EachRefines == ASSUME Inv, Planned, Each PROVE Atomic!PerformKey
<1> DEFINE k == cmd.keys[index]
           total == count + (IF IsLive(k) THEN 1 ELSE 0)
<1>1. /\ pc = "each" /\ now' = now
      /\ data' = IF cmd.name = "DEL" THEN [data EXCEPT ![k] = None] ELSE data
      /\ IF index = Len(cmd.keys)
         THEN Finish(Number(total))
         ELSE /\ count' = total
              /\ index' = index + 1
              /\ UNCHANGED <<cmd, pc, todo, deadline, reply, began>>
  BY Zenon DEF Each
<1>2. /\ k \in Keys /\ data \in [Keys -> Entry \cup {None}]
      /\ cmd.name \in {"DEL", "EXISTS"}
  BY <1>1, SMTT(30) DEF Inv, InHandler, TypeOK, Planned
<1>3. pc' \in {"idle", "each"}
  BY <1>1, Zenon DEF Finish
<1>4. ClientStage = "called" /\ ClientMap = LiveMap /\ ClientMap' = LiveMap'
  BY <1>1, <1>3, StageAt, MapAt, Zenon DEF Writing
<1>5. LiveMap' = IF cmd.name = "DEL" THEN [LiveMap EXCEPT ![k] = None] ELSE LiveMap
  <2>1. CASE cmd.name = "DEL"
    <3>1. data' = [data EXCEPT ![k] = None]
      BY <1>1, <2>1, Zenon
    <3> HIDE DEF k
    <3> QED
      BY <1>1, <1>2, <2>1, <3>1, Zenon DEF LiveMap, IsLive, IsExpired
  <2>2. CASE cmd.name # "DEL"
    BY <1>1, <2>2, LiveEntries, Zenon
  <2> QED
    BY <2>1, <2>2, Zenon
<1>6. total = count + (IF ClientMap[k] = None THEN 0 ELSE 1)
  BY <1>2, <1>4, LiveEntries, Zenon
<1>7. IF index = Len(cmd.keys)
      THEN Atomic!Finish(Number(total))
      ELSE /\ count' = total
           /\ index' = index + 1
           /\ UNCHANGED <<ClientStage, cmd, ClientResult, reply>>
  BY <1>1, FinishRefines, StageAt, StageAfter, Zenon
<1> HIDE DEF total
<1>8. Number(total) = Number(total)
  BY Zenon
<1> QED
  BY <1>2, <1>4, <1>5, <1>6, <1>7, <1>8, Zenon DEF Atomic!PerformKey

\* EXPIRE takes effect when it finds its key.
LEMMA ExpireCheckRefines ==
  ASSUME Inv, Planned, ExpireCheck PROVE Atomic!PerformExpire
<1> DEFINE key == cmd.key
           cur == ClientMap[key]
<1>1. /\ pc = "expire" /\ data' = data /\ now' = now
      /\ IF IsLive(key)
         THEN pc' = "expire_set" /\ UNCHANGED <<cmd, reply, index, count>>
         ELSE pc' = "idle" /\ Finish(Number(0))
  BY Zenon DEF ExpireCheck, store, Continue, Finish
<1>2. key \in Keys /\ cmd.name = "EXPIRE" /\ cmd.secs \in Nat
  BY <1>1, Zenon DEF Inv, InHandler, Busy, Planned
<1>3. ClientStage = "called" /\ ClientMap = LiveMap
  BY <1>1, StageAt, MapAt, Zenon DEF Writing
<1>4. cur = IF IsLive(key) THEN Seen(data[key]) ELSE None
  BY <1>2, <1>3, LiveEntries, Zenon
<1>5. CASE IsLive(key)
  <2>1. cur # None /\ cur.value = data[key].value
    BY <1>2, <1>4, <1>5, LiveEntries, SMTT(30) DEF Seen
  <2>2. pc' = "expire_set" /\ UNCHANGED <<cmd, reply, index, count>>
    BY <1>1, <1>5, Zenon
  <2>3. PendingEntry' = IF cmd.secs = 0 THEN None ELSE Atomic!Volatile(cur.value)
    BY <1>1, <2>1, <2>2, EntryAfter, Zenon DEF Atomic!Volatile
  <2>4. ClientMap' = [ClientMap EXCEPT ![key] =
                         IF cmd.secs = 0 THEN None ELSE Atomic!Volatile(cur.value)]
    BY <1>1, <1>3, <2>2, <2>3, MapAt, LiveEntries, Zenon DEF Writing
  <2>5. Atomic!Answer(Number(1))
    BY <2>2, StageAfter, Zenon DEF Atomic!Answer
  <2> QED
    BY <1>2, <1>3, <2>1, <2>4, <2>5, Zenon DEF Atomic!PerformExpire
<1>6. CASE ~IsLive(key)
  <2>1. ClientMap' = ClientMap
    BY <1>1, <1>3, <1>6, MapAt, LiveEntries, Zenon DEF Writing
  <2>2. Atomic!Answer(Number(0))
    BY <1>1, <1>6, FinishRefines, Zenon DEF Atomic!Answer
  <2> QED
    BY <1>2, <1>3, <1>4, <1>6, <2>1, <2>2, Zenon DEF Atomic!PerformExpire
<1> QED
  BY <1>5, <1>6, Zenon

\* The deadline that EXPIRE then writes is in the future unless it was given no
\* time at all.
LEMMA ExpireSetRefines == ASSUME Inv, Planned, ExpireSet PROVE Atomic!Return
<1> DEFINE key == cmd.key
           e == [data[key] EXCEPT !.expires_at = now + Ticks(ExpireTtl)]
<1>1. /\ pc = "expire_set" /\ pc' = "idle" /\ now' = now /\ Finish(Number(1))
      /\ data' = [data EXCEPT ![key] = e]
  BY Zenon DEF ExpireSet, Finish
<1>2. /\ key \in Keys /\ data \in [Keys -> Entry \cup {None}] /\ data[key] # None
      /\ cmd.secs \in Nat /\ now \in Nat
  BY <1>1, Zenon DEF Inv, InHandler, Busy, TypeOK, Locked
<1>3. /\ now + Ticks(ExpireTtl) \in Nat
      /\ now >= now + Ticks(ExpireTtl) <=> cmd.secs = 0
  <2>1. ExpireTtl \in Nat /\ (ExpireTtl = 0 <=> cmd.secs = 0)
    BY <1>2, FinerUnits, Zenon DEF ExpireTtl
  <2>2. /\ Ticks(ExpireTtl) \in Nat /\ ExpireTtl <= Ticks(ExpireTtl)
        /\ ExpireTtl = 0 => Ticks(ExpireTtl) = 0
    BY <2>1, FinerUnits, TickAssumption DEF Ticks
  <2> QED
    BY <1>2, <2>1, <2>2
<1>4. /\ e \in Entry /\ e # None /\ e.expires_at = now + Ticks(ExpireTtl)
      /\ e.expires_at # None /\ e.value = data[key].value
  BY <1>2, <1>3, NoneAssumption, Zenon DEF Entry
<1>5. PendingEntry = IF cmd.secs = 0 THEN None
                     ELSE [value |-> data[key].value, volatile |-> TRUE]
  BY <1>1, EntryAt, Zenon
<1> HIDE DEF e
<1>6. LiveMap' = [LiveMap EXCEPT ![key] = PendingEntry]
  <2>1. ASSUME NEW k \in Keys, k # key PROVE LiveMap'[k] = LiveMap[k]
    BY <1>1, <1>2, <2>1, Zenon DEF LiveMap, IsLive, IsExpired
  <2>2. LiveMap'[key] = PendingEntry
    <3>1. data'[key] = e
      BY <1>1, <1>2, Zenon
    <3>2. LiveMap'[key] = IF data'[key] # None
                             /\ ~(data'[key].expires_at # None
                                  /\ now' >= data'[key].expires_at)
                          THEN Seen(data'[key]) ELSE None
      BY <1>2, Zenon DEF LiveMap, IsLive, IsExpired, Seen
    <3>3. LiveMap'[key] = IF cmd.secs = 0 THEN None ELSE Seen(e)
      BY <1>1, <1>3, <1>4, <3>1, <3>2, Zenon
    <3>4. Seen(e) = [value |-> data[key].value, volatile |-> TRUE]
      BY <1>4, Zenon DEF Seen
    <3> QED
      BY <1>5, <3>3, <3>4, Zenon
  <2> QED
    BY <2>1, <2>2, <1>2, Zenon DEF LiveMap
<1>7. ClientMap' = ClientMap
  BY <1>1, <1>6, MapAt, Zenon DEF Writing
<1>8. ClientResult = Number(1) /\ Number(1)[1] # "time"
  BY <1>1, StageAt, Zenon DEF Number
<1> QED
  BY <1>1, <1>7, <1>8, WriteReturns DEF Writing

\* TTL takes effect when it finds its key.
LEMMA TtlCheckRefines == ASSUME Inv, Planned, TtlCheck PROVE Atomic!PerformTtl
<1> DEFINE key == cmd.key
           cur == ClientMap[key]
           answer == IF cur = None THEN Number(-2)
                     ELSE IF ~cur.volatile THEN Number(-1)
                     ELSE Atomic!SomeTime
<1>1. /\ pc = "ttl" /\ data' = data /\ now' = now
      /\ IF ~IsLive(key) THEN pc' = "idle" /\ Finish(Number(-2))
         ELSE IF data[key].expires_at = None THEN pc' = "idle" /\ Finish(Number(-1))
         ELSE pc' = "ttl_clock" /\ UNCHANGED <<cmd, reply, index, count>>
  BY Zenon DEF TtlCheck, store, Continue, Finish
<1>2. key \in Keys /\ cmd.name = "TTL" /\ reply = Null
  BY <1>1, Zenon DEF Inv, InHandler, Busy, Planned
<1>3. ClientStage = "called" /\ ClientMap = LiveMap
  BY <1>1, StageAt, MapAt, Zenon DEF Writing
<1>4. cur = IF IsLive(key) THEN Seen(data[key]) ELSE None
  BY <1>2, <1>3, LiveEntries, Zenon
<1>5. ClientMap' = ClientMap
  BY <1>1, <1>3, MapAt, LiveEntries, Zenon DEF Writing
<1>6. Atomic!Answer(answer) /\ reply' # Atomic!SomeTime
  <2>1. CASE ~IsLive(key)
    <3>1. answer = Number(-2) /\ reply' = Number(-2)
      BY <1>1, <1>4, <2>1, Zenon DEF Finish
    <3> QED
      BY <1>1, <2>1, <3>1, FinishRefines, Zenon DEF Atomic!Answer, Atomic!SomeTime, Number
  <2>2. CASE IsLive(key) /\ data[key].expires_at = None
    <3>1. cur # None /\ ~cur.volatile
      <4>1. cur = Seen(data[key]) /\ cur # None
        BY <1>2, <1>4, <2>2, LiveEntries, Zenon
      <4>2. Seen(data[key]).volatile = FALSE
        BY <2>2, Zenon DEF Seen
      <4> QED
        BY <4>1, <4>2, Zenon
    <3>2. answer = Number(-1) /\ reply' = Number(-1)
      BY <1>1, <2>2, <3>1, Zenon DEF Finish
    <3> QED
      BY <1>1, <2>2, <3>2, FinishRefines, Zenon DEF Atomic!Answer, Atomic!SomeTime, Number
  <2>3. CASE IsLive(key) /\ data[key].expires_at # None
    <3>1. cur # None /\ cur.volatile
      <4>1. cur = Seen(data[key]) /\ cur # None
        BY <1>2, <1>4, <2>3, LiveEntries, Zenon
      <4>2. Seen(data[key]).volatile = TRUE
        BY <2>3, Zenon DEF Seen
      <4> QED
        BY <4>1, <4>2, Zenon
    <3>2. ClientStage' = "done" /\ ClientResult' = Atomic!SomeTime
      BY <1>1, <2>3, StageAfter, Zenon DEF Atomic!SomeTime
    <3>3. UNCHANGED <<cmd, reply, index, count>> /\ answer = Atomic!SomeTime
      BY <1>1, <2>3, <3>1, Zenon
    <3>4. reply' # Atomic!SomeTime
      BY <1>2, <3>3, Zenon DEF Null, Atomic!SomeTime
    <3> QED
      BY <3>2, <3>3, <3>4, Zenon DEF Atomic!Answer
  <2> QED
    BY <2>1, <2>2, <2>3, Zenon
<1> QED
  BY <1>2, <1>3, <1>5, <1>6, Zenon DEF Atomic!PerformTtl

\* TTL returns a number.
LEMMA TtlClockRefines == ASSUME Inv, Planned, TtlClock PROVE Atomic!Return
<1> DEFINE n == Seconds(Remaining(cmd.key))
<1>1. /\ pc = "ttl_clock" /\ pc' = "idle" /\ data' = data /\ now' = now
      /\ Finish(Number(n))
  BY Zenon DEF TtlClock, store, Finish
<1>2. /\ data[cmd.key].expires_at \in Nat /\ now \in Nat
  BY <1>1, Zenon DEF Inv, InHandler, TypeOK, Busy, Locked, Planned, Entry
<1>3. n \in Nat
  <2>1. Remaining(cmd.key) \in Nat
    BY <1>2, TickAssumption DEF Remaining
  <2>2. \A m \in Nat, c \in Nat \ {0} : (m + c - 1) \div c \in Nat
    OBVIOUS
  <2> QED
    BY <2>1, <2>2, TickAssumption, Zenon DEF Seconds
<1>4. ClientStage = "done" /\ ClientResult = Atomic!SomeTime
  BY <1>1, StageAt, Zenon DEF Atomic!SomeTime
<1>5. ClientMap' = ClientMap
  BY <1>1, MapAt, LiveEntries, Zenon DEF Writing
<1> HIDE DEF n
<1>6. reply'[2] = n /\ Atomic!Finish(Number(n))
  BY <1>1, FinishRefines, Zenon DEF Finish, Number
<1> QED
  BY <1>3, <1>4, <1>5, <1>6, Zenon DEF Atomic!Return

\* PERSIST takes effect under its lock.
LEMMA PersistRefines == ASSUME Inv, Planned, Persist PROVE Atomic!PerformPersist
<1> DEFINE key == cmd.key
           cur == ClientMap[key]
<1>1. /\ pc = "persist" /\ pc' = "idle" /\ now' = now
      /\ IF IsLive(key)
         THEN data' = [data EXCEPT ![key].expires_at = None] /\ Finish(Number(1))
         ELSE data' = data /\ Finish(Number(0))
  BY Zenon DEF Persist, Finish
<1>2. /\ key \in Keys /\ cmd.name = "PERSIST" /\ data \in [Keys -> Entry \cup {None}]
  BY <1>1, Zenon DEF Inv, InHandler, Busy, Planned, TypeOK
<1>3. ClientStage = "called" /\ ClientMap = LiveMap /\ ClientMap' = LiveMap'
  BY <1>1, StageAt, MapAt, Zenon DEF Writing
<1>4. cur = IF IsLive(key) THEN Seen(data[key]) ELSE None
  BY <1>2, <1>3, LiveEntries, Zenon
<1>5. CASE IsLive(key)
  <2> DEFINE e == [data[key] EXCEPT !.expires_at = None]
  <2>1. cur # None /\ cur.value = data[key].value
    BY <1>2, <1>4, <1>5, LiveEntries, SMTT(30) DEF Seen
  <2>2. data' = [data EXCEPT ![key] = e]
    BY <1>1, <1>5, Zenon
  <2>3. e \in Entry /\ e # None /\ e.expires_at = None /\ e.value = cur.value
    BY <1>2, <1>5, <2>1, NoneAssumption, Zenon DEF Entry, IsLive
  <2> HIDE DEF e
  <2>4. LiveMap' = [LiveMap EXCEPT ![key] = Seen(e)]
    <3>1. ASSUME NEW k \in Keys, k # key PROVE LiveMap'[k] = LiveMap[k]
      BY <1>1, <1>2, <2>2, <3>1, Zenon DEF LiveMap, IsLive, IsExpired
    <3>2. LiveMap'[key] = Seen(e)
      <4>1. data'[key] = e
        BY <1>2, <2>2, Zenon
      <4>2. LiveMap'[key] = IF data'[key] # None
                               /\ ~(data'[key].expires_at # None
                                    /\ now' >= data'[key].expires_at)
                            THEN Seen(data'[key]) ELSE None
        BY <1>2, Zenon DEF LiveMap, IsLive, IsExpired, Seen
      <4> QED
        BY <2>3, <4>1, <4>2, Zenon
    <3> QED
      BY <1>2, <3>1, <3>2, Zenon DEF LiveMap
  <2>5. Seen(e) = Atomic!Stable(cur.value)
    BY <2>3, Zenon DEF Seen, Atomic!Stable
  <2>6. Atomic!Answer(Number(1))
    BY <1>1, <1>5, FinishRefines, Zenon DEF Atomic!Answer
  <2> QED
    BY <1>2, <1>3, <2>1, <2>4, <2>5, <2>6, Zenon DEF Atomic!PerformPersist
<1>6. CASE ~IsLive(key)
  <2>1. ClientMap' = ClientMap
    BY <1>1, <1>3, <1>6, LiveEntries, Zenon
  <2>2. Atomic!Answer(Number(0))
    BY <1>1, <1>6, FinishRefines, Zenon DEF Atomic!Answer
  <2> QED
    BY <1>2, <1>3, <1>4, <1>6, <2>1, <2>2, Zenon DEF Atomic!PerformPersist
<1> QED
  BY <1>5, <1>6, Zenon

\* The expiry thread takes only what no client sees, also between two calls of a
\* handler.
LEMMA SweeperRefines == ASSUME Inv, Sweeper PROVE UNCHANGED Atomic!vars
<1>1. UNCHANGED handler
  BY Zenon DEF Sweeper, SweeperTest, SweeperWake, Sweep
<1>2. now' = now /\ LiveMap' = LiveMap
  <2>1. CASE SweeperTest \/ SweeperWake
    BY <2>1, LiveEntries, Zenon DEF SweeperTest, SweeperWake, store
  <2>2. CASE Sweep
    BY <2>2, Zenon DEF Sweep, LiveMap, IsLive, IsExpired, Seen
  <2> QED
    BY <2>1, <2>2, Zenon DEF Sweeper
<1>3. pc = "expire_set" => data' = data
  BY Zenon DEF Sweeper, SweeperTest, SweeperWake, Sweep, store, Locked
<1>4. pc \in Writing => PendingEntry' = PendingEntry
  <2>1. UNCHANGED <<pc, cmd, todo, deadline, now>>
    BY <1>1, <1>2, Zenon DEF handler
  <2>2. CASE pc # "expire_set" /\ pc \in Writing
    BY <2>1, <2>2, EntryAt, EntryAfter, Zenon DEF Writing
  <2>3. CASE pc = "expire_set"
    BY <1>3, <2>1, <2>3, EntryAt, EntryAfter, Zenon
  <2> QED
    BY <2>2, <2>3, Zenon
<1>5. ClientMap' = ClientMap
  BY <1>1, <1>2, <1>4, MapAt, Zenon DEF handler
<1>6. UNCHANGED <<ClientStage, ClientResult>>
  BY <1>1, Zenon DEF handler, ClientStage, ClientResult
<1> QED
  BY <1>1, <1>5, <1>6, Zenon DEF handler, Atomic!vars

\* What the clock does to one key: nothing, or the key had a time to live and is
\* gone, also when it is the key a handler is about to write.
LEMMA TickAtKey ==
  ASSUME Inv, Planned, Tick, NEW k \in Keys
  PROVE  \/ ClientMap'[k] = ClientMap[k]
         \/ ClientMap[k] # None /\ ClientMap[k].volatile /\ ClientMap'[k] = None
<1>1. now' = now + 1 /\ data' = data /\ UNCHANGED handler
  BY Zenon DEF Tick
<1>2. now \in Nat /\ data \in [Keys -> Entry \cup {None}]
  BY Zenon DEF Inv, TypeOK
<1>3. CASE pc \in Writing /\ cmd.key = k
  <2>1. ClientMap[k] = PendingEntry /\ ClientMap'[k] = PendingEntry'
    BY <1>1, <1>3, MapAt, Zenon DEF handler, LiveMap
  <2>2. CASE pc # "put"
    BY <1>1, <1>3, <2>1, <2>2, EntryAt, EntryAfter, Zenon DEF handler, Writing
  <2>3. CASE pc = "put"
    <3> DEFINE e == [value |-> todo.value, volatile |-> deadline # None]
    <3>1. e # None /\ (e.volatile <=> deadline # None)
      <4>1. todo.value \in Value
        BY <2>3, Zenon DEF Inv, TypeOK
      <4>2. e \in [value : Value, volatile : BOOLEAN]
        BY <4>1, Zenon
      <4>3. e.volatile = (deadline # None)
        BY Zenon
      <4> HIDE DEF e
      <4> QED
        BY <4>2, <4>3, NoneAssumption, Zenon
    <3> HIDE DEF e
    <3>2. /\ ClientMap[k] = IF deadline # None /\ now >= deadline THEN None ELSE e
          /\ ClientMap'[k] = IF deadline # None /\ now + 1 >= deadline THEN None ELSE e
      <4>1. UNCHANGED <<pc, todo, deadline>>
        BY <1>1, Zenon DEF handler
      <4> QED
        BY <1>1, <2>1, <2>3, <4>1, EntryAt, EntryAfter, Zenon DEF e
    <3>3. deadline # None => deadline \in Nat
      BY Zenon DEF Inv, TypeOK
    <3> QED
      BY <1>2, <3>1, <3>2, <3>3
  <2> QED
    BY <2>2, <2>3, Zenon
<1>4. CASE ~(pc \in Writing /\ cmd.key = k)
  <2>1. ClientMap[k] = LiveMap[k] /\ ClientMap'[k] = LiveMap'[k]
    BY <1>1, <1>4, MapAt, Zenon DEF handler, LiveMap
  <2>2. LiveMap[k] = IF IsLive(k) THEN Seen(data[k]) ELSE None
    BY LiveEntries, Zenon
  <2>3. LiveMap'[k] = IF IsLive(k)' THEN Seen(data[k]) ELSE None
    BY <1>1, Zenon DEF LiveMap, Seen
  <2>4. IsLive(k)' => IsLive(k)
    BY <1>1, <1>2 DEF IsLive, IsExpired, Entry
  <2>5. IsLive(k) /\ ~IsLive(k)' => Seen(data[k]).volatile
    <3>1. IsLive(k) /\ ~IsLive(k)' => data[k].expires_at # None
      BY <1>1, Zenon DEF IsLive, IsExpired
    <3> QED
      BY <3>1, Zenon DEF Seen
  <2>6. IsLive(k) => Seen(data[k]) # None
    BY LiveEntries, Zenon
  <2> QED
    BY <2>1, <2>2, <2>3, <2>4, <2>5, <2>6, Zenon
<1> QED
  BY <1>3, <1>4, Zenon

\* The clock lets keys lapse, or nothing is seen to happen.
LEMMA TickRefines ==
  ASSUME Inv, Planned, Tick PROVE Atomic!Lapse \/ UNCHANGED Atomic!vars
<1>1. UNCHANGED <<ClientStage, cmd, index, count, ClientResult, reply>>
  BY Zenon DEF Tick, handler, ClientStage, ClientResult
<1>2. \A k \in Keys : \/ ClientMap'[k] = ClientMap[k]
                      \/ ClientMap[k] # None /\ ClientMap[k].volatile
                         /\ ClientMap'[k] = None
  BY TickAtKey, Zenon
<1>3. DOMAIN ClientMap' = Keys
  BY Zenon DEF ClientMap
<1> QED
  BY <1>1, <1>2, <1>3, Zenon DEF Atomic!Lapse, Atomic!vars

\* The destructor closes the store and then discards its contents.
LEMMA DestructorRefines ==
  /\ Destructor => Atomic!Close
  /\ Join => Atomic!Discard
<1>1. ASSUME Destructor PROVE Atomic!Close
  <2>1. /\ pc = "idle" /\ pc' = "destructor" /\ data' = data /\ now' = now
        /\ UNCHANGED <<cmd, index, count, reply>>
    BY <1>1, Zenon DEF Destructor, store
  <2>2. ClientMap' = ClientMap
    BY <2>1, MapAt, LiveEntries, Zenon DEF Writing
  <2>3. /\ ClientStage = "idle" /\ ClientStage' = "closed"
        /\ ClientResult' = None /\ ClientResult = None
    BY <2>1, StageAt, StageAfter, Zenon
  <2> QED
    BY <2>1, <2>2, <2>3, Zenon DEF Atomic!Close
<1>2. ASSUME Join PROVE Atomic!Discard
  <2>1. /\ pc = "destructor" /\ pc' = "destroyed" /\ data' = [k \in Keys |-> None]
        /\ UNCHANGED <<cmd, index, count, reply>>
    BY <1>2, Zenon DEF Join
  <2>2. ClientMap' = [k \in Keys |-> None]
    BY <2>1, MapAt, Zenon DEF Writing, LiveMap, IsLive
  <2>3. /\ ClientStage = "closed" /\ ClientStage' = "closed"
        /\ ClientResult' = None /\ ClientResult = None
    BY <2>1, StageAt, StageAfter, Zenon
  <2> QED
    BY <2>1, <2>2, <2>3, Zenon DEF Atomic!Discard
<1> QED
  BY <1>1, <1>2, Zenon

F == INSTANCE FiniteSetTheorems

\* The cardinalities of finite sets, which are those of FiniteSetTheorems.
LEMMA Sizes ==
  ASSUME NEW S, IsFiniteSet(S), NEW T \in SUBSET S
  PROVE  /\ IsFiniteSet(T) /\ Cardinality(T) \in Nat
         /\ Cardinality(T) <= Cardinality(S)
<1>1. /\ \A X : F!IsFiniteSet(X) <=> IsFiniteSet(X)
      /\ \A X : F!Cardinality(X) = Cardinality(X)
  BY Zenon DEF Cardinality, IsFiniteSet, F!Cardinality, F!IsFiniteSet
<1>2. F!IsFiniteSet(T) /\ F!Cardinality(T) <= F!Cardinality(S)
  BY <1>1, F!FS_Subset, Zenon
<1>3. F!Cardinality(T) \in Nat
  BY <1>2, F!FS_CardinalityType, Zenon
<1> QED
  BY <1>1, <1>2, <1>3, Zenon

\* INFO counts every live key, and perhaps keys that have lapsed.
LEMMA SizeRefines == ASSUME Inv, Planned, Size PROVE Atomic!PerformSize
<1> DEFINE n == Cardinality(StoredKeys)
           seen == {k \in Keys : ClientMap[k] # None}
<1>1. pc = "size" /\ pc' = "idle" /\ data' = data /\ now' = now /\ Finish(Number(n))
  BY Zenon DEF Size, store, Finish
<1>2. cmd.name = "INFO"
  BY <1>1, Zenon DEF Planned
<1>3. /\ ClientStage = "called" /\ ClientMap = LiveMap /\ ClientMap' = ClientMap
  BY <1>1, StageAt, MapAt, LiveEntries, Zenon DEF Writing
<1>4. StoredKeys \subseteq Keys /\ seen \subseteq StoredKeys
  BY <1>3, LiveEntries, Zenon DEF StoredKeys, IsLive
<1>5. IsFiniteSet(StoredKeys) /\ n \in Nat /\ n <= Cardinality(Keys)
  BY <1>4, KeysAssumption, Sizes, Zenon
<1>6. Cardinality(seen) \in Nat /\ Cardinality(seen) <= n
  BY <1>4, <1>5, Sizes, Zenon
<1>7. Cardinality(Keys) \in Nat
  BY KeysAssumption, Sizes, Zenon
<1>8. n \in Atomic!Cardinality(seen)..Atomic!Cardinality(Keys)
  <2> HIDE DEF n, seen
  <2> QED
    BY <1>5, <1>6, <1>7, SameCardinality
<1>9. Atomic!Finish(Number(n))
  BY <1>1, FinishRefines, Zenon
<1> QED
  BY <1>2, <1>3, <1>8, <1>9, Zenon DEF Atomic!PerformSize

\* Every step of the store is a step of AtomicStore or is not seen.
LEMMA NextRefines == Inv /\ Planned /\ [Next]_vars => [Atomic!Next]_(Atomic!vars)
<1> SUFFICES ASSUME Inv, Planned, [Next]_vars PROVE [Atomic!Next]_(Atomic!vars)
  BY Zenon
<1>1. ASSUME NEW c \in Commands, Dispatch(c) PROVE Atomic!Next
  BY <1>1, DispatchRefines, Zenon DEF Atomic!Next
<1>2. CASE Read
  BY <1>2, ReadRefines, Zenon DEF Atomic!Next
<1>3. CASE SetClock
  BY <1>3, SetClockRefines, Zenon
<1>4. CASE SetPut \/ DelEmptied \/ ExpireSet \/ TtlClock
  BY <1>4, SetPutRefines, DelRefines, ExpireSetRefines, TtlClockRefines, Zenon DEF Atomic!Next
<1>5. CASE Each
  BY <1>5, EachRefines, Zenon DEF Atomic!Next
<1>6. CASE ExpireCheck \/ TtlCheck \/ Persist \/ Size
  BY <1>6, ExpireCheckRefines, TtlCheckRefines, PersistRefines, SizeRefines, Zenon DEF Atomic!Next
<1>7. CASE Sweeper
  BY <1>7, SweeperRefines, Zenon
<1>8. CASE Destructor \/ Join
  BY <1>8, DestructorRefines, Zenon DEF Atomic!Next
<1>9. CASE Tick
  BY <1>9, TickRefines, Zenon DEF Atomic!Next
<1>10. CASE UNCHANGED vars
  <2>1. UNCHANGED <<data, now, pc, cmd, todo, deadline, index, count, reply>>
    BY <1>10, Zenon DEF vars
  <2>2. UNCHANGED <<ClientStage, ClientResult>>
    BY <2>1, Zenon DEF ClientStage, ClientResult
  <2>3. ClientMap' = ClientMap
    BY <2>1, Zenon DEF ClientMap, Pending, PendingEntry, IsLive, IsExpired, Seen
  <2> QED
    BY <2>1, <2>2, <2>3, Zenon DEF Atomic!vars
<1> QED
  BY <1>1, <1>2, <1>3, <1>4, <1>5, <1>6, <1>7, <1>8, <1>9, <1>10, Zenon DEF Next, Handler, Over

\* Every command takes effect at one instant (kv_store.cpp, *_cmds.cpp): with any
\* keys, commands and times, the store with its deadlines, its lock sections and
\* its expiry thread implements AtomicStore.
THEOREM StoreLinearizable == Spec => Linearizable
<1>1. Init => Atomic!Init
  <2> SUFFICES ASSUME Init PROVE Atomic!Init
    BY Zenon
  <2>1. ClientStage = "idle" /\ ClientResult = None
    BY StageAt, Zenon DEF Init
  <2>2. ClientMap = [k \in Keys |-> None]
    BY MapAt, Zenon DEF Init, Writing, LiveMap, IsLive
  <2> QED
    BY <2>1, <2>2, Zenon DEF Init, Atomic!Init
<1>2. Linearizable <=> Atomic!Init /\ [][Atomic!Next]_(Atomic!vars)
  BY Zenon DEF Linearizable, Atomic!Spec
<1> QED
  BY <1>1, <1>2, NextRefines, Invariance, PlansHold, PTL DEF Spec

\* A deadline lies a whole time to live after the call of SET or EXPIRE and at most
\* a time to live after its return, whatever the clock does meanwhile
\* (kv_store.cpp:24-28, 59-62).
THEOREM DeadlinesHonoured == Spec => DeadlineHonoured
<1> DEFINE Honours ==
      pc # "idle" /\ pc' = "idle" =>
         /\ cmd.name = "SET" /\ reply' = Ok /\ SetTtl(cmd) > 0 =>
               LET ttl == Ticks(SetTtl(cmd))
               IN  data'[cmd.key].expires_at \in began + ttl..now + ttl
         /\ cmd.name = "EXPIRE" /\ reply' = Number(1) =>
               LET ttl == Ticks(cmd.secs * MsPerSecond)
               IN  data'[cmd.key].expires_at \in began + ttl..now + ttl
<1>1. Inv /\ Planned /\ [Next]_vars => [Honours]_vars
  <2> SUFFICES ASSUME Inv, Planned, Next, pc # "idle", pc' = "idle" PROVE Honours
    BY Zenon
  <2>1. CASE SetPut
    <3>1. pc = "put" /\ cmd.key \in Keys /\ data \in [Keys -> Entry \cup {None}]
      BY <2>1, Zenon DEF SetPut, Inv, InHandler, Busy, TypeOK
    <3>2. data'[cmd.key].expires_at = deadline
      BY <2>1, <3>1, Zenon DEF SetPut
    <3>3. cmd.name # "EXPIRE"
      BY <3>1, Zenon DEF Planned, Reading
    <3>4. cmd.name = "SET" /\ SetTtl(cmd) > 0 =>
             deadline \in began + Ticks(SetTtl(cmd))..now + Ticks(SetTtl(cmd))
      BY <3>1, SMTT(30) DEF Planned
    <3> QED
      BY <3>2, <3>3, <3>4, Zenon
  <2>2. CASE ExpireSet
    <3> DEFINE ttl == Ticks(cmd.secs * MsPerSecond)
    <3>1. /\ pc = "expire_set" /\ cmd.key \in Keys /\ data[cmd.key] # None
          /\ data \in [Keys -> Entry \cup {None}] /\ cmd.secs \in Nat
          /\ began <= now /\ began \in Nat /\ now \in Nat /\ cmd.name = "EXPIRE"
      BY <2>2, Zenon DEF ExpireSet, Inv, InHandler, Busy, TypeOK, Locked, Planned
    <3>2. data' = [data EXCEPT ![cmd.key].expires_at = now + ttl]
      BY <2>2, Zenon DEF ExpireSet, ExpireTtl
    <3>3. ttl \in Nat
      BY <3>1, FinerUnits, Zenon
    <3> HIDE DEF ttl
    <3>4. data'[cmd.key].expires_at = now + ttl
      BY <3>1, <3>2, Zenon DEF Entry
    <3>5. now + ttl \in began + ttl..now + ttl
      BY <3>1, <3>3
    <3> QED
      BY <3>1, <3>4, <3>5, Zenon DEF ttl
  <2>3. CASE Read
    <3>1. pc = "read" /\ Reading(cmd) /\ cmd \in AnyCommand
      BY <2>3, Zenon DEF Read, Inv, InHandler, Busy
    <3>2. /\ Decision(Handle(cmd, Get(cmd.key)))
          /\ cmd.name = "SET" /\ Handle(cmd, Get(cmd.key)).write = "none" =>
                Handle(cmd, Get(cmd.key)).reply = Null
      BY <3>1, ReadDecision, HandleReply, Zenon
    <3>3. cmd.name = "SET" => reply' = Null
      <4>1. \/ /\ Handle(cmd, Get(cmd.key)).write = "none"
               /\ Finish(Handle(cmd, Get(cmd.key)).reply)
            \/ /\ Handle(cmd, Get(cmd.key)).write # "none"
               /\ pc' = IF Handle(cmd, Get(cmd.key)).ttl > 0 THEN "clock"
                        ELSE Handle(cmd, Get(cmd.key)).write
        BY <2>3, Zenon DEF Read, Continue
      <4> QED
        BY <3>2, <4>1, Zenon DEF Finish, Decision
    <3> QED
      BY <3>1, <3>3 DEF Reading, Null, Ok
  <2>4. CASE ExpireCheck
    <3>1. reply' = Number(0) /\ cmd.name = "EXPIRE"
      BY <2>4, Zenon DEF ExpireCheck, Continue, Finish, Planned
    <3> QED
      BY <3>1 DEF Number
  <2>5. CASE SetClock \/ DelEmptied
    BY <2>5, Zenon DEF SetClock, DelEmptied, Continue, Planned, Reading
  <2>6. CASE Each \/ TtlCheck \/ TtlClock \/ Persist \/ Size
    BY <2>6, Zenon DEF Each, TtlCheck, TtlClock, Persist, Size, Planned
  <2>7. ~(Sweeper \/ Destructor \/ Join \/ Tick \/ Over \/ \E c \in Commands : Dispatch(c))
    BY Zenon DEF Sweeper, SweeperTest, SweeperWake, Sweep, Destructor, Join, Tick, Over,
           Dispatch, handler, vars
  <2> QED
    BY <2>1, <2>2, <2>3, <2>4, <2>5, <2>6, <2>7, Zenon DEF Next, Handler
<1>2. DeadlineHonoured <=> [][Honours]_vars
  BY Zenon DEF DeadlineHonoured
<1> QED
  BY <1>1, <1>2, Invariance, PlansHold, PTL DEF Spec

\* The way back of a duration of r ticks, first down to milliseconds
\* (kv_store.cpp:73-75), then up to seconds (generic_cmds.cpp:65-72): less than a
\* millisecond short of r, and one second less would be less than r.
LEMMA RoundsUp ==
  ASSUME NEW r \in Nat \ {0}
  PROVE  LET secs == Seconds(r \div TicksPerMs)
         IN  /\ secs \in Nat
             /\ Ticks(secs * MsPerSecond) \in Int
             /\ Ticks((secs - 1) * MsPerSecond) \in Int
             /\ Ticks(secs * MsPerSecond) > r - TicksPerMs
             /\ Ticks((secs - 1) * MsPerSecond) < r
<1> USE TickAssumption
<1> DEFINE ms == r \div TicksPerMs
           secs == (ms + MsPerSecond - 1) \div MsPerSecond
<1>1. ms \in Nat /\ ms * TicksPerMs <= r /\ r < ms * TicksPerMs + TicksPerMs
  BY Quotient, Zenon
<1> HIDE DEF ms
<1>2. ms + MsPerSecond - 1 \in Nat
  BY <1>1
<1>3. /\ secs \in Nat /\ secs * MsPerSecond <= ms + MsPerSecond - 1
      /\ ms + MsPerSecond - 1 < secs * MsPerSecond + MsPerSecond
  BY <1>2, Quotient, Zenon
<1> HIDE DEF secs
<1>4. secs * MsPerSecond \in Int /\ (secs - 1) * MsPerSecond = secs * MsPerSecond - MsPerSecond
  BY <1>3
<1>5. /\ ms <= secs * MsPerSecond /\ (secs - 1) * MsPerSecond < ms
      /\ (secs - 1) * MsPerSecond \in Int
  BY <1>1, <1>3, <1>4
<1>6. /\ ms * TicksPerMs \in Int
      /\ secs * MsPerSecond * TicksPerMs \in Int
      /\ (secs - 1) * MsPerSecond * TicksPerMs \in Int
      /\ ms * TicksPerMs <= secs * MsPerSecond * TicksPerMs
      /\ (secs - 1) * MsPerSecond * TicksPerMs < ms * TicksPerMs
  BY <1>1, <1>4, <1>5, ProductOrder
<1>7. /\ secs * MsPerSecond * TicksPerMs > r - TicksPerMs
      /\ (secs - 1) * MsPerSecond * TicksPerMs < r
  BY <1>1, <1>6
<1> QED
  BY <1>3, <1>6, <1>7, Zenon DEF Seconds, Ticks, ms, secs

\* TTL answers what is left, less than a millisecond lost and rounded up to seconds,
\* as of some moment between its call and its return (kv_store.cpp:65-76,
\* generic_cmds.cpp:65-72).
THEOREM TtlAnswers == Spec => TtlTruthful
<1> DEFINE left(t) == data[cmd.key].expires_at - t
           secs == reply'[2]
           Tells == /\ secs >= 0
                    /\ Ticks(secs * MsPerSecond) > left(now) - TicksPerMs
                    /\ Ticks((secs - 1) * MsPerSecond) < left(began)
<1>1. Inv /\ Planned /\ [Next]_vars => [pc = "ttl_clock" /\ pc' = "idle" => Tells]_vars
  <2> SUFFICES ASSUME Inv, Planned, Next, pc = "ttl_clock", pc' = "idle" PROVE Tells
    BY Zenon
  <2>1. TtlClock
    BY Zenon DEF Next, Handler, Sweeper, Dispatch, Read, SetClock, SetPut, DelEmptied, Each,
           ExpireCheck, ExpireSet, TtlCheck, Persist, Size, SweeperTest, SweeperWake,
           Sweep, Destructor, Join, Tick, Over, handler, vars
  <2> DEFINE e == data[cmd.key].expires_at
             m == Remaining(cmd.key)
  <2>2. e \in Nat /\ now \in Nat /\ began \in Nat /\ began <= now /\ began < e
    BY Zenon DEF Inv, InHandler, TypeOK, Busy, Locked, Planned, Entry
  <2>3. secs = Seconds(m)
    BY <2>1, Zenon DEF TtlClock, Finish, Number
  <2>4. m = IF e > now THEN (e - now) \div TicksPerMs ELSE 0
    BY Zenon DEF Remaining
  <2> HIDE DEF m, e
  <2>5. CASE e > now
    <3> DEFINE r == e - now
    <3>1. r \in Nat \ {0} /\ r <= e - began
      BY <2>2, <2>5
    <3>2. secs = Seconds(r \div TicksPerMs)
      BY <2>3, <2>4, <2>5, Zenon
    <3> HIDE DEF r
    <3>3. /\ secs \in Nat
          /\ Ticks((secs - 1) * MsPerSecond) \in Int
          /\ Ticks(secs * MsPerSecond) > r - TicksPerMs
          /\ Ticks((secs - 1) * MsPerSecond) < r
      BY <3>1, <3>2, RoundsUp, Zenon
    <3>4. secs >= 0 /\ Ticks((secs - 1) * MsPerSecond) < e - began
      BY <2>2, <3>1, <3>3
    <3> QED
      BY <3>3, <3>4, Zenon DEF r, e
  <2>6. CASE ~(e > now)
    <3>1. m = 0 /\ Seconds(0) = 0
      <4>1. \A c \in Nat \ {0} : (0 + c - 1) \div c = 0
        OBVIOUS
      <4> QED
        BY <2>4, <2>6, <4>1, TickAssumption, Zenon DEF Seconds
    <3>2. secs = 0
      BY <2>3, <3>1, Zenon
    <3>3. Ticks(0 * MsPerSecond) = 0 /\ Ticks((0 - 1) * MsPerSecond) < 0
          /\ Ticks((0 - 1) * MsPerSecond) \in Int
      BY TickAssumption DEF Ticks
    <3>4. 0 > e - now - TicksPerMs /\ Ticks((0 - 1) * MsPerSecond) < e - began
      BY <2>2, <2>6, <3>3, TickAssumption
    <3> QED
      BY <3>2, <3>3, <3>4 DEF e
  <2> QED
    BY <2>5, <2>6, Zenon
<1>2. TtlTruthful <=> [][pc = "ttl_clock" /\ pc' = "idle" => Tells]_vars
  BY Zenon DEF TtlTruthful
<1> QED
  BY <1>1, <1>2, Invariance, PlansHold, PTL DEF Spec
=============================================================================
