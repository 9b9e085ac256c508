---------------------------- MODULE ServerProofs ----------------------------
(***************************************************************************)
(* For any number of clients and channels and any limit: the count of     *)
(* connections is exact and bounded, nobody holds a destroyed connection, *)
(* and a server that serves also accepts and watches for signals.  At the *)
(* end, what main makes of the arguments.                                 *)
(***************************************************************************)
EXTENDS Server, Config, BrokerProofs, Induction

Ended == phase \in {"server gone", "exited"}

\* An object's owners: the event loop, the broker.
Owned(c) == c \in held \/ \E ch \in Channels : c \in Members(channels, ch)

Owners ==
    /\ arrived \subseteq held /\ held \subseteq exists
    /\ \A ch \in Channels : Members(channels, ch) \subseteq exists
    /\ \A c \in exists : Owned(c)
    /\ IF Ended THEN held = {} ELSE open \subseteq held

\* How far the start has come decides what has been set in motion.
Started ==
    /\ phase \in {"ready", "cleared", "installed", "polled", "running"} /\ ~stopping => ready
    /\ phase \in {"polled", "running"} /\ ~stopping => polling
    /\ phase = "running" /\ ~stopping => accepting

\* The inductive invariant.  NoDangling alone is not inductive: a handler may
\* unsubscribe its connection, and only that an open socket has an operation
\* outstanding, and a completed read a handler, keeps the object owned then.
IInv == TypeOK /\ CountExact /\ LimitHolds /\ Owners /\ Started

\* Subscribed, in terms of the members of channels.
LEMMA SubscribedMember ==
  ASSUME IsChannelMap(channels), NEW c \in Clients
  PROVE  Subscribed(c) <=> \E ch \in Channels : c \in Members(channels, ch)
<1>1. Removed(channels, c) = {x \in Channels : c \in Members(channels, x)}
  BY RemovedMembers, Zenon
<1> QED
  BY <1>1, Zenon DEF Subscribed

\* Sets of connections are finite, and destroying some subtracts their number.
LEMMA Counting ==
  ASSUME NEW E \in SUBSET Clients
  PROVE  /\ IsFiniteSet(E) /\ Cardinality(E) \in Nat
         /\ \A C \in SUBSET E : /\ Cardinality(E \ C) = Cardinality(E) - Cardinality(C)
                                /\ Cardinality(E \ C) \in Nat
                                /\ Cardinality(E \ C) <= Cardinality(E)
         /\ \A c \in Clients \ E : Cardinality(E \cup {c}) = Cardinality(E) + 1
<1>1. IsFiniteSet(E)
  BY ClientsFinite, FS_Subset, Zenon
<1>2. Cardinality(E) \in Nat
  BY <1>1, FS_CardinalityType, Zenon
<1>3. ASSUME NEW C \in SUBSET E
      PROVE  /\ Cardinality(E \ C) = Cardinality(E) - Cardinality(C)
             /\ Cardinality(E \ C) \in Nat
             /\ Cardinality(E \ C) <= Cardinality(E)
  <2>1. IsFiniteSet(C) /\ E \cap C = C
    BY <1>1, FS_Subset, Zenon
  <2>2. Cardinality(E \ C) = Cardinality(E) - Cardinality(E \cap C) /\ IsFiniteSet(E \ C)
    BY <1>1, FS_Difference, Zenon
  <2>3. Cardinality(C) \in Nat /\ Cardinality(E \ C) \in Nat
    BY <2>1, <2>2, FS_CardinalityType, Zenon
  <2> QED
    BY <1>2, <2>1, <2>2, <2>3
<1>4. ASSUME NEW c \in Clients \ E
      PROVE  Cardinality(E \cup {c}) = Cardinality(E) + 1
  BY <1>1, FS_AddElement, Zenon
<1> QED
  BY <1>1, <1>2, <1>3, <1>4, Zenon

\* Steps that leave the connections alone keep what is said of them.
LEMMA ConnsKept ==
  ASSUME IInv, UNCHANGED conns, Ended <=> Ended'
  PROVE  CountExact' /\ LimitHolds' /\ Owners'
  BY Zenon DEF IInv, conns, CountExact, LimitHolds, Owners, Owned

\* The steps of the main thread, of signals and of the acceptor's refusals.
LEMMA ServerStep ==
  ASSUME IInv,
         Run \/ RunReturns \/ Signal \/ Poll \/ Refuse \/ AcceptThrows
  PROVE  IInv'
<1>1. UNCHANGED conns /\ (Ended <=> Ended')
  BY Zenon DEF Run, RunReady, ClearFlag, InstallHandlers, FirstPoll, FirstAccept, RunReturns,
         Signal, Poll, Refuse, AcceptThrows, Ended, Serving
<1>2. TypeOK /\ Started
  BY Zenon DEF IInv
<1>3. TypeOK'
  <2>1. phase' \in Phases
    BY <1>2, Zenon DEF TypeOK, Phases, Run, RunReady, ClearFlag, InstallHandlers, FirstPoll,
                FirstAccept, RunReturns, Signal, Poll, Refuse, AcceptThrows
  <2>2. /\ ready' \in BOOLEAN /\ stopping' \in BOOLEAN /\ flag' \in BOOLEAN
        /\ accepting' \in BOOLEAN /\ polling' \in BOOLEAN
    BY <1>2, Zenon DEF TypeOK, Run, RunReady, ClearFlag, InstallHandlers, FirstPoll,
                FirstAccept, RunReturns, Signal, Poll, Refuse, AcceptThrows,
                PollSignalFlag, Stop
  <2> QED
    BY <1>1, <1>2, <2>1, <2>2, Zenon DEF TypeOK, conns
<1>4. Started'
  BY <1>2, Zenon DEF TypeOK, Started, Run, RunReady, ClearFlag, InstallHandlers, FirstPoll,
              FirstAccept, RunReturns, Signal, Poll, Refuse, AcceptThrows,
              PollSignalFlag, Stop, Serving
<1> QED
  BY <1>1, <1>3, <1>4, ConnsKept, Zenon DEF IInv

\* What a step that changes only owners and objects has to establish.
LEMMA ConnsStep ==
  ASSUME IInv, UNCHANGED <<ready, stopping, flag, accepting, polling>>,
         \/ UNCHANGED phase
         \/ phase = "returned" /\ phase' = "server gone"
         \/ phase = "server gone" /\ phase' = "exited",
         clients' \in Nat, exists' \subseteq Clients, open' \subseteq Clients,
         IsChannelMap(channels'), CountExact', LimitHolds', Owners'
  PROVE  IInv'
<1>1. TypeOK /\ Started
  BY Zenon DEF IInv
<1>2. held' \subseteq Clients /\ arrived' \subseteq Clients
  BY Zenon DEF Owners
<1>3. TypeOK'
  BY <1>1, <1>2, Zenon DEF TypeOK, Phases
<1>4. Started'
  BY <1>1, Zenon DEF Started
<1> QED
  BY <1>3, <1>4, Zenon DEF IInv

\* The destruction of objects no one owns any more.
LEMMA DestroyStep ==
  ASSUME IInv, NEW C \in SUBSET exists, Destroy(C)
  PROVE  /\ clients' \in Nat /\ exists' \subseteq Clients /\ open' \subseteq Clients
         /\ CountExact' /\ LimitHolds'
<1>1. exists \in SUBSET Clients /\ CountExact /\ LimitHolds /\ TypeOK
  BY Zenon DEF IInv, TypeOK
<1>2. /\ Cardinality(exists \ C) = Cardinality(exists) - Cardinality(C)
      /\ Cardinality(exists \ C) \in Nat
      /\ Cardinality(exists \ C) <= Cardinality(exists)
      /\ Cardinality(exists) \in Nat
  BY <1>1, Counting, Zenon
<1>3. clients' = Cardinality(exists') /\ clients' \in Nat
  BY <1>1, <1>2, Zenon DEF Destroy, CountExact
<1>4. Cardinality(exists') <= MaxClients
  BY <1>1, <1>2, MaxClientsAssumption DEF Destroy, LimitHolds
<1> QED
  BY <1>1, <1>3, <1>4, Zenon DEF Destroy, CountExact, LimitHolds, TypeOK

\* do_accept with room for another connection.
LEMMA AcceptStep ==
  ASSUME IInv, NEW c \in Clients, Accept(c)
  PROVE  IInv'
<1>1. TypeOK /\ CountExact /\ LimitHolds /\ Owners
  BY Zenon DEF IInv
<1>2. Cardinality(exists \cup {c}) = Cardinality(exists) + 1 /\ Cardinality(exists) \in Nat
  BY <1>1, Counting, Zenon DEF TypeOK, Accept
<1>3. CountExact' /\ LimitHolds' /\ clients' \in Nat
  BY <1>1, <1>2, MaxClientsAssumption DEF CountExact, LimitHolds, Accept
<1>4. Owners'
  BY <1>1, Zenon DEF Owners, Owned, Ended, Accept, Serving, server
<1>5. exists' \subseteq Clients /\ open' \subseteq Clients /\ IsChannelMap(channels')
  BY <1>1, Zenon DEF TypeOK, Accept
<1> QED
  BY <1>3, <1>4, <1>5, ConnsStep, Zenon DEF Accept, server

\* A read completes: its handler holds the connection.
LEMMA ArriveStep ==
  ASSUME IInv, NEW c \in Clients, Arrive(c)
  PROVE  IInv'
<1>1. TypeOK /\ CountExact /\ LimitHolds /\ Owners
  BY Zenon DEF IInv
<1>2. CountExact' /\ LimitHolds' /\ Owners'
  BY <1>1, Zenon DEF CountExact, LimitHolds, Owners, Owned, Ended, Serving, Arrive, server
<1>3. clients' \in Nat /\ exists' \subseteq Clients /\ open' \subseteq Clients
      /\ IsChannelMap(channels')
  BY <1>1, Zenon DEF TypeOK, Arrive
<1> QED
  BY <1>2, <1>3, ConnsStep, Zenon DEF Arrive, server

\* handle_data, whatever it does to the subscriptions of c, whose socket may be
\* closed.
LEMMA HandleDataStep ==
  ASSUME IInv, NEW c \in Clients, HandleData(c)
  PROVE  IInv'
<1>1. TypeOK /\ CountExact /\ LimitHolds /\ Owners
  BY Zenon DEF IInv
<1>2. c \in held /\ c \in exists
  BY <1>1, Zenon DEF Owners, Ended, HandleData, Serving
<1>3. /\ IsChannelMap(channels')
      /\ \A ch \in Channels, d \in Clients :
             d # c => (d \in Members(channels', ch) <=> d \in Members(channels, ch))
  <2>1. IsChannelMap(channels)
    BY <1>1, Zenon DEF TypeOK
  <2>2. CASE channels' = channels
    BY <2>1, <2>2, Zenon
  <2>3. CASE channels' = UnsubscribeAll(channels, c)
    BY <2>1, <2>3, UnsubscribeAllEffect, Zenon
  <2>4. ASSUME NEW x \in Channels, channels' = Subscribe(channels, x, c)
        PROVE  <1>3!1 /\ <1>3!2
    BY <2>1, <2>4, SubscribeEffect
  <2>5. ASSUME NEW x \in Channels, channels' = Unsubscribe(channels, x, c)
        PROVE  <1>3!1 /\ <1>3!2
    BY <2>1, <2>5, UnsubscribeEffect, Zenon
  <2> QED
    BY <2>2, <2>3, <2>4, <2>5, Zenon DEF HandleData
<1>4. \A ch \in Channels : Members(channels', ch) \subseteq Clients
  BY Zenon DEF Members
<1>5. Owners'
  BY <1>1, <1>2, <1>3, <1>4, Zenon DEF Owners, Owned, Ended, HandleData, server, TypeOK
<1>6. CountExact' /\ LimitHolds' /\ clients' \in Nat
  BY <1>1, Zenon DEF CountExact, LimitHolds, HandleData, TypeOK
<1>7. exists' \subseteq Clients /\ open' \subseteq Clients
  BY <1>1, Zenon DEF TypeOK, HandleData
<1> QED
  BY <1>3, <1>5, <1>6, <1>7, ConnsStep, Zenon DEF HandleData, server

\* A socket closes.
LEMMA CloseStep ==
  ASSUME IInv, NEW c \in Clients, CloseSocket(c)
  PROVE  IInv'
<1>1. TypeOK /\ CountExact /\ LimitHolds /\ Owners
  BY Zenon DEF IInv
<1>2. CountExact' /\ LimitHolds' /\ Owners'
  BY <1>1, Zenon DEF CountExact, LimitHolds, Owners, Owned, Ended, CloseSocket, server
<1>3. clients' \in Nat /\ exists' \subseteq Clients /\ open' \subseteq Clients
      /\ IsChannelMap(channels')
  BY <1>1, Zenon DEF TypeOK, CloseSocket
<1> QED
  BY <1>2, <1>3, ConnsStep, Zenon DEF CloseSocket, server

\* PUBLISH makes the event loop hold connections the broker keeps alive.
LEMMA PublishStep ==
  ASSUME IInv, NEW ch \in Channels, Publish(ch)
  PROVE  IInv'
<1>1. TypeOK /\ CountExact /\ LimitHolds /\ Owners
  BY Zenon DEF IInv
<1>2. CountExact' /\ LimitHolds' /\ Owners'
  BY <1>1, Zenon DEF CountExact, LimitHolds, Owners, Owned, Ended, Serving, Publish, server
<1>3. clients' \in Nat /\ exists' \subseteq Clients /\ open' \subseteq Clients
      /\ IsChannelMap(channels')
  BY <1>1, Zenon DEF TypeOK, Publish
<1> QED
  BY <1>2, <1>3, ConnsStep, Zenon DEF Publish, server

\* The last handler of a closed connection destroys it unless the broker
\* still holds it.
LEMMA LastHandlerStep ==
  ASSUME IInv, NEW c \in Clients, LastHandler(c)
  PROVE  IInv'
<1> DEFINE C == IF Subscribed(c) THEN {} ELSE {c}
<1>1. TypeOK /\ Owners
  BY Zenon DEF IInv
<1>2. C \in SUBSET exists /\ Destroy(C)
  BY <1>1, Zenon DEF LastHandler, Owners
<1>3. /\ clients' \in Nat /\ exists' \subseteq Clients /\ open' \subseteq Clients
      /\ CountExact' /\ LimitHolds'
  BY <1>2, DestroyStep, Zenon
<1>4. Subscribed(c) <=> \E ch \in Channels : c \in Members(channels, ch)
  BY <1>1, SubscribedMember, Zenon DEF TypeOK
<1>5. Owners'
  BY <1>1, <1>2, <1>4, Zenon DEF Owners, Owned, Ended, LastHandler, Destroy, server
<1>6. IsChannelMap(channels')
  BY <1>1, Zenon DEF TypeOK, LastHandler
<1> QED
  BY <1>3, <1>5, <1>6, ConnsStep, Zenon DEF LastHandler, server

\* main's locals are destroyed: first what only handlers own, then the rest.
LEMMA ExitStep ==
  ASSUME IInv, DestroyServer \/ DestroyBroker
  PROVE  IInv'
<1>1. TypeOK /\ Owners
  BY Zenon DEF IInv
<1>2. CASE DestroyServer
  <2>1. {c \in exists : ~Subscribed(c)} \in SUBSET exists
    BY Zenon
  <2>2. /\ clients' \in Nat /\ exists' \subseteq Clients /\ open' \subseteq Clients
        /\ CountExact' /\ LimitHolds'
    BY <1>2, <2>1, DestroyStep, Zenon DEF DestroyServer
  <2>3. \A c \in exists : Subscribed(c) <=> \E ch \in Channels : c \in Members(channels, ch)
    BY <1>1, SubscribedMember, Zenon DEF TypeOK
  <2>4. Owners'
    BY <1>1, <1>2, <2>3, Zenon DEF Owners, Owned, Ended, DestroyServer, Destroy
  <2>5. IsChannelMap(channels')
    BY <1>1, <1>2, Zenon DEF TypeOK, DestroyServer
  <2> QED
    BY <1>2, <2>2, <2>4, <2>5, ConnsStep, Zenon DEF DestroyServer
<1>3. CASE DestroyBroker
  <2>1. /\ clients' \in Nat /\ exists' \subseteq Clients /\ open' \subseteq Clients
        /\ CountExact' /\ LimitHolds'
    BY <1>3, DestroyStep, Zenon DEF DestroyBroker
  <2>2. IsChannelMap(channels') /\ \A ch \in Channels : Members(channels', ch) = {}
    BY <1>3, NoChannels, Zenon DEF DestroyBroker
  <2>3. held' = {} /\ arrived' \subseteq held'
    BY <1>1, <1>3, Zenon DEF DestroyBroker, Owners, Ended
  <2>4. Owners'
    BY <1>3, <2>2, <2>3, Zenon DEF Owners, Owned, Ended, DestroyBroker, Destroy
  <2> QED
    BY <1>3, <2>1, <2>2, <2>4, ConnsStep, Zenon DEF DestroyBroker
<1> QED
  BY <1>2, <1>3, Zenon

\* The whole inductive step.
LEMMA Step ==
  ASSUME IInv, [Next]_vars
  PROVE  IInv'
<1>1. CASE Run \/ RunReturns \/ Signal \/ Poll \/ Refuse \/ AcceptThrows
  BY <1>1, ServerStep, Zenon
<1>2. CASE DestroyServer \/ DestroyBroker
  BY <1>2, ExitStep, Zenon
<1>3. ASSUME NEW c \in Clients,
             Accept(c) \/ Arrive(c) \/ HandleData(c) \/ CloseSocket(c) \/ LastHandler(c)
      PROVE  IInv'
  BY <1>3, AcceptStep, ArriveStep, HandleDataStep, CloseStep, LastHandlerStep, Zenon
<1>4. ASSUME NEW ch \in Channels, Publish(ch)
      PROVE  IInv'
  BY <1>4, PublishStep, Zenon
<1>5. CASE UNCHANGED vars
  BY <1>5, Zenon DEF vars, IInv, TypeOK, CountExact, LimitHolds, Owners, Owned, Ended, Started
<1> QED
  BY <1>1, <1>2, <1>3, <1>4, <1>5, Zenon DEF Next, Exit

\* The initial states satisfy the invariant.
LEMMA Start ==
  ASSUME Init
  PROVE  IInv
<1>1. IsChannelMap(channels) /\ \A ch \in Channels : Members(channels, ch) = {}
  BY NoChannels, Zenon DEF Init
<1>2. TypeOK
  BY <1>1, Zenon DEF Init, TypeOK, Phases
<1>3. CountExact /\ LimitHolds
  BY FS_EmptySet, MaxClientsAssumption DEF Init, CountExact, LimitHolds
<1>4. Owners /\ Started
  BY <1>1, Zenon DEF Init, Owners, Owned, Ended, Started
<1> QED
  BY <1>2, <1>3, <1>4, Zenon DEF IInv

\* The inductive invariant holds in every reachable state of server.cpp and
\* the connections' ownership.
THEOREM Invariance == Spec => []IInv
  BY Start, Step, PTL DEF Spec

\* connected_clients counts the Connection objects exactly, through accepts,
\* leaks and shutdown, for any number of clients.
THEOREM Counted == Spec => []CountExact
<1>1. IInv => CountExact
  BY Zenon DEF IInv
<1> QED
  BY <1>1, Invariance, PTL

\* Never more than max_clients_ connections exist.
THEOREM Limited == Spec => []LimitHolds
<1>1. IInv => LimitHolds
  BY Zenon DEF IInv
<1> QED
  BY <1>1, Invariance, PTL

\* Neither the broker nor the event loop refers to a destroyed connection,
\* and an object without either owner is destroyed.
THEOREM Safe == Spec => []NoDangling
<1>1. ASSUME IInv PROVE NoDangling
  <2>1. \A c \in exists : Subscribed(c) <=> \E ch \in Channels : c \in Members(channels, ch)
    BY <1>1, SubscribedMember, Zenon DEF IInv, TypeOK
  <2> QED
    BY <1>1, <2>1, Zenon DEF IInv, Owners, Owned, NoDangling
<1> QED
  BY <1>1, Invariance, PTL

\* A serving event loop accepts connections and watches for signals.
THEOREM Accepting == Spec => []ServingAccepts
<1>1. IInv => ServingAccepts
  BY Zenon DEF IInv, Started, ServingAccepts, Serving
<1> QED
  BY <1>1, Invariance, PTL

(***************************************************************************)
(* Config, what main makes of its arguments before it builds the server:  *)
(* for any arguments and any files, the command line overrides the file.  *)
(***************************************************************************)
\* The first argument is an option, and every other that is not one's value.
LEMMA OptionAtStep ==
  ASSUME args \in Seq(STRING)
  PROVE  \A n \in 1..Len(args) : OptionAt[n] <=> (n = 1 \/ ~(OptionAt[n - 1] /\ TakesValue(args[n - 1])))
<1> DEFINE N == Len(args)
           Is(f) == f = [n \in 1..N |-> n = 1 \/ ~(f[n - 1] /\ TakesValue(args[n - 1]))]
           step_ == [x \in BOOLEAN \X (1..N) |-> x[2] = 1 \/ ~(x[1] /\ TakesValue(args[x[2] - 1]))]
<1>0. N \in Nat
  OBVIOUS
<1>1. OptionAt = CHOOSE f : Is(f)
  BY Zenon DEF OptionAt
<1>2. step_ \in [BOOLEAN \X (1..N) -> BOOLEAN]
  BY Zenon
<1>3. \A x \in BOOLEAN, n \in 1..N : step_[<<x, n>>] = (n = 1 \/ ~(x /\ TakesValue(args[n - 1])))
  BY Zenon
<1> HIDE DEF N, step_
<1>4. PICK g : Steps(g, N, BOOLEAN, FALSE, step_)
  BY <1>0, <1>2, Recursion, Zenon
<1>5. g \in [0..N -> BOOLEAN] /\ \A n \in 1..N : g[n] = step_[<<g[n - 1], n>>]
  BY <1>4, Zenon DEF Steps
<1>6. ASSUME NEW n \in 1..N PROVE g[n] = (n = 1 \/ ~(g[n - 1] /\ TakesValue(args[n - 1])))
  <2>1. n - 1 \in 0..N
    BY <1>0
  <2>2. g[n - 1] \in BOOLEAN
    BY <1>5, <2>1, Zenon
  <2>3. step_[<<g[n - 1], n>>] = (n = 1 \/ ~(g[n - 1] /\ TakesValue(args[n - 1])))
    BY <1>3, <2>2, Zenon
  <2> QED
    BY <1>5, <2>3, Zenon
<1> DEFINE f == [n \in 1..N |-> g[n]]
<1>7. Is(f)
  <2>1. ASSUME NEW n \in 1..N PROVE f[n] = (n = 1 \/ ~(f[n - 1] /\ TakesValue(args[n - 1])))
    <3>1. CASE n = 1
      BY <1>6, <3>1, Zenon
    <3>2. CASE n # 1
      <4>1. n - 1 \in 1..N
        BY <1>0, <3>2
      <4>2. f[n - 1] = g[n - 1]
        BY <4>1, Zenon
      <4> QED
        BY <1>6, <4>2, Zenon
    <3> QED
      BY <3>1, <3>2, Zenon
  <2> QED
    BY <2>1, Zenon
<1>8. Is(OptionAt)
  BY <1>1, <1>7, Zenon
<1>9. ASSUME NEW n \in 1..N PROVE OptionAt[n] = (n = 1 \/ ~(OptionAt[n - 1] /\ TakesValue(args[n - 1])))
  BY <1>8, Zenon
<1> QED
  BY <1>9, Zenon DEF N

\* What FieldOf makes of the options with a value.
LEMMA FieldFacts ==
  \A a \in ValueOptions : /\ FieldOf(a) \in Fields \ {"aof_enabled"}
                          /\ FieldOf(a) = "aof_path" <=> a = "--aof"
<1>1. FieldOf("--port") = "port" /\ FieldOf("--aof") = "aof_path" /\ FieldOf("--requirepass") = "requirepass"
  BY Zenon DEF FieldOf
<1>2. FieldOf("--log-level") = "log_level" /\ FieldOf("--log-format") = "log_format"
  BY Zenon DEF FieldOf
<1>3. /\ FieldOf("--max-request-bytes") = "max_request_bytes"
      /\ FieldOf("--idle-timeout-seconds") = "idle_timeout_seconds"
  BY Zenon DEF FieldOf
<1>4. /\ FieldOf("--max-clients") = "max_clients"
      /\ FieldOf("--max-pending-write-bytes") = "max_pending_write_bytes"
  BY Zenon DEF FieldOf
<1> QED
  BY <1>1, <1>2, <1>3, <1>4 DEF ValueOptions, Fields, NumberFields, TextFields

\* The setting that the option at n gives to f.
Gives(f, n) == IF f = "aof_enabled" THEN args[n] = "--aof" ELSE Convert(f, args[n + 1])

\* What load_config_file leaves in f.
Loads(f) == IF path \in DOMAIN Files /\ f \in DOMAIN Files[path] /\ Reads(f, Files[path][f])
            THEN Convert(f, Files[path][f]) ELSE Default[f]

\* The first pass before k has seen every --config of the command line, and
\* taken the last one's file unless the argument behind is itself one.
Found(k) ==
    \/ path = NoPath /\ \A m \in ConfigOptions : m >= k
    \/ \E n \in 1..Len(args) : /\ args[n] = "--config" /\ n < Len(args) /\ n < k
                               /\ path = args[n + 1]
                               /\ \A m \in ConfigOptions : m >= k \/ m <= n + 1

\* The second pass before k has given f its setting.
Settled(f, k) ==
    \/ cfg[f] = Loads(f) /\ \A m \in Deciding(f) : m >= k
    \/ \E n \in Deciding(f) : /\ n < k /\ cfg[f] = Gives(f, n)
                              /\ \A m \in Deciding(f) : m >= k \/ m <= n

\* The inductive invariant of the two passes.
Passes ==
    /\ args \in Seq(STRING) /\ \A n \in 1..Len(args) : args[n] # NoPath
    /\ i \in Nat \ {0}
    /\ DOMAIN cfg = Fields /\ cfg = [f \in Fields |-> cfg[f]]
    /\ step = "find" => Found(i) /\ cfg = Default
    /\ step \in {"apply", "ok"} =>
           /\ Found(Len(args) + 1) /\ path \in DOMAIN Files \cup {NoPath}
           /\ i <= Len(args) => OptionAt[i]
           /\ \A n \in 1..Len(args) :
                  n < i /\ OptionAt[n] => args[n] \in ValueOptions \cup {"--config", "--no-aof"}
           /\ \A f \in Fields : Settled(f, i)
    /\ step = "ok" => i > Len(args)

\* The program starts in the invariant.
LEMMA StartPasses ==
  ASSUME ConfigInit
  PROVE  Passes
<1>1. args \in Seq(STRING) /\ \A n \in 1..Len(args) : args[n] # NoPath
  BY InputsAssumption, Zenon DEF ConfigInit
<1>2. DOMAIN Default = Fields /\ Default = [f \in Fields |-> Default[f]]
  BY DEF Default, Fields, NumberFields, TextFields
<1>3. Found(1)
  BY <1>1 DEF ConfigInit, Found, ConfigOptions
<1> QED
  BY <1>1, <1>2, <1>3 DEF ConfigInit, Passes

\* A step that leaves the arguments alone leaves what they say alone.
LEMMA SameArgs ==
  ASSUME args' = args
  PROVE  /\ OptionAt' = OptionAt /\ ConfigOptions' = ConfigOptions
         /\ \A f : Deciding(f)' = Deciding(f)
         /\ \A f, n : Gives(f, n)' = Gives(f, n)
<1>1. OptionAt' = OptionAt
  BY DEF OptionAt
<1> QED
  BY <1>1, Zenon DEF ConfigOptions, Deciding, Gives

\* A step of the first pass.
LEMMA FindPasses ==
  ASSUME Passes, FindConfig
  PROVE  Passes'
<1>1. /\ step = "find" /\ i <= Len(args) /\ step' = step /\ args' = args /\ cfg' = cfg
      /\ IF args[i] = "--config" /\ i < Len(args)
         THEN path' = args[i + 1] /\ i' = i + 2
         ELSE path' = path /\ i' = i + 1
  BY Zenon DEF FindConfig
<1>2. args \in Seq(STRING) /\ Len(args) \in Nat /\ i \in 1..Len(args) /\ Found(i)
  BY <1>1 DEF Passes
<1>3. /\ ConfigOptions' = ConfigOptions
      /\ \A m \in ConfigOptions : m \in 1..Len(args) /\ args[m] = "--config" /\ m < Len(args)
  BY <1>1, <1>2, SameArgs DEF ConfigOptions
<1>4. Found(i)'
  <2>1. CASE args[i] = "--config" /\ i < Len(args)
    <3>1. \A m \in ConfigOptions : m >= i + 2 \/ m <= i + 1
      BY <1>2, <1>3
    <3> QED
      BY <1>1, <1>2, <1>3, <2>1, <3>1 DEF Found
  <2>2. CASE ~(args[i] = "--config" /\ i < Len(args))
    <3>1. \A m \in ConfigOptions : m >= i => m >= i + 1
      BY <1>2, <1>3, <2>2
    <3> QED
      BY <1>1, <1>2, <1>3, <2>2, <3>1 DEF Found
  <2> QED
    BY <2>1, <2>2, Zenon
<1>5. i' \in Nat \ {0}
  BY <1>1, <1>2
<1> QED
  BY <1>1, <1>4, <1>5, Zenon DEF Passes

\* Loading the file between the passes.
LEMMA LoadPasses ==
  ASSUME Passes, Load
  PROVE  Passes'
<1>1. /\ step = "find" /\ i > Len(args) /\ i' = 1 /\ args' = args /\ path' = path
      /\ step' \in {"apply", "error"}
  BY Zenon DEF Load
<1>2. /\ args \in Seq(STRING) /\ Len(args) \in Nat /\ i \in Nat /\ Found(i) /\ cfg = Default
      /\ (\A n \in 1..Len(args) : args[n] # NoPath) /\ DOMAIN cfg = Fields /\ cfg = [f \in Fields |-> cfg[f]]
  BY <1>1 DEF Passes
<1>3. CASE step' = "error"
  <2>1. cfg' = cfg
    BY <1>3, Zenon DEF Load
  <2> QED
    BY <1>1, <1>2, <1>3, <2>1 DEF Passes
<1>4. CASE step' = "apply"
  <2>1. /\ path \in DOMAIN Files \cup {NoPath}
        /\ path = NoPath => cfg' = cfg
        /\ path \in DOMAIN Files => cfg' = Loaded(path)
    BY <1>4, InputsAssumption, Zenon DEF Load
  <2>2. DOMAIN cfg' = Fields /\ cfg' = [f \in Fields |-> cfg'[f]] /\ \A f \in Fields : cfg'[f] = Loads(f)
    <3>1. CASE path = NoPath
      BY <1>2, <2>1, <3>1, InputsAssumption, Zenon DEF Loads
    <3>2. CASE path \in DOMAIN Files
      BY <1>2, <2>1, <3>2, Zenon DEF Loads, Loaded
    <3> QED
      BY <2>1, <3>1, <3>2, Zenon
  <2>3. ConfigOptions' = ConfigOptions /\ \A m \in ConfigOptions : m \in 1..Len(args)
    BY <1>1, <1>2, SameArgs DEF ConfigOptions
  <2>4. (Found(Len(args) + 1))'
    <3>1. \A m \in ConfigOptions : ~(m >= i)
      BY <1>1, <1>2, <2>3
    <3> QED
      BY <1>1, <1>2, <2>3, <3>1 DEF Found
  <2>5. \A f \in Fields : Settled(f, i)'
    <3>1. \A f \in Fields : Loads(f)' = Loads(f)
      BY <1>1, Zenon DEF Loads
    <3>2. \A f : Deciding(f)' = Deciding(f) /\ \A m \in Deciding(f) : m >= 1
      BY <1>1, <1>2, SameArgs DEF Deciding
    <3> QED
      BY <1>1, <2>2, <3>1, <3>2, Zenon DEF Settled
  <2>6. (i <= Len(args) => OptionAt[i])'
    <3>1. 1 <= Len(args) => OptionAt[1]
      BY <1>2, OptionAtStep
    <3> QED
      BY <1>1, <3>1, SameArgs, Zenon
  <2>7. path' \in DOMAIN Files \cup {NoPath} /\ \A n \in 1..Len(args') : ~(n < i')
    BY <1>1, <1>2, <2>1
  <2> QED
    BY <1>1, <1>2, <1>4, <2>2, <2>4, <2>5, <2>6, <2>7 DEF Passes
<1> QED
  BY <1>1, <1>3, <1>4, Zenon

\* The second pass goes over an option, which is one of the known ones and
\* gives each setting it decides about its value.
LEMMA Applied ==
  ASSUME Passes, Applying, args' = args, path' = path, step' = step,
         i' = (IF TakesValue(args[i]) THEN i + 2 ELSE i + 1),
         args[i] \in ValueOptions \cup {"--config", "--no-aof"},
         DOMAIN cfg' = Fields, cfg' = [f \in Fields |-> cfg'[f]],
         \A f \in Fields : cfg'[f] = IF i \in Deciding(f) THEN Gives(f, i) ELSE cfg[f]
  PROVE  Passes'
<1>1. /\ args \in Seq(STRING) /\ Len(args) \in Nat /\ i \in 1..Len(args)
      /\ step = "apply" /\ OptionAt[i] /\ \A f \in Fields : Settled(f, i)
  BY DEF Passes, Applying
<1>2. i' \in Nat \ {0} /\ i' > i
  BY <1>1
<1>3. \A n \in 1..Len(args) : n >= i /\ n # i /\ OptionAt[n] => n >= i'
  <2>1. i + 1 \in 1..Len(args) /\ TakesValue(args[i]) => ~OptionAt[i + 1]
    BY <1>1, OptionAtStep
  <2> QED
    BY <1>1, <2>1
<1>4. i' <= Len(args) => OptionAt[i']
  <2>1. CASE TakesValue(args[i]) /\ i + 2 <= Len(args)
    <3>1. i + 1 \in 1..Len(args) /\ i + 2 \in 1..Len(args) /\ (i + 2) - 1 = i + 1 /\ (i + 1) - 1 = i /\ i + 1 # 1
      BY <1>1, <2>1
    <3>2. OptionAt[i + 1] <=> ~(OptionAt[i] /\ TakesValue(args[i]))
      BY <1>1, <3>1, OptionAtStep, Zenon
    <3>3. OptionAt[i + 2]
      BY <1>1, <2>1, <3>1, <3>2, OptionAtStep, Zenon
    <3> QED
      BY <2>1, <3>3, Zenon
  <2>2. CASE ~TakesValue(args[i]) /\ i + 1 <= Len(args)
    <3>1. i + 1 \in 1..Len(args) /\ (i + 1) - 1 = i
      BY <1>1, <2>2
    <3>2. OptionAt[i + 1]
      BY <1>1, <2>2, <3>1, OptionAtStep, Zenon
    <3> QED
      BY <2>2, <3>2, Zenon
  <2> QED
    BY <1>1, <2>1, <2>2, Zenon
<1>5. ASSUME NEW f \in Fields PROVE Settled(f, i)'
  <2>1. \A m \in Deciding(f) : m \in 1..Len(args) /\ OptionAt[m]
    BY <1>1 DEF Deciding
  <2>2. \A m \in Deciding(f) : m >= i /\ m # i => m >= i'
    BY <1>3, <2>1, Zenon
  <2>3. Deciding(f)' = Deciding(f) /\ Loads(f)' = Loads(f) /\ \A n : Gives(f, n)' = Gives(f, n)
    <3>1. Loads(f)' = Loads(f)
      BY Zenon DEF Loads
    <3> QED
      BY <3>1, SameArgs, Zenon
  <2>4. CASE i \in Deciding(f)
    <3>1. \A m \in Deciding(f) : m >= i' \/ m <= i
      BY <1>1, <2>1, <2>2
    <3> QED
      BY <1>2, <2>3, <2>4, <3>1, Zenon DEF Settled
  <2>5. CASE i \notin Deciding(f)
    <3>1. cfg'[f] = cfg[f] /\ Settled(f, i)
      BY <1>1, <2>5, Zenon
    <3>2. CASE cfg[f] = Loads(f) /\ \A m \in Deciding(f) : m >= i
      <4>1. \A m \in Deciding(f) : m >= i'
        BY <2>2, <2>5, <3>2, Zenon
      <4> QED
        BY <2>3, <3>1, <3>2, <4>1, Zenon DEF Settled
    <3>3. CASE \E n \in Deciding(f) : /\ n < i /\ cfg[f] = Gives(f, n)
                                      /\ \A m \in Deciding(f) : m >= i \/ m <= n
      <4>1. PICK n \in Deciding(f) : /\ n < i /\ cfg[f] = Gives(f, n)
                                     /\ \A m \in Deciding(f) : m >= i \/ m <= n
        BY <3>3, Zenon
      <4>2. n < i' /\ \A m \in Deciding(f) : m >= i' \/ m <= n
        BY <1>1, <1>2, <2>1, <2>2, <2>5, <4>1
      <4> QED
        BY <2>3, <3>1, <4>1, <4>2, Zenon DEF Settled
    <3> QED
      BY <3>1, <3>2, <3>3, Zenon DEF Settled
  <2> QED
    BY <2>4, <2>5, Zenon
<1>6. (Found(Len(args) + 1))'
  <2>1. Found(Len(args) + 1)
    BY <1>1, Zenon DEF Passes
  <2> QED
    BY <2>1, SameArgs, Zenon DEF Found
<1>7. \A n \in 1..Len(args) : n < i' /\ OptionAt[n] => args[n] \in ValueOptions \cup {"--config", "--no-aof"}
  <2>1. \A n \in 1..Len(args) : n < i /\ OptionAt[n] => args[n] \in ValueOptions \cup {"--config", "--no-aof"}
    BY <1>1, Zenon DEF Passes
  <2>2. \A n \in 1..Len(args) : n < i' /\ OptionAt[n] => n < i \/ n = i
    BY <1>1, <1>2, <1>3
  <2> QED
    BY <2>1, <2>2, Zenon
<1>8. OptionAt' = OptionAt
  BY SameArgs, Zenon
<1>9. path \in DOMAIN Files \cup {NoPath} /\ \A n \in 1..Len(args) : args[n] # NoPath
  BY <1>1, Zenon DEF Passes
<1> QED
  BY <1>1, <1>2, <1>4, <1>5, <1>6, <1>7, <1>8, <1>9, Zenon DEF Passes

\* The options that decide about no setting, about one, and about the AOF.
LEMMA Decides ==
  ASSUME Passes, Applying
  PROVE  /\ OptionAt[i] /\ i \in DOMAIN args
         /\ args[i] = "--config" => \A f : i \notin Deciding(f)
         /\ args[i] = "--no-aof" => \A f \in Fields : i \in Deciding(f) <=> f = "aof_enabled"
         /\ args[i] \in ValueOptions =>
                \A f \in Fields : i \in Deciding(f) <=>
                    f = FieldOf(args[i]) \/ (f = "aof_enabled" /\ FieldOf(args[i]) = "aof_path")
<1>1. OptionAt[i] /\ i \in DOMAIN args
  BY DEF Passes, Applying
<1>2. /\ "--config" \notin ValueOptions \cup {"--aof", "--no-aof"}
      /\ "--no-aof" \notin ValueOptions
  BY Zenon DEF ValueOptions
<1> QED
  BY <1>1, <1>2, FieldFacts, Zenon DEF Deciding

\* The steps of the second pass.
LEMMA ApplyPasses ==
  ASSUME Passes, SkipConfig \/ ApplyValue \/ NoAof
  PROVE  Passes'
<1>0. /\ "--config" \notin ValueOptions /\ "--no-aof" \notin ValueOptions \cup {"--config"}
      /\ "aof_enabled" \in Fields /\ "aof_path" \in Fields
  BY Zenon DEF ValueOptions, Fields, TextFields
<1>1. Applying /\ args' = args /\ path' = path /\ step' = step
  BY Zenon DEF SkipConfig, ApplyValue, NoAof
<1>2. DOMAIN cfg = Fields /\ cfg = [f \in Fields |-> cfg[f]]
  BY Zenon DEF Passes
<1>3. CASE SkipConfig
  <2>1. args[i] = "--config" /\ i' = i + 2 /\ cfg' = cfg
    BY <1>3, Zenon DEF SkipConfig
  <2>2. \A f \in Fields : i \notin Deciding(f)
    BY <1>1, <2>1, Decides, Zenon
  <2> QED
    BY <1>0, <1>1, <1>2, <2>1, <2>2, Applied, Zenon DEF TakesValue
<1>4. CASE NoAof
  <2>1. args[i] = "--no-aof" /\ i' = i + 1 /\ cfg' = [cfg EXCEPT !.aof_enabled = FALSE]
    BY <1>4, Zenon DEF NoAof
  <2>2. DOMAIN cfg' = Fields /\ cfg' = [f \in Fields |-> cfg'[f]]
        /\ \A f \in Fields : cfg'[f] = IF f = "aof_enabled" THEN FALSE ELSE cfg[f]
    BY <1>2, <2>1, Zenon
  <2>3. Gives("aof_enabled", i) = FALSE
    BY <2>1, Zenon DEF Gives
  <2>4. \A f \in Fields : cfg'[f] = IF i \in Deciding(f) THEN Gives(f, i) ELSE cfg[f]
    BY <1>1, <2>1, <2>2, <2>3, Decides, Zenon
  <2> QED
    BY <1>0, <1>1, <2>1, <2>2, <2>4, Applied, Zenon DEF TakesValue
<1>5. CASE ApplyValue
  <2> DEFINE f0 == FieldOf(args[i])
             v == Convert(f0, args[i + 1])
             set == [cfg EXCEPT ![f0] = v]
  <2>1. /\ args[i] \in ValueOptions /\ i' = i + 2
        /\ cfg' = IF f0 = "aof_path" THEN [set EXCEPT !.aof_enabled = TRUE] ELSE set
    BY <1>5, Zenon DEF ApplyValue
  <2>2. f0 \in Fields \ {"aof_enabled"} /\ (f0 = "aof_path" <=> args[i] = "--aof")
    BY <2>1, FieldFacts, Zenon
  <2>3. Gives(f0, i) = v /\ (f0 = "aof_path" => Gives("aof_enabled", i) = TRUE)
    BY <2>2, Zenon DEF Gives
  <2>4. \A f \in Fields : i \in Deciding(f) <=> f = f0 \/ (f = "aof_enabled" /\ f0 = "aof_path")
    BY <1>1, <2>1, Decides, Zenon
  <2> HIDE DEF f0, v
  <2>5. DOMAIN cfg' = Fields /\ cfg' = [f \in Fields |-> cfg'[f]]
    BY <1>0, <1>2, <2>1, <2>2, Zenon
  <2>6. \A f \in Fields : cfg'[f] = IF f = f0 THEN v
                                    ELSE IF f = "aof_enabled" /\ f0 = "aof_path" THEN TRUE ELSE cfg[f]
    BY <1>0, <1>2, <2>1, <2>2, Zenon
  <2>7. \A f \in Fields : cfg'[f] = IF i \in Deciding(f) THEN Gives(f, i) ELSE cfg[f]
    BY <2>2, <2>3, <2>4, <2>6, Zenon
  <2> QED
    BY <1>1, <2>1, <2>5, <2>7, Applied, Zenon DEF TakesValue
<1> QED
  BY <1>3, <1>4, <1>5, Zenon

\* Every step of parse_args keeps the invariant.
LEMMA NextPasses ==
  ASSUME Passes, [ParseArgs]_configVars
  PROVE  Passes'
<1>1. CASE FindConfig
  BY <1>1, FindPasses, Zenon
<1>2. CASE Load
  BY <1>2, LoadPasses, Zenon
<1>3. CASE SkipConfig \/ ApplyValue \/ NoAof
  BY <1>3, ApplyPasses, Zenon
<1>4. CASE Help \/ Reject
  BY <1>4, Zenon DEF Help, Reject, Passes
<1>5. ASSUME UNCHANGED <<args, path, cfg, i>>
      PROVE  /\ OptionAt' = OptionAt /\ (Found(Len(args) + 1) <=> (Found(Len(args) + 1))')
             /\ \A f \in Fields : Settled(f, i) => Settled(f, i)'
             /\ Found(i) => Found(i)'
  <2>1. \A f : Loads(f)' = Loads(f)
    BY <1>5, Zenon DEF Loads
  <2> QED
    BY <1>5, <2>1, SameArgs DEF Found, Settled
<1>6. CASE Return
  <2>1. step = "apply" /\ i > Len(args) /\ step' = "ok" /\ UNCHANGED <<args, i, path, cfg>>
    BY <1>6, Zenon DEF Return
  <2> QED
    BY <1>5, <2>1, Zenon DEF Passes
<1>7. CASE UNCHANGED configVars
  <2>1. UNCHANGED <<args, i, path, cfg>> /\ step' = step
    BY <1>7, Zenon DEF configVars
  <2> QED
    BY <1>5, <2>1, Zenon DEF Passes
<1> QED
  BY <1>1, <1>2, <1>3, <1>4, <1>6, <1>7, Zenon DEF ParseArgs

\* The first pass does not know which arguments are other options' values, and
\* still, when the arguments are accepted, it has found the file that the last
\* --config names.
LEMMA FoundLast ==
  ASSUME OrdinaryFiles, Passes, step = "ok"
  PROVE  /\ path = NoPath <=> ConfigOptions = {}
         /\ ConfigOptions # {} => path = args[LastOf(ConfigOptions) + 1] /\ path \in DOMAIN Files
<1>1. /\ args \in Seq(STRING) /\ Len(args) \in Nat /\ path \in DOMAIN Files \cup {NoPath}
      /\ \A n \in 1..Len(args) : args[n] # NoPath
      /\ Found(Len(args) + 1)
      /\ \A n \in 1..Len(args) : OptionAt[n] => args[n] \in ValueOptions \cup {"--config", "--no-aof"}
  BY DEF Passes
<1>2. \A m \in ConfigOptions : m \in 1..Len(args) /\ OptionAt[m] /\ args[m] = "--config" /\ m < Len(args)
  BY <1>1 DEF ConfigOptions
<1>3. CASE path = NoPath /\ \A m \in ConfigOptions : m >= Len(args) + 1
  <2>1. ConfigOptions = {}
    BY <1>1, <1>2, <1>3
  <2> QED
    BY <1>3, <2>1, Zenon
<1>4. CASE \E n \in 1..Len(args) : /\ args[n] = "--config" /\ n < Len(args) /\ n < Len(args) + 1
                                   /\ path = args[n + 1]
                                   /\ \A m \in ConfigOptions : m >= Len(args) + 1 \/ m <= n + 1
  <2>1. PICK n \in 1..Len(args) : /\ args[n] = "--config" /\ n < Len(args)
                                  /\ path = args[n + 1]
                                  /\ \A m \in ConfigOptions : m >= Len(args) + 1 \/ m <= n + 1
    BY <1>4, Zenon
  <2>2. n + 1 \in 1..Len(args) /\ (n + 1) - 1 = n /\ n + 1 # 1
    BY <1>1, <2>1
  <2>3. path # NoPath /\ path \in DOMAIN Files
    BY <1>1, <2>1, <2>2, Zenon
  <2>4. OptionAt[n + 1] <=> ~(OptionAt[n] /\ TakesValue(args[n]))
    BY <1>1, <2>2, OptionAtStep, Zenon
  <2>5. OptionAt[n]
    <3>1. path \notin ValueOptions \cup {"--config", "--no-aof"}
      BY <2>3, Zenon DEF OrdinaryFiles
    <3> QED
      BY <1>1, <2>1, <2>2, <2>4, <3>1, Zenon
  <2>6. n \in ConfigOptions
    BY <1>1, <2>1, <2>5 DEF ConfigOptions
  <2>7. \A m \in ConfigOptions : m <= n
    <3>1. ~OptionAt[n + 1]
      BY <2>1, <2>4, <2>5, Zenon DEF TakesValue
    <3>2. \A m \in ConfigOptions : m # n + 1 /\ m \in Nat /\ ~(m >= Len(args) + 1)
      BY <1>1, <1>2, <3>1
    <3> QED
      BY <2>1, <3>2
  <2>8. LastOf(ConfigOptions) = n
    <3>1. \A k \in ConfigOptions : k \in Nat
      BY <1>2
    <3> DEFINE L == LastOf(ConfigOptions)
    <3>2. L \in ConfigOptions /\ \A k \in ConfigOptions : k <= L
      BY <2>6, <2>7, Zenon DEF LastOf
    <3> HIDE DEF L
    <3>3. L = n
      BY <2>6, <2>7, <3>1, <3>2
    <3> QED
      BY <3>3, Zenon DEF L
  <2> QED
    BY <2>1, <2>3, <2>6, <2>8, Zenon
<1> QED
  BY <1>1, <1>3, <1>4, Zenon DEF Found

\* print_usage's "CLI options override values from --config", for every list of
\* arguments and every set of files none of which is named like an option.
THEOREM Overriding == OrdinaryFiles => (ConfigSpec => []CliOverrides)
<1> SUFFICES ASSUME OrdinaryFiles PROVE ConfigSpec => []CliOverrides
  BY Zenon
<1>1. ConfigInit => Passes
  BY StartPasses, Zenon
<1>2. Passes /\ [ParseArgs]_configVars => Passes'
  BY NextPasses, Zenon
<1>3. Passes => CliOverrides
  <2> SUFFICES ASSUME Passes, step = "ok", NEW f \in Fields
               PROVE  cfg[f] = IF Deciding(f) # {} THEN Given(f)
                               ELSE IF InFile(f)
                                    THEN Convert(f, Files[args[LastOf(ConfigOptions) + 1]][f])
                                    ELSE Default[f]
    BY Zenon DEF CliOverrides
  <2>1. args \in Seq(STRING) /\ Len(args) \in Nat /\ i \in Nat /\ i > Len(args) /\ Settled(f, i)
    BY DEF Passes
  <2>2. \A m \in Deciding(f) : m \in Nat /\ ~(m >= i)
    BY <2>1 DEF Deciding
  <2>3. CASE Deciding(f) = {}
    <3>1. cfg[f] = Loads(f)
      BY <2>1, <2>3, Zenon DEF Settled
    <3>2. CASE ConfigOptions = {}
      BY <2>3, <3>1, <3>2, FoundLast, InputsAssumption, Zenon DEF Loads, InFile
    <3>3. CASE ConfigOptions # {}
      BY <2>3, <3>1, <3>3, FoundLast, Zenon DEF Loads, InFile
    <3> QED
      BY <3>2, <3>3, Zenon
  <2>4. CASE Deciding(f) # {}
    <3>1. PICK n \in Deciding(f) : cfg[f] = Gives(f, n) /\ \A m \in Deciding(f) : m <= n
      BY <2>1, <2>2, <2>4, Zenon DEF Settled
    <3> DEFINE L == LastOf(Deciding(f))
    <3>2. L \in Deciding(f) /\ \A k \in Deciding(f) : k <= L
      BY <3>1, Zenon DEF LastOf
    <3> HIDE DEF L
    <3>3. L = n
      BY <2>2, <3>1, <3>2
    <3>4. Given(f) = Gives(f, L)
      BY Zenon DEF Given, Gives, L
    <3> QED
      BY <2>4, <3>1, <3>3, <3>4, Zenon
  <2> QED
    BY <2>3, <2>4, Zenon
<1> QED
  BY <1>1, <1>2, <1>3, PTL DEF ConfigSpec
=============================================================================
