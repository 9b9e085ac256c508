------------------------------- MODULE Server -------------------------------
(***************************************************************************)
(* The process around the connections: Server (server/server.cpp), the    *)
(* life of Connection objects (server/connection.cpp), the references the *)
(* broker holds to them, ServerStats, and main's order of destruction.    *)
(*                                                                         *)
(* A Connection lives as long as a shared_ptr to it does: in a handler of *)
(* the event loop (an outstanding operation, a posted do_write) or in a   *)
(* write_fn of the broker.  What its handlers do to the data is in        *)
(* Connection.tla and PubSub.tla; here they subscribe, close or go on.    *)
(***************************************************************************)
EXTENDS Broker, Integers

CONSTANT MaxClients   \* max_clients_

ASSUME MaxClientsAssumption == MaxClients \in Nat
ASSUME ClientsFinite == IsFiniteSet(Clients)

VARIABLES
    phase,      \* how far main and Server::run have come
    ready,      \* stats_->ready
    stopping,   \* stopping_; the io_context is stopped with it
    flag,       \* g_last_signal # 0
    accepting,  \* an async_accept is outstanding
    polling,    \* the wait of signal_poll_timer_ is outstanding
    clients,    \* stats_->connected_clients
    exists,     \* Connection objects that are constructed and not destroyed
    open,       \* those whose socket is open
    held,       \* those some handler of the event loop holds a pointer to
    arrived,    \* those with a read that has completed and is not yet handled
    channels    \* PubSubBroker::channels_

server == <<phase, ready, stopping, flag, accepting, polling>>
conns  == <<clients, exists, open, held, arrived, channels>>
vars   == <<phase, ready, stopping, flag, accepting, polling, clients, exists,
            open, held, arrived, channels>>

Phases == {"main", "ready", "cleared", "installed", "polled", "running",
           "returned", "server gone", "exited", "terminated"}

TypeOK ==
    /\ phase \in Phases
    /\ ready \in BOOLEAN /\ stopping \in BOOLEAN /\ flag \in BOOLEAN
    /\ accepting \in BOOLEAN /\ polling \in BOOLEAN
    /\ clients \in Nat
    /\ exists \subseteq Clients /\ open \subseteq Clients /\ held \subseteq Clients
    /\ arrived \subseteq Clients
    /\ IsChannelMap(channels)

Init ==
    /\ phase = "main"
    /\ ready = FALSE /\ stopping = FALSE /\ flag = FALSE
    /\ accepting = FALSE /\ polling = FALSE
    /\ clients = 0
    /\ exists = {} /\ open = {} /\ held = {} /\ arrived = {}
    /\ channels = [ch \in {} |-> NoSubscribers]

(***************************************************************************)
(* Server::run.                                                           *)
(***************************************************************************)
\* stop: the acceptor is closed, the timer cancelled, the io_context stopped.
Stop ==
    /\ stopping' = TRUE
    /\ ready' = FALSE
    /\ accepting' = FALSE
    /\ polling' = FALSE

PollSignalFlagOnce ==
    \/ flag /\ Stop
    \/ ~flag /\ polling' = FALSE /\ UNCHANGED <<ready, stopping, accepting>>
PollSignalFlag ==
    \/ flag /\ Stop
    \/ ~flag /\ polling' = TRUE /\ UNCHANGED <<ready, stopping, accepting>>

RunReady ==
    /\ phase = "main"
    /\ phase' = "ready"
    /\ ready' = TRUE
    /\ UNCHANGED <<stopping, flag, accepting, polling, conns>>

ClearFlag ==
    /\ phase = "ready"
    /\ phase' = "cleared"
    /\ flag' = FALSE
    /\ UNCHANGED <<ready, stopping, accepting, polling, conns>>

InstallHandlers ==
    /\ phase = "cleared"
    /\ phase' = "installed"
    /\ UNCHANGED <<ready, stopping, flag, accepting, polling, conns>>

FirstPoll ==
    /\ phase = "installed"
    /\ phase' = "polled"
    /\ PollSignalFlag
    /\ UNCHANGED <<flag, conns>>

\* do_accept, then io_ctx_.run().  On an acceptor that stop() has closed the
\* accept fails, and a stopped io_context runs no handler.
FirstAccept ==
    /\ phase = "polled"
    /\ phase' = "running"
    /\ accepting' = ~stopping
    /\ UNCHANGED <<ready, stopping, flag, polling, conns>>

\* SIGINT or SIGTERM; before the handlers are installed it ends the process.
Signal ==
    /\ phase \notin {"exited", "terminated"}
    /\ \/ /\ phase \in {"main", "ready", "cleared"}
          /\ phase' = "terminated"
          /\ UNCHANGED flag
       \/ /\ phase \notin {"main", "ready", "cleared"}
          /\ flag' = TRUE
          /\ UNCHANGED phase
    /\ UNCHANGED <<ready, stopping, accepting, polling, conns>>

\* The event loop runs handlers.
Serving == phase = "running" /\ ~stopping

\* signal_poll_timer_ has expired.
Poll ==
    /\ Serving /\ polling
    /\ PollSignalFlag
    /\ UNCHANGED <<phase, flag, conns>>

RunReturns ==
    /\ phase = "running" /\ stopping
    /\ phase' = "returned"
    /\ UNCHANGED <<ready, stopping, flag, accepting, polling, conns>>

(***************************************************************************)
(* do_accept's handler.                                                   *)
(***************************************************************************)
\* At the limit, and after an error that is not the end, it accepts again.
RefuseForgets ==
    /\ Serving /\ accepting
    /\ clients >= MaxClients
    /\ accepting' = FALSE
    /\ UNCHANGED <<phase, ready, stopping, flag, polling, conns>>
Refuse ==
    /\ Serving /\ accepting
    /\ clients >= MaxClients
    /\ accepting' = TRUE
    /\ UNCHANGED <<phase, ready, stopping, flag, polling, conns>>

\* Connection::create and start.
Accept(c) ==
    /\ Serving /\ accepting
    /\ clients < MaxClients
    /\ c \notin exists
    /\ clients' = clients + 1
    /\ exists' = exists \cup {c}
    /\ open' = open \cup {c}
    /\ held' = held \cup {c}
    /\ UNCHANGED <<server, arrived, channels>>

\* remote_endpoint() throws when the peer has gone already; nothing between
\* the handler and main catches it.
AcceptThrows ==
    /\ Serving /\ accepting
    /\ clients < MaxClients
    /\ phase' = "terminated"
    /\ UNCHANGED <<ready, stopping, flag, accepting, polling, conns>>

(***************************************************************************)
(* Connection objects.                                                    *)
(***************************************************************************)
Subscribed(c) == Removed(channels, c) # {}

\* ~Connection for every object of C, and what is left of the others.
Destroy(C) ==
    /\ clients' = clients - Cardinality(C)
    /\ exists' = exists \ C
    /\ open' = open \ C

\* A read of an open socket completes with bytes: its handler is ready.
Arrive(c) ==
    /\ Serving
    /\ c \in open
    /\ arrived' = arrived \cup {c}
    /\ UNCHANGED <<server, clients, exists, open, held, channels>>

\* The read handler and handle_data, one command of the chunk or the end of it.
\* Nothing looks whether the socket is open: it may have been closed since the
\* read completed, or by a do_write of the same chunk.
HandleData(c) ==
    /\ Serving
    /\ c \in arrived
    /\ channels' \in {channels, UnsubscribeAll(channels, c)}
                     \cup {Subscribe(channels, ch, c) : ch \in Channels}
                     \cup {Unsubscribe(channels, ch, c) : ch \in Channels}
    /\ open' \in {open, open \ {c}}
    /\ arrived' \in {arrived, arrived \ {c}}
    /\ UNCHANGED <<server, clients, exists, held>>

\* close_socket by a read or write error or the idle timer.
CloseSocket(c) ==
    /\ Serving
    /\ c \in open
    /\ open' = open \ {c}
    /\ UNCHANGED <<server, clients, exists, held, arrived, channels>>

\* push_message to the subscribers of ch, for a PUBLISH in some client's chunk.
Publish(ch) ==
    /\ Serving
    /\ arrived # {}
    /\ held' = held \cup Members(channels, ch)
    /\ UNCHANGED <<server, clients, exists, open, arrived, channels>>

\* The last handler of a closed connection has run and drops its pointer.
LastHandlerUnowned(c) ==
    /\ Serving
    /\ c \in held \ (open \cup arrived)
    /\ held' = held \ {c}
    /\ Destroy({c})
    /\ UNCHANGED <<server, arrived, channels>>
LastHandlerUncounted(c) ==
    /\ Serving
    /\ c \in held \ (open \cup arrived)
    /\ held' = held \ {c}
    /\ exists' = IF Subscribed(c) THEN exists ELSE exists \ {c}
    /\ UNCHANGED <<server, clients, open, arrived, channels>>
LastHandlerCycle(c) ==
    /\ Serving
    /\ c \in held \ (open \cup arrived)
    /\ UNCHANGED vars
LastHandler(c) ==
    /\ Serving
    /\ c \in held \ (open \cup arrived)
    /\ held' = held \ {c}
    /\ Destroy(IF Subscribed(c) THEN {} ELSE {c})
    /\ UNCHANGED <<server, arrived, channels>>

(***************************************************************************)
(* main returns: its locals are destroyed in reverse order.               *)
(***************************************************************************)
\* ~Server ends with ~io_context, which drops every handler.
DestroyServer ==
    /\ phase = "returned"
    /\ phase' = "server gone"
    /\ held' = {} /\ arrived' = {}
    /\ Destroy({c \in exists : ~Subscribed(c)})
    /\ UNCHANGED <<ready, stopping, flag, accepting, polling, channels>>

\* ~PubSubBroker drops the write_fns, and with them the connections left.
DestroyBroker ==
    /\ phase = "server gone"
    /\ phase' = "exited"
    /\ channels' = [ch \in {} |-> NoSubscribers]
    /\ Destroy(exists)
    /\ UNCHANGED <<ready, stopping, flag, accepting, polling, held, arrived>>

Run  == RunReady \/ ClearFlag \/ InstallHandlers \/ FirstPoll \/ FirstAccept
Exit == RunReturns \/ DestroyServer \/ DestroyBroker

Next ==
    \/ Run \/ Exit \/ Signal \/ Poll \/ Refuse \/ AcceptThrows
    \/ \E c \in Clients : Accept(c) \/ Arrive(c) \/ HandleData(c) \/ CloseSocket(c)
                          \/ LastHandler(c)
    \/ \E ch \in Channels : Publish(ch)

Spec == Init /\ [][Next]_vars

\* The main thread runs, the poll timer expires, and the event loop runs the
\* handlers that are ready: those of completed reads, each of which comes to the
\* end of its chunk, and those of a closed socket, which the kernel completes.
FairSpec ==
    /\ Spec
    /\ WF_vars(Run) /\ WF_vars(Exit) /\ WF_vars(Poll)
    /\ \A c \in Clients : /\ WF_vars(HandleData(c) /\ c \notin arrived')
                         /\ WF_vars(LastHandler(c))

-----------------------------------------------------------------------------
(***************************************************************************)
(* Properties.                                                            *)
(***************************************************************************)

\* connected_clients is the number of Connection objects, through refusals,
\* closings, leaks and shutdown; the limit and INFO rely on it.
CountExact == clients = Cardinality(exists)

\* The server never has more than max_clients_ connections.
LimitHolds == Cardinality(exists) <= MaxClients

\* The broker and the event loop know only connections that exist: no
\* write_fn is called, and no handler run, on a destroyed object.  The two
\* kinds of owner are all that keeps an object alive.
NoDangling ==
    /\ held \cup arrived \cup UNION {Members(channels, ch) : ch \in Channels}
           \subseteq exists
    /\ \A c \in exists : c \in held \/ Subscribed(c)

\* While the event loop serves, it also accepts, watches for signals and
\* answers READY: no path through do_accept or poll_signal_flag ends them.
ServingAccepts == Serving => accepting /\ polling /\ ready

\* A signal the handlers have recorded ends the process, in every interleaving
\* with run(): also one that comes before io_ctx_.run() is entered.
SignalStops == flag ~> phase \in {"exited", "terminated"}

\* A closed connection without subscriptions is destroyed while the server
\* serves, whatever was published to it: its handlers drop their pointers and none
\* starts an operation.  Only a read that completed before the close can still
\* subscribe it (connection.cpp:118-127 does not look at the socket).
ClosedGoAway ==
    \A c \in Clients :
        LET gone == c \notin exists \/ ~Serving
        IN  /\ c \in exists \ open /\ ~Subscribed(c) ~> gone \/ Subscribed(c)
            /\ c \in exists \ (open \cup arrived) /\ ~Subscribed(c) ~> gone

\* README.md: max-clients is the maximum of concurrent client connections, so
\* a client is refused only while that many are open or being closed.
RefusedOnlyWhenFull ==
    Serving /\ clients >= MaxClients => Cardinality(open \cup held) >= MaxClients

\* CHANGELOG.md: graceful signal shutdown.  A Connection, whose socket belongs
\* to the io_context and whose destructor calls the broker, does not outlive
\* the io_context.
GracefulShutdown == phase \in {"server gone", "exited"} => exists = {}
=============================================================================
