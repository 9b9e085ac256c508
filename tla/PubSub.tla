------------------------------- MODULE PubSub -------------------------------
(***************************************************************************)
(* SUBSCRIBE, UNSUBSCRIBE and PUBLISH (server/connection.cpp,             *)
(* server/pubsub_broker.cpp, handlers/pubsub_cmds.cpp) from several       *)
(* clients at once.                                                       *)
(*                                                                         *)
(* The event loop runs one handler at a time: handle_data of one client,  *)
(* which works through a chunk of commands, or one do_write that          *)
(* push_message posted.  Confirmations are written while handle_data      *)
(* runs; messages wait for the posted do_write.  The loop runs the posts  *)
(* of one client in order; their order between clients is left open.      *)
(***************************************************************************)
EXTENDS Broker, Sequences

CONSTANTS
    ArgLists,     \* the channel arguments a client may give
    MaxPublish,   \* bound on the PUBLISH commands
    None          \* no handler, no loop

ASSUME ArgsAssumption == ArgLists \subseteq Seq(Channels)
ASSUME PublishAssumption == MaxPublish \in Nat
ASSUME NoneIsNoClient == None \notin Clients
ASSUME ClientsFinite == IsFiniteSet(Clients)

VARIABLES
    channels,    \* PubSubBroker::channels_
    subscribed,  \* subscribed_channels_ of every connection
    open,        \* socket_.is_open() of every connection
    running,     \* the connection whose handle_data runs
    call,        \* the loop of its handle_(un)subscribe, or None
    posted,      \* the messages push_message has posted to every connection
    got,         \* history: the messages written to every connection
    told,        \* history: what the last confirmation of a channel said
    answers      \* history: the replies to PUBLISH

loop    == <<running, call>>
client  == <<open, got, told>>
vars    == <<channels, subscribed, open, running, call, posted, got, told,
             answers>>

Message == Channels \X Nat
Call    == [name : {"subscribe", "unsubscribe"}, args : Seq(Channels),
            done : SUBSET Channels]

ASSUME NoneIsNoCall == None \notin Call

TypeOK ==
    /\ IsChannelMap(channels)
    /\ subscribed \in [Clients -> SUBSET Channels]
    /\ open \in [Clients -> BOOLEAN]
    /\ running \in Clients \cup {None}
    /\ call \in Call \cup {None}
    /\ call # None => running # None
    /\ posted \in [Clients -> Seq(Message)]
    /\ got \in [Clients -> Seq(Message)]
    /\ told \in [Clients -> [Channels -> {"never", "subscribe", "unsubscribe"}]]
    /\ answers \in Seq(Nat)

Init ==
    /\ channels = [ch \in {} |-> NoSubscribers]
    /\ subscribed = [c \in Clients |-> {}]
    /\ open = [c \in Clients |-> TRUE]
    /\ running = None
    /\ call = None
    /\ posted = [c \in Clients |-> <<>>]
    /\ got = [c \in Clients |-> <<>>]
    /\ told = [c \in Clients |-> [ch \in Channels |-> "never"]]
    /\ answers = <<>>

(***************************************************************************)
(* Connection::do_write of frames that change what c has got and been     *)
(* told to g and t.  A closed socket takes nothing; the output limit      *)
(* closes the socket (Connection.tla has the queue behind it).            *)
(***************************************************************************)
DoWrite(c, g, t) ==
    \/ ~open[c] /\ UNCHANGED client
    \/ /\ open[c]
       /\ open' = [open EXCEPT ![c] = FALSE]
       /\ UNCHANGED <<got, told>>
    \/ /\ open[c]
       /\ got' = [got EXCEPT ![c] = g]
       /\ told' = [told EXCEPT ![c] = t]
       /\ UNCHANGED open

\* One frame per channel of C, "subscribe" or "unsubscribe".
Confirm(c, name, C) ==
    DoWrite(c, got[c], [ch \in Channels |-> IF ch \in C THEN name
                                            ELSE told[c][ch]])

(***************************************************************************)
(* handle_data of connection c.                                           *)
(***************************************************************************)
ReadChunk(c) ==
    /\ running = None
    /\ open[c]
    /\ running' = c
    /\ UNCHANGED <<channels, subscribed, client, call, posted, answers>>

\* handle_subscribe and handle_unsubscribe with channel arguments.
BeginLoop(c, name, args) ==
    /\ running = c
    /\ call = None
    /\ args # <<>>
    /\ call' = [name |-> name, args |-> args, done |-> {}]
    /\ UNCHANGED <<channels, subscribed, client, running, posted, answers>>

\* SUBSCRIBE without arguments is answered with an error.
SubscribeNothing(c) ==
    /\ running = c
    /\ call = None
    /\ Confirm(c, "subscribe", {})
    /\ UNCHANGED <<channels, subscribed, loop, posted, answers>>

\* UNSUBSCRIBE without arguments leaves every channel.
UnsubscribeEvery(c) ==
    /\ running = c
    /\ call = None
    /\ channels' = UnsubscribeAll(channels, c)
    /\ subscribed' = [subscribed EXCEPT ![c] = @ \ Removed(channels, c)]
    /\ Confirm(c, "unsubscribe", Removed(channels, c))
    /\ UNCHANGED <<loop, posted, answers>>

\* One turn of the loop over the arguments.
SubscribeOne(c) ==
    /\ running = c
    /\ call # None /\ call.args # <<>> /\ call.name = "subscribe"
    /\ LET ch == Head(call.args) IN
       /\ channels' = Subscribe(channels, ch, c)
       /\ subscribed' = [subscribed EXCEPT ![c] = @ \cup {ch}]
       /\ call' = [call EXCEPT !.args = Tail(@), !.done = @ \cup {ch}]
    /\ UNCHANGED <<client, running, posted, answers>>

UnsubscribeOneForgets(c) ==
    /\ running = c
    /\ call # None /\ call.args # <<>> /\ call.name = "unsubscribe"
    /\ LET ch == Head(call.args) IN
       /\ subscribed' = [subscribed EXCEPT ![c] = @ \ {ch}]
       /\ call' = [call EXCEPT !.args = Tail(@), !.done = @ \cup {ch}]
    /\ UNCHANGED <<channels, client, running, posted, answers>>
UnsubscribeOne(c) ==
    /\ running = c
    /\ call # None /\ call.args # <<>> /\ call.name = "unsubscribe"
    /\ LET ch == Head(call.args) IN
       /\ channels' = Unsubscribe(channels, ch, c)
       /\ subscribed' = [subscribed EXCEPT ![c] = @ \ {ch}]
       /\ call' = [call EXCEPT !.args = Tail(@), !.done = @ \cup {ch}]
    /\ UNCHANGED <<client, running, posted, answers>>

\* After the loop: do_write of all its replies at once.
EndLoopSilent(c) ==
    /\ running = c
    /\ call # None /\ call.args = <<>>
    /\ call' = None
    /\ UNCHANGED <<channels, subscribed, client, running, posted, answers>>
EndLoop(c) ==
    /\ running = c
    /\ call # None /\ call.args = <<>>
    /\ Confirm(c, call.name, call.done)
    /\ call' = None
    /\ UNCHANGED <<channels, subscribed, running, posted, answers>>

\* push_message for every entry of the channel: asio::post of a do_write.
PostFirst(m, ch, msg) ==
    [c \in Clients |-> [i \in 1..Entries(m, ch)[c] |-> msg] \o posted[c]]
Post(m, ch, msg) ==
    [c \in Clients |-> posted[c] \o [i \in 1..Entries(m, ch)[c] |-> msg]]

\* cmd_publish.
CmdPublish(c, ch) ==
    /\ running = c
    /\ call = None
    /\ Len(answers) < MaxPublish
    /\ answers' = Append(answers, CallbackCount(channels, ch))
    /\ posted' = Post(channels, ch, <<ch, Len(answers) + 1>>)
    /\ UNCHANGED <<channels, subscribed, client, loop>>

\* The chunk is used up: handle_data writes the batched replies and returns.
EndChunk(c) ==
    /\ running = c
    /\ call = None
    /\ running' = None
    /\ Confirm(c, "subscribe", {})
    /\ UNCHANGED <<channels, subscribed, call, posted, answers>>

(***************************************************************************)
(* Other handlers of connection c.                                        *)
(***************************************************************************)
\* The do_write that push_message posted.
RunPostedDrops(c) ==
    /\ running = None
    /\ posted[c] # <<>>
    /\ posted' = [posted EXCEPT ![c] = Tail(@)]
    /\ UNCHANGED <<channels, subscribed, client, loop, answers>>
RunPosted(c) ==
    /\ running = None
    /\ posted[c] # <<>>
    /\ DoWrite(c, Append(got[c], Head(posted[c])), told[c])
    /\ posted' = [posted EXCEPT ![c] = Tail(@)]
    /\ UNCHANGED <<channels, subscribed, loop, answers>>

\* close_socket: a read error, the peer, the idle timer.
Close(c) ==
    /\ running = None
    /\ open[c]
    /\ open' = [open EXCEPT ![c] = FALSE]
    /\ UNCHANGED <<channels, subscribed, got, told, loop, posted, answers>>

HandleData(c) ==
    \/ \E args \in ArgLists, name \in {"subscribe", "unsubscribe"} :
           BeginLoop(c, name, args)
    \/ SubscribeNothing(c) \/ UnsubscribeEvery(c)
    \/ SubscribeOne(c) \/ UnsubscribeOne(c) \/ EndLoop(c)
    \/ \E ch \in Channels : CmdPublish(c, ch)
    \/ EndChunk(c)

Next == \E c \in Clients :
            ReadChunk(c) \/ HandleData(c) \/ RunPosted(c) \/ Close(c)

Spec == Init /\ [][Next]_vars

\* A chunk is finite, so handle_data ends; the io_context takes handlers in
\* the order they became ready, so a posted one is not passed over for ever.
FairSpec ==
    /\ Spec
    /\ \A c \in Clients : /\ WF_vars(SubscribeOne(c) \/ UnsubscribeOne(c))
                          /\ WF_vars(EndLoop(c))
                          /\ SF_vars(EndChunk(c))
                          /\ SF_vars(RunPosted(c))

-----------------------------------------------------------------------------
(***************************************************************************)
(* Properties.                                                            *)
(***************************************************************************)

\* The two records of a subscription agree: subscribed_channels_ of a
\* connection names exactly the channels whose vector has an entry for it,
\* whatever mixture of SUBSCRIBE, UNSUBSCRIBE and closing came before.
\* ~Connection trusts the one to decide whether to clean up the other.
RecordsAgree ==
    \A c \in Clients, ch \in Channels :
        ch \in subscribed[c] <=> c \in Members(channels, ch)

\* No connection has two entries under a channel, so that no message comes
\* twice, and no channel without a subscriber stays in the map.
BrokerTidy ==
    \A ch \in DOMAIN channels :
        /\ \A c \in Clients : channels[ch][c] <= 1
        /\ Members(channels, ch) # {}

\* Broker, posts and connections together do what Topics promises: a message
\* reaches exactly the members of the moment, once, in the order of PUBLISH.
T == INSTANCE Topics WITH
         members <- [ch \in Channels |-> Members(channels, ch)],
         inbox <- posted,
         gone <- {c \in Clients : ~open[c]}
Delivery == T!Spec

\* A message comes only on channels whose subscription has been confirmed
\* before: the confirmation is written by handle_data, the message posted.
ConfirmedFirst ==
    \A c \in Clients : \A i \in DOMAIN got[c] : told[c][got[c][i][1]] # "never"

\* A posted message is written to the socket unless the connection closes.
MessagesArrive ==
    \A c \in Clients, n \in 1..MaxPublish :
        (\E i \in DOMAIN posted[c] : posted[c][i][2] = n)
        ~> (~open[c] \/ \E i \in DOMAIN got[c] : got[c][i][2] = n)

\* The test "unsubscribe stops delivery": after a client has been told that
\* it left a channel it gets no message of it.
UnsubscribeStopsDelivery ==
    [][\A c \in Clients : got'[c] # got[c]
           => told[c][Head(posted[c])[1]] = "subscribe"]_vars

\* The comment on PubSubBroker::publish: it returns the number of subscribers
\* that received the message.  Once no copy is on its way, as many clients
\* have got message n as the reply to its PUBLISH said.
CountedReceived ==
    \A n \in DOMAIN answers :
        LET Has(s) == \E i \in DOMAIN s : s[i][2] = n IN
        (\A c \in Clients : ~Has(posted[c]))
        => Cardinality({c \in Clients : Has(got[c])}) = answers[n]
=============================================================================
