------------------------------- MODULE Broker -------------------------------
(***************************************************************************)
(* PubSubBroker (server/pubsub_broker.cpp): operations on channels_.      *)
(*                                                                         *)
(* Every operation is one critical section of mutex_, so each is a        *)
(* function of the map.  A vector of subscribers is kept up to its order, *)
(* which no subscriber can observe: the number of entries for every id.   *)
(***************************************************************************)
EXTENDS Naturals, FiniteSets

CONSTANTS
    Channels,  \* channel names
    Clients    \* subscriber ids: the addresses of Connection objects

NoSubscribers == [c \in Clients |-> 0]
IsChannelMap(m) ==
    /\ DOMAIN m \subseteq Channels
    /\ m \in [DOMAIN m -> [Clients -> Nat]]

\* The subscribers of a channel; a channel that is not in the map has none.
Entries(m, ch) == IF ch \in DOMAIN m THEN m[ch] ELSE NoSubscribers
Members(m, ch) == {c \in Clients : Entries(m, ch)[c] > 0}

\* channels_[ch] = s, inserting the channel when it is new.
Assign(m, ch, s) == [x \in DOMAIN m \cup {ch} |-> IF x = ch THEN s ELSE m[x]]

\* subscribe: a second subscription only replaces the callback.
SubscribeTwice(m, ch, id) ==
    Assign(m, ch, [Entries(m, ch) EXCEPT ![id] = @ + 1])
Subscribe(m, ch, id) ==
    IF Entries(m, ch)[id] > 0 THEN m
    ELSE Assign(m, ch, [Entries(m, ch) EXCEPT ![id] = @ + 1])

\* remove_if over one vector.
Without(s, id) == [s EXCEPT ![id] = 0]

\* unsubscribe: the last subscriber takes the channel with it.
Unsubscribe(m, ch, id) ==
    IF ch \notin DOMAIN m THEN m
    ELSE IF Without(m[ch], id) = NoSubscribers
         THEN [x \in DOMAIN m \ {ch} |-> m[x]]
         ELSE Assign(m, ch, Without(m[ch], id))

\* unsubscribe_all, and the names it returns.
UnsubscribeAll(m, id) ==
    [x \in {y \in DOMAIN m : Without(m[y], id) # NoSubscribers} |->
        Without(m[x], id)]
Removed(m, id) == {x \in DOMAIN m : m[x][id] > 0}

\* publish calls every entry's callback and returns how many it called.
CallbackCount(m, ch) ==
    Cardinality(UNION {{c} \X (1..Entries(m, ch)[c]) : c \in Clients})
=============================================================================
