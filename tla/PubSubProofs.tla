---------------------------- MODULE PubSubProofs ----------------------------
(***************************************************************************)
(* For any clients, channels and argument lists: the connections and the  *)
(* broker agree, and together they implement Topics.                      *)
(***************************************************************************)
EXTENDS PubSub, BrokerProofs, SequenceTheorems

\* The channels messages are about, and those c has been told of.
Heard(s) == {s[i][1] : i \in DOMAIN s}
Known(c) == {ch \in Channels : told[c][ch] # "never"}

\* Where the confirmation of a subscription may still be: in the loop that
\* runs.  Nothing is posted before the loop has ended.
Confirming(c) == IF running = c /\ call # None THEN call.done ELSE {}

Confirmed ==
    \A c \in Clients :
        /\ open[c] => /\ subscribed[c] \subseteq Known(c) \cup Confirming(c)
                      /\ Heard(posted[c]) \subseteq Known(c)
        /\ Heard(got[c]) \subseteq Known(c)

\* The inductive invariant.
IInv == TypeOK /\ RecordsAgree /\ IsTidy(channels) /\ Confirmed

(***************************************************************************)
(* Sequences of messages.                                                 *)
(***************************************************************************)
\* One more message adds its channel and no other.
LEMMA HeardAppend ==
  ASSUME NEW s \in Seq(Message), NEW m \in Message
  PROVE  /\ Append(s, m) \in Seq(Message)
         /\ Heard(Append(s, m)) = Heard(s) \cup {m[1]}
<1>1. /\ Append(s, m) \in Seq(Message)
      /\ DOMAIN Append(s, m) = 1..(Len(s) + 1) /\ DOMAIN s = 1..Len(s)
      /\ Len(s) \in Nat
      /\ \A i \in 1..Len(s) : Append(s, m)[i] = s[i]
      /\ Append(s, m)[Len(s) + 1] = m
  OBVIOUS
<1>2. 1..(Len(s) + 1) = (1..Len(s)) \cup {Len(s) + 1}
  BY <1>1
<1> QED
  BY <1>1, <1>2 DEF Heard

\* What is left of a queue is part of it.
LEMMA HeardTail ==
  ASSUME NEW s \in Seq(Message), s # <<>>
  PROVE  /\ Tail(s) \in Seq(Message) /\ Head(s) \in Message
         /\ Heard(Tail(s)) \subseteq Heard(s)
         /\ Head(s)[1] \in Heard(s)
<1>1. /\ Tail(s) \in Seq(Message) /\ Head(s) \in Message /\ Head(s) = s[1]
      /\ Len(s) \in Nat /\ Len(s) > 0 /\ DOMAIN s = 1..Len(s)
      /\ DOMAIN Tail(s) = 1..(Len(s) - 1)
      /\ \A i \in 1..(Len(s) - 1) : Tail(s)[i] = s[i + 1]
  OBVIOUS
<1>2. \A i \in 1..(Len(s) - 1) : i + 1 \in 1..Len(s)
  BY <1>1
<1>3. 1 \in 1..Len(s)
  BY <1>1
<1> QED
  BY <1>1, <1>2, <1>3 DEF Heard

\* n copies of a message behind s, for the two values of n a tidy map has.
LEMMA Copies ==
  ASSUME NEW s \in Seq(Message), NEW m \in Message, NEW n \in 0..1
  PROVE  s \o [i \in 1..n |-> m] = IF n = 1 THEN Append(s, m) ELSE s
<1>1. CASE n = 1
  <2>1. [i \in 1..n |-> m] = <<m>>
    BY <1>1
  <2> QED
    BY <1>1, <2>1
<1>2. CASE n = 0
  <2>1. [i \in 1..n |-> m] = <<>>
    BY <1>2
  <2> QED
    BY <1>2, <2>1
<1> QED
  BY <1>1, <1>2

\* publish posts one copy to every member of the channel.
LEMMA PostEffect ==
  ASSUME TypeOK, IsTidy(channels), NEW ch \in Channels, NEW m \in Message
  PROVE  Post(channels, ch, m)
           = [c \in Clients |-> IF c \in Members(channels, ch)
                                THEN Append(posted[c], m) ELSE posted[c]]
<1>1. \A c \in Clients : Entries(channels, ch)[c] \in 0..1
  BY DEF Entries, IsTidy, NoSubscribers
<1>2. \A c \in Clients : c \in Members(channels, ch) <=> Entries(channels, ch)[c] = 1
  BY <1>1 DEF Members
<1>3. \A c \in Clients : posted[c] \in Seq(Message)
  BY Zenon DEF TypeOK
<1>4. ASSUME NEW c \in Clients
      PROVE  posted[c] \o [i \in 1..Entries(channels, ch)[c] |-> m]
               = IF c \in Members(channels, ch) THEN Append(posted[c], m) ELSE posted[c]
  BY <1>1, <1>2, <1>3, Copies
<1> QED
  BY <1>4, Zenon DEF Post
(***************************************************************************)
(* do_write.                                                              *)
(***************************************************************************)
Told == [Channels -> {"never", "subscribe", "unsubscribe"}]

\* It touches only c, and either closes it, or writes everything or nothing.
LEMMA WriteEffect ==
  ASSUME TypeOK, NEW c \in Clients, NEW g \in Seq(Message), NEW t \in Told,
         DoWrite(c, g, t)
  PROVE  /\ open' \in [Clients -> BOOLEAN]
         /\ got' \in [Clients -> Seq(Message)]
         /\ told' \in [Clients -> Told]
         /\ \A d \in Clients \ {c} :
                open'[d] = open[d] /\ got'[d] = got[d] /\ told'[d] = told[d]
         /\ \/ ~open'[c] /\ got' = got /\ told' = told
            \/ open[c] /\ open' = open /\ got'[c] = g /\ told'[c] = t
<1>1. /\ open \in [Clients -> BOOLEAN] /\ got \in [Clients -> Seq(Message)]
      /\ told \in [Clients -> Told]
  BY Zenon DEF TypeOK, Told
<1>2. CASE ~open[c] /\ UNCHANGED client
  BY <1>1, <1>2, Zenon DEF client
<1>3. CASE /\ open[c]
           /\ open' = [open EXCEPT ![c] = FALSE]
           /\ UNCHANGED <<got, told>>
  <2>1. open' \in [Clients -> BOOLEAN] /\ ~open'[c] /\ \A d \in Clients \ {c} : open'[d] = open[d]
    BY <1>1, <1>3, Zenon
  <2> QED
    BY <1>1, <1>3, <2>1, Zenon
<1>4. CASE /\ open[c]
           /\ got' = [got EXCEPT ![c] = g]
           /\ told' = [told EXCEPT ![c] = t]
           /\ UNCHANGED open
  BY <1>1, <1>4, Zenon
<1> QED
  BY <1>2, <1>3, <1>4, Zenon DEF DoWrite

\* Confirmations never make a client forget, and one that is not cut off has
\* been told.
LEMMA ConfirmEffect ==
  ASSUME TypeOK, NEW c \in Clients, NEW name \in {"subscribe", "unsubscribe"},
         NEW C \in SUBSET Channels, Confirm(c, name, C)
  PROVE  /\ open' \in [Clients -> BOOLEAN] /\ told' \in [Clients -> Told] /\ got' = got
         /\ \A d \in Clients : /\ Known(d) \subseteq Known(d)'
                               /\ open'[d] => open[d]
                               /\ d # c => open'[d] = open[d]
         /\ open'[c] => C \subseteq Known(c)'
<1> DEFINE t == [ch \in Channels |-> IF ch \in C THEN name ELSE told[c][ch]]
<1>1. /\ open \in [Clients -> BOOLEAN] /\ got \in [Clients -> Seq(Message)]
      /\ told \in [Clients -> Told] /\ got[c] \in Seq(Message)
  BY Zenon DEF TypeOK, Told
<1>2. t \in Told
  BY <1>1 DEF Told
<1>3. DoWrite(c, got[c], t)
  BY Zenon DEF Confirm
<1> HIDE DEF t
<1>4. /\ open' \in [Clients -> BOOLEAN]
      /\ got' \in [Clients -> Seq(Message)]
      /\ told' \in [Clients -> Told]
      /\ \A d \in Clients \ {c} :
             open'[d] = open[d] /\ got'[d] = got[d] /\ told'[d] = told[d]
      /\ \/ ~open'[c] /\ got' = got /\ told' = told
         \/ open[c] /\ open' = open /\ got'[c] = got[c] /\ told'[c] = t
  BY <1>1, <1>2, <1>3, WriteEffect
<1>5. got' = got
  BY <1>1, <1>4
<1>6. ASSUME NEW d \in Clients
      PROVE  Known(d) \subseteq Known(d)'
  <2>1. CASE told'[d] = told[d]
    BY <2>1, Zenon DEF Known
  <2>2. CASE d = c /\ told'[c] = t
    BY <2>2, Zenon DEF t, Known
  <2> QED
    BY <1>4, <2>1, <2>2, Zenon
<1>7. \A d \in Clients : (open'[d] => open[d]) /\ (d # c => open'[d] = open[d])
  BY <1>4, Zenon
<1>8. open'[c] => C \subseteq Known(c)'
  <2>1. C \subseteq {ch \in Channels : t[ch] # "never"}
    BY Zenon DEF t
  <2> QED
    BY <1>4, <2>1, Zenon DEF Known
<1> QED
  BY <1>4, <1>5, <1>6, <1>7, <1>8, Zenon
(***************************************************************************)
(* The steps that leave subscriptions and messages alone.                 *)
(***************************************************************************)
LEMMA QuietStep ==
  ASSUME IInv, UNCHANGED <<channels, subscribed, posted, answers>>, got' = got,
         open' \in [Clients -> BOOLEAN], told' \in [Clients -> Told],
         running' \in Clients \cup {None}, call' \in Call \cup {None},
         call' # None => running' # None,
         \A d \in Clients : /\ Known(d) \subseteq Known(d)'
                            /\ open'[d] => open[d]
                            /\ open'[d] => Confirming(d) \subseteq Confirming(d)' \cup Known(d)'
  PROVE  IInv'
<1>1. TypeOK /\ RecordsAgree /\ IsTidy(channels) /\ Confirmed
  BY Zenon DEF IInv
<1>2. TypeOK'
  BY <1>1, Zenon DEF TypeOK, Told
<1>3. RecordsAgree' /\ IsTidy(channels)'
  BY <1>1, Zenon DEF RecordsAgree
<1>4. Confirmed'
  <2>1. ASSUME NEW c \in Clients
        PROVE  /\ open'[c] => /\ subscribed[c] \subseteq Known(c)' \cup Confirming(c)'
                              /\ Heard(posted[c]) \subseteq Known(c)'
               /\ Heard(got[c]) \subseteq Known(c)'
    BY <1>1, Zenon DEF Confirmed
  <2> QED
    BY <2>1, Zenon DEF Confirmed
<1> QED
  BY <1>2, <1>3, <1>4, Zenon DEF IInv

\* A chunk that is read changes no subscription and no message.
LEMMA ReadChunkStep ==
  ASSUME IInv, NEW c \in Clients, ReadChunk(c)
  PROVE  IInv'
<1>1. TypeOK /\ call = None
  BY Zenon DEF IInv, TypeOK, ReadChunk
<1>2. \A d \in Clients : Confirming(d) = {} /\ UNCHANGED <<told, open, got>>
  BY <1>1, Zenon DEF Confirming, ReadChunk, client
<1> QED
  BY <1>1, <1>2, QuietStep, NoneIsNoClient, Zenon DEF ReadChunk, client, TypeOK, Known, Told

\* Entering the loop of handle_(un)subscribe changes no subscription.
LEMMA BeginLoopStep ==
  ASSUME IInv, NEW c \in Clients, NEW args \in ArgLists,
         NEW name \in {"subscribe", "unsubscribe"}, BeginLoop(c, name, args)
  PROVE  IInv'
<1>1. TypeOK
  BY Zenon DEF IInv
<1>2. call' \in Call
  BY ArgsAssumption, Zenon DEF BeginLoop, Call
<1>3. \A d \in Clients : Confirming(d) = {}
  BY Zenon DEF Confirming, BeginLoop
<1> QED
  BY <1>1, <1>2, <1>3, QuietStep, NoneIsNoClient, Zenon DEF BeginLoop, client, TypeOK, Known, Told

\* close_socket leaves both records of a subscription as they are.
LEMMA CloseStep ==
  ASSUME IInv, NEW c \in Clients, Close(c)
  PROVE  IInv'
<1>1. TypeOK
  BY Zenon DEF IInv
<1>2. open' \in [Clients -> BOOLEAN] /\ \A d \in Clients : open'[d] => open[d]
  BY <1>1, Zenon DEF TypeOK, Close
<1>3. \A d \in Clients : Confirming(d)' = Confirming(d) /\ Known(d)' = Known(d)
  BY Zenon DEF Close, Confirming, Known, loop
<1> QED
  BY <1>1, <1>2, <1>3, QuietStep, Zenon DEF Close, TypeOK, Told, loop

\* Replies that confirm nothing: an error, the batch at the end of a chunk.
LEMMA ReplyStep ==
  ASSUME IInv, NEW c \in Clients, SubscribeNothing(c) \/ EndChunk(c)
  PROVE  IInv'
<1>1. TypeOK
  BY Zenon DEF IInv
<1>2. Confirm(c, "subscribe", {}) /\ call = None /\ call' = None
  BY Zenon DEF SubscribeNothing, EndChunk, loop
<1>3. /\ open' \in [Clients -> BOOLEAN] /\ told' \in [Clients -> Told] /\ got' = got
      /\ \A d \in Clients : Known(d) \subseteq Known(d)' /\ (open'[d] => open[d])
  <2>1. {} \in SUBSET Channels
    BY Zenon
  <2> QED
    BY <1>1, <1>2, <2>1, ConfirmEffect, Zenon
<1>4. \A d \in Clients : Confirming(d) = {}
  BY <1>2, Zenon DEF Confirming
<1>5. running' \in Clients \cup {None}
  BY <1>1, Zenon DEF TypeOK, SubscribeNothing, EndChunk, loop
<1>6. UNCHANGED <<channels, subscribed, posted, answers>>
  BY Zenon DEF SubscribeNothing, EndChunk
<1> QED
  BY <1>2, <1>3, <1>4, <1>5, <1>6, QuietStep, Zenon

\* The replies of the loop confirm every channel it has subscribed to.
LEMMA EndLoopStep ==
  ASSUME IInv, NEW c \in Clients, EndLoop(c)
  PROVE  IInv'
<1>1. TypeOK /\ call \in Call
  BY Zenon DEF IInv, TypeOK, EndLoop
<1>2. /\ call.name \in {"subscribe", "unsubscribe"} /\ call.done \in SUBSET Channels
      /\ Confirm(c, call.name, call.done)
  BY <1>1, Zenon DEF Call, EndLoop
<1>3. /\ open' \in [Clients -> BOOLEAN] /\ told' \in [Clients -> Told] /\ got' = got
      /\ \A d \in Clients : Known(d) \subseteq Known(d)' /\ (open'[d] => open[d])
      /\ open'[c] => call.done \subseteq Known(c)'
  BY <1>1, <1>2, ConfirmEffect, Zenon
<1>4. \A d \in Clients : Confirming(d) = IF d = c THEN call.done ELSE {}
  BY Zenon DEF Confirming, EndLoop
<1>5. \A d \in Clients : open'[d] => Confirming(d) \subseteq Confirming(d)' \cup Known(d)'
  BY <1>3, <1>4, Zenon
<1>6. /\ UNCHANGED <<channels, subscribed, posted, answers>> /\ call' = None
      /\ running' \in Clients \cup {None}
  BY Zenon DEF EndLoop
<1> QED
  BY <1>3, <1>5, <1>6, QuietStep, Zenon
(***************************************************************************)
(* The steps that change subscriptions.                                   *)
(***************************************************************************)
LEMMA SubscribeStep ==
  ASSUME IInv, NEW c \in Clients, SubscribeOne(c)
  PROVE  IInv'
<1> DEFINE ch == Head(call.args)
<1>1. TypeOK /\ RecordsAgree /\ IsTidy(channels) /\ Confirmed /\ call \in Call
  BY Zenon DEF IInv, TypeOK, SubscribeOne
<1>2. /\ call.args \in Seq(Channels) /\ call.args # <<>> /\ ch \in Channels
      /\ Tail(call.args) \in Seq(Channels) /\ call.done \in SUBSET Channels
  BY <1>1 DEF Call, SubscribeOne
<1>3. /\ channels' = Subscribe(channels, ch, c)
      /\ subscribed' = [subscribed EXCEPT ![c] = @ \cup {ch}]
      /\ call' = [call EXCEPT !.args = Tail(@), !.done = @ \cup {ch}]
      /\ UNCHANGED <<open, got, told, running, posted, answers>> /\ running = c
  BY Zenon DEF SubscribeOne, client
<1> HIDE DEF ch
<1>4. call' \in Call /\ call'.done = call.done \cup {ch}
  BY <1>1, <1>2, <1>3, Zenon DEF Call
<1>5. /\ IsChannelMap(channels') /\ IsTidy(channels')
      /\ \A x \in Channels, d \in Clients :
             d \in Members(channels', x) <=> d \in Members(channels, x) \/ (x = ch /\ d = c)
  BY <1>1, <1>2, <1>3, SubscribeEffect, Zenon DEF TypeOK
<1>6. /\ subscribed' \in [Clients -> SUBSET Channels]
      /\ subscribed'[c] = subscribed[c] \cup {ch}
      /\ \A d \in Clients \ {c} : subscribed'[d] = subscribed[d]
  BY <1>1, <1>2, <1>3, Zenon DEF TypeOK
<1>7. TypeOK'
  BY <1>1, <1>3, <1>4, <1>5, <1>6, NoneIsNoClient, Zenon DEF TypeOK
<1>8. RecordsAgree'
  BY <1>1, <1>5, <1>6, Zenon DEF RecordsAgree
<1>9. Confirmed'
  <2>1. \A d \in Clients : Known(d)' = Known(d)
    BY <1>3, Zenon DEF Known
  <2>2. \A d \in Clients : subscribed'[d] \subseteq subscribed[d] \cup Confirming(d)'
                          /\ Confirming(d) \subseteq Confirming(d)'
    BY <1>3, <1>4, <1>6, NoneIsNoCall, Zenon DEF Confirming
  <2> QED
    BY <1>1, <1>3, <2>1, <2>2, Zenon DEF Confirmed
<1> QED
  BY <1>5, <1>7, <1>8, <1>9, Zenon DEF IInv

\* One turn of handle_unsubscribe takes the channel out of both records.
LEMMA UnsubscribeStep ==
  ASSUME IInv, NEW c \in Clients, UnsubscribeOne(c)
  PROVE  IInv'
<1> DEFINE ch == Head(call.args)
<1>1. TypeOK /\ RecordsAgree /\ IsTidy(channels) /\ Confirmed /\ call \in Call
  BY Zenon DEF IInv, TypeOK, UnsubscribeOne
<1>2. /\ call.args \in Seq(Channels) /\ call.args # <<>> /\ ch \in Channels
      /\ Tail(call.args) \in Seq(Channels) /\ call.done \in SUBSET Channels
  BY <1>1 DEF Call, UnsubscribeOne
<1>3. /\ channels' = Unsubscribe(channels, ch, c)
      /\ subscribed' = [subscribed EXCEPT ![c] = @ \ {ch}]
      /\ call' = [call EXCEPT !.args = Tail(@), !.done = @ \cup {ch}]
      /\ UNCHANGED <<open, got, told, running, posted, answers>> /\ running = c
  BY Zenon DEF UnsubscribeOne, client
<1> HIDE DEF ch
<1>4. call' \in Call /\ call'.done = call.done \cup {ch}
  BY <1>1, <1>2, <1>3, Zenon DEF Call
<1>5. /\ IsChannelMap(channels') /\ IsTidy(channels')
      /\ \A x \in Channels, d \in Clients :
             d \in Members(channels', x) <=> d \in Members(channels, x) /\ ~(x = ch /\ d = c)
  BY <1>1, <1>2, <1>3, UnsubscribeEffect DEF TypeOK
<1>6. /\ subscribed' \in [Clients -> SUBSET Channels]
      /\ subscribed'[c] = subscribed[c] \ {ch}
      /\ \A d \in Clients \ {c} : subscribed'[d] = subscribed[d]
  BY <1>1, <1>2, <1>3, Zenon DEF TypeOK
<1>7. TypeOK'
  BY <1>1, <1>3, <1>4, <1>5, <1>6, NoneIsNoClient, Zenon DEF TypeOK
<1>8. RecordsAgree'
  BY <1>1, <1>5, <1>6, Zenon DEF RecordsAgree
<1>9. Confirmed'
  <2>1. \A d \in Clients : Known(d)' = Known(d)
    BY <1>3, Zenon DEF Known
  <2>2. \A d \in Clients : subscribed'[d] \subseteq subscribed[d]
                          /\ Confirming(d) \subseteq Confirming(d)'
    BY <1>3, <1>4, <1>6, NoneIsNoCall, Zenon DEF Confirming
  <2> QED
    BY <1>1, <1>3, <2>1, <2>2, Zenon DEF Confirmed
<1> QED
  BY <1>5, <1>7, <1>8, <1>9, Zenon DEF IInv

\* UNSUBSCRIBE without arguments empties both records for the client.
LEMMA UnsubscribeEveryStep ==
  ASSUME IInv, NEW c \in Clients, UnsubscribeEvery(c)
  PROVE  IInv'
<1> DEFINE R == Removed(channels, c)
<1>1. TypeOK /\ RecordsAgree /\ IsTidy(channels) /\ Confirmed
  BY Zenon DEF IInv
<1>2. R = {x \in Channels : c \in Members(channels, x)} /\ R \in SUBSET Channels
  BY <1>1, RemovedMembers DEF TypeOK
<1>3. /\ channels' = UnsubscribeAll(channels, c)
      /\ subscribed' = [subscribed EXCEPT ![c] = @ \ R]
      /\ Confirm(c, "unsubscribe", R)
      /\ UNCHANGED <<running, call, posted, answers>> /\ call = None
  BY Zenon DEF UnsubscribeEvery, loop
<1> HIDE DEF R
<1>4. /\ open' \in [Clients -> BOOLEAN] /\ told' \in [Clients -> Told] /\ got' = got
      /\ \A d \in Clients : Known(d) \subseteq Known(d)' /\ (open'[d] => open[d])
  BY <1>1, <1>2, <1>3, ConfirmEffect, Zenon
<1>5. /\ IsChannelMap(channels') /\ IsTidy(channels')
      /\ \A x \in Channels, d \in Clients :
             d \in Members(channels', x) <=> d \in Members(channels, x) /\ d # c
  BY <1>1, <1>3, UnsubscribeAllEffect, Zenon DEF TypeOK
<1>6. /\ subscribed' \in [Clients -> SUBSET Channels]
      /\ subscribed'[c] = subscribed[c] \ R
      /\ \A d \in Clients \ {c} : subscribed'[d] = subscribed[d]
  BY <1>1, <1>3, Zenon DEF TypeOK
<1>7. TypeOK'
  BY <1>1, <1>3, <1>4, <1>5, <1>6, Zenon DEF TypeOK, Told
<1>8. RecordsAgree'
  BY <1>1, <1>2, <1>5, <1>6, Zenon DEF RecordsAgree
<1>9. Confirmed'
  <2>1. \A d \in Clients : Confirming(d)' = Confirming(d) /\ subscribed'[d] \subseteq subscribed[d]
    BY <1>3, <1>6, Zenon DEF Confirming
  <2> QED
    BY <1>1, <1>3, <1>4, <2>1, Zenon DEF Confirmed
<1> QED
  BY <1>5, <1>7, <1>8, <1>9, Zenon DEF IInv
(***************************************************************************)
(* The steps that move messages.                                          *)
(***************************************************************************)
\* The message of cmd_publish, what is posted and what is answered.
LEMMA PublishEffect ==
  ASSUME IInv, NEW c \in Clients, NEW ch \in Channels, CmdPublish(c, ch)
  PROVE  LET m == <<ch, Len(answers) + 1>>
         IN  /\ m \in Message /\ m[1] = ch
             /\ posted' = [d \in Clients |-> IF d \in Members(channels, ch)
                                            THEN Append(posted[d], m) ELSE posted[d]]
             /\ answers' = Append(answers, Cardinality(Members(channels, ch)))
             /\ answers' \in Seq(Nat)
<1> DEFINE m == <<ch, Len(answers) + 1>>
<1>1. TypeOK /\ IsTidy(channels) /\ answers \in Seq(Nat) /\ IsChannelMap(channels)
  BY Zenon DEF IInv, TypeOK
<1>2. m \in Message /\ m[1] = ch
  BY <1>1 DEF Message
<1>3. posted' = Post(channels, ch, m)
  BY Zenon DEF CmdPublish
<1> HIDE DEF m
<1>4. posted' = [d \in Clients |-> IF d \in Members(channels, ch)
                                  THEN Append(posted[d], m) ELSE posted[d]]
  BY <1>1, <1>2, <1>3, PostEffect, Zenon
<1>5. answers' = Append(answers, Cardinality(Members(channels, ch)))
  BY <1>1, CallbackMembers, ClientsFinite, Zenon DEF CmdPublish
<1>6. Cardinality(Members(channels, ch)) \in Nat
  <2>1. Members(channels, ch) \subseteq Clients
    BY Zenon DEF Members
  <2> QED
    BY <2>1, ClientsFinite, FS_Subset, FS_CardinalityType, Zenon
<1>7. answers' \in Seq(Nat)
  BY <1>1, <1>5, <1>6
<1> QED
  BY <1>2, <1>4, <1>5, <1>7, Zenon DEF m

\* PUBLISH posts to members only, and their subscriptions are confirmed.
LEMMA PublishStep ==
  ASSUME IInv, NEW c \in Clients, NEW ch \in Channels, CmdPublish(c, ch)
  PROVE  IInv'
<1> DEFINE m == <<ch, Len(answers) + 1>>
<1>1. TypeOK /\ RecordsAgree /\ IsTidy(channels) /\ Confirmed
  BY Zenon DEF IInv
<1>2. UNCHANGED <<channels, subscribed, open, got, told, running, call>> /\ call = None
  BY Zenon DEF CmdPublish, client, loop
<1>3. /\ m \in Message /\ m[1] = ch
      /\ posted' = [d \in Clients |-> IF d \in Members(channels, ch)
                                     THEN Append(posted[d], m) ELSE posted[d]]
      /\ answers' \in Seq(Nat)
  BY PublishEffect, Zenon
<1> HIDE DEF m
<1>4. \A d \in Clients : posted[d] \in Seq(Message)
  BY <1>1, Zenon DEF TypeOK
<1>5. /\ posted' \in [Clients -> Seq(Message)]
      /\ \A d \in Clients : Heard(posted'[d]) = IF d \in Members(channels, ch)
                             THEN Heard(posted[d]) \cup {ch} ELSE Heard(posted[d])
  BY <1>3, <1>4, HeardAppend, Zenon
<1>6. TypeOK'
  BY <1>1, <1>2, <1>3, <1>5, Zenon DEF TypeOK
<1>7. RecordsAgree' /\ IsTidy(channels')
  BY <1>1, <1>2, Zenon DEF RecordsAgree
<1>8. Confirmed'
  <2>1. \A d \in Clients : Known(d)' = Known(d) /\ Confirming(d) = {} /\ Confirming(d)' = {}
    BY <1>2, Zenon DEF Known, Confirming
  <2>2. \A d \in Clients : d \in Members(channels, ch) => ch \in subscribed[d]
    BY <1>1, Zenon DEF RecordsAgree
  <2> QED
    BY <1>1, <1>2, <1>5, <2>1, <2>2 DEF Confirmed
<1> QED
  BY <1>6, <1>7, <1>8, Zenon DEF IInv

\* The posted do_write hands over a message whose channel was confirmed.
LEMMA RunPostedStep ==
  ASSUME IInv, NEW c \in Clients, RunPosted(c)
  PROVE  IInv'
<1> DEFINE g == Append(got[c], Head(posted[c]))
<1>1. TypeOK /\ RecordsAgree /\ IsTidy(channels) /\ Confirmed
  BY Zenon DEF IInv
<1>2. /\ posted \in [Clients -> Seq(Message)] /\ posted[c] \in Seq(Message)
      /\ posted[c] # <<>> /\ got[c] \in Seq(Message) /\ told[c] \in Told
  BY <1>1, Zenon DEF TypeOK, RunPosted, Told
<1>3. /\ UNCHANGED <<channels, subscribed, running, call, answers>>
      /\ posted' = [posted EXCEPT ![c] = Tail(@)]
      /\ DoWrite(c, g, told[c])
  BY Zenon DEF RunPosted, loop
<1>4. /\ Tail(posted[c]) \in Seq(Message) /\ Head(posted[c]) \in Message
      /\ Heard(Tail(posted[c])) \subseteq Heard(posted[c])
      /\ Head(posted[c])[1] \in Heard(posted[c])
  BY <1>2, HeardTail, Zenon
<1>5. g \in Seq(Message) /\ Heard(g) = Heard(got[c]) \cup {Head(posted[c])[1]}
  BY <1>2, <1>4, HeardAppend, Zenon
<1> HIDE DEF g
<1>6. /\ open' \in [Clients -> BOOLEAN]
      /\ got' \in [Clients -> Seq(Message)]
      /\ told' \in [Clients -> Told]
      /\ \A d \in Clients \ {c} :
             open'[d] = open[d] /\ got'[d] = got[d] /\ told'[d] = told[d]
      /\ \/ ~open'[c] /\ got' = got /\ told' = told
         \/ open[c] /\ open' = open /\ got'[c] = g /\ told'[c] = told[c]
  BY <1>1, <1>2, <1>3, <1>5, WriteEffect, Zenon
<1>7. /\ posted' \in [Clients -> Seq(Message)] /\ posted'[c] = Tail(posted[c])
      /\ \A d \in Clients \ {c} : posted'[d] = posted[d]
  BY <1>2, <1>3, <1>4, Zenon
<1>8. TypeOK'
  BY <1>1, <1>3, <1>6, <1>7, Zenon DEF TypeOK, Told
<1>9. RecordsAgree' /\ IsTidy(channels')
  BY <1>1, <1>3, Zenon DEF RecordsAgree
<1>10. ASSUME NEW d \in Clients
       PROVE  /\ open'[d] => /\ subscribed'[d] \subseteq Known(d)' \cup Confirming(d)'
                             /\ Heard(posted'[d]) \subseteq Known(d)'
              /\ Heard(got'[d]) \subseteq Known(d)'
  <2>1. Known(d)' = Known(d) /\ Confirming(d)' = Confirming(d)
    BY <1>3, <1>6 DEF Known, Confirming
  <2>2. CASE d # c
    BY <1>1, <1>3, <1>6, <1>7, <2>1, <2>2 DEF Confirmed
  <2>3. CASE d = c
    BY <1>1, <1>3, <1>4, <1>5, <1>6, <1>7, <2>1, <2>3 DEF Confirmed
  <2> QED
    BY <2>2, <2>3, Zenon
<1> QED
  BY <1>8, <1>9, <1>10, Zenon DEF IInv, Confirmed
\* The whole inductive step.
LEMMA Step ==
  ASSUME IInv, [Next]_vars
  PROVE  IInv'
<1>1. ASSUME NEW c \in Clients, HandleData(c)
      PROVE  IInv'
  BY <1>1, BeginLoopStep, ReplyStep, UnsubscribeEveryStep, SubscribeStep, UnsubscribeStep,
     EndLoopStep, PublishStep, Zenon DEF HandleData
<1>2. ASSUME NEW c \in Clients, ReadChunk(c) \/ RunPosted(c) \/ Close(c)
      PROVE  IInv'
  BY <1>2, ReadChunkStep, RunPostedStep, CloseStep, Zenon
<1>3. CASE UNCHANGED vars
  <2>1. \A d \in Clients : Known(d)' = Known(d) /\ Confirming(d)' = Confirming(d)
    BY <1>3, Zenon DEF vars, Known, Confirming
  <2> QED
    BY <1>3, <2>1, Zenon DEF vars, IInv, TypeOK, RecordsAgree, Confirmed
<1> QED
  BY <1>1, <1>2, <1>3, Zenon DEF Next

\* The initial states satisfy the invariant.
LEMMA Start ==
  ASSUME Init
  PROVE  IInv
<1>1. /\ IsChannelMap(channels) /\ IsTidy(channels)
      /\ \A ch \in Channels : Members(channels, ch) = {}
  BY NoChannels, Zenon DEF Init
<1>2. <<>> \in Seq(Message) /\ <<>> \in Seq(Nat)
  BY EmptySeq, Zenon
<1>3. TypeOK
  BY <1>1, <1>2, Zenon DEF Init, TypeOK
<1>4. RecordsAgree
  BY <1>1, Zenon DEF Init, RecordsAgree
<1>5. Heard(<<>>) = {}
  BY DEF Heard
<1>6. Confirmed
  BY <1>5, Zenon DEF Init, Confirmed
<1> QED
  BY <1>1, <1>3, <1>4, <1>6, Zenon DEF IInv

\* The inductive invariant holds in every reachable state of the broker and
\* the connections.
THEOREM Invariance == Spec => []IInv
  BY Start, Step, PTL DEF Spec

\* subscribed_channels_ and the broker's vectors agree, for any number of
\* clients and channels.
THEOREM Agreement == Spec => []RecordsAgree
<1>1. IInv => RecordsAgree
  BY Zenon DEF IInv
<1> QED
  BY <1>1, Invariance, PTL

\* No duplicate entry and no empty channel in channels_.
THEOREM Tidiness == Spec => []BrokerTidy
<1>1. ASSUME IInv PROVE BrokerTidy
  <2>1. IsChannelMap(channels) /\ IsTidy(channels)
    BY <1>1, Zenon DEF IInv, TypeOK
  <2>2. ASSUME NEW ch \in DOMAIN channels
        PROVE  /\ \A c \in Clients : channels[ch][c] <= 1
               /\ Members(channels, ch) # {}
    <3>1. /\ channels[ch] \in [Clients -> Nat] /\ channels[ch] # NoSubscribers
          /\ \A c \in Clients : channels[ch][c] \in 0..1
      BY <2>1, Zenon DEF IsChannelMap, IsTidy
    <3>2. \E c \in Clients : channels[ch][c] # 0
      BY <3>1, Zenon DEF NoSubscribers
    <3> QED
      BY <3>1, <3>2 DEF Members, Entries
  <2> QED
    BY <2>2, Zenon DEF BrokerTidy
<1> QED
  BY <1>1, Invariance, PTL

\* A message never comes before the confirmation of its subscription.
THEOREM ConfirmationFirst == Spec => []ConfirmedFirst
<1>1. ASSUME IInv PROVE ConfirmedFirst
  BY <1>1, Zenon DEF IInv, Confirmed, ConfirmedFirst, Heard, Known
<1> QED
  BY <1>1, Invariance, PTL

(***************************************************************************)
(* PubSub implements Topics.                                              *)
(***************************************************************************)
Gone == {c \in Clients : ~open[c]}

\* A step that at most closes c leaves gone as it is or adds c.
LEMMA GoneStep ==
  ASSUME NEW c \in Clients, open \in [Clients -> BOOLEAN], open' \in [Clients -> BOOLEAN],
         \A d \in Clients : (open'[d] => open[d]) /\ (d # c => open'[d] = open[d])
  PROVE  Gone' = Gone \/ Gone' = Gone \cup {c}
<1>1. CASE open'[c]
  <2>1. open[c]
    BY <1>1, Zenon
  <2> QED
    BY <1>1, <2>1, Zenon DEF Gone
<1>2. CASE ~open'[c]
  BY <1>2, Zenon DEF Gone
<1> QED
  BY <1>1, <1>2, Zenon

\* Steps of the loop that change no subscription.
LEMMA QuietTopics ==
  ASSUME IInv, NEW c \in Clients,
         \/ ReadChunk(c) \/ Close(c) \/ SubscribeNothing(c) \/ EndLoop(c) \/ EndChunk(c)
         \/ \E args \in ArgLists, name \in {"subscribe", "unsubscribe"} :
                BeginLoop(c, name, args)
  PROVE  T!Vanish(c) \/ UNCHANGED T!vars
<1>1. TypeOK /\ open \in [Clients -> BOOLEAN]
  BY Zenon DEF IInv, TypeOK
<1>2. UNCHANGED <<channels, posted, answers>>
  BY Zenon DEF ReadChunk, Close, SubscribeNothing, EndLoop, EndChunk, BeginLoop
<1>3. /\ open' \in [Clients -> BOOLEAN] /\ got' = got
      /\ \A d \in Clients : (open'[d] => open[d]) /\ (d # c => open'[d] = open[d])
  <2>1. CASE ReadChunk(c) \/ \E args \in ArgLists, name \in {"subscribe", "unsubscribe"} :
                                 BeginLoop(c, name, args)
    BY <1>1, <2>1, Zenon DEF ReadChunk, BeginLoop, client
  <2>2. CASE Close(c)
    BY <1>1, <2>2, Zenon DEF Close
  <2>3. CASE SubscribeNothing(c) \/ EndChunk(c)
    <3>1. {} \in SUBSET Channels /\ Confirm(c, "subscribe", {})
      BY <2>3, Zenon DEF SubscribeNothing, EndChunk
    <3> QED
      BY <1>1, <3>1, ConfirmEffect, Zenon
  <2>4. CASE EndLoop(c)
    <3>1. /\ call.name \in {"subscribe", "unsubscribe"} /\ call.done \in SUBSET Channels
          /\ Confirm(c, call.name, call.done)
      BY <1>1, <2>4, Zenon DEF TypeOK, Call, EndLoop
    <3> QED
      BY <1>1, <3>1, ConfirmEffect, Zenon
  <2> QED
    BY <2>1, <2>2, <2>3, <2>4, Zenon
<1>4. Gone' = Gone \/ Gone' = Gone \cup {c}
  BY <1>1, <1>3, GoneStep, Zenon
<1> QED
  BY <1>2, <1>3, <1>4, Zenon DEF T!Vanish, T!vars, Gone
\* SUBSCRIBE of one channel is a Join.
LEMMA JoinTopics ==
  ASSUME IInv, NEW c \in Clients, SubscribeOne(c)
  PROVE  \E ch \in Channels : T!Join(c, ch)
<1>1. PICK ch \in Channels : channels' = Subscribe(channels, ch, c)
  BY DEF IInv, TypeOK, Call, SubscribeOne
<1>2. \A x \in Channels, d \in Clients :
          d \in Members(channels', x) <=> d \in Members(channels, x) \/ (x = ch /\ d = c)
  BY <1>1, SubscribeEffect, Zenon DEF IInv, TypeOK
<1>3. \A x \in Channels : Members(channels', x) =
          IF x = ch THEN Members(channels, x) \cup {c} ELSE Members(channels, x)
  BY <1>2, Zenon DEF Members
<1>4. UNCHANGED <<open, got, posted, answers>>
  BY Zenon DEF SubscribeOne, client
<1> QED
  BY <1>3, <1>4, Zenon DEF T!Join

\* UNSUBSCRIBE of one channel, or of all, is a Leave.
LEMMA LeaveTopics ==
  ASSUME IInv, NEW c \in Clients, UnsubscribeOne(c) \/ UnsubscribeEvery(c)
  PROVE  \E C \in SUBSET Channels : T!Leave(c, C)
<1>1. TypeOK /\ IsChannelMap(channels) /\ open \in [Clients -> BOOLEAN]
  BY Zenon DEF IInv, TypeOK
<1>2. CASE UnsubscribeOne(c)
  <2>1. PICK ch \in Channels : channels' = Unsubscribe(channels, ch, c)
    BY <1>1, <1>2 DEF TypeOK, Call, UnsubscribeOne
  <2>2. \A x \in Channels, d \in Clients :
            d \in Members(channels', x) <=> d \in Members(channels, x) /\ ~(x = ch /\ d = c)
    BY <1>1, <2>1, UnsubscribeEffect, Zenon
  <2>3. \A x \in Channels : Members(channels', x) =
            IF x \in {ch} THEN Members(channels, x) \ {c} ELSE Members(channels, x)
    BY <2>2, Zenon DEF Members
  <2>4. UNCHANGED <<open, got, posted, answers>>
    BY <1>2, Zenon DEF UnsubscribeOne, client
  <2>5. T!Leave(c, {ch})
    BY <2>3, <2>4, Zenon DEF T!Leave
  <2> QED
    BY <2>5, Zenon
<1>3. CASE UnsubscribeEvery(c)
  <2>1. Removed(channels, c) \in SUBSET Channels
    BY <1>1, RemovedMembers, Zenon
  <2>2. /\ open' \in [Clients -> BOOLEAN] /\ got' = got
        /\ \A d \in Clients : (open'[d] => open[d]) /\ (d # c => open'[d] = open[d])
    BY <1>1, <1>3, <2>1, ConfirmEffect, Zenon DEF UnsubscribeEvery
  <2>3. Gone' = Gone \/ Gone' = Gone \cup {c}
    BY <1>1, <2>2, GoneStep, Zenon
  <2>4. \A x \in Channels, d \in Clients :
            d \in Members(channels', x) <=> d \in Members(channels, x) /\ d # c
    BY <1>1, <1>3, UnsubscribeAllEffect, Zenon DEF UnsubscribeEvery
  <2>5. \A x \in Channels : Members(channels', x) =
            IF x \in Channels THEN Members(channels, x) \ {c} ELSE Members(channels, x)
    BY <2>4, Zenon DEF Members
  <2>6. UNCHANGED <<posted, answers>>
    BY <1>3, Zenon DEF UnsubscribeEvery
  <2>7. T!Leave(c, Channels)
    BY <2>2, <2>3, <2>5, <2>6, Zenon DEF T!Leave, Gone
  <2> QED
    BY <2>7, Zenon
<1> QED
  BY <1>2, <1>3, Zenon

\* A posted do_write delivers the message, or the connection has gone.
LEMMA DeliverTopics ==
  ASSUME IInv, NEW c \in Clients, RunPosted(c)
  PROVE  T!Deliver(c) \/ T!Lose(c)
<1>1. TypeOK /\ open \in [Clients -> BOOLEAN] /\ got \in [Clients -> Seq(Message)]
  BY Zenon DEF IInv, TypeOK
<1>2. /\ posted[c] # <<>> /\ posted' = [posted EXCEPT ![c] = Tail(@)]
      /\ UNCHANGED <<channels, answers>>
  BY Zenon DEF RunPosted
<1>3. CASE open[c] /\ got' = [got EXCEPT ![c] = Append(got[c], Head(posted[c]))] /\ UNCHANGED open
  BY <1>1, <1>2, <1>3, Zenon DEF T!Deliver
<1>4. CASE UNCHANGED got /\ ~open[c] /\ UNCHANGED open
  <2>1. Gone' = Gone \cup {c}
    BY <1>4, Zenon DEF Gone
  <2> QED
    BY <1>2, <1>4, <2>1, Zenon DEF T!Lose, Gone
<1>5. CASE UNCHANGED got /\ open' = [open EXCEPT ![c] = FALSE]
  <2>1. Gone' = Gone \cup {c}
    BY <1>1, <1>5, Zenon DEF Gone
  <2> QED
    BY <1>2, <1>5, <2>1, Zenon DEF T!Lose, Gone
<1> QED
  BY <1>3, <1>4, <1>5, Zenon DEF RunPosted, DoWrite, client

\* PUBLISH sends to the members of the moment and answers their number.
LEMMA PublishTopics ==
  ASSUME IInv, NEW c \in Clients, NEW ch \in Channels, CmdPublish(c, ch)
  PROVE  T!Publish(ch)
<1>1. /\ posted' = [d \in Clients |-> IF d \in Members(channels, ch)
                                     THEN Append(posted[d], <<ch, Len(answers) + 1>>)
                                     ELSE posted[d]]
      /\ answers' = Append(answers, Cardinality(Members(channels, ch)))
  BY PublishEffect, Zenon
<1>2. UNCHANGED <<channels, open, got>>
  BY Zenon DEF CmdPublish, client
<1>3. [x \in Channels |-> Members(channels, x)][ch] = Members(channels, ch)
  BY Zenon
<1>4. T!Cardinality(Members(channels, ch)) = Cardinality(Members(channels, ch))
  BY Zenon DEF T!Cardinality, Cardinality
<1> QED
  BY <1>1, <1>2, <1>3, <1>4, Zenon DEF T!Publish

\* The broker, the posted writes and the connections implement Topics, for
\* any clients and channels: every message goes once, in order, to the
\* members of the moment, and PUBLISH answers how many they are.
THEOREM Implements == Spec => Delivery
<1>1. ASSUME Init PROVE T!Init
  <2>1. \A ch \in Channels : Members(channels, ch) = {}
    BY <1>1, NoChannels, Zenon DEF Init
  <2> QED
    BY <1>1, <2>1, Zenon DEF Init, T!Init
<1>2. ASSUME IInv, [Next]_vars PROVE [T!Next]_(T!vars)
  <2>1. ASSUME NEW c \in Clients, HandleData(c)
        PROVE  [T!Next]_(T!vars)
    BY <1>2, <2>1, QuietTopics, JoinTopics, LeaveTopics, PublishTopics, Zenon DEF HandleData, T!Next
  <2>2. ASSUME NEW c \in Clients, ReadChunk(c) \/ RunPosted(c) \/ Close(c)
        PROVE  [T!Next]_(T!vars)
    BY <1>2, <2>2, QuietTopics, DeliverTopics, Zenon DEF T!Next
  <2>3. CASE UNCHANGED vars
    BY <2>3, Zenon DEF vars, T!vars
  <2> QED
    BY <1>2, <2>1, <2>2, <2>3, Zenon DEF Next
<1> QED
  BY <1>1, <1>2, Invariance, PTL DEF Spec, Delivery, T!Spec
=============================================================================
