---------------------------- MODULE BrokerProofs ----------------------------
(***************************************************************************)
(* What the operations of PubSubBroker do to the subscribers of every     *)
(* channel, for any channels and any subscribers.                         *)
(***************************************************************************)
EXTENDS Broker, FiniteSetTheorems, TLAPS

\* No channel without a subscriber, no subscriber with two entries.
IsTidy(m) == \A ch \in DOMAIN m : /\ \A c \in Clients : m[ch][c] \in 0..1
                                  /\ m[ch] # NoSubscribers

\* A channel's entries are a number for every client.
LEMMA EntriesType ==
  ASSUME NEW m, IsChannelMap(m), NEW ch
  PROVE  Entries(m, ch) \in [Clients -> Nat]
  BY Zenon DEF IsChannelMap, Entries, NoSubscribers

\* An empty map is a map in which no channel has members.
LEMMA NoChannels ==
  LET m == [ch \in {} |-> NoSubscribers]
  IN  IsChannelMap(m) /\ IsTidy(m) /\ \A ch \in Channels : Members(m, ch) = {}
<1> DEFINE m == [ch \in {} |-> NoSubscribers]
<1>1. DOMAIN m = {}
  BY Zenon
<1>2. IsChannelMap(m) /\ IsTidy(m)
  BY <1>1, Zenon DEF IsChannelMap, IsTidy
<1>3. ASSUME NEW ch \in Channels PROVE Members(m, ch) = {}
  <2>1. Entries(m, ch) = NoSubscribers
    BY <1>1, Zenon DEF Entries
  <2> QED
    BY <2>1 DEF Members, NoSubscribers
<1> QED
  BY <1>2, <1>3, Zenon

\* Replacing one channel's entries.
LEMMA AssignEntries ==
  ASSUME NEW m, IsChannelMap(m), NEW ch \in Channels, NEW s \in [Clients -> Nat]
  PROVE  /\ IsChannelMap(Assign(m, ch, s))
         /\ Entries(Assign(m, ch, s), ch) = s
         /\ \A x : x # ch => Entries(Assign(m, ch, s), x) = Entries(m, x)
         /\ IsTidy(m) /\ s # NoSubscribers /\ (\A c \in Clients : s[c] \in 0..1)
                => IsTidy(Assign(m, ch, s))
  BY Zenon DEF IsChannelMap, Entries, Assign, IsTidy

\* subscribe makes id a subscriber of ch and changes nothing else.
LEMMA SubscribeEffect ==
  ASSUME NEW m, IsChannelMap(m), NEW ch \in Channels, NEW id \in Clients
  PROVE  LET n == Subscribe(m, ch, id)
         IN  /\ IsChannelMap(n)
             /\ \A x \in Channels, c \in Clients :
                    c \in Members(n, x) <=> c \in Members(m, x) \/ (x = ch /\ c = id)
             /\ IsTidy(m) => IsTidy(n)
<1> DEFINE e == Entries(m, ch)
           s == [e EXCEPT ![id] = @ + 1]
<1>1. e \in [Clients -> Nat]
  BY EntriesType, Zenon
<1>2. CASE e[id] > 0
  BY <1>2, Zenon DEF Subscribe, Members
<1>3. CASE ~(e[id] > 0)
  <2>1. Subscribe(m, ch, id) = Assign(m, ch, s)
    BY <1>3, Zenon DEF Subscribe
  <2>2. e[id] = 0
    BY <1>1, <1>3
  <2>3. /\ s \in [Clients -> Nat]
        /\ s[id] = 1
        /\ \A c \in Clients : c # id => s[c] = e[c]
    BY <1>1, <2>2
  <2>4. s # NoSubscribers
    BY <2>3 DEF NoSubscribers
  <2>5. IsTidy(m) => \A c \in Clients : e[c] \in 0..1
    BY DEF Entries, IsTidy, NoSubscribers
  <2>6. IsTidy(m) => \A c \in Clients : s[c] \in 0..1
    BY <2>3, <2>5
  <2> DEFINE n == Assign(m, ch, s)
  <2>7. /\ IsChannelMap(n)
        /\ Entries(n, ch) = s
        /\ \A x : x # ch => Entries(n, x) = Entries(m, x)
        /\ IsTidy(m) => IsTidy(n)
    <3> HIDE DEF s
    <3> QED
      BY <2>3, <2>4, <2>6, AssignEntries
  <2> HIDE DEF n, s
  <2>8. ASSUME NEW x \in Channels, NEW c \in Clients
        PROVE  c \in Members(n, x) <=> c \in Members(m, x) \/ (x = ch /\ c = id)
    <3>1. CASE x # ch
      BY <2>7, <3>1, Zenon DEF Members
    <3>2. CASE x = ch /\ c = id
      BY <2>3, <2>7, <3>2 DEF Members
    <3>3. CASE x = ch /\ c # id
      BY <2>3, <2>7, <3>3, Zenon DEF Members
    <3> QED
      BY <3>1, <3>2, <3>3, Zenon
  <2> QED
    BY <2>1, <2>7, <2>8, Zenon DEF n
<1> QED
  BY <1>2, <1>3, Zenon

\* remove_if removes id and nobody else.
LEMMA WithoutEffect ==
  ASSUME NEW s \in [Clients -> Nat], NEW id \in Clients
  PROVE  /\ Without(s, id) \in [Clients -> Nat]
         /\ Without(s, id)[id] = 0
         /\ \A c \in Clients : c # id => Without(s, id)[c] = s[c]
  BY Zenon DEF Without

\* unsubscribe makes id leave ch and changes nothing else.
LEMMA UnsubscribeEffect ==
  ASSUME NEW m, IsChannelMap(m), NEW ch \in Channels, NEW id \in Clients
  PROVE  LET n == Unsubscribe(m, ch, id)
         IN  /\ IsChannelMap(n)
             /\ \A x \in Channels, c \in Clients :
                    c \in Members(n, x) <=> c \in Members(m, x) /\ ~(x = ch /\ c = id)
             /\ IsTidy(m) => IsTidy(n)
<1>1. CASE ch \notin DOMAIN m
  <2>1. Members(m, ch) = {}
    BY <1>1 DEF Members, Entries, NoSubscribers
  <2>2. Unsubscribe(m, ch, id) = m
    BY <1>1, Zenon DEF Unsubscribe
  <2> QED
    BY <2>1, <2>2, Zenon
<1>2. CASE ch \in DOMAIN m
  <2> DEFINE s == Without(m[ch], id)
             n == Unsubscribe(m, ch, id)
  <2>1. m[ch] \in [Clients -> Nat] /\ Entries(m, ch) = m[ch]
    BY <1>2, Zenon DEF IsChannelMap, Entries
  <2>2. /\ s \in [Clients -> Nat] /\ s[id] = 0
        /\ \A c \in Clients : c # id => s[c] = m[ch][c]
    BY <2>1, WithoutEffect, Zenon
  <2>3. IsTidy(m) => \A c \in Clients : s[c] \in 0..1
    BY <1>2, <2>2 DEF IsTidy
  <2> HIDE DEF s
  <2>4. /\ IsChannelMap(n)
        /\ Entries(n, ch) = s
        /\ \A x : x # ch => Entries(n, x) = Entries(m, x)
        /\ IsTidy(m) => IsTidy(n)
    <3>1. CASE s = NoSubscribers
      <4>1. n = [x \in DOMAIN m \ {ch} |-> m[x]]
        BY <1>2, <3>1, Zenon DEF Unsubscribe, s
      <4> HIDE DEF n
      <4> QED
        BY <3>1, <4>1, Zenon DEF IsChannelMap, Entries, IsTidy
    <3>2. CASE s # NoSubscribers
      <4>1. n = Assign(m, ch, s)
        BY <1>2, <3>2, Zenon DEF Unsubscribe, s
      <4> HIDE DEF n
      <4> QED
        BY <2>2, <2>3, <3>2, <4>1, AssignEntries
    <3> QED
      BY <3>1, <3>2, Zenon
  <2> HIDE DEF n
  <2>5. ASSUME NEW x \in Channels, NEW c \in Clients
        PROVE  c \in Members(n, x) <=> c \in Members(m, x) /\ ~(x = ch /\ c = id)
    <3>1. CASE x # ch
      BY <2>4, <3>1, Zenon DEF Members
    <3>2. CASE x = ch /\ c = id
      BY <2>2, <2>4, <3>2 DEF Members
    <3>3. CASE x = ch /\ c # id
      BY <2>1, <2>2, <2>4, <3>3, Zenon DEF Members
    <3> QED
      BY <3>1, <3>2, <3>3, Zenon
  <2> QED
    BY <2>4, <2>5, Zenon DEF n
<1> QED
  BY <1>1, <1>2, Zenon

\* unsubscribe_all makes id leave every channel and changes nothing else.
LEMMA UnsubscribeAllEffect ==
  ASSUME NEW m, IsChannelMap(m), NEW id \in Clients
  PROVE  LET n == UnsubscribeAll(m, id)
         IN  /\ IsChannelMap(n)
             /\ \A x \in Channels, c \in Clients :
                    c \in Members(n, x) <=> c \in Members(m, x) /\ c # id
             /\ IsTidy(m) => IsTidy(n)
<1> DEFINE D == {y \in DOMAIN m : Without(m[y], id) # NoSubscribers}
           n == UnsubscribeAll(m, id)
<1>1. n = [x \in D |-> Without(m[x], id)]
  BY Zenon DEF UnsubscribeAll
<1>2. \A x \in DOMAIN m : /\ Without(m[x], id) \in [Clients -> Nat]
                          /\ Without(m[x], id)[id] = 0
                          /\ \A c \in Clients : c # id => Without(m[x], id)[c] = m[x][c]
  <2> SUFFICES ASSUME NEW x \in DOMAIN m
      PROVE  m[x] \in [Clients -> Nat]
    BY WithoutEffect, Zenon
  <2> QED
    BY Zenon DEF IsChannelMap
<1>3. IsChannelMap(n)
  BY <1>1, <1>2, Zenon DEF IsChannelMap
<1>4. IsTidy(m) => IsTidy(n)
  <2> SUFFICES ASSUME IsTidy(m), NEW x \in D
      PROVE  /\ \A c \in Clients : n[x][c] \in 0..1
             /\ n[x] # NoSubscribers
    BY <1>1, Zenon DEF IsTidy
  <2>1. n[x] = Without(m[x], id)
    BY <1>1, Zenon
  <2> QED
    BY <1>2, <2>1 DEF IsTidy
<1>5. ASSUME NEW x \in Channels, NEW c \in Clients
      PROVE  c \in Members(n, x) <=> c \in Members(m, x) /\ c # id
  <2>1. CASE x \notin DOMAIN m
    BY <1>1, <2>1 DEF Members, Entries, NoSubscribers
  <2>2. CASE x \in D
    BY <1>1, <1>2, <2>2 DEF Members, Entries
  <2>3. CASE x \in DOMAIN m \ D
    <3>1. Without(m[x], id) = NoSubscribers
      BY <2>3, Zenon
    <3>2. c # id => m[x][c] = 0
      BY <1>2, <2>3, <3>1, Zenon DEF NoSubscribers
    <3>3. c \notin Members(n, x)
      BY <1>1, <2>3 DEF Members, Entries, NoSubscribers
    <3> QED
      BY <2>3, <3>2, <3>3 DEF Members, Entries
  <2> QED
    BY <2>1, <2>2, <2>3, Zenon
<1> QED
  BY <1>3, <1>4, <1>5, Zenon

\* The names unsubscribe_all returns are the channels id was subscribed to.
LEMMA RemovedMembers ==
  ASSUME NEW m, IsChannelMap(m), NEW id \in Clients
  PROVE  Removed(m, id) = {x \in Channels : id \in Members(m, x)}
  BY DEF IsChannelMap, Removed, Members, Entries, NoSubscribers

\* In a tidy map the callbacks publish calls are one for every subscriber.
LEMMA CallbackMembers ==
  ASSUME NEW m, IsChannelMap(m), IsTidy(m), NEW ch, IsFiniteSet(Clients)
  PROVE  CallbackCount(m, ch) = Cardinality(Members(m, ch))
<1> DEFINE M == Members(m, ch)
           P == {<<c, 1>> : c \in M}
           f == [c \in M |-> <<c, 1>>]
<1>1. \A c \in Clients : Entries(m, ch)[c] \in 0..1
  BY DEF Entries, IsTidy, NoSubscribers
<1>2. \A c \in Clients : Entries(m, ch)[c] = IF c \in M THEN 1 ELSE 0
  BY <1>1 DEF Members
<1>3. UNION {{c} \X (1..Entries(m, ch)[c]) : c \in Clients} = P
  <2>1. 1..1 = {1} /\ 1..0 = {}
    OBVIOUS
  <2>2. M \subseteq Clients
    BY Zenon DEF Members
  <2> HIDE DEF M
  <2>3. ASSUME NEW c \in M
        PROVE  <<c, 1>> \in {c} \X (1..Entries(m, ch)[c])
    BY <1>2, <2>1, <2>2, Zenon
  <2>4. ASSUME NEW c \in Clients, NEW p \in {c} \X (1..Entries(m, ch)[c])
        PROVE  p \in P
    <3>1. CASE c \in M
      <4>1. p = <<c, 1>>
        BY <1>2, <2>1, <3>1
      <4> QED
        BY <3>1, <4>1, Zenon
    <3>2. CASE c \notin M
      BY <1>2, <2>1, <3>2, Zenon
    <3> QED
      BY <3>1, <3>2, Zenon
  <2>5. P \subseteq UNION {{c} \X (1..Entries(m, ch)[c]) : c \in Clients}
    BY <2>2, <2>3
  <2>6. UNION {{c} \X (1..Entries(m, ch)[c]) : c \in Clients} \subseteq P
    BY <2>4, Zenon
  <2> QED
    BY <2>5, <2>6, Zenon
<1>4. IsFiniteSet(M)
  BY FS_Subset, Zenon DEF Members
<1>5. f \in Bijection(M, P)
  BY Zenon DEF Bijection, Injection, Surjection, IsInjective
<1>6. Cardinality(M) = Cardinality(P)
  BY <1>4, <1>5, FS_Bijection, Zenon DEF ExistsBijection
<1> QED
  BY <1>3, <1>6, Zenon DEF CallbackCount
=============================================================================
