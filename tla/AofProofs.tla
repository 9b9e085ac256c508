----------------------------- MODULE AofProofs ------------------------------
(***************************************************************************)
(* For any commands and any pattern of crashes, failed calls and losses   *)
(* of power: the file holds an initial part of what was executed, what is *)
(* appended to it can be read again, and a restart restores every key     *)
(* that never had a deadline.                                             *)
(***************************************************************************)
EXTENDS Aof, Induction

Item == Commands \cup {Torn}

\* The entries a replay would read are the first commands attempted.
Initial(f, s) == /\ Readable(f) <= Len(s)
                 /\ \A i \in 1..Readable(f) : f[i] = s[i]

\* The inductive invariant.  GapFree speaks of the entries up to the first torn
\* bytes and says nothing of lengths, so a step of log() needs more: a stream that
\* takes writes has missed none.
IInv ==
    /\ LogTypes
    /\ Serving /\ stream = "good" /\ ~skipped => file = Attempted
    /\ Serving /\ stream # "off" /\ ~skipped => Initial(file, Attempted)

\* Torn is no command.
LEMMA TornIsNoCommand == Torn \notin Commands /\ None \notin Commands
  BY CommandsAssumption, TornAssumption, NoneIsNoCommand, Zenon

\* Where replay stops reading: in front of the first torn bytes, or at the end.
Stops(f, n) == /\ n \in 0..Len(f)
               /\ \A i \in 1..n : f[i] # Torn
               /\ n < Len(f) => f[n + 1] = Torn

\* There is one such place in a file.
LEMMA ReadableStops ==
  ASSUME NEW f \in Seq(Item)
  PROVE  Stops(f, Readable(f))
<1> DEFINE T == {n \in 0..Len(f) : n < Len(f) => f[n + 1] = Torn}
<1>1. Len(f) \in Nat /\ T \subseteq Nat /\ Len(f) \in T
  OBVIOUS
<1>2. PICK n \in T : \A m \in T : n <= m
  <2> HIDE DEF T
  <2> QED
    BY <1>1, Least, Zenon
<1>3. n \in 0..Len(f) /\ (n < Len(f) => f[n + 1] = Torn)
  BY <1>2, Zenon
<1>4. ASSUME NEW i \in 1..n PROVE f[i] # Torn
  <2>1. i - 1 \in 0..Len(f) /\ i - 1 < n /\ (i - 1) + 1 = i
    BY <1>1, <1>3
  <2>2. i - 1 \notin T
    <3> HIDE DEF T
    <3> QED
      BY <1>2, <1>3, <2>1
  <2> QED
    BY <2>1, <2>2, Zenon
<1> HIDE DEF T
<1>5. Stops(f, n)
  BY <1>3, <1>4, Zenon DEF Stops
<1>6. Readable(f) = CHOOSE m \in 0..Len(f) : /\ \A i \in 1..m : f[i] # Torn
                                             /\ m < Len(f) => f[m + 1] = Torn
  BY Zenon DEF Readable
<1> QED
  BY <1>5, <1>6, Zenon DEF Stops

\* And no other.
LEMMA StopsOnce ==
  ASSUME NEW f \in Seq(Item), NEW n, Stops(f, n)
  PROVE  Readable(f) = n
<1> DEFINE m == Readable(f)
<1>1. Stops(f, m) /\ Len(f) \in Nat
  BY ReadableStops
<1> HIDE DEF m
<1>2. n \in Nat /\ m \in Nat /\ n <= Len(f) /\ m <= Len(f)
  BY <1>1 DEF Stops
<1>3. ~(n < m)
  <2> SUFFICES ASSUME n < m PROVE FALSE
    BY Zenon
  <2>1. n + 1 \in 1..m /\ n < Len(f)
    BY <1>1, <1>2
  <2> QED
    BY <1>1, <2>1, Zenon DEF Stops
<1>4. ~(m < n)
  <2> SUFFICES ASSUME m < n PROVE FALSE
    BY Zenon
  <2>1. m + 1 \in 1..n /\ m < Len(f)
    BY <1>1, <1>2
  <2> QED
    BY <1>1, <2>1, Zenon DEF Stops
<1> QED
  BY <1>2, <1>3, <1>4 DEF m

\* Commands are read to the end, and torn bytes behind them end the reading there.
LEMMA ReadableCommands ==
  ASSUME NEW s \in Seq(Commands)
  PROVE  /\ s \in Seq(Item) /\ Append(s, Torn) \in Seq(Item)
         /\ Readable(s) = Len(s) /\ Readable(Append(s, Torn)) = Len(s)
         /\ Initial(s, s) /\ Initial(Append(s, Torn), s)
<1> USE TornIsNoCommand
<1> DEFINE w == Append(s, Torn)
           n == Len(s)
<1>1. s \in Seq(Item) /\ w \in Seq(Item) /\ n \in Nat
  BY DEF Item
<1>2. \A i \in 1..n : s[i] # Torn
  OBVIOUS
<1>3. Len(w) = n + 1 /\ w[n + 1] = Torn /\ \A i \in 1..n : w[i] = s[i]
  OBVIOUS
<1> HIDE DEF w, n
<1>4. Stops(s, n)
  BY <1>1, <1>2 DEF Stops, n
<1>5. Stops(w, n)
  BY <1>1, <1>2, <1>3 DEF Stops
<1>6. Readable(s) = n /\ Readable(w) = n
  BY <1>1, <1>4, <1>5, StopsOnce, Zenon
<1> QED
  BY <1>1, <1>3, <1>6 DEF Initial, w, n

\* The part of a file that replay reads.
LEMMA ReadPart ==
  ASSUME NEW f \in Seq(Item), NEW n, Stops(f, n)
  PROVE  /\ SubSeq(f, 1, n) \in Seq(Commands)
         /\ Len(SubSeq(f, 1, n)) = n
         /\ \A i \in 1..n : SubSeq(f, 1, n)[i] = f[i]
<1>0. n \in 0..Len(f) /\ Len(f) \in Nat
  BY DEF Stops
<1>1. SubSeq(f, 1, n) = [i \in 1..n |-> f[i]]
  BY <1>0 DEF Item
<1>2. \A i \in 1..n : f[i] \in Commands
  BY <1>0 DEF Item, Stops
<1>3. [i \in 1..n |-> f[i]] \in Seq(Commands)
  BY <1>0, <1>2
<1> QED
  BY <1>0, <1>1, <1>3

\* Appending to a sequence.
LEMMA AppendItem ==
  ASSUME NEW S, NEW f \in Seq(S), NEW x \in S
  PROVE  /\ Append(f, x) \in Seq(S)
         /\ Len(f) \in Nat
         /\ Len(Append(f, x)) = Len(f) + 1
         /\ \A i \in 1..Len(f) : Append(f, x)[i] = f[i]
         /\ Append(f, x)[Len(f) + 1] = x
  OBVIOUS

\* More commands attempted leave an initial part initial.
LEMMA InitialGrows ==
  ASSUME NEW f \in Seq(Item), NEW s \in Seq(Commands), NEW c \in Commands, Initial(f, s)
  PROVE  Initial(f, Append(s, c))
<1> DEFINE n == Readable(f)
           w == Append(s, c)
<1>1. n \in Nat
  BY ReadableStops DEF Stops
<1>2. Len(s) \in Nat /\ Len(w) = Len(s) + 1 /\ \A i \in 1..Len(s) : w[i] = s[i]
  OBVIOUS
<1> HIDE DEF n, w
<1>3. n <= Len(s) /\ \A i \in 1..n : f[i] = s[i]
  BY Zenon DEF Initial, n
<1>4. n <= Len(w) /\ \A i \in 1..n : f[i] = w[i]
  BY <1>1, <1>2, <1>3
<1> QED
  BY <1>4, Zenon DEF Initial, n, w

(***************************************************************************)
(* The steps.                                                             *)
(***************************************************************************)

\* log() and the start of the handler: the file and the attempted commands
\* grow by the same command, or the stream stops taking writes.
LEMMA WriteStep ==
  ASSUME IInv, NEW c \in Commands, HandleWrite(c)
  PROVE  IInv'
<1>1. /\ phase = "up" /\ phase' = "logged" /\ pending' = c
      /\ UNCHANGED <<now, executed, skipped>> /\ Log(c)
      /\ file \in Seq(Item) /\ executed \in Seq(Commands) /\ LogTypes
  BY Zenon DEF HandleWrite, IInv, LogTypes, Item
<1>2. Attempted = executed /\ Attempted' = Append(executed, c) /\ Serving /\ Serving'
  BY <1>1, Zenon DEF Attempted, Serving
<1>3. Append(executed, c) \in Seq(Commands)
  BY <1>1, AppendItem, Zenon
<1>4. c \in Item /\ Torn \in Item /\ c # None
  BY TornIsNoCommand, Zenon DEF Item
<1> HIDE DEF Attempted, Serving
<1>5. CASE stream = "good" /\ file' = Append(file, c) /\ UNCHANGED stream
  <2>1. file' \in Seq(Item)
    BY <1>1, <1>4, <1>5, AppendItem, Zenon
  <2>2. LogTypes'
    BY <1>1, <1>4, <1>5, <2>1, Zenon DEF LogTypes, Item
  <2>3. ~skipped' => file' = Attempted'
    BY <1>1, <1>2, <1>5, Zenon DEF IInv
  <2>4. ~skipped' => Initial(file', Attempted')
    BY <1>2, <1>3, <2>3, ReadableCommands, Zenon
  <2> QED
    BY <2>2, <2>3, <2>4, Zenon DEF IInv
<1>6. CASE stream # "good" /\ UNCHANGED <<file, stream>>
  <2>1. LogTypes'
    BY <1>1, <1>4, <1>6, Zenon DEF LogTypes
  <2>2. stream' # "off" /\ ~skipped' => Initial(file', Attempted')
    BY <1>1, <1>2, <1>6, InitialGrows, Zenon DEF IInv
  <2> QED
    BY <1>6, <2>1, <2>2, Zenon DEF IInv
<1>7. CASE stream = "good" /\ file' \in {file, Append(file, Torn)} /\ stream' = "failed"
  <2>1. file' \in Seq(Item)
    BY <1>1, <1>4, <1>7, AppendItem
  <2>2. LogTypes'
    BY <1>1, <1>4, <1>7, <2>1, Zenon DEF LogTypes, Item
  <2>3. ASSUME ~skipped' PROVE Initial(file', Attempted')
    <3>1. file = executed
      BY <1>1, <1>2, <1>7, <2>3, Zenon DEF IInv
    <3>2. Initial(file', executed)
      BY <1>1, <1>7, <3>1, ReadableCommands, Zenon
    <3> QED
      BY <1>1, <1>2, <2>1, <3>2, InitialGrows, Zenon
  <2> QED
    BY <1>7, <2>2, <2>3, Zenon DEF IInv
<1> QED
  BY <1>1, <1>5, <1>6, <1>7, Zenon DEF Log

\* replay(): what the file keeps is what was dispatched, unless truncate_to fails,
\* which leaves the stream closed.
LEMMA ReplayFile ==
  ASSUME IInv, Replay
  PROVE  \E s \in Seq(Commands) :
            /\ Redispatch(s)
            /\ \/ file' = s /\ stream' \in {"good", "closed", stream}
               \/ file' = file /\ stream' = "closed"
            /\ Initial(file, s)
<1> DEFINE n == Readable(file)
           s == SubSeq(file, 1, n)
<1>1. file \in Seq(Item) /\ Len(file) \in Nat
  BY DEF IInv, LogTypes, Item
<1>2. Stops(file, n)
  BY <1>1, ReadableStops, Zenon
<1>3. s \in Seq(Commands) /\ Len(s) = n /\ \A i \in 1..n : s[i] = file[i]
  BY <1>1, <1>2, ReadPart, Zenon
<1>4. n \in 0..Len(file)
  BY <1>2, Zenon DEF Stops
<1>5. \/ n = Len(file) /\ Redispatch(s) /\ Reopen
      \/ n < Len(file) /\ Redispatch(s) /\ TruncateTo(s)
      \/ \E c \in Commands : Redispatch(Append(s, c)) /\ TruncateTo(Append(s, c))
  BY Zenon DEF Replay
<1>6. n = Len(file) => file = s
  <2> SUFFICES ASSUME n = Len(file) PROVE file = s
    BY Zenon
  <2>1. s = [i \in 1..n |-> s[i]] /\ file = [i \in 1..n |-> file[i]]
    <3> HIDE DEF n, s
    <3> QED
      BY <1>1, <1>3
  <2> HIDE DEF n, s
  <2> QED
    BY <1>3, <2>1, Zenon
<1>7. Initial(file, s)
  <2>1. n <= Len(s) /\ \A i \in 1..n : file[i] = s[i]
    <3> HIDE DEF n, s
    <3> QED
      BY <1>3, <1>4
  <2> HIDE DEF s
  <2> QED
    BY <2>1, Zenon DEF Initial
<1> HIDE DEF n, s
<1>8. CASE n = Len(file) /\ Redispatch(s) /\ Reopen
  BY <1>3, <1>6, <1>7, <1>8, Zenon DEF Reopen
<1>9. CASE Redispatch(s) /\ TruncateTo(s)
  BY <1>3, <1>7, <1>9, Zenon DEF TruncateTo
<1>10. ASSUME NEW c \in Commands, Redispatch(Append(s, c)), TruncateTo(Append(s, c))
       PROVE  \E w \in Seq(Commands) :
                 /\ Redispatch(w)
                 /\ \/ file' = w /\ stream' \in {"good", "closed", stream}
                    \/ file' = file /\ stream' = "closed"
                 /\ Initial(file, w)
  <2>1. Append(s, c) \in Seq(Commands)
    BY <1>3, AppendItem, Zenon
  <2>2. Initial(file, Append(s, c))
    BY <1>1, <1>3, <1>7, InitialGrows, Zenon
  <2> QED
    BY <1>10, <2>1, <2>2, Zenon DEF TruncateTo
<1> QED
  BY <1>5, <1>8, <1>9, <1>10, Zenon

\* replay() leaves a file that holds what it dispatched.
LEMMA ReplayStep == ASSUME IInv, Replay PROVE IInv'
<1>1. PICK s \in Seq(Commands) :
            /\ Redispatch(s)
            /\ \/ file' = s /\ stream' \in {"good", "closed", stream}
               \/ file' = file /\ stream' = "closed"
            /\ Initial(file, s)
  BY ReplayFile, Zenon
<1>2. /\ phase' = "up" /\ pending' = None /\ executed' = s /\ now' = now /\ LogTypes
  BY <1>1, Zenon DEF IInv, LogTypes, Replay, Redispatch
<1>3. Attempted' = s /\ Serving'
  BY <1>2, Zenon DEF Attempted, Serving
<1>4. s \in Seq(Item) /\ Initial(s, s)
  BY ReadableCommands, Zenon
<1>5. LogTypes'
  BY <1>1, <1>2, <1>4, Zenon DEF LogTypes, Item
<1> QED
  BY <1>1, <1>3, <1>4, <1>5, Zenon DEF IInv

\* The end of the process, with or without the loss of the file's last part.
LEMMA DownStep == ASSUME IInv, Crash \/ PowerLoss PROVE IInv'
<1>1. /\ file \in Seq(Item) /\ Len(file) \in Nat /\ LogTypes
      /\ phase' = "down" /\ stream' = "closed" /\ pending' = None
      /\ UNCHANGED <<now, executed>>
  BY DEF IInv, LogTypes, Item, Crash, PowerLoss, Down
<1>2. file' \in Seq(Item)
  <2>1. CASE Crash
    BY <1>1, <2>1, Zenon DEF Crash
  <2>2. CASE PowerLoss
    <3>1. PICK n \in 0..Len(file) - 1 :
              file' \in {SubSeq(file, 1, n), Append(SubSeq(file, 1, n), Torn)}
      BY <2>2, Zenon DEF PowerLoss
    <3> DEFINE s == SubSeq(file, 1, n)
    <3>2. s \in Seq(Item) /\ Torn \in Item
      BY <1>1 DEF Item
    <3> HIDE DEF s
    <3>3. Append(s, Torn) \in Seq(Item)
      BY <3>2
    <3> QED
      BY <3>1, <3>2, <3>3, Zenon DEF s
  <2> QED
    BY <2>1, <2>2, Zenon
<1>3. LogTypes' /\ ~Serving'
  BY <1>1, <1>2, Zenon DEF LogTypes, Item, Serving
<1> QED
  BY <1>3, Zenon DEF IInv

\* Every step keeps the invariant.
LEMMA Step == IInv /\ [Next]_vars => IInv'
<1> SUFFICES ASSUME IInv, [Next]_vars PROVE IInv'
  BY Zenon
<1>0. LogTypes
  BY Zenon DEF IInv
<1>1. ASSUME NEW c \in Commands, HandleWrite(c) PROVE IInv'
  BY <1>1, WriteStep, Zenon
<1>2. ASSUME NEW c \in Commands, HandleRead(c) PROVE IInv'
  BY <1>2, Zenon DEF HandleRead, IInv, LogTypes, Serving, Attempted
<1>3. CASE Dispatch
  <2>1. /\ pending \in Commands /\ executed \in Seq(Commands)
        /\ phase = "logged" /\ phase' = "up" /\ pending' = None
        /\ executed' = Append(executed, pending)
        /\ UNCHANGED <<file, stream, now, skipped>>
    BY <1>0, <1>3, Zenon DEF LogTypes, Dispatch
  <2>2. executed' \in Seq(Commands)
    BY <2>1, AppendItem, Zenon
  <2>3. LogTypes'
    BY <1>0, <2>1, <2>2, Zenon DEF LogTypes
  <2>4. Attempted' = Attempted /\ Serving /\ Serving'
    BY <2>1, Zenon DEF Attempted, Serving
  <2> QED
    BY <2>1, <2>3, <2>4, Zenon DEF IInv
<1>4. CASE Crash \/ PowerLoss
  BY <1>4, DownStep, Zenon
<1>5. CASE Open
  <2>1. LogTypes'
    <3>1. <<>> \in Seq(Commands)
      OBVIOUS
    <3> QED
      BY <1>0, <1>5, <3>1, Zenon DEF LogTypes, Open
  <2>2. ~Serving' \/ stream' = "off"
    BY <1>5, Zenon DEF Open, Serving
  <2> QED
    BY <2>1, <2>2, Zenon DEF IInv
<1>6. CASE ReplayUnreadable
  <2>1. LogTypes'
    BY <1>0, <1>6 DEF LogTypes, ReplayUnreadable
  <2> QED
    BY <1>6, <2>1, Zenon DEF IInv, ReplayUnreadable
<1>7. CASE Replay
  BY <1>7, ReplayStep, Zenon
<1>8. CASE Tick
  BY <1>8 DEF Tick, IInv, LogTypes, Serving, Attempted
<1>9. CASE UNCHANGED vars
  BY <1>9, Zenon DEF vars, IInv, LogTypes, Serving, Attempted
<1> QED
  BY <1>1, <1>2, <1>3, <1>4, <1>5, <1>6, <1>7, <1>8, <1>9, Zenon DEF Next

\* The invariant holds in every state.
THEOREM Invariance == Spec => []IInv
<1>1. Init => IInv
  BY DEF Init, IInv, LogTypes, Serving
<1> QED
  BY <1>1, Step, PTL DEF Spec

\* Whatever crashes and failures do, a stream that takes writes appends them
\* where the next replay() reads them (aof_persistence.cpp:101-157).
THEOREM Reachable == Spec => []LogReachable
<1>1. IInv => LogReachable
  <2> SUFFICES ASSUME IInv, Serving, stream = "good", ~skipped, NEW i \in DOMAIN file
      PROVE  file[i] # Torn
    BY Zenon DEF LogReachable
  <2>1. file = Attempted /\ executed \in Seq(Commands) /\ pending \in Commands \cup {None}
        /\ (phase = "logged" => pending # None)
    BY Zenon DEF IInv, LogTypes
  <2>2. Attempted \in Seq(Commands)
    BY <2>1, AppendItem, Zenon DEF Attempted
  <2> QED
    BY <2>1, <2>2, TornIsNoCommand
<1> QED
  BY <1>1, Invariance, PTL

\* Whatever crashes and failures do, the entries that a replay() would read are the
\* first of the commands executed, in order (aof_persistence.cpp:92-99).
THEOREM NoGaps == Spec => []GapFree
<1>1. IInv => GapFree
  BY Zenon DEF IInv, Initial, GapFree
<1> QED
  BY <1>1, Invariance, PTL

\* No step of the program, the truncation of replay() included, removes or
\* changes an entry that a replay could read (aof_persistence.cpp:157-170).
THEOREM Kept == Spec => EntriesKept
<1> DEFINE n == Readable(file)
           Keeps == /\ Len(file') >= n
                    /\ \A i \in 1..n : file'[i] = file[i]
<1>1. ASSUME IInv, [Next]_vars PROVE phase' # "down" => Keeps
  <2> SUFFICES ASSUME phase' # "down" PROVE Keeps
    BY Zenon
  <2>1. file \in Seq(Item) /\ Len(file) \in Nat /\ n \in 0..Len(file)
    BY <1>1, ReadableStops DEF IInv, LogTypes, Item, Stops
  <2>2. CASE file' = file
    BY <2>1, <2>2
  <2>3. ASSUME NEW x \in Item, file' = Append(file, x) PROVE Keeps
    <3>1. Len(file') = Len(file) + 1 /\ \A i \in 1..Len(file) : file'[i] = file[i]
      BY <2>1, <2>3, AppendItem
    <3> HIDE DEF n
    <3> QED
      BY <2>1, <3>1
  <2>4. CASE Replay
    <3>1. PICK s \in Seq(Commands) : /\ file' = s \/ file' = file
                                     /\ Initial(file, s)
      BY <1>1, <2>4, ReplayFile, Zenon
    <3>2. Len(s) \in Nat /\ n <= Len(s) /\ \A i \in 1..n : file[i] = s[i]
      BY <3>1 DEF Initial
    <3> HIDE DEF n
    <3>3. file' = s => Keeps
      BY <2>1, <3>2, Zenon
    <3> QED
      BY <2>2, <3>1, <3>3, Zenon
  <2> HIDE DEF Keeps
  <2>5. CASE \E c \in Commands : HandleWrite(c)
    <3>1. PICK c \in Commands : Log(c)
      BY <2>5, Zenon DEF HandleWrite
    <3>2. c \in Item /\ Torn \in Item
      BY Zenon DEF Item
    <3> QED
      BY <3>1, <3>2, <2>2, <2>3, Zenon DEF Log
  <2>6. ASSUME NEW c \in Commands, HandleRead(c) PROVE Keeps
    BY <2>2, <2>6, Zenon DEF HandleRead
  <2>7. CASE Dispatch \/ Open \/ ReplayUnreadable \/ Tick \/ UNCHANGED vars
    BY <2>2, <2>7, Zenon DEF Dispatch, Open, ReplayUnreadable, Tick, vars
  <2>8. CASE Crash \/ PowerLoss
    BY <2>8, Zenon DEF Crash, PowerLoss, Down
  <2> QED
    BY <1>1, <2>4, <2>5, <2>6, <2>7, <2>8, Zenon DEF Next
<1>2. IInv /\ [Next]_vars => [phase' # "down" => Keeps]_vars
  BY <1>1, Zenon
<1> QED
  BY <1>2, Invariance, PTL DEF Spec, EntriesKept

(***************************************************************************)
(* The commands of a sequence dispatched one after the other.             *)
(***************************************************************************)
Started == [data |-> NoKeys, threw |-> 0]

\* The store and the count after one command more.
Advance(r, c, t) ==
    [data  |-> Execute(c, r.data, t),
     threw |-> r.threw + IF Throws(c, r.data, t) THEN 1 ELSE 0]

\* f is the recursive function of Dispatched.
Runs(f, s, t) ==
    f = [i \in 0..Len(s) |-> IF i = 0 THEN Started ELSE Advance(f[i - 1], s[i], t)]

\* There is such a function.
LEMMA RunsExist ==
  ASSUME NEW s \in Seq(Commands), NEW t
  PROVE  \E f : Runs(f, s, t)
<1> DEFINE Next1(r, i) == Advance(r, s[i], t)
           Part(f, m) == f = [i \in 0..m |-> IF i = 0 THEN Started ELSE Next1(f[i - 1], i)]
           T == {m \in Nat : \E f : Part(f, m)}
<1> HIDE DEF Next1
<1>1. 0 \in T
  <2> DEFINE f == [i \in 0..0 |-> Started]
  <2>1. f = [i \in 0..0 |-> IF i = 0 THEN Started ELSE Next1(f[i - 1], i)]
    OBVIOUS
  <2>2. \E g : Part(g, 0)
    <3> HIDE DEF f
    <3> QED
      BY <2>1, Zenon
  <2> HIDE DEF Part
  <2> QED
    BY <2>2, Zenon
<1>2. ASSUME NEW m \in T PROVE m + 1 \in T
  <2>1. PICK f : Part(f, m)
    BY Zenon
  <2> DEFINE body == [i \in 0..m |-> IF i = 0 THEN Started ELSE Next1(f[i - 1], i)]
             last == Next1(f[m], m + 1)
             g == [i \in 0..m + 1 |-> IF i = m + 1 THEN last ELSE f[i]]
  <2>2. m \in Nat /\ \A i \in 0..m : f[i] = IF i = 0 THEN Started ELSE Next1(f[i - 1], i)
    <3>1. f = body
      BY <2>1, Zenon
    <3>2. \A i \in 0..m : body[i] = IF i = 0 THEN Started ELSE Next1(f[i - 1], i)
      BY Zenon
    <3> HIDE DEF body
    <3> QED
      BY <3>1, <3>2, Zenon
  <2>3. ASSUME NEW i \in 0..m + 1
        PROVE  g[i] = IF i = 0 THEN Started ELSE Next1(g[i - 1], i)
    <3> HIDE DEF last
    <3>1. CASE i = m + 1
      <4>1. g[i] = last /\ g[i - 1] = f[m] /\ i # 0
        BY <2>2, <3>1
      <4> QED
        BY <3>1, <4>1, Zenon DEF last
    <3>2. CASE i # m + 1
      <4>1. i \in 0..m /\ g[i] = f[i] /\ (i # 0 => g[i - 1] = f[i - 1])
        BY <2>2, <3>2
      <4> HIDE DEF g
      <4> QED
        BY <2>2, <4>1, Zenon
    <3> QED
      BY <3>1, <3>2, Zenon
  <2>4. g = [i \in 0..m + 1 |-> g[i]]
    BY Zenon
  <2> HIDE DEF g
  <2>5. g = [i \in 0..m + 1 |-> IF i = 0 THEN Started ELSE Next1(g[i - 1], i)]
    BY <2>3, <2>4, Zenon
  <2>6. \E h : Part(h, m + 1)
    BY <2>5, Zenon
  <2> HIDE DEF Part
  <2> QED
    BY <2>2, <2>6
<1>3. T = Nat
  <2> HIDE DEF Part
  <2>1. T \subseteq Nat
    BY Zenon
  <2> HIDE DEF T
  <2> QED
    BY <1>1, <1>2, <2>1, Induct, Zenon
<1>4. PICK f : Part(f, Len(s))
  <2>1. Len(s) \in T
    <3>1. Len(s) \in Nat
      OBVIOUS
    <3> HIDE DEF T
    <3> QED
      BY <1>3, <3>1, Zenon
  <2> HIDE DEF Part
  <2> QED
    BY <2>1, Zenon
<1> QED
  BY <1>4, Zenon DEF Runs, Next1

\* f goes through the commands of s.
Passes(f, s, t) ==
    /\ f[0] = Started
    /\ \A i \in 1..Len(s) : f[i] = Advance(f[i - 1], s[i], t)

\* Dispatched is the last of what it passes through.
LEMMA DispatchedRuns ==
  ASSUME NEW s \in Seq(Commands), NEW t
  PROVE  \E f : Passes(f, s, t) /\ Dispatched(s, t) = f[Len(s)]
<1> DEFINE c == CHOOSE f : Runs(f, s, t)
           body == [i \in 0..Len(s) |-> IF i = 0 THEN Started ELSE Advance(c[i - 1], s[i], t)]
<1>1. Runs(c, s, t)
  BY RunsExist, Zenon
<1>2. Dispatched(s, t) = c[Len(s)]
  BY Zenon DEF Dispatched, Runs, Started, Advance
<1> HIDE DEF c
<1>3. c = body
  BY <1>1, Zenon DEF Runs
<1>4. Len(s) \in Nat /\ body[0] = Started
      /\ \A i \in 1..Len(s) : body[i] = Advance(c[i - 1], s[i], t)
  OBVIOUS
<1> HIDE DEF body
<1>5. Passes(c, s, t)
  BY <1>3, <1>4, Zenon DEF Passes
<1> QED
  BY <1>2, <1>5, Zenon

(***************************************************************************)
(* What a command does to a key that it gives no deadline.                *)
(***************************************************************************)

\* The commands that read their key once and then decide.
Decides(c) ==
    /\ ~Immediate(c)
    /\ c.name \notin {"EXISTS", "TTL", "INFO", "DEL", "EXPIRE", "PERSIST"}

\* Commands that only read.
Reads == {"GET", "LLEN", "LRANGE", "LINDEX", "SMEMBERS", "SISMEMBER", "SCARD", "HGET",
          "HGETALL", "HEXISTS", "HLEN"}

\* A decision without a deadline.
Bare(o) == o.write \in {"none", "put", "del"} /\ o.ttl = 0

\* Only SET with EX or PX decides on a deadline, and a read on nothing.
LEMMA HandleBare ==
  ASSUME NEW c \in AnyCommand, Decides(c), NEW cur
  PROVE  /\ Handle(c, cur).write \in {"none", "put", "del"}
         /\ ~(c.name = "SET" /\ c.unit # "none") => Handle(c, cur).ttl = 0
         /\ ~IsWriteCommand(c.name) => Handle(c, cur).write = "none"
<1>1. c.name \in {"SET", "INCRBY", "DECRBY", "LPUSH", "RPUSH", "LPOP", "RPOP", "SADD",
                  "SREM", "HSET", "HDEL"} \cup Reads
  BY Zenon DEF Decides, Immediate, Reads, AnyCommand, OneKeyCommand, SetCommand, DeltaCommand,
         KeyCommand, ArgsCommand, FieldCommand, HsetCommand, RangeCommand, IndexCommand,
         ExpireCommand, EachCommand, ServerCommand
<1>2. /\ CmdSet(c, cur).write \in {"none", "put"}
      /\ ~(c.unit # "none") => CmdSet(c, cur).ttl = 0
  BY Zenon DEF CmdSet, SetTtl, Keep, Put
<1> USE DEF Keep, Put, Drop, PutOrDrop, Typed, Bare
<1>3. Bare(CmdDelta(c, cur)) /\ Bare(CmdPush(c, cur)) /\ Bare(CmdPop(c, cur))
  BY Zenon DEF CmdDelta, ApplyDelta, CmdPush, CmdPop
<1>4. Bare(CmdSadd(c, cur)) /\ Bare(CmdSrem(c, cur))
  BY Zenon DEF CmdSadd, CmdSrem
<1>5. Bare(CmdHset(c, cur)) /\ Bare(CmdHdel(c, cur))
  BY Zenon DEF CmdHset, CmdHdel
<1>6. \A o \in {CmdGet(c, cur), CmdLlen(c, cur), CmdLrange(c, cur), CmdLindex(c, cur)} :
         Bare(o) /\ o.write = "none"
  BY SMTT(30) DEF CmdGet, CmdLlen, CmdLrange, CmdLindex
<1>7. \A o \in {CmdSmembers(c, cur), CmdSismember(c, cur), CmdScard(c, cur)} :
         Bare(o) /\ o.write = "none"
  BY SMTT(30) DEF CmdSmembers, CmdSismember, CmdScard
<1>8. \A o \in {CmdHget(c, cur), CmdHgetall(c, cur), CmdHexists(c, cur), CmdHlen(c, cur)} :
         Bare(o) /\ o.write = "none"
  BY SMTT(30) DEF CmdHget, CmdHgetall, CmdHexists, CmdHlen
<1>9. CASE c.name \in Reads
  <2>1. Bare(Handle(c, cur)) /\ Handle(c, cur).write = "none"
    <3> HIDE DEF Keep, Put, Drop, PutOrDrop, Typed, Bare
    <3> QED
      BY <1>6, <1>7, <1>8, <1>9, Zenon DEF Handle, Reads
  <2> QED
    BY <2>1, Zenon
<1>10. CASE c.name = "SET"
  <2>1. Handle(c, cur) = CmdSet(c, cur) /\ IsWriteCommand(c.name)
    BY <1>10, Zenon DEF Handle, IsWriteCommand
  <2> HIDE DEF Keep, Put, Drop, PutOrDrop, Typed, Bare
  <2> QED
    BY <1>2, <1>10, <2>1, Zenon
<1>11. CASE c.name \in {"INCRBY", "DECRBY", "LPUSH", "RPUSH", "LPOP", "RPOP", "SADD",
                        "SREM", "HSET", "HDEL"}
  <2>1. Bare(Handle(c, cur)) /\ IsWriteCommand(c.name)
    <3> HIDE DEF Keep, Put, Drop, PutOrDrop, Typed, Bare
    <3> QED
      BY <1>3, <1>4, <1>5, <1>11, Zenon DEF Handle, IsWriteCommand
  <2> QED
    BY <2>1, Zenon
<1> QED
  BY <1>1, <1>9, <1>10, <1>11, Zenon

\* The cases of Execute: a command that is answered at once, or only reads.
LEMMA ExecuteNothing ==
  ASSUME NEW c, NEW d, NEW t, Immediate(c) \/ c.name \in {"EXISTS", "TTL", "INFO"}
  PROVE  Execute(c, d, t) = d
<1>1. c.name \notin {"DEL", "PERSIST"} /\ ~(c.name = "EXPIRE" /\ ~Immediate(c))
  BY Zenon DEF Immediate
<1> QED
  BY <1>1, Zenon DEF Execute

\* DEL removes its keys.
LEMMA ExecuteDel ==
  ASSUME NEW c, NEW d, NEW t, c.name = "DEL"
  PROVE  Execute(c, d, t) = [k \in Keys |-> IF k \in Elements(c.keys) THEN None ELSE d[k]]
BY Zenon DEF Execute, Immediate

\* EXPIRE gives a live key a deadline.
LEMMA ExecuteExpire ==
  ASSUME NEW c, NEW d, NEW t, c.name = "EXPIRE", ~Immediate(c)
  PROVE  Execute(c, d, t) =
           IF ~Live(d, c.key, t) THEN d
           ELSE [d EXCEPT ![c.key].expires_at = t + Ticks(c.secs * MsPerSecond)]
BY Zenon DEF Execute

\* PERSIST takes it away.
LEMMA ExecutePersist ==
  ASSUME NEW c, NEW d, NEW t, c.name = "PERSIST"
  PROVE  Execute(c, d, t) =
           IF ~Live(d, c.key, t) THEN d ELSE [d EXCEPT ![c.key].expires_at = None]
BY Zenon DEF Execute, Immediate

\* Every other command writes what its handler decides.
LEMMA ExecuteDecided ==
  ASSUME NEW c, NEW d, NEW t, Decides(c)
  PROVE  Execute(c, d, t) = [d EXCEPT ![c.key] = Written(Handle(c, Get(d, c.key, t)), @, t)]
BY Zenon DEF Execute, Decides

\* A command other than DEL touches only its key.
LEMMA ExecuteTouches ==
  ASSUME NEW c, NEW d, NEW t, c.name # "DEL"
  PROVE  Execute(c, d, t) = d \/ \E v : Execute(c, d, t) = [d EXCEPT ![c.key] = v]
<1>1. CASE Immediate(c) \/ c.name \in {"EXISTS", "TTL", "INFO"}
  BY <1>1, ExecuteNothing, Zenon
<1>2. CASE c.name = "EXPIRE" /\ ~Immediate(c)
  <2>1. \/ Execute(c, d, t) = d
        \/ Execute(c, d, t) = [d EXCEPT ![c.key].expires_at = t + Ticks(c.secs * MsPerSecond)]
    BY <1>2, ExecuteExpire, Zenon
  <2> QED
    BY <2>1, Zenon
<1>3. CASE c.name = "PERSIST"
  <2>1. \/ Execute(c, d, t) = d
        \/ Execute(c, d, t) = [d EXCEPT ![c.key].expires_at = None]
    BY <1>3, ExecutePersist, Zenon
  <2> QED
    BY <2>1, Zenon
<1>4. CASE Decides(c)
  BY <1>4, ExecuteDecided
<1> QED
  BY <1>1, <1>2, <1>3, <1>4, Zenon DEF Decides

\* A store has an entry or None for every key.
Store(d) == d = [k \in Keys |-> d[k]]

\* A key without a deadline.
Undated(e) == e = None \/ e = [value |-> e.value, expires_at |-> None]

\* Every command leaves a store.
LEMMA ExecuteStore ==
  ASSUME NEW c, NEW d, NEW t, Store(d)
  PROVE  Store(Execute(c, d, t))
<1>1. CASE c.name = "DEL"
  <2>1. Execute(c, d, t) = [k \in Keys |-> IF k \in Elements(c.keys) THEN None ELSE d[k]]
    BY <1>1, ExecuteDel
  <2> QED
    BY <2>1, Zenon DEF Store
<1>2. CASE c.name # "DEL"
  <2>1. \A k, v : Store([d EXCEPT ![k] = v])
    BY Zenon DEF Store
  <2>2. Execute(c, d, t) = d \/ \E v : Execute(c, d, t) = [d EXCEPT ![c.key] = v]
    BY <1>2, ExecuteTouches
  <2> QED
    BY <2>1, <2>2
<1> QED
  BY <1>1, <1>2, Zenon

\* On a key without a deadline, a command that gives it none does the same to every
\* store at every time, and the key is still without a deadline.
LEMMA SameEffect ==
  ASSUME NEW c \in AnyCommand, NEW d, NEW e, Store(d), Store(e), NEW t, NEW u,
         NEW k \in Keys, ~GivesDeadline(c, k), d[k] = e[k], Undated(d[k])
  PROVE  /\ Execute(c, d, t)[k] = Execute(c, e, u)[k]
         /\ Undated(Execute(c, d, t)[k])
<1>1. CASE Immediate(c) \/ c.name \in {"EXISTS", "TTL", "INFO"}
  BY <1>1, ExecuteNothing, Zenon
<1>2. CASE c.name = "DEL"
  <2>1. ASSUME NEW s, NEW x
        PROVE  Execute(c, s, x)[k] = IF k \in Elements(c.keys) THEN None ELSE s[k]
    BY <1>2, ExecuteDel
  <2> QED
    BY <2>1, Zenon DEF Undated
<1>3. CASE c.name # "DEL" /\ c.key # k
  <2>1. ASSUME NEW s, Store(s), NEW x
        PROVE  Execute(c, s, x)[k] = s[k]
    <3>1. Execute(c, s, x) = s \/ \E v : Execute(c, s, x) = [s EXCEPT ![c.key] = v]
      BY <1>3, ExecuteTouches
    <3>2. \A v : [s EXCEPT ![c.key] = v][k] = s[k]
      BY <1>3, <2>1, Zenon DEF Store
    <3> QED
      BY <3>1, <3>2, Zenon
  <2> QED
    BY <2>1, Zenon
<1>4. ASSUME NEW s, Store(s), s[k] = d[k], NEW x
      PROVE  /\ Live(s, k, x) <=> d[k] # None
             /\ Get(s, k, x) = IF d[k] # None THEN d[k].value ELSE None
  <2>1. CASE d[k] = None
    BY <1>4, <2>1, Zenon DEF Live, Get
  <2>2. CASE d[k] # None
    <3>1. PICK v : d[k] = [value |-> v, expires_at |-> None]
      BY <2>2, Zenon DEF Undated
    <3>2. s[k] # None /\ s[k].expires_at = None
      BY <1>4, <2>2, <3>1
    <3> QED
      BY <1>4, <2>2, <3>2, Zenon DEF Live, Get
  <2> QED
    BY <2>1, <2>2, Zenon
<1>5. CASE c.name = "PERSIST"
  <2>1. ASSUME NEW s, Store(s), s[k] = d[k], NEW x
        PROVE  Execute(c, s, x)[k] = d[k]
    <3>1. CASE c.key # k
      <4>1. [s EXCEPT ![c.key].expires_at = None][k] = s[k]
        BY <2>1, <3>1, Zenon DEF Store
      <4> QED
        BY <1>5, <2>1, <4>1, ExecutePersist, Zenon
    <3>2. CASE c.key = k /\ ~Live(s, k, x)
      BY <1>5, <2>1, <3>2, ExecutePersist, Zenon
    <3>3. CASE c.key = k /\ Live(s, k, x)
      <4>1. Execute(c, s, x) = [s EXCEPT ![k].expires_at = None]
        BY <1>5, <3>3, ExecutePersist, Zenon
      <4>2. PICK v : d[k] = [value |-> v, expires_at |-> None]
        BY <1>4, <2>1, <3>3, Zenon DEF Undated
      <4>3. [s EXCEPT ![k].expires_at = None][k] = [s[k] EXCEPT !.expires_at = None]
        BY <2>1, Zenon DEF Store
      <4> QED
        BY <2>1, <4>1, <4>2, <4>3
    <3> QED
      BY <3>1, <3>2, <3>3, Zenon
  <2> QED
    BY <2>1, Zenon
<1>7. CASE Decides(c) /\ c.key = k
  <2> DEFINE cur == IF d[k] # None THEN d[k].value ELSE None
             o == Handle(c, cur)
  <2>1. o.write \in {"none", "put", "del"} /\ o.ttl = 0
    BY <1>7, HandleBare, Zenon DEF GivesDeadline
  <2>2. ASSUME NEW s, Store(s), s[k] = d[k], NEW x
        PROVE  Execute(c, s, x)[k] = Written(o, d[k], x)
    <3>1. Execute(c, s, x) = [s EXCEPT ![k] = Written(Handle(c, Get(s, k, x)), @, x)]
      BY <1>7, ExecuteDecided, SMTT(30)
    <3>2. Get(s, k, x) = cur
      BY <1>4, <2>2, Zenon
    <3>3. Execute(c, s, x) = [s EXCEPT ![k] = Written(o, s[k], x)]
      BY <3>1, <3>2, Zenon
    <3> HIDE DEF o
    <3> QED
      BY <2>2, <3>3, Zenon DEF Store
  <2> HIDE DEF o
  <2>3. \A x : Written(o, d[k], x) =
                  IF o.write = "none" THEN d[k]
                  ELSE IF o.write = "del" THEN None
                  ELSE [value |-> o.value, expires_at |-> None]
    BY <2>1, Zenon DEF Written
  <2>4. /\ Execute(c, d, t)[k] = Written(o, d[k], t)
        /\ Execute(c, e, u)[k] = Written(o, d[k], u)
    BY <2>2, Zenon
  <2> QED
    BY <2>3, <2>4 DEF Undated
<1> QED
  <2>1. c.name = "EXPIRE" => Immediate(c) \/ c.key # k
    BY Zenon DEF GivesDeadline
  <2> QED
    BY <1>1, <1>2, <1>3, <1>5, <1>7, <2>1, Zenon DEF Decides

\* A command that is not logged changes nothing.
LEMMA ReadKeeps ==
  ASSUME NEW c \in AnyCommand, ~IsWriteCommand(c.name), NEW d, Store(d), NEW t
  PROVE  Execute(c, d, t) = d
<1>1. CASE Immediate(c) \/ c.name \in {"EXISTS", "TTL", "INFO"}
  BY <1>1, ExecuteNothing, Zenon
<1>2. CASE Decides(c)
  <2> DEFINE o == Handle(c, Get(d, c.key, t))
  <2>1. o.write = "none"
    BY <1>2, HandleBare
  <2>2. Execute(c, d, t) = [d EXCEPT ![c.key] = Written(o, d[c.key], t)]
    BY <1>2, ExecuteDecided, Zenon
  <2> HIDE DEF o
  <2>3. Written(o, d[c.key], t) = d[c.key]
    BY <2>1, Zenon DEF Written
  <2> QED
    BY <2>2, <2>3, Zenon DEF Store
<1>3. c.name \notin {"DEL", "EXPIRE", "PERSIST"}
  BY Zenon DEF IsWriteCommand
<1> QED
  BY <1>1, <1>2, <1>3, Zenon DEF Decides

(***************************************************************************)
(* What a sequence of commands leaves.                                    *)
(***************************************************************************)

\* Two that pass through the same commands agree.
LEMMA PassesAgree ==
  ASSUME NEW s \in Seq(Commands), NEW r \in Seq(Commands), NEW t, NEW f, NEW g,
         Passes(f, s, t), Passes(g, r, t), Len(s) <= Len(r),
         \A i \in 1..Len(s) : s[i] = r[i]
  PROVE  f[Len(s)] = g[Len(s)]
<1> DEFINE T == {m \in Nat : m <= Len(s) => f[m] = g[m]}
<1>1. Len(s) \in Nat /\ Len(r) \in Nat
  OBVIOUS
<1>2. 0 \in T
  BY Zenon DEF Passes
<1>3. ASSUME NEW m \in T PROVE m + 1 \in T
  <2>1. CASE m + 1 <= Len(s)
    <3>1. m + 1 \in 1..Len(s) /\ m + 1 \in 1..Len(r) /\ (m + 1) - 1 = m /\ f[m] = g[m]
      BY <1>1, <2>1
    <3>2. f[m + 1] = Advance(f[m], s[m + 1], t) /\ g[m + 1] = Advance(g[m], r[m + 1], t)
      BY <3>1, Zenon DEF Passes
    <3> QED
      BY <3>1, <3>2
  <2> QED
    BY <2>1
<1>4. T \subseteq Nat
  BY Zenon
<1>5. Len(s) \in T
  <2> HIDE DEF T
  <2> QED
    BY <1>1, <1>2, <1>3, <1>4, Induct, Zenon
<1> QED
  BY <1>5

\* One command more is one Execute more.
LEMMA DispatchedAppend ==
  ASSUME NEW s \in Seq(Commands), NEW c \in Commands, NEW t
  PROVE  Dispatched(Append(s, c), t).data = Execute(c, Dispatched(s, t).data, t)
<1> DEFINE r == Append(s, c)
<1>1. /\ r \in Seq(Commands) /\ Len(s) \in Nat /\ Len(r) = Len(s) + 1
      /\ r[Len(r)] = c /\ \A i \in 1..Len(s) : s[i] = r[i]
  OBVIOUS
<1>2. PICK f : Passes(f, s, t) /\ Dispatched(s, t) = f[Len(s)]
  BY DispatchedRuns, Zenon
<1> HIDE DEF r
<1>3. PICK g : Passes(g, r, t) /\ Dispatched(r, t) = g[Len(r)]
  BY <1>1, DispatchedRuns, Zenon
<1>4. f[Len(s)] = g[Len(s)]
  BY <1>1, <1>2, <1>3, PassesAgree
<1>5. Len(r) \in 1..Len(r) /\ Len(r) - 1 = Len(s)
  BY <1>1
<1>6. g[Len(r)] = Advance(g[Len(s)], c, t)
  BY <1>1, <1>3, <1>5, Zenon DEF Passes
<1>7. Dispatched(r, t).data = Execute(c, Dispatched(s, t).data, t)
  BY <1>2, <1>3, <1>4, <1>6 DEF Advance
<1> QED
  BY <1>7, Zenon DEF r

\* No command of s gives k a deadline.
Undating(s, k) == \A i \in 1..Len(s) : ~GivesDeadline(s[i], k)

\* What the commands leave of a key they give no deadline does not depend on when
\* they are executed.
LEMMA Timeless ==
  ASSUME NEW s \in Seq(Commands), NEW t, NEW u
  PROVE  /\ Store(Dispatched(s, t).data)
         /\ \A k \in Keys : Undating(s, k) =>
               /\ Undated(Dispatched(s, t).data[k])
               /\ Dispatched(s, t).data[k] = Dispatched(s, u).data[k]
<1>1. PICK f : Passes(f, s, t) /\ Dispatched(s, t) = f[Len(s)]
  BY DispatchedRuns, Zenon
<1>2. PICK g : Passes(g, s, u) /\ Dispatched(s, u) = g[Len(s)]
  BY DispatchedRuns, Zenon
<1> DEFINE Same(m) ==
             /\ Store(f[m].data) /\ Store(g[m].data)
             /\ \A k \in Keys : Undating(s, k) =>
                   Undated(f[m].data[k]) /\ f[m].data[k] = g[m].data[k]
           T == {m \in Nat : m <= Len(s) => Same(m)}
<1>3. Len(s) \in Nat
  OBVIOUS
<1>4. 0 \in T
  <2>1. f[0].data = NoKeys /\ g[0].data = NoKeys
    BY <1>1, <1>2 DEF Passes, Started
  <2>2. Store(NoKeys) /\ \A k \in Keys : NoKeys[k] = None
    BY Zenon DEF Store, NoKeys
  <2>3. Same(0)
    BY <2>1, <2>2, Zenon DEF Undated
  <2> HIDE DEF Same
  <2> QED
    BY <2>3, Zenon
<1>5. ASSUME NEW m \in T PROVE m + 1 \in T
  <2>1. CASE m + 1 <= Len(s)
    <3>1. m \in Nat /\ m + 1 \in 1..Len(s) /\ (m + 1) - 1 = m /\ Same(m)
      <4> HIDE DEF Same
      <4> QED
        BY <1>3, <2>1
    <3>2. s[m + 1] \in AnyCommand
      BY <3>1, CommandsAssumption
    <3>3. /\ f[m + 1].data = Execute(s[m + 1], f[m].data, t)
          /\ g[m + 1].data = Execute(s[m + 1], g[m].data, u)
      <4>1. f[m + 1] = Advance(f[m], s[m + 1], t) /\ g[m + 1] = Advance(g[m], s[m + 1], u)
        BY <1>1, <1>2, <3>1, Zenon DEF Passes
      <4> QED
        BY <4>1, SMTT(30) DEF Advance
    <3>4. Store(f[m + 1].data) /\ Store(g[m + 1].data)
      BY <3>1, <3>3, ExecuteStore, Zenon
    <3>5. ASSUME NEW k \in Keys, Undating(s, k)
          PROVE  Undated(f[m + 1].data[k]) /\ f[m + 1].data[k] = g[m + 1].data[k]
      <4>1. ~GivesDeadline(s[m + 1], k)
        BY <3>1, <3>5, Zenon DEF Undating
      <4> DEFINE c == s[m + 1]
                 d == f[m].data
                 e == g[m].data
      <4>2. Store(d) /\ Store(e) /\ Undated(d[k]) /\ d[k] = e[k]
        BY <3>1, <3>5, Zenon
      <4>3. c \in AnyCommand /\ ~GivesDeadline(c, k)
        BY <3>2, <4>1, Zenon
      <4> HIDE DEF c, d, e
      <4>4. Execute(c, d, t)[k] = Execute(c, e, u)[k] /\ Undated(Execute(c, d, t)[k])
        BY <4>2, <4>3, SameEffect, SMTT(30)
      <4> QED
        BY <3>3, <4>4, Zenon DEF c, d, e
    <3>6. Same(m + 1)
      BY <3>4, <3>5, Zenon
    <3> HIDE DEF Same
    <3> QED
      BY <3>1, <3>6
  <2> HIDE DEF Same
  <2> QED
    BY <2>1
<1>6. Same(Len(s))
  <2> HIDE DEF Same
  <2>1. T \subseteq Nat
    BY Zenon
  <2>2. Len(s) \in T
    <3> HIDE DEF T
    <3> QED
      BY <1>3, <1>4, <1>5, <2>1, Induct, Zenon
  <2> QED
    BY <1>3, <2>2
<1> QED
  BY <1>1, <1>2, <1>6, Zenon

(***************************************************************************)
(* What the store is, of the commands executed.                           *)
(***************************************************************************)

\* UnexpiringRestored compares the store with the file; what a step keeps is that a
\* key without a deadline is what the commands executed leave, whenever they are
\* executed, and that such a key has no deadline.
Rebuilt ==
    /\ ~Serving => data = NoKeys
    /\ Store(data)
    /\ Serving => \A k \in Keys : Undating(executed, k) =>
          Undated(data[k]) /\ data[k] = Dispatched(executed, now).data[k]

\* Nothing executed leaves nothing.
LEMMA DispatchedNothing ==
  ASSUME NEW t
  PROVE  Dispatched(<<>>, t).data = NoKeys
<1>1. <<>> \in Seq(Commands) /\ Len(<<>>) = 0
  OBVIOUS
<1>2. PICK f : Passes(f, <<>>, t) /\ Dispatched(<<>>, t) = f[Len(<<>>)]
  BY <1>1, DispatchedRuns, Zenon
<1> QED
  BY <1>1, <1>2 DEF Passes, Started

\* An empty store is a store without deadlines.
LEMMA EmptyStore ==
  Store(NoKeys) /\ \A k \in Keys : NoKeys[k] = None /\ Undated(NoKeys[k])
BY Zenon DEF Store, NoKeys, Undated

\* A start that replays nothing.
LEMMA StartRebuilt ==
  ASSUME Rebuilt, ~Serving, executed' = <<>> \/ ~Serving', UNCHANGED data
  PROVE  Rebuilt'
<1>1. data' = NoKeys
  BY Zenon DEF Rebuilt
<1>2. ASSUME executed' = <<>>
      PROVE  Dispatched(executed', now').data = NoKeys
  BY <1>2, DispatchedNothing, Zenon
<1> QED
  BY <1>1, <1>2, EmptyStore, Zenon DEF Rebuilt

\* The command that was logged takes effect.
LEMMA DispatchRebuilt ==
  ASSUME IInv, Rebuilt, Dispatch
  PROVE  Rebuilt'
<1>1. /\ executed \in Seq(Commands) /\ pending \in Commands /\ pending \in AnyCommand
      /\ data' = Execute(pending, data, now) /\ executed' = Append(executed, pending)
      /\ now' = now /\ Serving /\ Serving'
  BY CommandsAssumption, TornIsNoCommand, Zenon DEF IInv, LogTypes, Dispatch, Serving
<1>2. Store(data')
  BY <1>1, ExecuteStore, Zenon DEF Rebuilt
<1>3. ASSUME NEW k \in Keys, Undating(executed', k)
      PROVE  Undated(data'[k]) /\ data'[k] = Dispatched(executed', now').data[k]
  <2>1. /\ Len(executed) \in Nat /\ Len(executed') = Len(executed) + 1
        /\ executed'[Len(executed')] = pending
        /\ \A i \in 1..Len(executed) : executed'[i] = executed[i]
    BY <1>1
  <2>2. Undating(executed, k) /\ ~GivesDeadline(pending, k)
    BY <1>3, <2>1 DEF Undating
  <2> DEFINE again == Dispatched(executed, now).data
  <2>3. Undated(data[k]) /\ data[k] = again[k] /\ Store(data)
    BY <1>1, <2>2, Zenon DEF Rebuilt
  <2>4. Store(again)
    BY <1>1, Timeless, Zenon
  <2>5. Dispatched(executed', now').data = Execute(pending, again, now)
    BY <1>1, DispatchedAppend, Zenon
  <2> HIDE DEF again
  <2>6. /\ Execute(pending, data, now)[k] = Execute(pending, again, now)[k]
        /\ Undated(Execute(pending, data, now)[k])
    <3>1. pending \in AnyCommand /\ ~GivesDeadline(pending, k) /\ Store(data) /\ Store(again)
      BY <1>1, <2>2, <2>3, <2>4, Zenon
    <3>2. data[k] = again[k] /\ Undated(data[k])
      BY <2>3, Zenon
    <3> QED
      BY <3>1, <3>2, SameEffect, SMTT(30)
  <2> QED
    BY <1>1, <2>5, <2>6, Zenon
<1> QED
  BY <1>1, <1>2, <1>3, Zenon DEF Rebuilt

\* A start that replays the file.
LEMMA ReplayRebuilt ==
  ASSUME IInv, IInv', Replay
  PROVE  Rebuilt'
<1>1. /\ executed' \in Seq(Commands) /\ now' = now /\ Serving'
      /\ data' = Dispatched(executed', now).data
  BY Zenon DEF IInv, LogTypes, Replay, Redispatch, Serving
<1> QED
  BY <1>1, Timeless, Zenon DEF Rebuilt

\* A step that changes neither the store nor the commands executed.
LEMMA SameRebuilt ==
  ASSUME IInv, Rebuilt, Serving' <=> Serving, UNCHANGED <<data, executed>>
  PROVE  Rebuilt'
<1>1. executed \in Seq(Commands)
  BY Zenon DEF IInv, LogTypes
<1>2. \A k \in Keys : Undating(executed, k) =>
         Dispatched(executed, now).data[k] = Dispatched(executed, now').data[k]
  BY <1>1, Timeless, ZenonT(40)
<1> QED
  BY <1>2, Zenon DEF Rebuilt

\* Every step keeps it.
LEMMA StepRebuilt ==
  ASSUME IInv, IInv', Rebuilt, [Next]_vars
  PROVE  Rebuilt'
<1>1. ASSUME NEW c \in Commands, HandleWrite(c) PROVE Rebuilt'
  BY <1>1, SameRebuilt, Zenon DEF HandleWrite, Serving
<1>2. ASSUME NEW c \in Commands, HandleRead(c) PROVE Rebuilt'
  <2>1. data' = data
    BY <1>2, ReadKeeps, CommandsAssumption, Zenon DEF HandleRead, Rebuilt
  <2> QED
    BY <1>2, <2>1, SameRebuilt, Zenon DEF HandleRead, Serving
<1>3. CASE Dispatch
  BY <1>3, DispatchRebuilt, Zenon
<1>4. CASE Crash \/ PowerLoss
  <2>1. data' = NoKeys /\ ~Serving'
    BY <1>4, Zenon DEF Crash, PowerLoss, Down, Serving
  <2> QED
    BY <2>1, EmptyStore, Zenon DEF Rebuilt
<1>5. CASE Open
  <2>1. ~Serving /\ (executed' = <<>> \/ ~Serving') /\ UNCHANGED data
    BY <1>5, Zenon DEF Open, Serving
  <2> QED
    BY <2>1, StartRebuilt, Zenon
<1>6. CASE ReplayUnreadable
  <2>1. ~Serving /\ executed' = <<>> /\ UNCHANGED data
    BY <1>6, Zenon DEF ReplayUnreadable, Serving
  <2> QED
    BY <2>1, StartRebuilt, Zenon
<1>7. CASE Replay
  BY <1>7, ReplayRebuilt, Zenon
<1>8. CASE Tick
  BY <1>8, SameRebuilt, Zenon DEF Tick, Serving
<1>9. CASE UNCHANGED vars
  BY <1>9, SameRebuilt, Zenon DEF vars, Serving
<1> QED
  BY <1>1, <1>2, <1>3, <1>4, <1>5, <1>6, <1>7, <1>8, <1>9, Zenon DEF Next

\* A restart gives every key that never had a deadline the value it has: whatever
\* commands were executed, whenever, and whatever crashes, torn entries and failed
\* calls came before, as long as the stream takes writes.
THEOREM Restored == Spec => []UnexpiringRestored
<1>1. Init => Rebuilt
  BY EmptyStore, Zenon DEF Init, Rebuilt, Serving
<1>2. IInv /\ IInv' /\ Rebuilt /\ [Next]_vars => Rebuilt'
  BY StepRebuilt, Zenon
<1>3. ASSUME IInv, Rebuilt
      PROVE  UnexpiringRestored
  <2>1. ASSUME phase = "up", stream = "good", ~skipped, NEW k \in Keys,
               \A i \in DOMAIN file : ~GivesDeadline(file[i], k)
        PROVE  data[k] = Dispatched(file, now).data[k]
    <3>1. file = executed /\ Serving /\ executed \in Seq(Commands)
      BY <1>3, <2>1, Zenon DEF IInv, LogTypes, Serving, Attempted
    <3>2. Undating(executed, k)
      BY <2>1, <3>1 DEF Undating
    <3> QED
      BY <1>3, <3>1, <3>2, Zenon DEF Rebuilt
  <2> QED
    BY <2>1, Zenon DEF UnexpiringRestored
<1> QED
  BY <1>1, <1>2, <1>3, Invariance, PTL DEF Spec
=============================================================================
