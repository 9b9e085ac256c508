-------------------------- MODULE ConnectionProofs --------------------------
(***************************************************************************)
(* Proofs about Connection for every set of chunks and all limits.        *)
(***************************************************************************)
EXTENDS Connection, Induction

\* Appending to a sequence.
LEMMA Appended ==
  ASSUME NEW S, NEW s \in Seq(S), NEW e \in S
  PROVE  Append(s, e) \in Seq(S) /\ Append(s, e) # <<>>
<1>1. Append(s, e) \in Seq(S) /\ Len(Append(s, e)) = Len(s) + 1 /\ Len(s) \in Nat
  OBVIOUS
<1>2. Len(<<>>) = 0 /\ \A n \in Nat : n + 1 # 0
  OBVIOUS
<1> QED
  BY <1>1, <1>2, Zenon

(***************************************************************************)
(* What the members that handlers call do to net.                         *)
(***************************************************************************)

\* close_socket starts nothing and leaves the accounting alone.
LEMMA CloseSocketFacts ==
  ASSUME NEW n \in Net, OneOperation(n)
  PROVE  LET m == CloseSocket(n) IN
         /\ m \in Net /\ OneOperation(m) /\ ~m.open
         /\ n.rd = "none" => m.rd = "none"
         /\ m.pending = n.pending
<1> DEFINE m == CloseSocket(n)
<1>1. m \in Net
  BY ZenonT(40) DEF Net, CloseSocket
<1>2. /\ m.open = FALSE /\ m.pending = n.pending
      /\ m.reads = n.reads /\ m.writes = n.writes
      /\ m.reading = n.reading /\ m.writing = n.writing
      /\ m.rd = (IF n.rd = "wait" THEN "failed" ELSE n.rd)
      /\ m.wr = (IF n.wr = "flight" THEN "failed" ELSE n.wr)
  BY Zenon DEF Net, CloseSocket
<1>3. QED
  BY <1>1, <1>2, Zenon DEF OneOperation

\* do_read leaves an open connection with exactly one outstanding read.
LEMMA DoReadFacts ==
  ASSUME NEW n \in Net, OneOperation(n)
  PROVE  LET m == DoRead(n) IN
         /\ m \in Net /\ OneOperation(m)
         /\ m.open => m.rd # "none"
         /\ m.pending = n.pending
<1>1. CASE n.reading \/ ~n.open
  BY <1>1, Zenon DEF DoRead, OneOperation
<1>2. CASE ~(n.reading \/ ~n.open)
  <2> DEFINE m == [n EXCEPT !.reading = TRUE, !.reads = @ + 1, !.rd = "wait"]
  <2>1. n.reads + 1 \in Nat
    BY DEF Net
  <2>2. m \in Net
    BY <2>1, Zenon DEF Net
  <2>3. /\ m.rd = "wait" /\ m.reading = TRUE /\ m.reads = n.reads + 1
        /\ m.writes = n.writes /\ m.wr = n.wr /\ m.writing = n.writing
        /\ m.open = n.open /\ m.pending = n.pending
    BY Zenon DEF Net
  <2>4. n.reads = 0
    BY <1>2, Zenon DEF OneOperation
  <2>5. DoRead(n) = m
    BY <1>2, Zenon DEF DoRead
  <2> HIDE DEF m
  <2>6. QED
    BY <2>2, <2>3, <2>4, <2>5 DEF OneOperation
<1>3. QED
  BY <1>1, <1>2, Zenon

\* reset_idle_timer touches the timer only.
LEMMA ResetIdleTimerFacts ==
  ASSUME NEW n \in Net, OneOperation(n)
  PROVE  LET m == ResetIdleTimer(n) IN
         /\ m \in Net /\ OneOperation(m)
         /\ m.open = n.open /\ m.rd = n.rd /\ m.wr = n.wr /\ m.pending = n.pending
<1>1. CASE ~IdleTimeout \/ ~n.open
  BY <1>1, Zenon DEF ResetIdleTimer
<1>2. CASE ~(~IdleTimeout \/ ~n.open)
  <2> DEFINE m == [n EXCEPT !.armed = TRUE, !.moved = FALSE]
  <2>1. m \in Net
    BY Zenon DEF Net
  <2>2. /\ m.rd = n.rd /\ m.reading = n.reading /\ m.reads = n.reads
        /\ m.writes = n.writes /\ m.wr = n.wr /\ m.writing = n.writing
        /\ m.open = n.open /\ m.pending = n.pending
    BY Zenon DEF Net
  <2>3. ResetIdleTimer(n) = m
    BY <1>2, Zenon DEF ResetIdleTimer
  <2> HIDE DEF m
  <2>4. QED
    BY <2>1, <2>2, <2>3, Zenon DEF OneOperation
<1>3. QED
  BY <1>1, <1>2, Zenon

\* flush_write_queue, called when no write is outstanding, starts one if there is
\* something to write.
LEMMA FlushFacts ==
  ASSUME NEW n \in Net, n.wr = "none", n.writes = 0,
         n.reads = (IF n.rd = "none" THEN 0 ELSE 1), n.reading <=> n.rd # "none"
  PROVE  LET m == FlushWriteQueue(n) IN
         /\ m \in Net /\ OneOperation(m)
         /\ m.open = n.open /\ m.rd = n.rd /\ m.pending = n.pending
         /\ n.open /\ n.queue # <<>> => m.wr # "none"
<1>1. CASE n.queue = <<>> \/ ~n.open
  <2> DEFINE m == [n EXCEPT !.writing = FALSE]
  <2>1. m \in Net
    BY Zenon DEF Net
  <2>2. /\ m.rd = n.rd /\ m.reading = n.reading /\ m.reads = n.reads
        /\ m.writes = n.writes /\ m.wr = n.wr /\ m.writing = FALSE
        /\ m.open = n.open /\ m.pending = n.pending
    BY Zenon DEF Net
  <2>3. FlushWriteQueue(n) = m
    BY <1>1, Zenon DEF FlushWriteQueue
  <2> HIDE DEF m
  <2>4. QED
    BY <1>1, <2>1, <2>2, <2>3, Zenon DEF OneOperation
<1>2. CASE ~(n.queue = <<>> \/ ~n.open)
  <2> DEFINE m == [n EXCEPT !.writing = TRUE, !.writes = @ + 1, !.wr = "flight",
                            !.buf = Head(n.queue), !.queue = Tail(n.queue)]
  <2>1. n.writes + 1 \in Nat /\ n.queue \in Seq(Seq(Frame))
    BY DEF Net
  <2>2. Head(n.queue) \in Seq(Frame) /\ Tail(n.queue) \in Seq(Seq(Frame))
    BY <1>2, <2>1
  <2>3. m \in Net
    BY <2>1, <2>2, Zenon DEF Net
  <2>4. /\ m.rd = n.rd /\ m.reading = n.reading /\ m.reads = n.reads
        /\ m.writes = n.writes + 1 /\ m.wr = "flight" /\ m.writing = TRUE
        /\ m.open = n.open /\ m.pending = n.pending
    BY Zenon DEF Net
  <2>5. FlushWriteQueue(n) = m
    BY <1>2, Zenon DEF FlushWriteQueue
  <2> HIDE DEF m
  <2>6. QED
    BY <2>3, <2>4, <2>5 DEF OneOperation
<1>3. QED
  BY <1>1, <1>2, Zenon

\* do_write closes the connection, or leaves a write outstanding and the pending
\* bytes within their limit; it never starts a read.
LEMMA DoWriteFacts ==
  ASSUME NEW n \in Net, OneOperation(n), NEW frames \in Seq(Frame)
  PROVE  LET m == DoWrite(n, frames) IN
         /\ m \in Net /\ OneOperation(m)
         /\ n.rd = "none" => m.rd = "none"
         /\ n.rd # "none" => m.rd # "none"
         /\ m.open => n.open /\ m.wr # "none"
         /\ n.pending <= MaxPending => m.pending <= MaxPending
<1>1. CASE ~n.open
  BY <1>1, Zenon DEF DoWrite
<1>2. CASE n.open /\ n.pending + Len(frames) > MaxPending
  <2>1. DoWrite(n, frames) = CloseSocket(n)
    BY <1>2, Zenon DEF DoWrite
  <2>2. n.rd # "none" => CloseSocket(n).rd # "none"
    BY Zenon DEF CloseSocket, Net
  <2>3. QED
    BY <2>1, <2>2, CloseSocketFacts, Zenon
<1>3. CASE n.open /\ ~(n.pending + Len(frames) > MaxPending)
  <2> DEFINE m == [n EXCEPT !.pending = @ + Len(frames), !.queue = Append(@, frames)]
  <2>1. n.pending + Len(frames) \in Nat /\ n.queue \in Seq(Seq(Frame))
    BY DEF Net
  <2>2. Append(n.queue, frames) \in Seq(Seq(Frame)) /\ Append(n.queue, frames) # <<>>
    BY <2>1, Appended, Zenon
  <2>3. m \in Net
    BY <2>1, <2>2, Zenon DEF Net
  <2>4. /\ m.rd = n.rd /\ m.reading = n.reading /\ m.reads = n.reads
        /\ m.writes = n.writes /\ m.wr = n.wr /\ m.writing = n.writing
        /\ m.open = n.open /\ m.pending = n.pending + Len(frames)
        /\ m.queue = Append(n.queue, frames)
    BY Zenon DEF Net
  <2>5. DoWrite(n, frames) = IF m.writing THEN m ELSE FlushWriteQueue(m)
    BY <1>3, Zenon DEF DoWrite
  <2>6. m.pending <= MaxPending
    BY <1>3, <2>1, <2>4, LimitsAssumption
  <2> HIDE DEF m
  <2>7. CASE m.writing
    BY <1>3, <2>3, <2>4, <2>5, <2>6, <2>7, Zenon DEF OneOperation
  <2>8. CASE ~m.writing
    <3>1. /\ m.wr = "none" /\ m.writes = 0
          /\ m.reads = (IF m.rd = "none" THEN 0 ELSE 1)
          /\ m.reading <=> m.rd # "none"
      BY <1>3, <2>4, <2>8, Zenon DEF OneOperation
    <3> DEFINE f == FlushWriteQueue(m)
    <3>2. /\ f \in Net /\ OneOperation(f)
          /\ f.open = m.open /\ f.rd = m.rd /\ f.pending = m.pending
          /\ m.open /\ m.queue # <<>> => f.wr # "none"
      BY <2>3, <3>1, FlushFacts, Zenon
    <3>3. DoWrite(n, frames) = f
      BY <2>5, <2>8, Zenon
    <3> HIDE DEF f
    <3>4. QED
      BY <1>3, <2>2, <2>4, <2>6, <3>2, <3>3, Zenon
  <2>9. QED
    BY <2>7, <2>8, Zenon
<1>4. QED
  BY <1>1, <1>2, <1>3, Zenon
(***************************************************************************)
(* The inductive invariant.  NeverStuck and ClosingIsFinal are not        *)
(* inductive by themselves: they need that the flags tell the truth about *)
(* the outstanding operations, and that handle_data runs, and a           *)
(* connection closes after its last answer, without an outstanding read.  *)
(***************************************************************************)
NoReadBehind ==
    /\ mode = "data" => net.rd = "none"
    /\ closing => net.rd = "none" /\ mode = "loop"

Inv == TypeOK /\ OneOperationEach /\ NeverStuck /\ PendingBounded /\ NoReadBehind

\* start() leaves one read outstanding and nothing else.
LEMMA InitInv == Init => Inv
<1> SUFFICES ASSUME Init PROVE Inv
  BY Zenon
<1> USE DEF Init
<1>1. Fresh \in Net
  BY DEF Fresh, Net
<1>2. OneOperation(Fresh) /\ Fresh.pending = 0 /\ Fresh.rd = "none"
  BY Zenon DEF Fresh, OneOperation
<1> DEFINE r == ResetIdleTimer(Fresh)
<1>3. r \in Net /\ OneOperation(r) /\ r.pending = 0
  BY <1>1, <1>2, ResetIdleTimerFacts, Zenon
<1> HIDE DEF r
<1>4. DoRead(r) \in Net /\ OneOperation(DoRead(r)) /\ DoRead(r).pending = 0
      /\ (DoRead(r).open => DoRead(r).rd # "none")
  BY <1>3, DoReadFacts, Zenon
<1>5. net = DoRead(r)
  BY Zenon DEF r
<1>6. TypeOK
  <2>1. authed \in BOOLEAN
    BY FlagsAssumption, Zenon
  <2>2. chunk \in Seq(Numbered) /\ responses \in Seq(Frame) /\ delivered \in Seq(Frame)
    OBVIOUS
  <2>3. QED
    BY <1>4, <1>5, <2>1, <2>2, Zenon DEF TypeOK
<1>7. QED
  BY <1>4, <1>5, <1>6, LimitsAssumption
     DEF Inv, OneOperationEach, NeverStuck, PendingBounded, NoReadBehind

(***************************************************************************)
(* The environment and the handlers, one lemma each where net changes by  *)
(* more than one of the functions above.                                  *)
(***************************************************************************)

\* The kernel and the timer change no flag and no count.
LEMMA EnvironmentInv ==
  ASSUME Inv,
         (\E c \in Chunks : Arrives(c)) \/ PeerGone \/ SomeSent \/ AllSent
         \/ SendFails \/ TimerExpires
  PROVE  Inv'
<1> USE DEF Inv, session
<1>0. net \in Net
  BY Zenon DEF TypeOK
<1>1. ASSUME NEW c \in Chunks, Arrives(c) PROVE Inv'
  <2> DEFINE m == [net EXCEPT !.rd = "ready", !.moved = TRUE]
  <2>1. /\ m \in Net /\ m.rd = "ready" /\ m.open = net.open /\ m.wr = net.wr
        /\ m.reads = net.reads /\ m.writes = net.writes /\ m.reading = net.reading
        /\ m.writing = net.writing /\ m.pending = net.pending
    BY <1>0, Zenon DEF Net
  <2>2. c \in Seq(Items) /\ Len(c) \in Nat
    BY ChunksAssumption
  <2>3. chunk' \in Seq(Numbered)
    BY <1>1, <2>2 DEF Arrives, Numbered, TypeOK
  <2>4. net' = m /\ net.rd = "wait"
    BY <1>1, Zenon DEF Arrives
  <2> HIDE DEF m
  <2>5. TypeOK'
    BY <1>1, <2>1, <2>2, <2>3, <2>4 DEF TypeOK, Arrives
  <2>6. QED
    BY <1>1, <2>1, <2>4, <2>5, Zenon DEF Arrives, OneOperationEach, OneOperation, NeverStuck, PendingBounded,
           NoReadBehind
<1>2. CASE PeerGone
  <2> DEFINE m == [net EXCEPT !.rd = "failed"]
  <2>1. /\ m \in Net /\ m.rd = "failed" /\ m.open = net.open /\ m.wr = net.wr
        /\ m.reads = net.reads /\ m.writes = net.writes /\ m.reading = net.reading
        /\ m.writing = net.writing /\ m.pending = net.pending
    BY <1>0, Zenon DEF Net
  <2>2. net' = m /\ net.rd = "wait"
    BY <1>2, Zenon DEF PeerGone
  <2> HIDE DEF m
  <2>3. TypeOK'
    BY <1>2, <2>1, <2>2, Zenon DEF PeerGone, TypeOK
  <2>4. OneOperationEach' /\ NoReadBehind'
    BY <1>2, <2>1, <2>2, Zenon DEF PeerGone, OneOperationEach, OneOperation, NoReadBehind
  <2>5. NeverStuck' /\ PendingBounded'
    BY <1>2, <2>1, <2>2, Zenon DEF PeerGone, NeverStuck, PendingBounded
  <2>6. QED
    BY <2>3, <2>4, <2>5, Zenon
<1>3. CASE SomeSent
  <2> DEFINE m == [net EXCEPT !.moved = TRUE]
  <2>1. /\ m \in Net /\ m.rd = net.rd /\ m.open = net.open /\ m.wr = net.wr
        /\ m.reads = net.reads /\ m.writes = net.writes /\ m.reading = net.reading
        /\ m.writing = net.writing /\ m.pending = net.pending
    BY <1>0, Zenon DEF Net
  <2>2. net' = m
    BY <1>3, Zenon DEF SomeSent
  <2> HIDE DEF m
  <2>3. QED
    BY <1>3, <2>1, <2>2, Zenon DEF SomeSent, TypeOK, OneOperationEach, OneOperation, NeverStuck,
           PendingBounded, NoReadBehind
<1>4. CASE AllSent
  <2> DEFINE m == [net EXCEPT !.wr = "sent", !.moved = TRUE]
  <2>1. /\ m \in Net /\ m.rd = net.rd /\ m.open = net.open /\ m.wr = "sent"
        /\ m.reads = net.reads /\ m.writes = net.writes /\ m.reading = net.reading
        /\ m.writing = net.writing /\ m.pending = net.pending
    BY <1>0, Zenon DEF Net
  <2>2. net' = m /\ net.wr = "flight"
    BY <1>4, Zenon DEF AllSent
  <2>3. net.buf \in Seq(Frame) /\ delivered \in Seq(Frame)
    BY <1>0, Zenon DEF Net, TypeOK
  <2>4. delivered' \in Seq(Frame)
    BY <1>4, <2>3 DEF AllSent
  <2> HIDE DEF m
  <2>5. TypeOK'
    BY <1>4, <2>1, <2>2, <2>4, Zenon DEF AllSent, TypeOK
  <2>6. OneOperationEach' /\ NoReadBehind'
    BY <1>4, <2>1, <2>2, Zenon DEF AllSent, OneOperationEach, OneOperation, NoReadBehind
  <2>7. NeverStuck' /\ PendingBounded'
    BY <1>4, <2>1, <2>2, Zenon DEF AllSent, NeverStuck, PendingBounded
  <2>8. QED
    BY <2>5, <2>6, <2>7, Zenon
<1>5. CASE SendFails
  <2> DEFINE m == [net EXCEPT !.wr = "failed"]
  <2>1. /\ m \in Net /\ m.rd = net.rd /\ m.open = net.open /\ m.wr = "failed"
        /\ m.reads = net.reads /\ m.writes = net.writes /\ m.reading = net.reading
        /\ m.writing = net.writing /\ m.pending = net.pending
    BY <1>0, Zenon DEF Net
  <2>2. net' = m /\ net.wr = "flight"
    BY <1>5, Zenon DEF SendFails
  <2> HIDE DEF m
  <2>3. TypeOK'
    BY <1>5, <2>1, <2>2, Zenon DEF SendFails, TypeOK
  <2>4. OneOperationEach' /\ NoReadBehind'
    BY <1>5, <2>1, <2>2, Zenon DEF SendFails, OneOperationEach, OneOperation, NoReadBehind
  <2>5. NeverStuck' /\ PendingBounded'
    BY <1>5, <2>1, <2>2, Zenon DEF SendFails, NeverStuck, PendingBounded
  <2>6. QED
    BY <2>3, <2>4, <2>5, Zenon
<1>6. CASE TimerExpires
  <2> DEFINE m == [net EXCEPT !.armed = FALSE, !.fired = TRUE, !.early = net.moved]
  <2>1. /\ m \in Net /\ m.rd = net.rd /\ m.open = net.open /\ m.wr = net.wr
        /\ m.reads = net.reads /\ m.writes = net.writes /\ m.reading = net.reading
        /\ m.writing = net.writing /\ m.pending = net.pending
    BY <1>0, Zenon DEF Net
  <2>2. net' = m
    BY <1>6, Zenon DEF TimerExpires
  <2> HIDE DEF m
  <2>3. QED
    BY <1>6, <2>1, <2>2
       DEF TimerExpires, TypeOK, OneOperationEach, OneOperation, NeverStuck,
           PendingBounded, NoReadBehind
<1>7. QED
  BY <1>1, <1>2, <1>3, <1>4, <1>5, <1>6, Zenon
\* The completion of the read: the oversized request writes its error and marks
\* the connection, any other chunk enters the loop.
LEMMA ReadHandlerInv == ASSUME Inv, ReadHandler PROVE Inv'
<1> USE DEF Inv
<1> DEFINE d == [net EXCEPT !.rd = "none", !.reading = FALSE, !.reads = @ - 1]
           n == ResetIdleTimer(d)
           w == DoWrite(n, <<Answer(received, "batched")>>)
<1>0. net \in Net /\ OneOperation(net) /\ net.rd = "ready" /\ mode = "loop"
  BY Zenon DEF TypeOK, OneOperationEach, ReadHandler
<1>1. net.reads - 1 \in Nat /\ net.reads = 1
  BY <1>0 DEF Net, OneOperation
<1>2. d \in Net
  BY <1>0, <1>1, Zenon DEF Net
<1>3. /\ d.rd = "none" /\ d.reading = FALSE /\ d.reads = net.reads - 1
      /\ d.writes = net.writes /\ d.wr = net.wr /\ d.writing = net.writing
      /\ d.open = net.open /\ d.pending = net.pending
  BY <1>0, Zenon DEF Net
<1> HIDE DEF d
<1>4. OneOperation(d)
  BY <1>0, <1>1, <1>3 DEF OneOperation
<1>5. /\ n \in Net /\ OneOperation(n) /\ n.open = net.open /\ n.rd = "none"
      /\ n.pending = net.pending
  BY <1>2, <1>3, <1>4, ResetIdleTimerFacts, Zenon
<1> HIDE DEF n
<1>6. <<Answer(received, "batched")>> \in Seq(Frame)
  BY DEF Answer, Frame, TypeOK
<1>7. /\ w \in Net /\ OneOperation(w) /\ w.rd = "none" /\ (w.open => w.wr # "none")
      /\ (n.pending <= MaxPending => w.pending <= MaxPending)
  BY <1>5, <1>6, DoWriteFacts, Zenon
<1> HIDE DEF w
<1>8. CASE buffered + Len(chunk) > MaxRequest
  <2>1. net' = w /\ closing' = TRUE /\ buffered' = 0 /\ chunk' = <<>> /\ mode' = mode
    BY <1>8, Zenon DEF ReadHandler, w, n, d
  <2>2. UNCHANGED <<responses, authed, subscribed, posted, received, handled, delivered>>
    BY Zenon DEF ReadHandler
  <2>3. TypeOK'
    BY <1>7, <2>1, <2>2 DEF TypeOK
  <2>4. QED
    BY <1>0, <1>5, <1>7, <2>1, <2>3, Zenon DEF OneOperationEach, NeverStuck, PendingBounded, NoReadBehind
<1>9. CASE ~(buffered + Len(chunk) > MaxRequest)
  <2>1. net' = n /\ mode' = "data" /\ UNCHANGED <<closing, buffered, chunk>>
    BY <1>9, Zenon DEF ReadHandler, n, d
  <2>2. UNCHANGED <<responses, authed, subscribed, posted, received, handled, delivered>>
    BY Zenon DEF ReadHandler
  <2>3. TypeOK'
    BY <1>5, <2>1, <2>2, Zenon DEF TypeOK
  <2>4. ~closing
    BY <1>0, Zenon DEF NoReadBehind
  <2>5. QED
    BY <1>5, <2>1, <2>3, <2>4, Zenon DEF OneOperationEach, NeverStuck, PendingBounded, NoReadBehind
<1>10. QED
  BY <1>8, <1>9, Zenon

\* A failed or aborted read closes the connection.
LEMMA ReadErrorInv == ASSUME Inv, ReadError PROVE Inv'
<1> USE DEF Inv
<1> DEFINE d == [net EXCEPT !.rd = "none", !.reading = FALSE, !.reads = @ - 1]
<1>0. net \in Net /\ OneOperation(net) /\ net.rd = "failed"
  BY Zenon DEF TypeOK, OneOperationEach, ReadError
<1>1. net.reads - 1 \in Nat /\ net.reads = 1
  BY <1>0 DEF Net, OneOperation
<1>2. d \in Net
  BY <1>0, <1>1, Zenon DEF Net
<1>3. /\ d.rd = "none" /\ d.reading = FALSE /\ d.reads = net.reads - 1
      /\ d.writes = net.writes /\ d.wr = net.wr /\ d.writing = net.writing
      /\ d.open = net.open /\ d.pending = net.pending
  BY <1>0, Zenon DEF Net
<1>4. net' = CloseSocket(d)
  BY Zenon DEF ReadError
<1> HIDE DEF d
<1>5. OneOperation(d)
  BY <1>0, <1>1, <1>3 DEF OneOperation
<1>6. /\ net' \in Net /\ OneOperation(net') /\ ~net'.open /\ net'.rd = "none"
      /\ net'.pending = net.pending
  BY <1>2, <1>3, <1>4, <1>5, CloseSocketFacts, Zenon
<1>7. QED
  BY <1>6, Zenon DEF ReadError, session, TypeOK, OneOperationEach, NeverStuck,
              PendingBounded, NoReadBehind

\* Every turn of handle_data's loop stays in the loop and starts no read.
LEMMA TurnInv ==
  ASSUME Inv, Incomplete \/ Reset \/ Auth \/ Refuse \/ Subscribe \/ BadSub
              \/ Unsubscribe \/ Execute
  PROVE  Inv'
<1> USE DEF Inv
<1>0. /\ mode = "data" /\ mode' = mode /\ closing' = closing /\ chunk # <<>>
      /\ UNCHANGED <<received, delivered>>
  BY Zenon DEF Incomplete, Reset, Auth, Refuse, Subscribe, BadSub, Unsubscribe, Execute,
         Direct, Turn
<1>1. /\ net \in Net /\ OneOperation(net) /\ net.rd = "none"
      /\ chunk \in Seq(Numbered) /\ responses \in Seq(Frame)
  BY <1>0, Zenon DEF TypeOK, OneOperationEach, NoReadBehind
<1>2. Head(chunk).id \in Nat /\ Tail(chunk) \in Seq(Numbered)
  <2>1. Head(chunk) \in Numbered /\ Tail(chunk) \in Seq(Numbered)
    BY <1>0, <1>1
  <2>2. QED
    BY <2>1, Zenon DEF Numbered
<1> DEFINE w == DoWrite(net, <<Answer(Head(chunk).id, "direct")>>)
<1>3. /\ w \in Net /\ OneOperation(w) /\ w.rd = "none"
      /\ (net.pending <= MaxPending => w.pending <= MaxPending)
  <2>1. <<Answer(Head(chunk).id, "direct")>> \in Seq(Frame)
    BY <1>2 DEF Answer, Frame
  <2>2. QED
    BY <1>1, <2>1, DoWriteFacts, Zenon
<1>4. net' = net \/ net' = w
  BY Zenon DEF Incomplete, Reset, Auth, Refuse, Subscribe, BadSub, Unsubscribe, Execute,
         Direct
<1> HIDE DEF w
<1>5. net' \in Net /\ OneOperation(net') /\ net'.rd = "none" /\ net'.pending <= MaxPending
  BY <1>1, <1>3, <1>4, Zenon DEF PendingBounded
<1>6. chunk' \in Seq(Numbered)
  <2>1. chunk' = Tail(chunk) \/ chunk' = <<>>
    BY Zenon DEF Incomplete, Reset, Auth, Refuse, Subscribe, BadSub, Unsubscribe, Execute,
           Direct
  <2>2. <<>> \in Seq(Numbered)
    OBVIOUS
  <2>3. QED
    BY Zenon, <1>2, <2>1, <2>2
<1>7. responses' \in Seq(Frame)
  <2>1. Append(responses, Answer(Head(chunk).id, "batched")) \in Seq(Frame)
    BY <1>1, <1>2 DEF Answer, Frame
  <2>2. QED
    BY <1>1, <2>1, Zenon DEF Incomplete, Reset, Auth, Refuse, Subscribe, BadSub, Unsubscribe,
                      Execute, Direct, Batched
<1>8. buffered' \in Nat /\ handled' \in SUBSET Nat
  <2>1. \/ buffered' = buffered + 1 /\ handled' = handled
        \/ buffered' = 0 /\ handled' = handled \cup {Head(chunk).id}
    BY Zenon DEF Incomplete, Reset, Auth, Refuse, Subscribe, BadSub, Unsubscribe, Execute,
           Direct, Turn
  <2>2. buffered \in Nat /\ handled \subseteq Nat
    BY Zenon DEF TypeOK
  <2>3. buffered' \in Nat
    BY <2>1, <2>2
  <2>4. handled' \subseteq Nat
    BY Zenon, <1>2, <2>1, <2>2
  <2>5. QED
    BY <2>3, <2>4, Zenon
<1>9. authed' \in BOOLEAN /\ subscribed' \in BOOLEAN
  BY Zenon DEF TypeOK, Incomplete, Reset, Auth, Refuse, Subscribe, BadSub, Unsubscribe,
         Execute, Direct
<1>10. posted' \in Nat
  <2>1. posted' = posted \/ posted' = posted + 1
    BY Zenon DEF Incomplete, Reset, Auth, Refuse, Subscribe, BadSub, Unsubscribe, Execute,
                 Direct
  <2>2. QED
    BY <2>1 DEF TypeOK
<1>11. QED
  BY <1>0, <1>5, <1>6, <1>7, <1>8, <1>9, <1>10, Zenon
     DEF TypeOK, OneOperationEach, NeverStuck, PendingBounded, NoReadBehind

\* The end of handle_data writes the answers or reads on: never neither.
LEMMA DataEndInv == ASSUME Inv, DataEnd PROVE Inv'
<1> USE DEF Inv
<1>0. /\ net \in Net /\ OneOperation(net) /\ responses \in Seq(Frame)
      /\ mode' = "loop" /\ net.rd = "none" /\ closing' = FALSE
  BY Zenon DEF DataEnd, TypeOK, OneOperationEach, NoReadBehind
<1>1. CASE responses = <<>>
  <2>1. net' = DoRead(net)
    BY <1>1, Zenon DEF DataEnd
  <2>2. /\ net' \in Net /\ OneOperation(net') /\ net'.pending = net.pending
        /\ (net'.open => net'.rd # "none")
    BY <1>0, <2>1, DoReadFacts, Zenon
  <2>3. QED
    BY <1>0, <2>2 DEF DataEnd, TypeOK, OneOperationEach, NeverStuck, PendingBounded,
                      NoReadBehind
<1>2. CASE responses # <<>>
  <2>1. net' = DoWrite(net, responses)
    BY <1>2, Zenon DEF DataEnd
  <2>2. /\ net' \in Net /\ OneOperation(net')
        /\ (net.pending <= MaxPending => net'.pending <= MaxPending)
        /\ (net'.open => net'.wr # "none")
    BY <1>0, <2>1, DoWriteFacts, Zenon
  <2>3. QED
    BY <1>0, <2>2 DEF DataEnd, TypeOK, OneOperationEach, NeverStuck, PendingBounded,
                      NoReadBehind
<1>3. QED
  BY <1>1, <1>2, Zenon
\* The completion of a write goes on writing, closes, or reads.
LEMMA WriteHandlerInv == ASSUME Inv, WriteHandler PROVE Inv'
<1> USE DEF Inv
<1> DEFINE bytes == Len(net.buf)
           left == IF net.pending >= bytes THEN net.pending - bytes ELSE 0
           n == [net EXCEPT !.wr = "none", !.writes = @ - 1, !.buf = <<>>,
                            !.pending = left]
           m == [n EXCEPT !.writing = FALSE]
           f == FlushWriteQueue(n)
           c == CloseSocket(m)
           t == ResetIdleTimer(m)
           r == DoRead(t)
<1>0. net \in Net /\ OneOperation(net) /\ net.wr = "sent" /\ mode = "loop"
  BY Zenon DEF TypeOK, OneOperationEach, WriteHandler
<1>1. net.writes - 1 \in Nat /\ net.writes = 1 /\ bytes \in Nat /\ net.pending \in Nat
  BY <1>0 DEF Net, OneOperation
<1>2. left \in Nat /\ left <= net.pending
  BY <1>1
<1> HIDE DEF left
<1>3. n \in Net
  <2>1. <<>> \in Seq(Frame)
    OBVIOUS
  <2>2. QED
    BY <1>0, <1>1, <1>2, <2>1, Zenon DEF Net
<1>4. /\ n.wr = "none" /\ n.writes = net.writes - 1 /\ n.pending = left
      /\ n.reads = net.reads /\ n.rd = net.rd /\ n.reading = net.reading
      /\ n.open = net.open /\ n.queue = net.queue
  BY <1>0, Zenon DEF Net
<1>5. net' = IF n.queue # <<>> THEN f ELSE IF closing THEN c ELSE r
  BY Zenon DEF WriteHandler, left
<1> HIDE DEF n, bytes
<1>6. /\ n.writes = 0 /\ n.reads = (IF n.rd = "none" THEN 0 ELSE 1)
      /\ n.reading <=> n.rd # "none"
  BY <1>0, <1>1, <1>4 DEF OneOperation
<1>7. /\ m \in Net /\ m.wr = "none" /\ m.writes = n.writes /\ m.pending = n.pending
      /\ m.reads = n.reads /\ m.rd = n.rd /\ m.reading = n.reading
      /\ m.open = n.open /\ m.writing = FALSE
  BY <1>3, <1>4, Zenon DEF Net
<1> HIDE DEF m
<1>8. OneOperation(m)
  BY <1>6, <1>7, Zenon DEF OneOperation
<1>9. /\ f \in Net /\ OneOperation(f) /\ f.open = n.open /\ f.rd = n.rd
      /\ f.pending = n.pending /\ (n.open /\ n.queue # <<>> => f.wr # "none")
  BY <1>3, <1>4, <1>6, FlushFacts, Zenon
<1>10. /\ c \in Net /\ OneOperation(c) /\ ~c.open /\ (m.rd = "none" => c.rd = "none")
       /\ c.pending = m.pending
  BY <1>7, <1>8, CloseSocketFacts, Zenon
<1>11. t \in Net /\ OneOperation(t) /\ t.pending = m.pending
  BY <1>7, <1>8, ResetIdleTimerFacts, Zenon
<1> HIDE DEF f, c, t
<1>12. /\ r \in Net /\ OneOperation(r) /\ (r.open => r.rd # "none")
       /\ r.pending = t.pending
  BY <1>11, DoReadFacts, Zenon
<1> HIDE DEF r
<1>13. net' \in Net /\ OneOperation(net') /\ net'.pending = left
  BY <1>4, <1>5, <1>7, <1>9, <1>10, <1>11, <1>12, Zenon
<1>14. net'.open => net'.rd # "none" \/ net'.wr # "none"
  BY <1>5, <1>9, <1>10, <1>12, Zenon
<1>15. closing => net'.rd = "none"
  BY <1>4, <1>5, <1>7, <1>9, <1>10, Zenon DEF NoReadBehind
<1>16. net'.pending <= MaxPending
  BY <1>1, <1>2, <1>13, LimitsAssumption DEF PendingBounded
<1>17. UNCHANGED <<chunk, session, posted, received, handled, delivered>>
  BY Zenon DEF WriteHandler
<1>18. QED
  BY <1>0, <1>13, <1>14, <1>15, <1>16, <1>17, Zenon
     DEF session, TypeOK, OneOperationEach, NeverStuck, PendingBounded, NoReadBehind

\* A failed write closes the connection.
LEMMA WriteErrorInv == ASSUME Inv, WriteError PROVE Inv'
<1> USE DEF Inv
<1> DEFINE d == [net EXCEPT !.wr = "none", !.writes = @ - 1]
           c == CloseSocket(d)
<1>0. net \in Net /\ OneOperation(net) /\ net.wr = "failed" /\ mode = "loop"
  BY Zenon DEF TypeOK, OneOperationEach, WriteError
<1>1. net.writes - 1 \in Nat /\ net.writes = 1
  BY <1>0 DEF Net, OneOperation
<1>2. d \in Net
  BY <1>0, <1>1, Zenon DEF Net
<1>3. /\ c.rd = (IF net.rd = "wait" THEN "failed" ELSE net.rd) /\ c.reads = net.reads
      /\ c.reading = net.reading /\ c.writes = net.writes - 1 /\ c.wr = "none"
      /\ c.open = FALSE /\ c.pending = net.pending
  BY <1>0, Zenon DEF Net, CloseSocket
<1>4. c \in Net
  BY <1>2, ZenonT(40) DEF Net, CloseSocket
<1>5. net' = c /\ UNCHANGED <<chunk, session, posted, received, handled, delivered>>
  BY Zenon DEF WriteError
<1> HIDE DEF c, d
<1>6. OneOperation(c)
  BY <1>0, <1>1, <1>3 DEF OneOperation
<1>7. QED
  BY <1>0, <1>3, <1>4, <1>5, <1>6, Zenon
     DEF session, TypeOK, OneOperationEach, NeverStuck, PendingBounded, NoReadBehind

\* The idle timer closes an open connection.
LEMMA TimerHandlerInv == ASSUME Inv, TimerHandler PROVE Inv'
<1> USE DEF Inv
<1> DEFINE d == [net EXCEPT !.fired = FALSE]
<1>0. net \in Net /\ OneOperation(net)
  BY Zenon DEF TypeOK, OneOperationEach
<1>1. /\ d \in Net /\ d.rd = net.rd /\ d.reads = net.reads /\ d.reading = net.reading
      /\ d.wr = net.wr /\ d.writes = net.writes /\ d.writing = net.writing
      /\ d.open = net.open /\ d.pending = net.pending
  BY <1>0, Zenon DEF Net
<1>2. /\ net' = IF net.open THEN CloseSocket(d) ELSE d
      /\ UNCHANGED <<chunk, session, posted, received, handled, delivered>>
  BY Zenon DEF TimerHandler
<1> HIDE DEF d
<1>3. OneOperation(d)
  BY <1>0, <1>1, Zenon DEF OneOperation
<1>4. /\ net' \in Net /\ OneOperation(net') /\ ~net'.open /\ net'.pending = net.pending
      /\ (net.rd = "none" => net'.rd = "none")
  BY <1>1, <1>2, <1>3, CloseSocketFacts, Zenon
<1>5. QED
  BY <1>2, <1>4, Zenon DEF session, TypeOK, OneOperationEach, NeverStuck, PendingBounded, NoReadBehind

\* A message is posted, and written when its handler runs.
LEMMA PushInv == ASSUME Inv, Publish \/ PushHandler PROVE Inv'
<1> USE DEF Inv
<1>1. CASE Publish
  BY <1>1 DEF Publish, session, TypeOK, OneOperationEach, OneOperation, NeverStuck,
              PendingBounded, NoReadBehind
<1>2. CASE PushHandler
  <2>1. net \in Net /\ OneOperation(net) /\ <<Push>> \in Seq(Frame)
    BY DEF TypeOK, OneOperationEach, Push, Frame
  <2>2. /\ net' = DoWrite(net, <<Push>>) /\ posted > 0 /\ posted' = posted - 1
        /\ UNCHANGED <<chunk, session, received, handled, delivered>>
    BY <1>2, Zenon DEF PushHandler
  <2>3. /\ net' \in Net /\ OneOperation(net') /\ (net.rd = "none" => net'.rd = "none")
        /\ (net'.open => net'.wr # "none")
        /\ (net.pending <= MaxPending => net'.pending <= MaxPending)
    BY <2>1, <2>2, DoWriteFacts, Zenon
  <2>4. posted' \in Nat
    BY <2>2 DEF TypeOK
  <2>5. QED
    BY <2>2, <2>3, <2>4, Zenon
     DEF session, TypeOK, OneOperationEach, NeverStuck, PendingBounded, NoReadBehind
<1>3. QED
  BY <1>1, <1>2, Zenon

(***************************************************************************)
(* The theorems.                                                          *)
(***************************************************************************)

\* No step of the peer, the kernel, the timer or a handler leaves the invariant.
LEMMA NextInv == Inv /\ [Next]_vars => Inv'
<1> SUFFICES ASSUME Inv, [Next]_vars PROVE Inv'
  BY Zenon
<1>1. CASE UNCHANGED vars
  BY <1>1, Zenon DEF vars, Inv, TypeOK, OneOperationEach, NeverStuck, PendingBounded,
              NoReadBehind
<1>2. CASE Over
  BY <1>1, <1>2, Zenon DEF Over
<1>3. CASE Loop
  BY <1>3, ReadHandlerInv, ReadErrorInv, TurnInv, DataEndInv, WriteHandlerInv,
     WriteErrorInv, TimerHandlerInv, PushInv, Zenon DEF Loop
<1>4. CASE Publish
  BY <1>4, PushInv, Zenon
<1>5. CASE (\E c \in Chunks : Arrives(c)) \/ PeerGone \/ SomeSent \/ AllSent
           \/ SendFails \/ TimerExpires
  BY <1>5, EnvironmentInv, Zenon
<1>6. QED
  BY <1>1, <1>2, <1>3, <1>4, <1>5, Zenon DEF Next

\* Inv holds in every reachable state.
THEOREM Invariance == Spec => []Inv
  BY InitInv, NextInv, PTL DEF Spec

\* Type correctness of a connection.
THEOREM TypeCorrect == Spec => []TypeOK
<1>1. Inv => TypeOK
  BY Zenon DEF Inv
<1>2. QED
  BY <1>1, Invariance, PTL

\* An open connection always has a read or a write outstanding between two
\* handlers, whatever its chunks, limits and pushes (connection.cpp:194-197, 319-330).
THEOREM AlwaysWaiting == Spec => []NeverStuck
<1>1. Inv => NeverStuck
  BY Zenon DEF Inv
<1>2. QED
  BY <1>1, Invariance, PTL

\* At most one read and one write are outstanding, and the flags say so
\* (connection.cpp:111, 289).
THEOREM SingleOperations == Spec => []OneOperationEach
<1>1. Inv => OneOperationEach
  BY Zenon DEF Inv
<1>2. QED
  BY <1>1, Invariance, PTL

\* The pending output never exceeds its limit (connection.cpp:279-287).
THEOREM OutputBounded == Spec => []PendingBounded
<1>1. Inv => PendingBounded
  BY Zenon DEF Inv
<1>2. QED
  BY <1>1, Invariance, PTL

\* After the oversized request nothing is read or executed any more
\* (connection.cpp:135-141, 325).
THEOREM NoWorkWhileClosing == Spec => ClosingIsFinal
<1>1. Inv /\ Inv' /\ [Next]_vars => [closing => handled' = handled /\ net.reads' = 0]_vars
  <2> SUFFICES ASSUME Inv, Inv', Next, closing
               PROVE  handled' = handled /\ net.reads' = 0
    BY Zenon
  <2>1. mode = "loop"
    BY Zenon DEF Inv, NoReadBehind
  <2>2. closing' = closing
    BY <2>1, Zenon DEF Inv, TypeOK, Next, Loop, Arrives, PeerGone, SomeSent, AllSent, SendFails,
                TimerExpires, ReadHandler, ReadError, Incomplete, Reset, Auth, Refuse,
                Subscribe, BadSub, Unsubscribe, Execute, Direct, Turn, DataEnd, WriteHandler,
                WriteError, TimerHandler, Publish, PushHandler, Over, session, vars
  <2>3. handled' = handled
    BY <2>1, Zenon DEF Next, Loop, Arrives, PeerGone, SomeSent, AllSent, SendFails,
                TimerExpires, ReadHandler, ReadError, Incomplete, Reset, Auth, Refuse,
                Subscribe, BadSub, Unsubscribe, Execute, Direct, Turn, DataEnd, WriteHandler,
                WriteError, TimerHandler, Publish, PushHandler, Over, session, vars
  <2>4. QED
    BY <2>2, <2>3, Zenon DEF Inv, NoReadBehind, OneOperationEach, OneOperation
<1>2. QED
  BY <1>1, Invariance, PTL DEF Spec, ClosingIsFinal
(***************************************************************************)
(* Nothing is pushed before AUTH.  What is sent next comes out of the     *)
(* queue, so the queue must hold no push either; and that no push is      *)
(* posted rests on the broker not holding the connection.                 *)
(***************************************************************************)
Answers == Frame \ {Push}
Unpushed(n) == n.buf \in Seq(Answers) /\ n.queue \in Seq(Seq(Answers))

Unknown == ~authed => ~subscribed /\ posted = 0 /\ Unpushed(net)

\* do_write of answers, flush_write_queue and the rest bring in no push.
LEMMA FlushUnpushed ==
  ASSUME NEW n \in Net, Unpushed(n)
  PROVE  Unpushed(FlushWriteQueue(n))
<1>1. CASE n.queue = <<>> \/ ~n.open
  BY <1>1, Zenon DEF FlushWriteQueue, Unpushed, Net
<1>2. CASE ~(n.queue = <<>> \/ ~n.open)
  <2>1. Head(n.queue) \in Seq(Answers) /\ Tail(n.queue) \in Seq(Seq(Answers))
    BY <1>2 DEF Unpushed
  <2>2. /\ FlushWriteQueue(n).buf = Head(n.queue)
        /\ FlushWriteQueue(n).queue = Tail(n.queue)
    BY <1>2, Zenon DEF FlushWriteQueue, Net
  <2> QED
    BY <2>1, <2>2, Zenon DEF Unpushed
<1> QED
  BY <1>1, <1>2, Zenon

\* do_write of answers brings no push into the queue or onto the wire.
LEMMA WriteUnpushed ==
  ASSUME NEW n \in Net, Unpushed(n), NEW frames \in Seq(Answers)
  PROVE  Unpushed(DoWrite(n, frames))
<1>1. CASE ~n.open
  BY <1>1, Zenon DEF DoWrite
<1>2. CASE n.open /\ n.pending + Len(frames) > MaxPending
  BY <1>2, Zenon DEF DoWrite, CloseSocket, Unpushed, Net
<1>3. CASE n.open /\ ~(n.pending + Len(frames) > MaxPending)
  <2> DEFINE m == [n EXCEPT !.pending = @ + Len(frames), !.queue = Append(@, frames)]
  <2>1. Append(n.queue, frames) \in Seq(Seq(Answers))
    BY DEF Unpushed
  <2>2. /\ n.pending + Len(frames) \in Nat /\ frames \in Seq(Frame)
        /\ Append(n.queue, frames) \in Seq(Seq(Frame))
    BY DEF Net, Answers
  <2>3. m \in Net /\ Unpushed(m)
    BY <2>1, <2>2, Zenon DEF Net, Unpushed
  <2>4. DoWrite(n, frames) = IF m.writing THEN m ELSE FlushWriteQueue(m)
    BY <1>3, Zenon DEF DoWrite
  <2> HIDE DEF m
  <2> QED
    BY <2>3, <2>4, FlushUnpushed, Zenon
<1> QED
  BY <1>1, <1>2, <1>3, Zenon

\* reset_idle_timer leaves a connection.
LEMMA TimerType == ASSUME NEW n \in Net PROVE ResetIdleTimer(n) \in Net
<1>1. CASE ~IdleTimeout \/ ~n.open
  BY <1>1, Zenon DEF ResetIdleTimer
<1>2. CASE ~(~IdleTimeout \/ ~n.open)
  BY <1>2, Zenon DEF ResetIdleTimer, Net
<1> QED
  BY <1>1, <1>2, Zenon

\* close_socket, do_read and reset_idle_timer touch no output.
LEMMA QuietUnpushed ==
  ASSUME NEW n \in Net, Unpushed(n)
  PROVE  Unpushed(CloseSocket(n)) /\ Unpushed(DoRead(n)) /\ Unpushed(ResetIdleTimer(n))
  BY Zenon DEF CloseSocket, DoRead, ResetIdleTimer, Unpushed, Net

\* What is batched is never a push.
LEMMA NextAnswers ==
  ASSUME Inv, responses \in Seq(Answers), [Next]_vars
  PROVE  responses' \in Seq(Answers)
<1>1. responses' = responses \/ responses' = <<>> \/ (Batched /\ chunk # <<>>)
  <2>1. CASE Incomplete \/ Subscribe \/ BadSub \/ Unsubscribe
    BY <2>1, Zenon DEF Incomplete, Subscribe, BadSub, Unsubscribe, Direct
  <2>2. CASE Reset \/ Auth \/ Refuse \/ Execute
    BY <2>2, Zenon DEF Reset, Auth, Refuse, Execute, Turn
  <2>3. CASE ReadHandler \/ ReadError \/ DataEnd \/ WriteHandler \/ WriteError
             \/ TimerHandler \/ Publish \/ PushHandler
    BY <2>3, Zenon DEF session, ReadHandler, ReadError, DataEnd, WriteHandler, WriteError,
                TimerHandler, Publish, PushHandler
  <2>4. CASE \/ \E c \in Chunks : Arrives(c)
             \/ PeerGone \/ SomeSent \/ AllSent \/ SendFails \/ TimerExpires
             \/ Over \/ UNCHANGED vars
    BY <2>4, Zenon DEF session, vars, Arrives, PeerGone, SomeSent, AllSent, SendFails,
                TimerExpires, Over
  <2> QED
    BY <2>1, <2>2, <2>3, <2>4, Zenon DEF Next, Loop
<1>2. CASE Batched /\ chunk # <<>>
  <2>1. Head(chunk) \in Numbered
    BY <1>2 DEF Inv, TypeOK
  <2>2. Answer(Head(chunk).id, "batched") \in Answers
    BY <2>1, Zenon DEF Numbered, Answer, Answers, Frame, Push
  <2> QED
    BY <1>2, <2>2 DEF Batched
<1>3. <<>> \in Seq(Answers)
  OBVIOUS
<1> QED
  BY <1>1, <1>2, <1>3, Zenon

\* Without authed no handler subscribes, posts or writes a push, and only AUTH
\* sets authed.
LEMMA NextUnknown ==
  ASSUME Inv, Unknown, responses \in Seq(Answers), [Next]_vars
  PROVE  Unknown'
<1> SUFFICES ASSUME ~authed' PROVE ~subscribed' /\ posted' = 0 /\ Unpushed(net')
  BY Zenon DEF Unknown
<1> USE DEF session
<1>1. TypeOK /\ net \in Net
  BY Zenon DEF Inv, TypeOK
<1>2. ~authed
  <2>1. CASE Incomplete \/ Subscribe \/ BadSub \/ Unsubscribe \/ Reset \/ Auth \/ Refuse
             \/ Execute
    BY <2>1, Zenon DEF Incomplete, Subscribe, BadSub, Unsubscribe, Direct, Reset, Auth,
                       Refuse, Execute
  <2>2. CASE ReadHandler \/ ReadError \/ DataEnd \/ WriteHandler \/ WriteError
             \/ TimerHandler \/ Publish \/ PushHandler
    BY <2>2, Zenon DEF ReadHandler, ReadError, DataEnd, WriteHandler, WriteError,
                TimerHandler, Publish, PushHandler
  <2>3. CASE \/ \E c \in Chunks : Arrives(c)
             \/ PeerGone \/ SomeSent \/ AllSent \/ SendFails \/ TimerExpires
             \/ Over \/ UNCHANGED vars
    BY <2>3, Zenon DEF vars, Arrives, PeerGone, SomeSent, AllSent, SendFails, TimerExpires, Over
  <2> QED
    BY <2>1, <2>2, <2>3, Zenon DEF Next, Loop
<1>3. ~subscribed /\ posted = 0 /\ Unpushed(net)
  BY <1>2, Zenon DEF Unknown
<1>4. ~subscribed' /\ posted' = 0
  <2>1. CASE Incomplete \/ Reset \/ Auth \/ Refuse
    <3>1. subscribed' = subscribed /\ posted' = posted
      BY <2>1, Zenon DEF Incomplete, Reset, Auth, Refuse
    <3> QED
      BY <1>3, <3>1, Zenon
  <2>2. CASE Subscribe \/ BadSub \/ Unsubscribe \/ Execute
    BY <1>2, <2>2, Zenon DEF Subscribe, BadSub, Unsubscribe, Execute, Direct
  <2>3. CASE ReadHandler \/ ReadError \/ DataEnd \/ WriteHandler \/ WriteError
             \/ TimerHandler
    BY <1>3, <2>3 DEF ReadHandler, ReadError, DataEnd, WriteHandler, WriteError,
                      TimerHandler
  <2>4. CASE Publish \/ PushHandler
    BY <1>3, <2>4 DEF Publish, PushHandler
  <2>5. CASE \/ \E c \in Chunks : Arrives(c)
             \/ PeerGone \/ SomeSent \/ AllSent \/ SendFails \/ TimerExpires
             \/ Over \/ UNCHANGED vars
    BY <1>3, <2>5 DEF vars, Arrives, PeerGone, SomeSent, AllSent, SendFails,
                      TimerExpires, Over
  <2> QED
    BY <2>1, <2>2, <2>3, <2>4, <2>5, Zenon DEF Next, Loop
<1>5. CASE \/ \E c \in Chunks : Arrives(c)
           \/ PeerGone \/ SomeSent \/ AllSent \/ SendFails \/ TimerExpires
  <2>1. net'.buf = net.buf /\ net'.queue = net.queue
    BY <1>1, <1>5, Zenon DEF Net, Arrives, PeerGone, SomeSent, AllSent, SendFails, TimerExpires
  <2> QED
    BY <1>3, <1>4, <2>1, Zenon DEF Unpushed
<1>6. CASE ReadHandler
  <2> DEFINE d == [net EXCEPT !.rd = "none", !.reading = FALSE, !.reads = @ - 1]
             n == ResetIdleTimer(d)
  <2>1. net' = n \/ net' = DoWrite(n, <<Answer(received, "batched")>>)
    BY <1>6, Zenon DEF ReadHandler
  <2>2. net.reads - 1 \in Nat
    BY <1>1, <1>6 DEF Net, Inv, OneOperationEach, OneOperation, ReadHandler
  <2>3. d \in Net /\ Unpushed(d)
    BY <1>1, <1>3, <2>2, Zenon DEF Net, Unpushed
  <2> HIDE DEF d
  <2>4. n \in Net /\ Unpushed(n)
    BY <2>3, TimerType, QuietUnpushed, Zenon
  <2> HIDE DEF n
  <2>5. <<Answer(received, "batched")>> \in Seq(Answers)
    BY <1>1 DEF TypeOK, Answer, Answers, Frame, Push
  <2> QED
    BY <1>4, <2>1, <2>4, <2>5, WriteUnpushed, Zenon
<1>7. CASE ReadError \/ WriteError \/ TimerHandler
  <2>1. net'.buf = net.buf /\ net'.queue = net.queue
    BY <1>1, <1>7, Zenon DEF Net, ReadError, WriteError, TimerHandler, CloseSocket
  <2> QED
    BY <1>3, <1>4, <2>1, Zenon DEF Unpushed
<1>8. CASE Incomplete \/ Reset \/ Auth \/ Refuse \/ Over \/ UNCHANGED vars
  BY <1>3, <1>4, <1>8, Zenon DEF Incomplete, Reset, Auth, Refuse, Over, vars
<1>9. CASE Subscribe \/ BadSub \/ Unsubscribe \/ Execute \/ Publish \/ PushHandler
  BY <1>1, <1>2, <1>3, <1>9 DEF Subscribe, BadSub, Unsubscribe, Execute, Direct, Publish,
                               PushHandler
<1>10. CASE DataEnd
  BY <1>1, <1>3, <1>4, <1>10, WriteUnpushed, QuietUnpushed, Zenon DEF DataEnd
<1>11. CASE WriteHandler
  <2> DEFINE left == IF net.pending >= Len(net.buf) THEN net.pending - Len(net.buf) ELSE 0
             n == [net EXCEPT !.wr = "none", !.writes = @ - 1, !.buf = <<>>, !.pending = left]
             m == [n EXCEPT !.writing = FALSE]
  <2>1. net' \in {FlushWriteQueue(n), CloseSocket(m), DoRead(ResetIdleTimer(m))}
    BY <1>11, Zenon DEF WriteHandler
  <2>2. net.writes - 1 \in Nat /\ left \in Nat /\ <<>> \in Seq(Answers) /\ <<>> \in Seq(Frame)
    BY <1>1, <1>11 DEF Net, Inv, OneOperationEach, OneOperation, WriteHandler
  <2> HIDE DEF left
  <2>3. n \in Net /\ Unpushed(n)
    BY <1>1, <1>3, <2>2, Zenon DEF Net, Unpushed
  <2> HIDE DEF n
  <2>4. m \in Net /\ Unpushed(m)
    BY <2>3, Zenon DEF Net, Unpushed
  <2> HIDE DEF m
  <2>5. ResetIdleTimer(m) \in Net /\ Unpushed(ResetIdleTimer(m))
    BY <2>4, TimerType, QuietUnpushed, Zenon
  <2>6. Unpushed(DoRead(ResetIdleTimer(m))) /\ Unpushed(CloseSocket(m)) /\ Unpushed(FlushWriteQueue(n))
    BY <2>3, <2>4, <2>5, QuietUnpushed, FlushUnpushed, Zenon
  <2> QED
    BY <1>4, <2>1, <2>6, Zenon
<1> QED
  BY <1>5, <1>6, <1>7, <1>8, <1>9, <1>10, <1>11, Zenon DEF Next, Loop

\* A client that has not authenticated is not subscribed, and no push is on its
\* way to it, whatever it pipelines (connection.cpp:164).
THEOREM SilentBeforeAuth == Spec => []NothingBeforeAuth
<1> DEFINE J == Unknown /\ responses \in Seq(Answers)
<1>1. ASSUME Init PROVE J
  <2>1. net.buf = <<>> /\ net.queue = <<>>
    BY <1>1, Zenon DEF Init, Fresh, ResetIdleTimer, DoRead
  <2>2. <<>> \in Seq(Answers) /\ <<>> \in Seq(Seq(Answers))
    OBVIOUS
  <2> QED
    BY <1>1, <2>1, <2>2, Zenon DEF Init, Unknown, Unpushed
<1>2. ASSUME Inv, J, [Next]_vars PROVE J'
  BY <1>2, NextUnknown, NextAnswers, Zenon
<1>3. ASSUME J PROVE NothingBeforeAuth
  <2>1. ASSUME Unpushed(net), NEW i \in 1..Len(net.buf) PROVE net.buf[i] # Push
    BY <2>1 DEF Unpushed, Answers
  <2> QED
    BY <1>3, <2>1, Zenon DEF Unknown, NothingBeforeAuth
<1> HIDE DEF J
<1> QED
  BY <1>1, <1>2, <1>3, Invariance, PTL DEF Spec

(***************************************************************************)
(* The order of the answers.  An answer is batched in responses, waits in *)
(* the queue, is in flight and is delivered: Flow says that on this way no *)
(* answer overtakes an earlier one of its kind.                           *)
(***************************************************************************)

\* Frames with the answers of each kind in the order of the items they answer.
Ordered(s) ==
    \A i, j \in 1..Len(s) : i < j /\ s[i].how = s[j].how => s[i].id < s[j].id

\* No answer in t answers an item before one of the same kind in s.
Precedes(s, t) ==
    \A i \in 1..Len(s), j \in 1..Len(t) :
        s[i].how = t[j].how /\ s[i].how # "push" => s[i].id < t[j].id

UpTo(s, m)   == \A i \in 1..Len(s) : s[i].id <= m
Answering(s) == \A i \in 1..Len(s) : s[i].how # "push"

\* What is written at once: a pushed message, or answers to the first m items.
Slice(s, m) == Ordered(s) /\ UpTo(s, m) /\ (s = <<Push>> \/ Answering(s))

Flow(d, f, q, r, m) ==
    /\ Slice(d, m) /\ Slice(f, m) /\ Slice(r, m)
    /\ Precedes(d, f) /\ Precedes(d, r) /\ Precedes(f, r)
    /\ \A i \in 1..Len(q) :
          /\ Slice(q[i], m)
          /\ Precedes(d, q[i]) /\ Precedes(f, q[i]) /\ Precedes(q[i], r)
    /\ \A i, j \in 1..Len(q) : i < j => Precedes(q[i], q[j])

\* Nothing is in the way of nothing.
LEMMA EmptySlice ==
  ASSUME NEW m \in Nat, NEW s \in Seq(Frame)
  PROVE  Slice(<<>>, m) /\ Precedes(<<>>, s) /\ Precedes(s, <<>>) /\ Answering(<<>>)
  BY DEF Slice, Ordered, UpTo, Answering, Precedes

\* One new frame: a push, or the answer to a later item.
LEMMA NewSlice ==
  ASSUME NEW m \in Nat, NEW k \in Nat, m <= k, NEW x \in Frame,
         x = Push \/ (x.how # "push" /\ m < x.id /\ x.id <= k),
         NEW s \in Seq(Frame), UpTo(s, m)
  PROVE  /\ Slice(<<x>>, k) /\ Precedes(s, <<x>>)
         /\ (\A i \in 1..Len(s) : s[i].how # x.how) => Precedes(<<x>>, s)
<1>1. x.id <= k /\ x.id \in Nat /\ (x # Push => x.how # "push")
  BY DEF Frame, Push
<1>2. Len(<<x>>) = 1 /\ <<x>>[1] = x
  BY Zenon
<1>3. Slice(<<x>>, k)
  BY <1>1, <1>2 DEF Slice, Ordered, UpTo, Answering
<1>4. Precedes(s, <<x>>)
  <2>1. ASSUME NEW i \in 1..Len(s), s[i].how # "push", s[i].how = x.how
        PROVE  s[i].id < x.id
    <3>1. s[i] \in Frame
      OBVIOUS
    <3>2. s[i].id \in Nat /\ s[i].id <= m
      BY <3>1, Zenon DEF UpTo, Frame
    <3>3. x # Push
      BY <2>1 DEF Push
    <3> QED
      BY <1>1, <3>2, <3>3
  <2> QED
    BY <1>2, <2>1 DEF Precedes
<1>5. (\A i \in 1..Len(s) : s[i].how # x.how) => Precedes(<<x>>, s)
  BY <1>2 DEF Precedes
<1> QED
  BY <1>3, <1>4, <1>5, Zenon

\* A slice grows by what comes after it.
LEMMA JoinedSlice ==
  ASSUME NEW m \in Nat, NEW s \in Seq(Frame), NEW t \in Seq(Frame),
         Slice(s, m), Slice(t, m), Answering(s), Answering(t), Precedes(s, t)
  PROVE  /\ Slice(s \o t, m) /\ Answering(s \o t)
         /\ \A u \in Seq(Frame) :
               /\ Precedes(s, u) /\ Precedes(t, u) => Precedes(s \o t, u)
               /\ Precedes(u, s) /\ Precedes(u, t) => Precedes(u, s \o t)
<1>1. /\ Len(s \o t) = Len(s) + Len(t) /\ Len(s) \in Nat /\ Len(t) \in Nat
      /\ \A i \in 1..Len(s \o t) :
            (s \o t)[i] = IF i <= Len(s) THEN s[i] ELSE t[i - Len(s)]
  OBVIOUS
<1> DEFINE w == s \o t
<1> HIDE DEF w
<1>2. \A i \in 1..Len(w) : \/ i \in 1..Len(s) /\ w[i] = s[i]
                           \/ /\ i - Len(s) \in 1..Len(t) /\ w[i] = t[i - Len(s)]
                              /\ i > Len(s)
  BY <1>1 DEF w
<1>3. Answering(w) /\ UpTo(w, m)
  BY <1>2, Zenon DEF Answering, UpTo, Slice
<1>4. Ordered(w)
  <2> SUFFICES ASSUME NEW i \in 1..Len(w), NEW j \in 1..Len(w), i < j,
                      w[i].how = w[j].how
               PROVE  w[i].id < w[j].id
    BY Zenon DEF Ordered
  <2>1. CASE j \in 1..Len(s) /\ w[j] = s[j]
    <3>1. ~(i > Len(s))
      BY <1>1, <2>1
    <3>2. i \in 1..Len(s) /\ w[i] = s[i]
      BY <1>2, <3>1, Zenon
    <3> QED
      BY <2>1, <3>2, Zenon DEF Slice, Ordered
  <2>2. CASE i - Len(s) \in 1..Len(t) /\ i > Len(s) /\ w[i] = t[i - Len(s)]
    <3>1. j - Len(s) \in 1..Len(t) /\ w[j] = t[j - Len(s)]
      <4>1. Len(s) \in Nat /\ i \in Int /\ j \in Int
        OBVIOUS
      <4>2. j > Len(s) /\ j \notin 1..Len(s)
        BY <2>2, <4>1, SMTT(30)
      <4> QED
        BY <1>2, <4>2, Zenon
    <3>2. i - Len(s) < j - Len(s)
      BY <1>1
    <3> QED
      BY <2>2, <3>1, <3>2, Zenon DEF Slice, Ordered
  <2>3. CASE /\ i \in 1..Len(s) /\ w[i] = s[i]
             /\ j - Len(s) \in 1..Len(t) /\ w[j] = t[j - Len(s)]
    BY <2>3, Zenon DEF Precedes, Answering
  <2> QED
    BY <1>2, <2>1, <2>2, <2>3, Zenon
<1>5. ASSUME NEW u \in Seq(Frame)
      PROVE  /\ Precedes(s, u) /\ Precedes(t, u) => Precedes(w, u)
             /\ Precedes(u, s) /\ Precedes(u, t) => Precedes(u, w)
  BY <1>2, ZenonT(40) DEF Precedes
<1> QED
  BY <1>3, <1>4, <1>5, Zenon DEF w, Slice

\* What is in flight is delivered, or lost with the connection.
LEMMA SentFlow ==
  ASSUME NEW m \in Nat, NEW d \in Seq(Frame), NEW f \in Seq(Frame),
         NEW q \in Seq(Seq(Frame)), NEW r \in Seq(Frame),
         Flow(d, f, q, r, m)
  PROVE  /\ Flow(d, <<>>, q, r, m)
         /\ Answering(d) /\ f # <<Push>> =>
               Flow(d \o f, <<>>, q, r, m) /\ Answering(d \o f)
<1>1. <<>> \in Seq(Frame) /\ \A i \in 1..Len(q) : q[i] \in Seq(Frame)
  OBVIOUS
<1>2. Flow(d, <<>>, q, r, m)
  BY <1>1, EmptySlice, Zenon DEF Flow
<1>3. ASSUME Answering(d), f # <<Push>>
      PROVE  Flow(d \o f, <<>>, q, r, m) /\ Answering(d \o f)
  <2>1. d \o f \in Seq(Frame) /\ Answering(f)
    BY <1>3 DEF Flow, Slice
  <2> DEFINE w == d \o f
  <2>2. /\ Slice(w, m) /\ Answering(w)
        /\ \A u \in Seq(Frame) : Precedes(d, u) /\ Precedes(f, u) => Precedes(w, u)
    BY <1>3, <2>1, JoinedSlice, Zenon DEF Flow
  <2>3. Slice(<<>>, m) /\ Precedes(w, <<>>) /\ Precedes(<<>>, r)
        /\ \A i \in 1..Len(q) : Precedes(<<>>, q[i])
    BY <1>1, <2>1, EmptySlice, Zenon
  <2> HIDE DEF w
  <2> QED
    BY <1>1, <2>2, <2>3, Zenon DEF Flow, w
<1> QED
  BY <1>2, <1>3, Zenon

\* flush_write_queue moves the head of the queue into flight.
LEMMA FlushFlow ==
  ASSUME NEW m \in Nat, NEW d \in Seq(Frame), NEW q \in Seq(Seq(Frame)),
         NEW r \in Seq(Frame), Flow(d, <<>>, q, r, m), q # <<>>
  PROVE  Flow(d, Head(q), Tail(q), r, m)
<1> DEFINE t == Tail(q)
<1>1. /\ Len(q) \in Nat \ {0} /\ Head(q) = q[1] /\ Len(t) = Len(q) - 1
      /\ \A i \in 1..Len(t) : t[i] = q[i + 1] /\ i + 1 \in 1..Len(q) /\ 1 < i + 1
  OBVIOUS
<1> HIDE DEF t
<1>2. 1 \in 1..Len(q)
  BY <1>1
<1>3. \A i \in 1..Len(t) : /\ Slice(t[i], m) /\ Precedes(d, t[i])
                           /\ Precedes(q[1], t[i]) /\ Precedes(t[i], r)
  BY <1>1, <1>2, Zenon DEF Flow
<1>4. \A i, j \in 1..Len(t) : i < j => Precedes(t[i], t[j])
  <2> SUFFICES ASSUME NEW i \in 1..Len(t), NEW j \in 1..Len(t), i < j
               PROVE  Precedes(t[i], t[j])
    BY Zenon
  <2>1. i + 1 < j + 1
    OBVIOUS
  <2>2. Precedes(q[i + 1], q[j + 1])
    BY <1>1, <2>1, Zenon DEF Flow
  <2> QED
    BY <1>1, <2>2, Zenon
<1>5. Slice(q[1], m) /\ Precedes(d, q[1]) /\ Precedes(q[1], r)
  BY <1>2, Zenon DEF Flow
<1> QED
  BY <1>1, <1>3, <1>4, <1>5, Zenon DEF Flow, t

\* A slice enters the queue behind all that was written before.
LEMMA QueueFlow ==
  ASSUME NEW m \in Nat, NEW d \in Seq(Frame), NEW f \in Seq(Frame),
         NEW q \in Seq(Seq(Frame)), NEW r \in Seq(Frame), NEW s \in Seq(Frame)
  PROVE  Flow(d, f, Append(q, s), r, m) <=>
            /\ Flow(d, f, q, r, m)
            /\ Slice(s, m) /\ Precedes(d, s) /\ Precedes(f, s) /\ Precedes(s, r)
            /\ \A i \in 1..Len(q) : Precedes(q[i], s)
<1> DEFINE w == Append(q, s)
           n == Len(q) + 1
<1>1. /\ Len(q) \in Nat /\ Len(w) = n /\ w[n] = s /\ n \in 1..n
      /\ \A i \in 1..Len(q) : w[i] = q[i] /\ i \in 1..n /\ i < n
      /\ \A i \in 1..n : i \in 1..Len(q) \/ i = n
  OBVIOUS
<1> HIDE DEF w, n
<1>2. ASSUME Flow(d, f, w, r, m)
      PROVE  /\ Flow(d, f, q, r, m)
             /\ Slice(s, m) /\ Precedes(d, s) /\ Precedes(f, s) /\ Precedes(s, r)
             /\ \A i \in 1..Len(q) : Precedes(q[i], s)
  BY <1>1, <1>2, Zenon DEF Flow
<1>3. ASSUME Flow(d, f, q, r, m),
             Slice(s, m) /\ Precedes(d, s) /\ Precedes(f, s) /\ Precedes(s, r),
             \A i \in 1..Len(q) : Precedes(q[i], s)
      PROVE  Flow(d, f, w, r, m)
  <2>1. \A i \in 1..n : /\ Slice(w[i], m) /\ Precedes(d, w[i]) /\ Precedes(f, w[i])
                        /\ Precedes(w[i], r)
    BY <1>1, <1>3, Zenon DEF Flow
  <2>2. ASSUME NEW i \in 1..n, NEW j \in 1..n, i < j PROVE Precedes(w[i], w[j])
    <3>1. i \in 1..Len(q)
      BY <1>1, <2>2 DEF n
    <3> QED
      BY <1>1, <1>3, <2>2, <3>1, Zenon DEF Flow
  <2> QED
    BY <1>1, <1>3, <2>1, <2>2, Zenon DEF Flow
<1> QED
  BY <1>2, <1>3, Zenon DEF w

\* More items may have been answered than are under way.
LEMMA LaterFlow ==
  ASSUME NEW m \in Nat, NEW k \in Nat, m <= k, NEW d \in Seq(Frame),
         NEW f \in Seq(Frame), NEW q \in Seq(Seq(Frame)), NEW r \in Seq(Frame),
         Flow(d, f, q, r, m)
  PROVE  Flow(d, f, q, r, k)
<1>1. \A s \in Seq(Frame) : Slice(s, m) => Slice(s, k)
  <2> SUFFICES ASSUME NEW s \in Seq(Frame), Slice(s, m) PROVE UpTo(s, k)
    BY Zenon DEF Slice
  <2> SUFFICES ASSUME NEW i \in 1..Len(s) PROVE s[i].id <= k
    BY Zenon DEF UpTo
  <2>1. s[i] \in Frame
    OBVIOUS
  <2>2. s[i].id \in Nat /\ s[i].id <= m
    BY <2>1, Zenon DEF Slice, UpTo, Frame
  <2> QED
    BY <2>2
<1>2. \A i \in 1..Len(q) : q[i] \in Seq(Frame)
  OBVIOUS
<1> QED
  BY <1>1, <1>2, Zenon DEF Flow

\* do_write of one frame: a push, or the answer to a later item of another kind
\* than the batched answers.
LEMMA DirectFlow ==
  ASSUME NEW m \in Nat, NEW k \in Nat, m <= k, NEW d \in Seq(Frame),
         NEW f \in Seq(Frame), NEW q \in Seq(Seq(Frame)), NEW r \in Seq(Frame),
         Flow(d, f, q, r, m), NEW x \in Frame,
         x = Push \/ (x.how # "push" /\ m < x.id /\ x.id <= k),
         \A i \in 1..Len(r) : r[i].how # x.how
  PROVE  Flow(d, f, Append(q, <<x>>), r, k)
<1>1. /\ UpTo(d, m) /\ UpTo(f, m) /\ UpTo(r, m)
      /\ \A i \in 1..Len(q) : q[i] \in Seq(Frame) /\ UpTo(q[i], m)
  BY DEF Flow, Slice
<1>2. \A s \in Seq(Frame) : UpTo(s, m) => Slice(<<x>>, k) /\ Precedes(s, <<x>>)
  BY NewSlice, Zenon
<1>3. Precedes(<<x>>, r)
  BY <1>1, NewSlice, Zenon
<1>4. <<x>> \in Seq(Frame) /\ Flow(d, f, q, r, k)
  BY LaterFlow
<1> QED
  BY <1>1, <1>2, <1>3, <1>4, QueueFlow, Zenon

\* A turn of handle_data's loop batches the answer to a later item.
LEMMA AnswerFlow ==
  ASSUME NEW m \in Nat, NEW k \in Nat, m <= k, NEW d \in Seq(Frame),
         NEW f \in Seq(Frame), NEW q \in Seq(Seq(Frame)), NEW r \in Seq(Frame),
         Flow(d, f, q, r, m), Answering(r), NEW x \in Frame,
         x.how # "push", m < x.id, x.id <= k
  PROVE  Flow(d, f, q, Append(r, x), k)
<1>1. /\ UpTo(d, m) /\ UpTo(f, m) /\ UpTo(r, m)
      /\ \A i \in 1..Len(q) : q[i] \in Seq(Frame) /\ UpTo(q[i], m)
  BY SMTT(30) DEF Flow, Slice
<1>2. \A s \in Seq(Frame) : UpTo(s, m) => Slice(<<x>>, k) /\ Precedes(s, <<x>>)
  BY NewSlice, Zenon
<1>3. Flow(d, f, q, r, k)
  BY LaterFlow, Zenon
<1>4. <<x>> \in Seq(Frame) /\ r \o <<x>> = Append(r, x) /\ Answering(<<x>>)
  BY DEF Answering
<1> DEFINE w == Append(r, x)
<1>5. /\ Slice(w, k)
      /\ \A u \in Seq(Frame) : Precedes(u, r) /\ Precedes(u, <<x>>) => Precedes(u, w)
  BY <1>1, <1>2, <1>3, <1>4, JoinedSlice, ZenonT(40) DEF Flow
<1> HIDE DEF w
<1> QED
  BY <1>1, <1>2, <1>3, <1>5, Zenon DEF Flow, w

\* The end of handle_data queues the batched answers.
LEMMA BatchFlow ==
  ASSUME NEW m \in Nat, NEW d \in Seq(Frame), NEW f \in Seq(Frame),
         NEW q \in Seq(Seq(Frame)), NEW r \in Seq(Frame), Flow(d, f, q, r, m)
  PROVE  Flow(d, f, q, <<>>, m) /\ Flow(d, f, Append(q, r), <<>>, m)
<1>1. <<>> \in Seq(Frame) /\ \A i \in 1..Len(q) : q[i] \in Seq(Frame)
  OBVIOUS
<1>2. /\ Slice(<<>>, m)
      /\ \A s \in Seq(Frame) : Precedes(s, <<>>)
  BY EmptySlice, Zenon
<1>3. Flow(d, f, q, <<>>, m)
  BY <1>1, <1>2, Zenon DEF Flow
<1>4. /\ Slice(r, m) /\ Precedes(d, r) /\ Precedes(f, r)
      /\ \A i \in 1..Len(q) : Precedes(q[i], r)
  BY Zenon DEF Flow
<1> QED
  BY <1>1, <1>2, <1>3, <1>4, QueueFlow, Zenon

(***************************************************************************)
(* Which items the frames on their way answer.                            *)
(***************************************************************************)
Ids(s) == {s[i].id : i \in {i \in 1..Len(s) : s[i].how # "push"}}

Queued(q) == UNION {Ids(q[i]) : i \in 1..Len(q)}

\* A frame adds the item it answers.
LEMMA IdsFacts ==
  ASSUME NEW s \in Seq(Frame), NEW t \in Seq(Frame), NEW x \in Frame
  PROVE  /\ Ids(<<>>) = {} /\ Ids(<<Push>>) = {}
         /\ Ids(s \o t) = Ids(s) \cup Ids(t)
         /\ x.how # "push" => /\ Ids(<<x>>) = {x.id}
                              /\ Ids(Append(s, x)) = Ids(s) \cup {x.id}
<1>1. Ids(<<>>) = {} /\ Ids(<<Push>>) = {}
  BY DEF Ids, Push
<1>2. Ids(s \o t) = Ids(s) \cup Ids(t)
  <2>1. /\ Len(s \o t) = Len(s) + Len(t) /\ Len(s) \in Nat /\ Len(t) \in Nat
        /\ \A i \in 1..Len(s) : i \in 1..Len(s \o t) /\ (s \o t)[i] = s[i]
        /\ \A i \in 1..Len(t) : /\ i + Len(s) \in 1..Len(s \o t)
                                /\ (s \o t)[i + Len(s)] = t[i]
        /\ \A i \in 1..Len(s \o t) :
              \/ i \in 1..Len(s)
              \/ i - Len(s) \in 1..Len(t) /\ i = (i - Len(s)) + Len(s)
    OBVIOUS
  <2> DEFINE w == s \o t
  <2> HIDE DEF w
  <2>2. \A i \in 1..Len(w) : \/ i \in 1..Len(s) /\ w[i] = s[i]
                             \/ \E j \in 1..Len(t) : w[i] = t[j]
    BY <2>1, Zenon DEF w
  <2>3. \A v : v \in Ids(w) => v \in Ids(s) \cup Ids(t)
    BY <2>2, Zenon DEF Ids
  <2>4. \A v : v \in Ids(s) => v \in Ids(w)
    BY <2>1, Zenon DEF Ids, w
  <2>5. \A v : v \in Ids(t) => v \in Ids(w)
    <3>1. \A i \in 1..Len(t) : \E j \in 1..Len(w) : w[j] = t[i]
      BY <2>1, Zenon DEF w
    <3> QED
      BY <3>1, Zenon DEF Ids
  <2> QED
    BY <2>3, <2>4, <2>5, Zenon DEF w
<1>3. x.how # "push" => Ids(<<x>>) = {x.id}
  BY DEF Ids
<1>4. x.how # "push" => Ids(Append(s, x)) = Ids(s) \cup {x.id}
  <2>1. /\ Len(Append(s, x)) = Len(s) + 1 /\ Len(s) \in Nat
        /\ Append(s, x)[Len(s) + 1] = x
        /\ \A i \in 1..Len(s) : Append(s, x)[i] = s[i]
    OBVIOUS
  <2> QED
    BY <2>1 DEF Ids
<1> QED
  BY <1>1, <1>2, <1>3, <1>4, Zenon

\* What the queue holds is in one of its slices.
LEMMA QueuedIn ==
  ASSUME NEW q, NEW v
  PROVE  v \in Queued(q) <=> \E i \in 1..Len(q) : v \in Ids(q[i])
BY Zenon DEF Queued

\* The queue holds what its slices hold.
LEMMA QueuedFacts ==
  ASSUME NEW q \in Seq(Seq(Frame)), NEW s \in Seq(Frame)
  PROVE  /\ Queued(<<>>) = {}
         /\ Queued(Append(q, s)) = Queued(q) \cup Ids(s)
         /\ q # <<>> => Queued(q) = Ids(Head(q)) \cup Queued(Tail(q))
<1>1. Queued(<<>>) = {}
  BY DEF Queued
<1>2. Queued(Append(q, s)) = Queued(q) \cup Ids(s)
  <2> DEFINE w == Append(q, s)
             n == Len(q)
  <2>1. w[n + 1] = s /\ \A i \in 1..n : w[i] = q[i]
    OBVIOUS
  <2>2. Len(w) = n + 1 /\ n \in Nat
    OBVIOUS
  <2> HIDE DEF w, n
  <2>3. /\ \A i \in 1..Len(w) : i \in 1..n \/ i = n + 1
        /\ n + 1 \in 1..Len(w)
        /\ \A i \in 1..n : i \in 1..Len(w)
    BY <2>2
  <2>4. ASSUME NEW v, v \in Queued(w) PROVE v \in Queued(q) \cup Ids(s)
    <3>1. PICK i \in 1..Len(w) : v \in Ids(w[i])
      BY <2>4, QueuedIn, Zenon
    <3>2. CASE i \in 1..n
      BY <2>1, <3>1, <3>2, QueuedIn, Zenon DEF n
    <3>3. CASE i = n + 1
      BY <2>1, <3>1, <3>3, Zenon
    <3> QED
      BY <2>3, <3>2, <3>3, Zenon
  <2>5. ASSUME NEW v, v \in Queued(q) PROVE v \in Queued(w)
    <3>1. PICK i \in 1..n : v \in Ids(q[i])
      BY <2>5, QueuedIn, Zenon DEF n
    <3> QED
      BY <2>1, <2>3, <3>1, QueuedIn, Zenon
  <2>6. ASSUME NEW v, v \in Ids(s) PROVE v \in Queued(w)
    BY <2>1, <2>3, <2>6, QueuedIn, Zenon
  <2> QED
    BY <2>4, <2>5, <2>6, Zenon DEF w
<1>3. ASSUME q # <<>> PROVE Queued(q) = Ids(Head(q)) \cup Queued(Tail(q))
  <2> DEFINE t == Tail(q)
             n == Len(q)
  <2>1. Head(q) = q[1] /\ \A i \in 1..n - 1 : t[i] = q[i + 1]
    BY <1>3
  <2>2. Len(t) = n - 1 /\ n \in Nat \ {0}
    BY <1>3
  <2> HIDE DEF t, n
  <2>3. \A i \in 1..n : i = 1 \/ \E j \in 1..n - 1 : i = j + 1
    <3>1. \A i \in 1..n : i = 1 \/ (i - 1 \in 1..n - 1 /\ i = (i - 1) + 1)
      BY <2>2
    <3> QED
      BY <3>1, Zenon
  <2>4. 1 \in 1..n /\ \A j \in 1..n - 1 : j + 1 \in 1..n
    BY <2>2
  <2>5. ASSUME NEW v, v \in Queued(q) PROVE v \in Ids(Head(q)) \cup Queued(t)
    <3>1. PICK i \in 1..n : v \in Ids(q[i])
      BY <2>5, QueuedIn, Zenon DEF n
    <3>2. CASE i = 1
      BY <2>1, <3>1, <3>2, Zenon
    <3>3. ASSUME NEW j \in 1..n - 1, i = j + 1 PROVE v \in Queued(t)
      <4>1. j \in 1..Len(t) /\ v \in Ids(t[j])
        BY <2>1, <2>2, <3>1, <3>3, Zenon
      <4> QED
        BY <4>1, QueuedIn, Zenon
    <3> QED
      BY <2>3, <3>2, <3>3, Zenon
  <2>6. ASSUME NEW v, v \in Ids(Head(q)) PROVE v \in Queued(q)
    BY <2>1, <2>4, <2>6, QueuedIn, Zenon DEF n
  <2>7. ASSUME NEW v, v \in Queued(t) PROVE v \in Queued(q)
    <3>1. PICK j \in 1..n - 1 : v \in Ids(t[j])
      BY <2>2, <2>7, QueuedIn, Zenon
    <3>2. j + 1 \in 1..n /\ v \in Ids(q[j + 1])
      BY <2>1, <2>4, <3>1, Zenon
    <3> QED
      BY <3>2, QueuedIn, Zenon DEF n
  <2> QED
    BY <2>5, <2>6, <2>7, Zenon DEF t
<1> QED
  BY <1>1, <1>2, <1>3, Zenon

(***************************************************************************)
(* What each member does to the output, as a relation of net before and   *)
(* after it.                                                              *)
(***************************************************************************)
Flight(n) == IF n.wr = "flight" THEN n.buf ELSE <<>>

\* When no write is outstanding there is nothing to write.
Drained(n) == n.open /\ n.wr = "none" => n.queue = <<>> /\ n.buf = <<>>

\* Nothing is queued, written or counted; a flight may be lost.
Rests(n, k) ==
    /\ k.buf = n.buf /\ k.queue = n.queue /\ k.pending = n.pending
    /\ k.wr = "flight" => n.wr = "flight"
    /\ k.open => n.open /\ (k.wr = n.wr \/ k.wr = "failed")

\* The frames are refused, queued, or in flight.
Writes(n, k, frames) ==
    \/ /\ ~k.open /\ k.queue = n.queue
       /\ k.wr = "flight" => n.wr = "flight" /\ k.buf = n.buf
    \/ /\ k.open /\ n.open /\ k.pending = n.pending + Len(frames)
       /\ \/ /\ n.wr # "none" /\ k.wr = n.wr /\ k.buf = n.buf
             /\ k.queue = Append(n.queue, frames)
          \/ /\ n.wr = "none" /\ k.wr = "flight"
             /\ k.buf = Head(Append(n.queue, frames))
             /\ k.queue = Tail(Append(n.queue, frames))

\* close_socket, do_read and reset_idle_timer leave the output alone, and what has
\* been read stays read.
LEMMA Restful ==
  ASSUME NEW n \in Net
  PROVE  /\ Rests(n, CloseSocket(n))
         /\ Rests(n, DoRead(n)) /\ DoRead(n).wr = n.wr
         /\ Rests(n, ResetIdleTimer(n)) /\ ResetIdleTimer(n).wr = n.wr
         /\ ResetIdleTimer(n).open = n.open /\ DoRead(n).open = n.open
         /\ \A k \in {CloseSocket(n), ResetIdleTimer(n)} : k.rd = "ready" <=> n.rd = "ready"
         /\ DoRead(n).rd = "ready" => n.rd = "ready"
<1>1. /\ Rests(n, CloseSocket(n)) /\ (CloseSocket(n).rd = "ready" <=> n.rd = "ready")
  BY Zenon DEF Net, CloseSocket, Rests
<1>2. /\ Rests(n, DoRead(n)) /\ DoRead(n).wr = n.wr /\ DoRead(n).open = n.open
      /\ DoRead(n).rd = "ready" => n.rd = "ready"
  BY Zenon DEF Net, DoRead, Rests
<1>3. /\ Rests(n, ResetIdleTimer(n)) /\ ResetIdleTimer(n).wr = n.wr
      /\ ResetIdleTimer(n).open = n.open
      /\ ResetIdleTimer(n).rd = "ready" <=> n.rd = "ready"
  BY Zenon DEF Net, ResetIdleTimer, Rests
<1> QED
  BY <1>1, <1>2, <1>3, Zenon

\* do_write writes.
LEMMA DoWriteWrites ==
  ASSUME NEW n \in Net, OneOperation(n), NEW frames \in Seq(Frame)
  PROVE  /\ Writes(n, DoWrite(n, frames), frames)
         /\ DoWrite(n, frames).rd = "ready" <=> n.rd = "ready"
<1>1. CASE ~n.open
  BY <1>1, Zenon DEF DoWrite, Writes
<1>2. CASE n.open /\ n.pending + Len(frames) > MaxPending
  <2> DEFINE k == CloseSocket(n)
  <2>1. DoWrite(n, frames) = k /\ ~k.open
    BY <1>2, Zenon DEF DoWrite, CloseSocket, Net
  <2>2. Rests(n, k) /\ (k.rd = "ready" <=> n.rd = "ready")
    BY Restful, Zenon
  <2> HIDE DEF k
  <2>3. Writes(n, k, frames)
    BY <2>1, <2>2, Zenon DEF Writes, Rests
  <2> QED
    BY <2>1, <2>2, <2>3, Zenon
<1>3. CASE n.open /\ ~(n.pending + Len(frames) > MaxPending)
  <2> DEFINE m == [n EXCEPT !.pending = @ + Len(frames), !.queue = Append(@, frames)]
             k == FlushWriteQueue(m)
  <2>1. n.pending + Len(frames) \in Nat /\ n.queue \in Seq(Seq(Frame))
    BY DEF Net
  <2>2. Append(n.queue, frames) \in Seq(Seq(Frame)) /\ Append(n.queue, frames) # <<>>
    BY <2>1, Appended, Zenon
  <2>3. m \in Net
    BY <2>1, <2>2, Zenon DEF Net
  <2>4. /\ m.rd = n.rd /\ m.wr = n.wr /\ m.writing = n.writing /\ m.buf = n.buf
        /\ m.open = n.open /\ m.pending = n.pending + Len(frames)
        /\ m.queue = Append(n.queue, frames)
    BY Zenon DEF Net
  <2>5. DoWrite(n, frames) = IF m.writing THEN m ELSE k
    BY <1>3, Zenon DEF DoWrite
  <2>6. n.writing <=> n.wr # "none"
    BY <1>3, Zenon DEF OneOperation
  <2> HIDE DEF m
  <2>7. /\ k.open = m.open /\ k.rd = m.rd /\ k.pending = m.pending /\ k.wr = "flight"
        /\ k.buf = Head(m.queue) /\ k.queue = Tail(m.queue)
    BY <1>3, <2>2, <2>3, <2>4, Zenon DEF FlushWriteQueue, Net
  <2> HIDE DEF k
  <2>8. CASE m.writing
    BY <1>3, <2>4, <2>5, <2>6, <2>8, Zenon DEF Writes
  <2>9. CASE ~m.writing
    BY <1>3, <2>4, <2>5, <2>6, <2>7, <2>9, Zenon DEF Writes
  <2> QED
    BY <2>8, <2>9, Zenon
<1> QED
  BY <1>1, <1>2, <1>3, Zenon

\* A queue with one more slice is a queue, and not an empty one.
LEMMA QueueType ==
  ASSUME NEW q \in Seq(Seq(Frame)), NEW s \in Seq(Frame)
  PROVE  Append(q, s) \in Seq(Seq(Frame)) /\ Append(q, s) # <<>>
<1>1. Append(q, s) \in Seq(Seq(Frame))
  OBVIOUS
<1> DEFINE w == Append(q, s)
<1>2. Len(w) = Len(q) + 1 /\ Len(q) \in Nat
  OBVIOUS
<1> HIDE DEF w
<1>3. w # <<>>
  BY <1>2
<1> QED
  BY <1>1, <1>3, Zenon DEF w

\* A write keeps the order it finds, and carries what it is given.
LEMMA WritesFlow ==
  ASSUME NEW n \in Net, NEW k, NEW frames \in Seq(Frame), Writes(n, k, frames),
         Drained(n), NEW m \in Nat, NEW d \in Seq(Frame), NEW r \in Seq(Frame),
         Flow(d, Flight(n), Append(n.queue, frames), r, m)
  PROVE  /\ Flow(d, Flight(k), k.queue, r, m)
         /\ Drained(k)
         /\ k.open => Ids(Flight(k)) \cup Queued(k.queue)
                        = Ids(Flight(n)) \cup Queued(n.queue) \cup Ids(frames)
<1>1. /\ n.queue \in Seq(Seq(Frame)) /\ Flight(n) \in Seq(Frame)
      /\ Append(n.queue, frames) \in Seq(Seq(Frame)) /\ Append(n.queue, frames) # <<>>
  <2>1. n.queue \in Seq(Seq(Frame)) /\ n.buf \in Seq(Frame) /\ <<>> \in Seq(Frame)
    BY DEF Net
  <2>2. Append(n.queue, frames) \in Seq(Seq(Frame)) /\ Append(n.queue, frames) # <<>>
    BY <2>1, QueueType, Zenon
  <2> QED
    BY <2>1, <2>2, Zenon DEF Flight
<1>2. Flow(d, Flight(n), n.queue, r, m)
  BY <1>1, QueueFlow, Zenon
<1>3. CASE /\ ~k.open /\ k.queue = n.queue
           /\ k.wr = "flight" => n.wr = "flight" /\ k.buf = n.buf
  <2>1. Flight(k) = Flight(n) \/ Flight(k) = <<>>
    BY <1>3, Zenon DEF Flight
  <2>2. Flow(d, <<>>, n.queue, r, m)
    BY <1>1, <1>2, SentFlow, Zenon
  <2> QED
    BY <1>2, <1>3, <2>1, <2>2, Zenon DEF Drained
<1>4. CASE /\ k.open /\ n.wr # "none" /\ k.wr = n.wr /\ k.buf = n.buf
           /\ k.queue = Append(n.queue, frames)
  <2>1. Flight(k) = Flight(n)
    BY <1>4, Zenon DEF Flight
  <2>2. Queued(k.queue) = Queued(n.queue) \cup Ids(frames)
    BY <1>1, <1>4, QueuedFacts, Zenon
  <2> QED
    BY <1>4, <2>1, <2>2, Zenon DEF Drained
<1>5. CASE /\ k.open /\ n.open /\ n.wr = "none" /\ k.wr = "flight"
           /\ k.buf = Head(Append(n.queue, frames))
           /\ k.queue = Tail(Append(n.queue, frames))
  <2>1. Flight(n) = <<>> /\ Flight(k) = Head(Append(n.queue, frames))
    BY <1>5, Zenon DEF Flight
  <2>2. Flow(d, Flight(k), k.queue, r, m)
    BY <1>1, <1>5, <2>1, FlushFlow, Zenon
  <2>3. /\ Queued(Append(n.queue, frames)) = Ids(Flight(k)) \cup Queued(k.queue)
        /\ Queued(Append(n.queue, frames)) = Queued(n.queue) \cup Ids(frames)
    BY <1>1, <1>5, <2>1, QueuedFacts, Zenon
  <2>4. Ids(Flight(n)) = {}
    <3>1. Ids(<<>>) = {}
      BY DEF Ids
    <3> QED
      BY <2>1, <3>1, Zenon
  <2> QED
    BY <1>5, <2>2, <2>3, <2>4, Zenon DEF Drained
<1> QED
  BY <1>3, <1>4, <1>5, Zenon DEF Writes

(***************************************************************************)
(* The invariant of the answers.  AnswersInOrder speaks of what has been  *)
(* delivered; it needs the order of all that is still on its way, and     *)
(* that the items of a chunk are numbered on from those already handled.  *)
(***************************************************************************)
Seen == received - Len(chunk)

Numbering ==
    /\ \A i \in 1..Len(chunk) : chunk[i].id = Seen + i
    /\ Seen \in Nat
    /\ chunk # <<>> => net.rd = "ready" \/ mode = "data"
    /\ net.rd = "ready" => chunk # <<>>
    /\ mode = "loop" => responses = <<>>

Travels ==
    /\ Flow(delivered, Flight(net), net.queue, responses, Seen)
    /\ Answering(delivered)
    /\ \A i \in 1..Len(responses) : responses[i].how = "batched"
    /\ Drained(net)

\* As long as nothing is lost, every item that the loop has handled has its answer
\* on the way.
Complete ==
    net.open /\ ~closing /\ net.wr # "failed" =>
        Ids(delivered) \cup (Ids(Flight(net)) \cup Queued(net.queue)) \cup Ids(responses)
            = handled

\* A turn takes the next item; a reset drops the rest of the chunk.
LEMMA TakeItem ==
  ASSUME TypeOK, Numbering, chunk # <<>>, received' = received
  PROVE  /\ Head(chunk).id = Seen + 1
         /\ chunk' = Tail(chunk) =>
               /\ Seen' = Seen + 1
               /\ \A i \in 1..Len(chunk') : chunk'[i].id = Seen' + i
         /\ chunk' = <<>> => Seen' = received /\ Seen + 1 <= received
<1>1. /\ chunk \in Seq(Numbered) /\ Len(chunk) \in Nat \ {0} /\ received \in Nat
      /\ Head(chunk) = chunk[1] /\ Len(Tail(chunk)) = Len(chunk) - 1
      /\ \A i \in 1..Len(chunk) - 1 : Tail(chunk)[i] = chunk[i + 1]
  BY DEF TypeOK
<1>2. Head(chunk).id = Seen + 1
  BY <1>1 DEF Numbering
<1>3. ASSUME chunk' = Tail(chunk)
      PROVE  /\ Seen' = Seen + 1
             /\ \A i \in 1..Len(chunk') : chunk'[i].id = Seen' + i
  <2>1. Seen' = Seen + 1
    BY <1>1, <1>3 DEF Seen
  <2>2. ASSUME NEW i \in 1..Len(chunk') PROVE chunk'[i].id = Seen' + i
    <3>1. i \in 1..Len(chunk) - 1 /\ i + 1 \in 1..Len(chunk) /\ Seen \in Nat
      BY <1>1, <1>3 DEF Numbering
    <3>2. chunk'[i] = chunk[i + 1] /\ chunk[i + 1].id = Seen + (i + 1)
      BY <1>1, <1>3, <3>1, Zenon DEF Numbering
    <3> QED
      BY <2>1, <3>1, <3>2
  <2> QED
    BY <2>1, <2>2, Zenon
<1>4. chunk' = <<>> => Seen' = received /\ Seen + 1 <= received
  BY <1>1 DEF Seen
<1> QED
  BY <1>2, <1>3, <1>4, Zenon

\* While handle_data runs nothing else moves the chunk.
LEMMA DataNumbering ==
  ASSUME TypeOK, Numbering, mode = "data", net.rd # "ready", chunk # <<>>,
         chunk' \in {Tail(chunk), <<>>}, mode' = "data", received' = received,
         net'.rd # "ready"
  PROVE  Numbering'
<1>1. Seen' \in Nat /\ \A i \in 1..Len(chunk') : chunk'[i].id = Seen' + i
  <2>1. CASE chunk' = Tail(chunk)
    BY <2>1, TakeItem DEF Numbering
  <2>2. CASE chunk' = <<>>
    BY <2>2, TakeItem DEF Numbering, TypeOK
  <2> QED
    BY <2>1, <2>2, Zenon
<1> QED
  BY <1>1, Zenon DEF Numbering

\* Between two handlers the chunk only goes with the read that brought it.
LEMMA LoopNumbering ==
  ASSUME Numbering, UNCHANGED <<chunk, received, mode, responses>>,
         net'.rd = "ready" <=> net.rd = "ready"
  PROVE  Numbering'
  BY Zenon DEF Numbering, Seen

\* Every step numbers the items on.
LEMMA NextNumbering == Inv /\ Numbering /\ [Next]_vars => Numbering'
<1> SUFFICES ASSUME Inv, Numbering, [Next]_vars PROVE Numbering'
  BY Zenon
<1>0. TypeOK /\ net \in Net /\ OneOperation(net) /\ NoReadBehind
  BY Zenon DEF Inv, TypeOK, OneOperationEach
<1>1. ASSUME NEW c \in Chunks, Arrives(c) PROVE Numbering'
  <2>1. /\ net.rd = "wait" /\ net'.rd = "ready" /\ received' = received + Len(c)
        /\ chunk' = [i \in 1..Len(c) |-> [kind |-> c[i], id |-> received + i]]
        /\ UNCHANGED <<mode, responses>>
    BY <1>0, <1>1, Zenon DEF Arrives, session, Net
  <2>2. c \in Seq(Items) /\ Len(c) \in Nat \ {0} /\ received \in Nat
    BY <1>0, ChunksAssumption DEF TypeOK
  <2>3. Len(chunk') = Len(c) /\ chunk' # <<>>
    BY <2>1, <2>2
  <2>4. Seen' = received
    BY <2>1, <2>2, <2>3 DEF Seen
  <2>5. \A i \in 1..Len(chunk') : chunk'[i].id = Seen' + i
    BY <2>1, <2>3, <2>4, Zenon
  <2> QED
    BY <2>1, <2>2, <2>3, <2>4, <2>5, Zenon DEF Numbering
<1>2. CASE PeerGone \/ SomeSent \/ AllSent \/ SendFails \/ TimerExpires
  <2>1. UNCHANGED <<chunk, received, mode, responses>>
    BY <1>2, Zenon DEF PeerGone, SomeSent, AllSent, SendFails, TimerExpires, session
  <2>2. net'.rd = "ready" <=> net.rd = "ready"
    BY <1>0, <1>2, Zenon DEF PeerGone, SomeSent, AllSent, SendFails, TimerExpires, Net
  <2> QED
    BY <2>1, <2>2, LoopNumbering, Zenon
<1>3. CASE ReadHandler
  <2> DEFINE e == [net EXCEPT !.rd = "none", !.reading = FALSE, !.reads = @ - 1]
             n == ResetIdleTimer(e)
  <2>1. /\ mode = "loop" /\ net.rd = "ready" /\ responses' = responses
        /\ received' = received
        /\ \/ net' = DoWrite(n, <<Answer(received, "batched")>>) /\ chunk' = <<>>
              /\ mode' = mode
           \/ net' = n /\ mode' = "data" /\ UNCHANGED chunk
    BY <1>3, Zenon DEF ReadHandler
  <2>2. net.reads - 1 \in Nat /\ net.reads = 1
    BY <1>0, <2>1 DEF Net, OneOperation
  <2>3. e \in Net
    BY <1>0, <2>2, Zenon DEF Net
  <2>4. OneOperation(e) /\ e.rd = "none"
    <3>1. /\ e.rd = "none" /\ e.reading = FALSE /\ e.reads = net.reads - 1
          /\ e.writes = net.writes /\ e.wr = net.wr /\ e.writing = net.writing
          /\ e.open = net.open
      BY <1>0, Zenon DEF Net
    <3> HIDE DEF e
    <3> QED
      BY <1>0, <2>2, <3>1 DEF OneOperation
  <2> HIDE DEF e
  <2>5. n \in Net /\ OneOperation(n) /\ n.rd = "none"
    BY <2>3, <2>4, ResetIdleTimerFacts, Zenon
  <2> HIDE DEF n
  <2>6. <<Answer(received, "batched")>> \in Seq(Frame)
    BY <1>0 DEF TypeOK, Answer, Frame
  <2>7. net'.rd # "ready"
    BY <2>1, <2>5, <2>6, DoWriteWrites, Zenon
  <2>8. Seen' \in Nat /\ \A i \in 1..Len(chunk') : chunk'[i].id = Seen' + i
    <3>1. CASE UNCHANGED chunk
      <4>1. Seen' = Seen
        BY <2>1, <3>1, Zenon DEF Seen
      <4> QED
        BY <3>1, <4>1, Zenon DEF Numbering
    <3>2. CASE chunk' = <<>>
      <4>1. received \in Nat
        BY <1>0, Zenon DEF TypeOK
      <4>2. Seen' = received - Len(<<>>)
        BY <2>1, <3>2, Zenon DEF Seen
      <4>3. Seen' \in Nat
        BY <4>1, <4>2
      <4>4. 1..Len(chunk') = {}
        BY <3>2
      <4> QED
        BY <4>3, <4>4, Zenon
    <3> QED
      BY <2>1, <3>1, <3>2, Zenon
  <2> QED
    BY <2>1, <2>7, <2>8, Zenon DEF Numbering
<1>4. CASE Incomplete \/ Reset \/ Auth \/ Refuse \/ Execute
  <2>1. /\ mode = "data" /\ mode' = mode /\ net' = net /\ received' = received
        /\ chunk # <<>> /\ chunk' \in {Tail(chunk), <<>>}
    BY <1>4, Zenon DEF Incomplete, Reset, Auth, Refuse, Execute, Turn
  <2> QED
    BY <1>0, <2>1, DataNumbering, Zenon DEF NoReadBehind
<1>5. CASE Subscribe \/ BadSub \/ Unsubscribe
  <2>1. /\ mode = "data" /\ mode' = mode /\ received' = received
        /\ net' = DoWrite(net, <<Answer(Head(chunk).id, "direct")>>)
        /\ chunk # <<>> /\ chunk' = Tail(chunk)
    BY <1>5, Zenon DEF Subscribe, BadSub, Unsubscribe, Direct, Turn
  <2>2. Head(chunk) \in Numbered
    BY <1>0, <2>1 DEF TypeOK
  <2>3. <<Answer(Head(chunk).id, "direct")>> \in Seq(Frame)
    BY <2>2 DEF Numbered, Answer, Frame
  <2>4. net'.rd # "ready"
    BY <1>0, <2>1, <2>3, DoWriteWrites, Zenon DEF NoReadBehind
  <2> QED
    BY <1>0, <2>1, <2>4, DataNumbering, Zenon DEF NoReadBehind
<1>6. CASE DataEnd
  <2>1. /\ mode = "data" /\ mode' = "loop" /\ responses' = <<>> /\ chunk = <<>>
        /\ UNCHANGED <<chunk, received>>
        /\ net' = DoRead(net) \/ net' = DoWrite(net, responses)
    BY <1>6, Zenon DEF DataEnd
  <2>2. net'.rd # "ready"
    BY <1>0, <2>1, Restful, DoWriteWrites, Zenon DEF NoReadBehind, TypeOK
  <2> QED
    BY <2>1, <2>2, Zenon DEF Numbering, Seen
<1>7. CASE WriteHandler
  <2> DEFINE left == IF net.pending >= Len(net.buf) THEN net.pending - Len(net.buf) ELSE 0
             n == [net EXCEPT !.wr = "none", !.writes = @ - 1, !.buf = <<>>, !.pending = left]
             m == [n EXCEPT !.writing = FALSE]
  <2>1. /\ net' \in {FlushWriteQueue(n), CloseSocket(m), DoRead(ResetIdleTimer(m))}
        /\ UNCHANGED <<chunk, received, mode, responses>> /\ mode = "loop"
    BY <1>7, Zenon DEF WriteHandler, session
  <2>2. n.rd = net.rd /\ m.rd = net.rd /\ m.reading = net.reading
    BY <1>0, Zenon DEF Net
  <2>3. FlushWriteQueue(n).rd = n.rd
    BY <1>0, Zenon DEF FlushWriteQueue, Net
  <2>4. CloseSocket(m).rd = "ready" <=> m.rd = "ready"
    BY <1>0 DEF CloseSocket, Net
  <2>5. DoRead(ResetIdleTimer(m)).rd = "ready" <=> m.rd = "ready"
    <3>1. /\ ResetIdleTimer(m).rd = m.rd /\ ResetIdleTimer(m).reading = m.reading
      BY <1>0, Zenon DEF ResetIdleTimer, Net
    <3>2. \A k : /\ k.reading => DoRead(k) = k
                 /\ ~k.reading /\ DoRead(k).rd = "ready" => k.rd = "ready"
      BY DEF DoRead
    <3>3. net.rd = "ready" => m.reading
      BY <1>0, <2>2, Zenon DEF OneOperation
    <3> QED
      BY <2>2, <3>1, <3>2, <3>3, ZenonT(40)
  <2> HIDE DEF n, m
  <2> QED
    BY <2>1, <2>2, <2>3, <2>4, <2>5, LoopNumbering, Zenon
<1>8. CASE ReadError \/ WriteError \/ TimerHandler
  <2>1. UNCHANGED <<chunk, received, mode, responses>>
    BY <1>8, Zenon DEF ReadError, WriteError, TimerHandler, session
  <2>2. net'.rd = "ready" <=> net.rd = "ready"
    BY <1>0, <1>8, ZenonT(40) DEF ReadError, WriteError, TimerHandler, CloseSocket, Net
  <2> QED
    BY <2>1, <2>2, LoopNumbering, Zenon
<1>9. CASE PushHandler
  <2>1. /\ UNCHANGED <<chunk, received, mode, responses>>
        /\ net' = DoWrite(net, <<Push>>) /\ <<Push>> \in Seq(Frame)
    BY <1>9 DEF PushHandler, session, Push, Frame
  <2> QED
    BY <1>0, <2>1, DoWriteWrites, LoopNumbering, Zenon
<1>10. CASE Publish \/ Over \/ UNCHANGED vars
  BY <1>10, Zenon DEF Publish, Over, vars, session, Numbering, Seen
<1> QED
  BY <1>1, <1>2, <1>3, <1>4, <1>5, <1>6, <1>7, <1>8, <1>9, <1>10, Zenon DEF Next, Loop

\* What a lemma on Flow asks of the state.
LEMMA Types ==
  ASSUME Inv, Numbering
  PROVE  /\ net \in Net /\ OneOperation(net) /\ Seen \in Nat /\ received \in Nat
         /\ delivered \in Seq(Frame) /\ responses \in Seq(Frame)
         /\ net.queue \in Seq(Seq(Frame)) /\ net.buf \in Seq(Frame)
         /\ Flight(net) \in Seq(Frame)
<1>1. /\ net \in Net /\ OneOperation(net) /\ Seen \in Nat /\ received \in Nat
      /\ delivered \in Seq(Frame) /\ responses \in Seq(Frame)
  BY Zenon DEF Inv, TypeOK, OneOperationEach, Numbering
<1>2. net.queue \in Seq(Seq(Frame)) /\ net.buf \in Seq(Frame) /\ <<>> \in Seq(Frame)
  BY <1>1 DEF Net
<1> QED
  BY <1>1, <1>2, Zenon DEF Flight

\* A step that writes nothing upsets nothing.
LEMMA RestKeeps ==
  ASSUME Inv, Numbering, Travels, Numbering', Rests(net, net'),
         UNCHANGED <<delivered, responses>>, Seen <= Seen'
  PROVE  /\ Travels'
         /\ Complete /\ UNCHANGED <<handled, closing>> => Complete'
<1>1. Flight(net') = Flight(net) \/ Flight(net') = <<>>
  BY Zenon DEF Rests, Flight
<1>2. Seen' \in Nat
  BY Zenon DEF Numbering
<1>3. Flow(delivered, Flight(net'), net.queue, responses, Seen)
  BY <1>1, Types, SentFlow, Zenon DEF Travels
<1>4. Flight(net') \in Seq(Frame)
  <2>1. Flight(net) \in Seq(Frame)
    BY Types, Zenon
  <2>2. <<>> \in Seq(Frame)
    OBVIOUS
  <2> QED
    BY <1>1, <2>1, <2>2, Zenon
<1>5. Flow(delivered, Flight(net'), net.queue, responses, Seen')
  BY <1>2, <1>3, <1>4, Types, LaterFlow, Zenon
<1>6. Drained(net')
  BY Zenon DEF Travels, Drained, Rests
<1>7. Travels'
  BY <1>5, <1>6, Zenon DEF Travels, Rests
<1>8. ASSUME Complete, UNCHANGED <<handled, closing>> PROVE Complete'
  <2>1. net'.open /\ net'.wr # "failed" => Flight(net') = Flight(net) /\ net.open
                                           /\ net.wr # "failed"
    BY Zenon DEF Rests, Flight
  <2> QED
    BY <1>8, <2>1, Zenon DEF Complete, Rests
<1> QED
  BY <1>7, <1>8, Zenon

\* A do_write of frames that may be queued keeps the order, and what was on its
\* way is on its way together with the frames.
LEMMA WriteKeeps ==
  ASSUME Inv, Numbering, Travels, Numbering',
         NEW frames \in Seq(Frame), Writes(net, net', frames), delivered' = delivered,
         responses' \in Seq(Frame),
         Flow(delivered, Flight(net), Append(net.queue, frames), responses', Seen'),
         \A i \in 1..Len(responses') : responses'[i].how = "batched"
  PROVE  /\ Travels'
         /\ net'.open /\ net'.wr # "failed" =>
               /\ net.open /\ net.wr # "failed"
               /\ Ids(Flight(net')) \cup Queued(net'.queue)
                     = (Ids(Flight(net)) \cup Queued(net.queue)) \cup Ids(frames)
<1>1. Seen' \in Nat /\ Drained(net)
  BY Zenon DEF Numbering, Travels
<1>2. /\ Flow(delivered, Flight(net'), net'.queue, responses', Seen')
      /\ Drained(net')
      /\ net'.open => Ids(Flight(net')) \cup Queued(net'.queue)
                        = (Ids(Flight(net)) \cup Queued(net.queue)) \cup Ids(frames)
  BY <1>1, Types, WritesFlow, Zenon
<1>3. net'.open /\ net'.wr # "failed" => net.open /\ net.wr # "failed"
  BY Zenon DEF Writes
<1> QED
  BY <1>2, <1>3, Zenon DEF Travels

\* The peer, the kernel and the timer.
LEMMA EnvironmentKeeps ==
  ASSUME Inv, Numbering, Travels, Complete, Numbering',
         \/ \E c \in Chunks : Arrives(c)
         \/ PeerGone \/ SomeSent \/ AllSent \/ SendFails \/ TimerExpires
  PROVE  Travels' /\ Complete'
<1>0. net \in Net /\ TypeOK /\ NoReadBehind
  BY Zenon DEF Inv, TypeOK
<1>1. ASSUME NEW c \in Chunks, Arrives(c) PROVE Travels' /\ Complete'
  <2>1. Rests(net, net') /\ net.rd = "wait"
        /\ UNCHANGED <<delivered, responses, handled, closing>>
    BY <1>0, <1>1, Zenon DEF Arrives, Net, Rests, session
  <2>2. chunk = <<>>
    BY <1>0, <2>1, Zenon DEF Numbering, NoReadBehind
  <2>3. Seen <= Seen'
    <3>1. c \in Seq(Items) /\ Len(c) \in Nat
      BY ChunksAssumption
    <3>2. Len(chunk') = Len(c) /\ received' = received + Len(c)
      BY <1>1, <3>1 DEF Arrives
    <3> QED
      BY <1>0, <2>2, <3>1, <3>2 DEF Seen, TypeOK
  <2> QED
    BY <2>1, <2>3, RestKeeps, Zenon
<1>2. CASE PeerGone \/ SomeSent \/ SendFails \/ TimerExpires
  <2>1. UNCHANGED <<delivered, responses, handled, closing, chunk, received>>
    BY <1>2, Zenon DEF PeerGone, SomeSent, SendFails, TimerExpires, session
  <2>2. Rests(net, net')
    BY <1>0, <1>2, ZenonT(40) DEF PeerGone, SomeSent, SendFails, TimerExpires, Net, Rests
  <2>3. Seen' = Seen /\ Seen \in Nat
    BY <2>1, Zenon DEF Seen, Numbering
  <2> QED
    BY <2>1, <2>2, <2>3, RestKeeps
<1>3. CASE AllSent
  <2>1. /\ Flight(net) = net.buf /\ Flight(net') = <<>> /\ net'.queue = net.queue
        /\ net'.open = net.open /\ net.wr = "flight" /\ net'.wr = "sent"
        /\ UNCHANGED <<responses, handled, closing, chunk, received>>
        /\ delivered' = IF net.buf = <<Push>> THEN delivered ELSE delivered \o net.buf
    BY <1>0, <1>3, Zenon DEF AllSent, Net, Flight, session
  <2>2. Seen' = Seen
    BY <2>1, Zenon DEF Seen
  <2>3. /\ Flow(delivered', <<>>, net.queue, responses, Seen)
        /\ Answering(delivered')
    BY <2>1, Types, SentFlow, Zenon DEF Travels
  <2>4. Drained(net')
    BY <2>1, Zenon DEF Drained
  <2>5. Travels'
    BY <2>1, <2>2, <2>3, <2>4, Zenon DEF Travels
  <2>6. Ids(delivered') = Ids(delivered) \cup Ids(net.buf) /\ Ids(<<>>) = {}
    <3>1. /\ Ids(<<>>) = {} /\ Ids(<<Push>>) = {}
          /\ Ids(delivered \o net.buf) = Ids(delivered) \cup Ids(net.buf)
      <4>1. Push \in Frame
        BY Zenon DEF Push, Frame
      <4> QED
        BY <4>1, Types, IdsFacts, Zenon
    <3> QED
      BY <2>1, <3>1, Zenon
  <2>7. Complete'
    BY <2>1, <2>6, Zenon DEF Complete
  <2> QED
    BY <2>5, <2>7, Zenon
<1> QED
  BY <1>1, <1>2, <1>3, Zenon

\* The turns of handle_data's loop: the answer is batched or written at once.
LEMMA TurnKeeps ==
  ASSUME Inv, Numbering, Travels, Complete, Numbering',
         \/ Incomplete \/ Reset \/ Auth \/ Refuse \/ Execute
         \/ Subscribe \/ BadSub \/ Unsubscribe
  PROVE  Travels' /\ Complete'
<1>0. TypeOK
  BY Zenon DEF Inv
<1>1. CASE Incomplete
  <2>1. /\ net' = net /\ chunk # <<>> /\ chunk' = Tail(chunk) /\ received' = received
        /\ UNCHANGED <<delivered, responses, handled, closing>>
    BY <1>1, Zenon DEF Incomplete
  <2>2. Seen <= Seen'
    <3>1. Seen' = Seen + 1 /\ Seen \in Nat
      BY <1>0, <2>1, TakeItem, Zenon DEF Numbering
    <3> QED
      BY <3>1
  <2>3. Rests(net, net')
    BY <2>1, Zenon DEF Rests
  <2> QED
    BY <2>1, <2>2, <2>3, RestKeeps, Zenon
<1> DEFINE id == Head(chunk).id
<1>2. CASE Reset \/ Auth \/ Refuse \/ Execute
  <2> DEFINE x == Answer(id, "batched")
  <2>1. /\ net' = net /\ chunk # <<>> /\ chunk' \in {Tail(chunk), <<>>}
        /\ UNCHANGED <<received, delivered, closing>>
        /\ responses' = Append(responses, x) /\ handled' = handled \cup {id}
    BY <1>2, Zenon DEF Reset, Auth, Refuse, Execute, Turn, Batched
  <2>2. id = Seen + 1 /\ Seen + 1 <= Seen' /\ Seen \in Nat /\ Seen' \in Nat
    <3>1. id = Seen + 1 /\ Seen \in Nat /\ Seen' \in Nat
      BY <1>0, <2>1, TakeItem, Zenon DEF Numbering
    <3>2. chunk' = Tail(chunk) => Seen' = Seen + 1
      BY <1>0, <2>1, TakeItem, Zenon
    <3>3. chunk' = <<>> => Seen + 1 <= Seen'
      BY <1>0, <2>1, TakeItem, Zenon
    <3> QED
      BY <2>1, <3>1, <3>2, <3>3
  <2>3. x \in Frame /\ x.how = "batched" /\ x.id = id
    BY <2>2 DEF Answer, Frame
  <2> HIDE DEF x, id
  <2>4. Answering(responses)
    BY Zenon DEF Travels, Answering
  <2>5. Flow(delivered, Flight(net), net.queue, responses', Seen')
    <3>1. Seen <= Seen' /\ Seen < x.id /\ x.id <= Seen'
      BY <2>2, <2>3
    <3> QED
      BY <2>1, <2>2, <2>3, <2>4, <3>1, Types, AnswerFlow, Zenon DEF Travels
  <2>6. \A i \in 1..Len(responses') : responses'[i].how = "batched"
    <3>1. responses \in Seq(Frame)
      BY Types, Zenon
    <3> QED
      BY <2>1, <2>3, <3>1 DEF Travels
  <2>7. Travels'
    BY <2>1, <2>5, <2>6, Zenon DEF Travels
  <2>8. Ids(responses') = Ids(responses) \cup {id}
    BY <2>1, <2>3, Types, IdsFacts, Zenon
  <2>9. Complete'
    BY <2>1, <2>8, Zenon DEF Complete
  <2> QED
    BY <2>7, <2>9, Zenon
<1>3. CASE Subscribe \/ BadSub \/ Unsubscribe
  <2> DEFINE x == Answer(id, "direct")
  <2>1. /\ net' = DoWrite(net, <<x>>) /\ chunk # <<>> /\ chunk' = Tail(chunk)
        /\ UNCHANGED <<received, delivered, closing, responses>>
        /\ handled' = handled \cup {id}
    BY <1>3, Zenon DEF Subscribe, BadSub, Unsubscribe, Direct, Turn
  <2>2. id = Seen + 1 /\ Seen' = Seen + 1 /\ Seen \in Nat /\ Seen' \in Nat
    BY <1>0, <2>1, TakeItem, Zenon DEF Numbering
  <2>3. x \in Frame /\ x.how = "direct" /\ x.id = id /\ <<x>> \in Seq(Frame)
    BY <2>2 DEF Answer, Frame
  <2> HIDE DEF x, id
  <2>4. Flow(delivered, Flight(net), Append(net.queue, <<x>>), responses, Seen')
    <3>1. Seen <= Seen' /\ Seen < x.id /\ x.id <= Seen' /\ x.how # "push"
      BY <2>2, <2>3
    <3>2. \A i \in 1..Len(responses) : responses[i].how # x.how
      BY <2>3, Zenon DEF Travels
    <3> QED
      BY <2>2, <2>3, <3>1, <3>2, Types, DirectFlow, Zenon DEF Travels
  <2>5. Writes(net, net', <<x>>)
    BY <2>1, <2>3, Types, DoWriteWrites, Zenon
  <2>6. /\ Travels'
        /\ net'.open /\ net'.wr # "failed" =>
               /\ net.open /\ net.wr # "failed"
               /\ Ids(Flight(net')) \cup Queued(net'.queue)
                     = (Ids(Flight(net)) \cup Queued(net.queue)) \cup Ids(<<x>>)
    BY <2>1, <2>3, <2>4, <2>5, Types, WriteKeeps, Zenon DEF Travels
  <2>7. Ids(<<x>>) = {id}
    BY <2>3, Types, IdsFacts, Zenon
  <2>8. Complete'
    BY <2>1, <2>6, <2>7, Zenon DEF Complete
  <2> QED
    BY <2>6, <2>8, Zenon
<1> QED
  BY <1>1, <1>2, <1>3, Zenon

\* The end of handle_data.
LEMMA DataEndKeeps ==
  ASSUME Inv, Numbering, Travels, Complete, Numbering', DataEnd
  PROVE  Travels' /\ Complete'
<1>1. /\ chunk = <<>> /\ responses' = <<>>
      /\ net' = IF responses = <<>> THEN DoRead(net) ELSE DoWrite(net, responses)
      /\ UNCHANGED <<chunk, closing, received, handled, delivered>>
  BY Zenon DEF DataEnd
<1>2. Seen' = Seen /\ Seen \in Nat
  BY <1>1, Zenon DEF Seen, Numbering
<1>3. CASE responses = <<>>
  <2>1. Rests(net, net')
    BY <1>1, <1>3, Types, Restful, Zenon
  <2> QED
    BY <1>1, <1>2, <1>3, <2>1, RestKeeps
<1>4. CASE responses # <<>>
  <2>1. Writes(net, net', responses)
    BY <1>1, <1>4, Types, DoWriteWrites, Zenon
  <2>2. Flow(delivered, Flight(net), Append(net.queue, responses), responses', Seen')
    BY <1>1, <1>2, Types, BatchFlow, Zenon DEF Travels
  <2>3. responses' \in Seq(Frame) /\ \A i \in 1..Len(responses') : responses'[i].how = "batched"
    BY <1>1
  <2>4. /\ Travels'
        /\ net'.open /\ net'.wr # "failed" =>
               /\ net.open /\ net.wr # "failed"
               /\ Ids(Flight(net')) \cup Queued(net'.queue)
                     = (Ids(Flight(net)) \cup Queued(net.queue)) \cup Ids(responses)
    BY <1>1, <2>1, <2>2, <2>3, Types, WriteKeeps, Zenon
  <2>5. Ids(responses') = {}
    BY <1>1 DEF Ids
  <2>6. Complete'
    BY <1>1, <2>4, <2>5, Zenon DEF Complete
  <2> QED
    BY <2>4, <2>6, Zenon
<1> QED
  BY <1>3, <1>4, Zenon

\* The read handler writes nothing, or the refusal of a request over the limit.
LEMMA ReadOutput ==
  ASSUME Inv, Numbering, ReadHandler
  PROVE  /\ UNCHANGED <<responses, received, handled, delivered>>
         /\ \/ Rests(net, net') /\ UNCHANGED <<closing, chunk>>
            \/ /\ Writes(net, net', <<Answer(received, "batched")>>)
               /\ closing' = TRUE /\ chunk' = <<>>
<1> DEFINE e == [net EXCEPT !.rd = "none", !.reading = FALSE, !.reads = @ - 1]
           n == ResetIdleTimer(e)
           x == Answer(received, "batched")
<1>0. net \in Net /\ OneOperation(net) /\ received \in Nat
  BY Types, Zenon
<1>1. /\ net.rd = "ready"
      /\ UNCHANGED <<responses, received, handled, delivered>>
      /\ \/ net' = DoWrite(n, <<x>>) /\ closing' = TRUE /\ chunk' = <<>>
         \/ net' = n /\ UNCHANGED <<closing, chunk>>
  BY Zenon DEF ReadHandler
<1>2. net.reads - 1 \in Nat /\ net.reads = 1
  BY <1>0, <1>1 DEF Net, OneOperation
<1>3. e \in Net
  BY <1>0, <1>2, Zenon DEF Net
<1>4. /\ e.rd = "none" /\ e.reading = FALSE /\ e.reads = net.reads - 1
      /\ e.writes = net.writes /\ e.wr = net.wr /\ e.writing = net.writing
      /\ e.open = net.open /\ e.buf = net.buf /\ e.queue = net.queue
      /\ e.pending = net.pending
  BY <1>0, Zenon DEF Net
<1> HIDE DEF e
<1>5. OneOperation(e)
  BY <1>0, <1>2, <1>4 DEF OneOperation
<1>6. n \in Net /\ OneOperation(n)
  BY <1>3, <1>4, <1>5, ResetIdleTimerFacts, Zenon
<1>7. /\ n.wr = net.wr /\ n.open = net.open /\ n.buf = net.buf /\ n.queue = net.queue
      /\ n.pending = net.pending
  BY <1>3, <1>4, Restful, Zenon DEF Rests
<1>8. <<x>> \in Seq(Frame)
  BY <1>0 DEF Answer, Frame
<1> HIDE DEF n, x
<1>9. net' = n => Rests(net, net')
  BY <1>7, Zenon DEF Rests
<1>10. ASSUME net' = DoWrite(n, <<x>>) PROVE Writes(net, net', <<x>>)
  <2>1. Writes(n, net', <<x>>)
    BY <1>6, <1>8, <1>10, DoWriteWrites, Zenon
  <2> QED
    BY <1>7, <2>1, Zenon DEF Writes
<1> QED
  BY <1>1, <1>9, <1>10, Zenon DEF x

\* The refusal of a request over the limit is the last answer.
LEMMA ReadHandlerKeeps ==
  ASSUME Inv, Numbering, Travels, Complete, Numbering', ReadHandler
  PROVE  Travels' /\ Complete'
<1> DEFINE x == Answer(received, "batched")
<1>1. /\ UNCHANGED <<responses, received, handled, delivered>>
      /\ \/ Rests(net, net') /\ UNCHANGED <<closing, chunk>>
         \/ Writes(net, net', <<x>>) /\ closing' = TRUE /\ chunk' = <<>>
  BY ReadOutput, Zenon
<1>2. CASE Rests(net, net') /\ UNCHANGED <<closing, chunk>>
  <2>1. Seen' = Seen /\ Seen \in Nat
    BY <1>1, <1>2, Zenon DEF Seen, Numbering
  <2> QED
    BY <1>1, <1>2, <2>1, RestKeeps
<1>3. CASE Writes(net, net', <<x>>) /\ closing' = TRUE /\ chunk' = <<>>
  <2>1. responses = <<>> /\ chunk # <<>>
    BY Zenon DEF Numbering, ReadHandler
  <2>2. Seen + 1 <= received /\ Seen' = received /\ Seen \in Nat /\ received \in Nat
    BY <1>1, <1>3, <2>1, TakeItem, Types, Zenon DEF Inv
  <2>3. x \in Frame /\ x.how = "batched" /\ x.id = received /\ <<x>> \in Seq(Frame)
    BY <2>2 DEF Answer, Frame
  <2> HIDE DEF x
  <2>4. Flow(delivered, Flight(net), Append(net.queue, <<x>>), responses, Seen')
    <3>1. Seen <= Seen' /\ Seen < x.id /\ x.id <= Seen' /\ x.how # "push"
      BY <2>2, <2>3
    <3>2. \A i \in 1..Len(responses) : responses[i].how # x.how
      BY <2>1
    <3> QED
      BY <2>2, <2>3, <3>1, <3>2, Types, DirectFlow, Zenon DEF Travels
  <2>5. Travels'
    <3>1. \A i \in 1..Len(responses') : responses'[i].how = "batched"
      BY <1>1, Zenon DEF Travels
    <3> QED
      BY <1>1, <1>3, <2>3, <2>4, <3>1, Types, WriteKeeps, Zenon
  <2>6. Complete'
    BY <1>3, Zenon DEF Complete
  <2> QED
    BY <2>5, <2>6, Zenon
<1> QED
  BY <1>1, <1>2, <1>3, Zenon

\* The write handler: the next slice takes off, or all is drained.
LEMMA WriteHandlerKeeps ==
  ASSUME Inv, Numbering, Travels, Complete, Numbering', WriteHandler
  PROVE  Travels' /\ Complete'
<1> DEFINE left == IF net.pending >= Len(net.buf) THEN net.pending - Len(net.buf) ELSE 0
           n == [net EXCEPT !.wr = "none", !.writes = @ - 1, !.buf = <<>>, !.pending = left]
           m == [n EXCEPT !.writing = FALSE]
<1>0. net \in Net /\ OneOperation(net)
  BY Types, Zenon
<1>1. /\ net' = IF n.queue # <<>> THEN FlushWriteQueue(n)
                ELSE IF closing THEN CloseSocket(m) ELSE DoRead(ResetIdleTimer(m))
      /\ UNCHANGED <<chunk, responses, closing, received, handled, delivered>>
      /\ net.wr = "sent"
  BY Zenon DEF WriteHandler, session
<1>2. /\ n.wr = "none" /\ n.buf = <<>> /\ n.queue = net.queue /\ n.open = net.open
      /\ m.wr = "none" /\ m.buf = <<>> /\ m.queue = net.queue /\ m.open = net.open
  BY <1>0, Zenon DEF Net
<1>3. n \in Net /\ m \in Net
  <2>1. net.writes - 1 \in Nat /\ left \in Nat /\ <<>> \in Seq(Frame)
    BY <1>0, <1>1 DEF Net, OneOperation
  <2> QED
    BY <1>0, <2>1, Zenon DEF Net
<1>4. Flight(net) = <<>>
  BY <1>1, Zenon DEF Flight
<1>5. Seen' = Seen /\ Seen \in Nat
  BY <1>1, Zenon DEF Seen, Numbering
<1>6. /\ Flow(delivered, Flight(net'), net'.queue, responses, Seen)
      /\ Drained(net')
      /\ net'.open => net.open /\ Ids(Flight(net')) \cup Queued(net'.queue)
                        = Ids(Flight(net)) \cup Queued(net.queue)
  <2>1. CASE net.queue # <<>> /\ net.open
    <3>1. /\ net'.wr = "flight" /\ net'.buf = Head(net.queue)
          /\ net'.queue = Tail(net.queue) /\ net'.open = net.open
      <4> HIDE DEF n, m
      <4> QED
        BY <1>1, <1>2, <1>3, <2>1, Zenon DEF FlushWriteQueue, Net
    <3>2. Flight(net') = Head(net.queue)
      BY <3>1, Zenon DEF Flight
    <3>3. Flow(delivered, Head(net.queue), Tail(net.queue), responses, Seen)
      BY <1>4, <1>5, <2>1, Types, FlushFlow, Zenon DEF Travels
    <3>4. Queued(net.queue) = Ids(Head(net.queue)) \cup Queued(Tail(net.queue))
      BY <2>1, Types, QueuedFacts, Zenon
    <3>5. Ids(<<>>) = {}
      BY DEF Ids
    <3> QED
      BY <1>4, <2>1, <3>1, <3>2, <3>3, <3>4, <3>5, Zenon DEF Drained
  <2>2. CASE net.queue # <<>> /\ ~net.open
    <3>1. net'.wr = "none" /\ net'.queue = net.queue /\ net'.open = FALSE
      <4> HIDE DEF n, m
      <4> QED
        BY <1>1, <1>2, <1>3, <2>2, Zenon DEF FlushWriteQueue, Net
    <3>2. Flight(net') = <<>>
      BY <3>1, Zenon DEF Flight
    <3> QED
      BY <1>4, <3>1, <3>2, Zenon DEF Drained, Travels
  <2>3. CASE net.queue = <<>>
    <3> HIDE DEF n, m
    <3>1. Rests(m, net') /\ net'.wr = "none"
      <4>1. /\ Rests(m, CloseSocket(m)) /\ CloseSocket(m).wr = "none"
        BY <1>2, <1>3, Restful, Zenon DEF CloseSocket, Net
      <4>2. /\ Rests(m, ResetIdleTimer(m)) /\ ResetIdleTimer(m).wr = "none"
            /\ ResetIdleTimer(m) \in Net
        BY <1>2, <1>3, Restful, ZenonT(40) DEF ResetIdleTimer, Net
      <4>3. Rests(m, DoRead(ResetIdleTimer(m))) /\ DoRead(ResetIdleTimer(m)).wr = "none"
        BY <4>2, Restful, Zenon DEF Rests
      <4> QED
        BY <1>1, <1>2, <2>3, <4>1, <4>3, Zenon
    <3>2. /\ net'.queue = <<>> /\ net'.buf = <<>> /\ Flight(net') = <<>>
          /\ net'.open => net.open
      BY <1>2, <2>3, <3>1, Zenon DEF Rests, Flight
    <3> QED
      BY <1>4, <2>3, <3>2, Zenon DEF Drained, Travels
  <2> QED
    BY <2>1, <2>2, <2>3, Zenon
<1>7. Travels'
  BY <1>1, <1>5, <1>6, Zenon DEF Travels
<1>8. Complete'
  BY <1>1, <1>6, Zenon DEF Complete
<1> QED
  BY <1>7, <1>8, Zenon

\* The handlers that end the connection.
LEMMA ErrorKeeps ==
  ASSUME Inv, Numbering, Travels, Complete, Numbering',
         ReadError \/ WriteError \/ TimerHandler
  PROVE  Travels' /\ Complete'
<1>0. net \in Net
  BY Types, Zenon
<1>1. UNCHANGED <<delivered, responses, handled, closing, chunk, received>>
  BY Zenon DEF ReadError, WriteError, TimerHandler, session
<1>2. Rests(net, net')
  BY <1>0, ZenonT(40) DEF ReadError, WriteError, TimerHandler, CloseSocket, Net, Rests
<1>3. Seen' = Seen /\ Seen \in Nat
  BY <1>1, Zenon DEF Seen, Numbering
<1> QED
  BY <1>1, <1>2, <1>3, RestKeeps

\* A pushed message goes between the answers and answers nothing.
LEMMA PushKeeps ==
  ASSUME Inv, Numbering, Travels, Complete, Numbering', PushHandler
  PROVE  Travels' /\ Complete'
<1>1. /\ net' = DoWrite(net, <<Push>>)
      /\ UNCHANGED <<chunk, responses, closing, received, handled, delivered>>
  BY Zenon DEF PushHandler, session
<1>2. Seen' = Seen /\ Seen \in Nat
  BY <1>1, Zenon DEF Seen, Numbering
<1>3. Push \in Frame /\ <<Push>> \in Seq(Frame) /\ Push.how = "push"
  BY DEF Push, Frame
<1>4. Writes(net, net', <<Push>>)
  BY <1>1, <1>3, Types, DoWriteWrites, Zenon
<1>5. Flow(delivered, Flight(net), Append(net.queue, <<Push>>), responses, Seen)
  <2>1. \A i \in 1..Len(responses) : responses[i].how # Push.how
    BY <1>3, Zenon DEF Travels
  <2>2. Seen <= Seen
    BY <1>2
  <2> QED
    BY <1>2, <1>3, <2>1, <2>2, Types, DirectFlow, Zenon DEF Travels
<1>6. /\ Travels'
      /\ net'.open /\ net'.wr # "failed" =>
             /\ net.open /\ net.wr # "failed"
             /\ Ids(Flight(net')) \cup Queued(net'.queue)
                   = (Ids(Flight(net)) \cup Queued(net.queue)) \cup Ids(<<Push>>)
  BY <1>1, <1>2, <1>3, <1>4, <1>5, Types, WriteKeeps, Zenon DEF Travels
<1>7. Ids(<<Push>>) = {}
  BY <1>3, Types, IdsFacts, Zenon
<1>8. Complete'
  BY <1>1, <1>6, <1>7, Zenon DEF Complete
<1> QED
  BY <1>6, <1>8, Zenon

Answered == Numbering /\ Travels /\ Complete

\* start() has answered nothing.
LEMMA InitAnswered == Init => Answered
<1> SUFFICES ASSUME Init PROVE Answered
  BY Zenon
<1>1. /\ chunk = <<>> /\ mode = "loop" /\ responses = <<>> /\ received = 0
      /\ handled = {} /\ delivered = <<>> /\ net = DoRead(ResetIdleTimer(Fresh))
  BY Zenon DEF Init
<1>2. Fresh \in Net
  BY SMTT(30) DEF Fresh, Net
<1>3. /\ Rests(Fresh, net) /\ net.wr = "none" /\ net.rd # "ready"
  <2>1. /\ ResetIdleTimer(Fresh) \in Net /\ Rests(Fresh, ResetIdleTimer(Fresh))
        /\ ResetIdleTimer(Fresh).wr = "none" /\ ResetIdleTimer(Fresh).rd = "none"
    BY <1>2, Restful, Zenon DEF ResetIdleTimer, Fresh, Net
  <2> QED
    BY <1>1, <2>1, Restful, Zenon DEF Rests
<1>4. net.buf = <<>> /\ net.queue = <<>> /\ Flight(net) = <<>>
  BY <1>3, Zenon DEF Rests, Fresh, Flight
<1>5. Seen = 0
  <2>1. Len(chunk) = 0
    BY <1>1, Zenon
  <2>2. received = 0
    BY <1>1, Zenon
  <2> QED
    BY <2>1, <2>2, SMT DEF Seen
<1>6. Flow(<<>>, <<>>, <<>>, <<>>, 0) /\ Answering(<<>>)
  BY SMTT(30) DEF Flow, Slice, Ordered, UpTo, Answering, Precedes
<1>7. Ids(<<>>) = {} /\ Queued(<<>>) = {}
  BY DEF Ids, Queued
<1>8. Numbering
  BY <1>1, <1>3, <1>5 DEF Numbering
<1>9. Travels
  BY <1>1, <1>4, <1>5, <1>6 DEF Travels, Drained
<1>10. Complete
  BY <1>1, <1>4, <1>7, Zenon DEF Complete
<1> QED
  BY <1>8, <1>9, <1>10, Zenon DEF Answered

\* Every step keeps the answers in order and loses none while the connection lasts.
LEMMA NextAnswered == Inv /\ Answered /\ [Next]_vars => Answered'
<1> SUFFICES ASSUME Inv, Answered, [Next]_vars PROVE Answered'
  BY Zenon
<1>0. Numbering /\ Travels /\ Complete /\ Numbering'
  BY NextNumbering, Zenon DEF Answered
<1>1. CASE \/ \E c \in Chunks : Arrives(c)
           \/ PeerGone \/ SomeSent \/ AllSent \/ SendFails \/ TimerExpires
  BY <1>0, <1>1, EnvironmentKeeps, Zenon DEF Answered
<1>2. CASE ReadHandler
  BY <1>0, <1>2, ReadHandlerKeeps, Zenon DEF Answered
<1>3. CASE \/ Incomplete \/ Reset \/ Auth \/ Refuse \/ Execute
           \/ Subscribe \/ BadSub \/ Unsubscribe
  BY <1>0, <1>3, TurnKeeps, Zenon DEF Answered
<1>4. CASE DataEnd
  BY <1>0, <1>4, DataEndKeeps, Zenon DEF Answered
<1>5. CASE WriteHandler
  BY <1>0, <1>5, WriteHandlerKeeps, Zenon DEF Answered
<1>6. CASE ReadError \/ WriteError \/ TimerHandler
  BY <1>0, <1>6, ErrorKeeps, Zenon DEF Answered
<1>7. CASE PushHandler
  BY <1>0, <1>7, PushKeeps, Zenon DEF Answered
<1>8. CASE Publish \/ Over \/ UNCHANGED vars
  <2>1. UNCHANGED <<net, chunk, responses, closing, received, handled, delivered>>
    BY <1>8, Zenon DEF Publish, Over, vars, session
  <2> QED
    BY <1>0, <2>1, Zenon DEF Answered, Travels, Complete, Seen
<1> QED
  BY <1>1, <1>2, <1>3, <1>4, <1>5, <1>6, <1>7, <1>8, Zenon DEF Next, Loop

\* The answers to pipelined commands reach the socket in the order of the commands,
\* each once, and so do the answers of SUBSCRIBE and UNSUBSCRIBE, for any chunks,
\* limits and pushes (connection.cpp:184-195, 277-333).
THEOREM OrderKept == Spec => []AnswersInOrder
<1>1. Answered => AnswersInOrder
  BY Zenon DEF Answered, Travels, Flow, Slice, Ordered, AnswersInOrder
<1> QED
  BY <1>1, InitAnswered, NextAnswered, Invariance, PTL DEF Spec

\* When an open connection has nothing left to write and waits for the client, every
\* command that handle_data has taken up has been answered: no path through the
\* queue, the limit and the pushes loses an answer (connection.cpp:145-197, 277-333).
THEOREM NoneForgotten == Spec => []AllAnswered
<1>1. Inv /\ Answered => AllAnswered
  <2> SUFFICES ASSUME Inv, Answered, mode = "loop", net.open, net.rd = "wait",
                      net.wr = "none"
               PROVE  {delivered[i].id : i \in 1..Len(delivered)} = handled
    BY Zenon DEF AllAnswered
  <2>1. Numbering /\ Travels /\ Complete
    BY Zenon DEF Answered
  <2>2. ~closing
    BY Zenon DEF Inv, NoReadBehind
  <2>3. responses = <<>> /\ net.queue = <<>> /\ Flight(net) = <<>>
    BY <2>1, Zenon DEF Numbering, Travels, Drained, Flight
  <2>4. Ids(<<>>) = {} /\ Queued(<<>>) = {}
    BY DEF Ids, Queued
  <2>5. Ids(delivered) = handled
    BY <2>1, <2>2, <2>3, <2>4, Zenon DEF Complete
  <2>6. Ids(delivered) = {delivered[i].id : i \in 1..Len(delivered)}
    BY <2>1, Zenon DEF Ids, Travels, Answering
  <2> QED
    BY <2>5, <2>6, Zenon
<1> QED
  BY <1>1, InitAnswered, NextAnswered, Invariance, PTL DEF Spec

(***************************************************************************)
(* The frames of a queue, counted.                                        *)
(***************************************************************************)

\* The counts of a queue's first slices, of which Total is the last.
Sums(f, q) ==
    /\ f \in [0..Len(q) -> Nat]
    /\ f[0] = 0
    /\ \A i \in 1..Len(q) : f[i] = f[i - 1] + Len(q[i])

\* What the recursive function of Total is.
Counts(f, q) ==
    f = [i \in 0..Len(q) |-> IF i = 0 THEN 0 ELSE f[i - 1] + Len(q[i])]

\* A queue of slices has such counts.
LEMMA CountsExist ==
  ASSUME NEW q \in Seq(Seq(Frame))
  PROVE  \E f : Counts(f, q)
<1> DEFINE n == Len(q)
           step == [p \in Nat \X (1..n) |-> p[1] + Len(q[p[2]])]
<1>1. n \in Nat /\ \A i \in 1..n : Len(q[i]) \in Nat
  OBVIOUS
<1>2. step \in [Nat \X (1..n) -> Nat]
  BY <1>1
<1>3. PICK f : Steps(f, n, Nat, 0, step)
  <2>1. n \in Nat /\ 0 \in Nat
    BY <1>1, Zenon
  <2> HIDE DEF step, n
  <2> QED
    BY <1>2, <2>1, Recursion, Zenon
<1>4. ASSUME NEW i \in 1..n PROVE f[i] = f[i - 1] + Len(q[i])
  <2>1. f[i - 1] \in Nat
    <3>1. i - 1 \in 0..n
      BY <1>1
    <3> HIDE DEF n
    <3> QED
      BY <1>3, <3>1, Zenon DEF Steps
  <2>2. step[<<f[i - 1], i>>] = f[i - 1] + Len(q[i])
    BY <2>1, Zenon
  <2> HIDE DEF step, n
  <2> QED
    BY <1>3, <2>2, Zenon DEF Steps
<1> HIDE DEF step
<1>5. f = [i \in 0..n |-> IF i = 0 THEN 0 ELSE f[i - 1] + Len(q[i])]
  <2>1. f \in [0..n -> Nat] /\ f[0] = 0
    BY <1>3, Zenon DEF Steps
  <2> QED
    BY <1>1, <1>4, <2>1
<1> QED
  BY <1>5, Zenon DEF Counts

\* They are numbers, each the one before and the slice's length.
LEMMA CountsSum ==
  ASSUME NEW q \in Seq(Seq(Frame)), NEW f, Counts(f, q)
  PROVE  Sums(f, q)
<1> DEFINE n == Len(q)
           g == [i \in 0..n |-> IF i = 0 THEN 0 ELSE f[i - 1] + Len(q[i])]
           T == {m \in Nat : m \in 0..n => f[m] \in Nat}
<1>1. n \in Nat /\ \A i \in 1..n : Len(q[i]) \in Nat
  OBVIOUS
<1>2. f = g
  BY Zenon DEF Counts
<1>3. /\ DOMAIN g = 0..n /\ g[0] = 0 /\ g = [i \in 0..n |-> g[i]]
      /\ \A i \in 1..n : g[i] = f[i - 1] + Len(q[i])
  BY <1>1
<1> HIDE DEF g
<1>4. 0 \in T
  BY <1>2, <1>3
<1>5. ASSUME NEW m \in T PROVE m + 1 \in T
  <2> SUFFICES ASSUME m + 1 \in 0..n PROVE f[m + 1] \in Nat
    OBVIOUS
  <2>1. m \in Nat /\ f[m] \in Nat /\ m + 1 \in 1..n /\ (m + 1) - 1 = m
    BY <1>1
  <2> HIDE DEF T
  <2>2. f[m + 1] = f[m] + Len(q[m + 1])
    BY <1>2, <1>3, <2>1, Zenon
  <2> QED
    BY <1>1, <2>1, <2>2
<1>6. T = Nat
  <2>1. T \subseteq Nat
    BY Zenon
  <2> HIDE DEF T
  <2> QED
    BY <1>4, <1>5, <2>1, Induct, Zenon
<1>7. \A m \in 0..n : f[m] \in Nat
  BY <1>1, <1>6
<1>8. f \in [0..n -> Nat]
  BY <1>2, <1>3, <1>7, Zenon
<1> QED
  BY <1>2, <1>3, <1>8, Zenon DEF Sums

\* Total is the last count.
LEMMA TotalSum ==
  ASSUME NEW q \in Seq(Seq(Frame))
  PROVE  \E f : Sums(f, q) /\ Total(q) = f[Len(q)]
<1> DEFINE c == CHOOSE f : Counts(f, q)
<1>1. Counts(c, q)
  BY CountsExist, Zenon
<1>2. Total(q) = c[Len(q)]
  BY Zenon DEF Total, Counts
<1> HIDE DEF c
<1> QED
  BY <1>1, <1>2, CountsSum, Zenon

\* Of no slices.
LEMMA TotalEmpty == Total(<<>>) = 0
<1>1. <<>> \in Seq(Seq(Frame)) /\ Len(<<>>) = 0
  OBVIOUS
<1> QED
  BY <1>1, TotalSum, Zenon DEF Sums

\* A slice more at the end.
LEMMA TotalAppend ==
  ASSUME NEW q \in Seq(Seq(Frame)), NEW s \in Seq(Frame)
  PROVE  Total(q) \in Nat /\ Total(Append(q, s)) = Total(q) + Len(s)
<1> DEFINE w == Append(q, s)
           n == Len(q)
<1>1. /\ w \in Seq(Seq(Frame)) /\ n \in Nat /\ Len(w) = n + 1
      /\ w[n + 1] = s /\ \A i \in 1..n : w[i] = q[i]
  OBVIOUS
<1> HIDE DEF w
<1>2. PICK f : Sums(f, q) /\ Total(q) = f[n]
  BY TotalSum, Zenon
<1>3. PICK g : Sums(g, w) /\ Total(w) = g[n + 1]
  BY <1>1, TotalSum, Zenon
<1>4. /\ f[0] = 0 /\ \A i \in 1..n : f[i] = f[i - 1] + Len(q[i])
      /\ \A i \in 0..n : f[i] \in Nat
  BY <1>2, Zenon DEF Sums
<1>5. /\ g[0] = 0 /\ \A i \in 1..n + 1 : g[i] = g[i - 1] + Len(w[i])
  BY <1>1, <1>3, Zenon DEF Sums
<1> HIDE DEF n
<1> DEFINE T == {m \in Nat : m \in 0..n => g[m] = f[m]}
<1>6. 0 \in T
  BY <1>4, <1>5, Zenon
<1>7. ASSUME NEW m \in T PROVE m + 1 \in T
  <2> SUFFICES ASSUME m + 1 \in 0..n PROVE g[m + 1] = f[m + 1]
    OBVIOUS
  <2>1. g[m] = f[m] /\ m + 1 \in 1..n /\ m + 1 \in 1..n + 1 /\ (m + 1) - 1 = m
    BY <1>1
  <2> HIDE DEF T
  <2> QED
    BY <1>1, <1>4, <1>5, <2>1, Zenon
<1>8. T = Nat
  <2>1. T \subseteq Nat
    BY Zenon
  <2> HIDE DEF T
  <2> QED
    BY <1>6, <1>7, <2>1, Induct, Zenon
<1>9. g[n] = f[n] /\ f[n] \in Nat
  <2>1. n \in T /\ n \in 0..n
    <3> HIDE DEF T
    <3> QED
      BY <1>1, <1>8
  <2> QED
    BY <1>4, <2>1, Zenon
<1>10. g[n + 1] = g[n] + Len(s)
  <2>1. n + 1 \in 1..n + 1 /\ (n + 1) - 1 = n
    BY <1>1
  <2> QED
    BY <1>1, <1>5, <2>1, Zenon
<1> QED
  BY <1>2, <1>3, <1>9, <1>10, Zenon DEF w

\* The first slice and the rest.
LEMMA TotalTail ==
  ASSUME NEW q \in Seq(Seq(Frame)), q # <<>>
  PROVE  Total(q) = Len(Head(q)) + Total(Tail(q))
<1> DEFINE w == Tail(q)
           n == Len(w)
           h == Len(Head(q))
<1>1. /\ w \in Seq(Seq(Frame)) /\ n \in Nat /\ Len(q) = n + 1 /\ h \in Nat
      /\ Len(q[1]) = h /\ \A i \in 1..n : q[i + 1] = w[i]
  OBVIOUS
<1> HIDE DEF w, h
<1>2. PICK f : Sums(f, w) /\ Total(w) = f[n]
  BY <1>1, TotalSum, Zenon
<1>3. PICK g : Sums(g, q) /\ Total(q) = g[n + 1]
  BY <1>1, TotalSum, Zenon
<1>4. /\ f[0] = 0 /\ \A i \in 1..n : f[i] = f[i - 1] + Len(w[i])
      /\ \A i \in 0..n : f[i] \in Nat
  BY <1>2, Zenon DEF Sums
<1>5. /\ g[0] = 0 /\ \A i \in 1..n + 1 : g[i] = g[i - 1] + Len(q[i])
  BY <1>1, <1>3, Zenon DEF Sums
<1>11. \A i \in 1..n : Len(w[i]) \in Nat
  <2>1. \A u \in Seq(Seq(Frame)) : \A i \in 1..Len(u) : Len(u[i]) \in Nat
    OBVIOUS
  <2> QED
    BY <1>1, <2>1, Zenon
<1> HIDE DEF n
<1> DEFINE T == {m \in Nat : m \in 0..n => g[m + 1] = h + f[m]}
<1>6. 0 \in T
  <2>1. 1 \in 1..n + 1 /\ 1 - 1 = 0
    BY <1>1
  <2>2. g[1] = 0 + h
    BY <1>1, <1>5, <2>1, Zenon
  <2> QED
    BY <1>1, <1>4, <2>2
<1>7. ASSUME NEW m \in T PROVE m + 1 \in T
  <2> DEFINE k == m + 1
  <2> SUFFICES ASSUME k \in 0..n PROVE g[k + 1] = h + f[k]
    OBVIOUS
  <2>1. /\ g[k] = h + f[m] /\ k \in 1..n /\ k + 1 \in 1..n + 1
        /\ k - 1 = m /\ (k + 1) - 1 = k /\ m \in 0..n
    BY <1>1
  <2> HIDE DEF T, k
  <2>2. g[k + 1] = g[k] + Len(q[k + 1]) /\ f[k] = f[m] + Len(w[k])
    BY <1>4, <1>5, <2>1, Zenon
  <2>3. Len(q[k + 1]) = Len(w[k]) /\ Len(w[k]) \in Nat /\ f[m] \in Nat
    BY <1>1, <1>4, <1>11, <2>1, Zenon
  <2>4. (h + f[m]) + Len(w[k]) = h + (f[m] + Len(w[k]))
    <3>1. \A x, y, z \in Nat : (x + y) + z = x + (y + z)
      OBVIOUS
    <3> QED
      BY <1>1, <2>3, <3>1, Zenon
  <2>5. g[k + 1] = (h + f[m]) + Len(w[k])
    BY <2>1, <2>2, <2>3, Zenon
  <2> QED
    BY <2>2, <2>4, <2>5, Zenon
<1>8. T = Nat
  <2>1. T \subseteq Nat
    BY Zenon
  <2> HIDE DEF T
  <2> QED
    BY <1>6, <1>7, <2>1, Induct, Zenon
<1>9. g[n + 1] = h + f[n]
  <2>1. n \in T /\ n \in 0..n
    <3> HIDE DEF T
    <3> QED
      BY <1>1, <1>8
  <2> QED
    BY <2>1, Zenon
<1> QED
  BY <1>2, <1>3, <1>9, Zenon DEF w, h

(***************************************************************************)
(* The count of pending output is the frames in write_buf_ and queued.    *)
(***************************************************************************)
Exact(n) == n.open => n.pending = Len(n.buf) + Total(n.queue)

\* A write counts the frames it takes.
LEMMA WritesExact ==
  ASSUME NEW n \in Net, NEW k, NEW frames \in Seq(Frame), Writes(n, k, frames),
         Drained(n), Exact(n)
  PROVE  Exact(k)
<1> DEFINE more == Append(n.queue, frames)
           f == Len(frames)
           b == Len(n.buf)
           t == Total(n.queue)
<1>0. n.buf \in Seq(Frame) /\ n.queue \in Seq(Seq(Frame)) /\ n.pending \in Nat
  BY Zenon DEF Net
<1>1. /\ f \in Nat /\ b \in Nat /\ t \in Nat /\ Total(more) = t + f
      /\ more \in Seq(Seq(Frame)) /\ more # <<>>
  <2>1. f \in Nat /\ b \in Nat
    BY <1>0
  <2>2. t \in Nat /\ Total(more) = t + f
    BY <1>0, TotalAppend, Zenon
  <2>3. more \in Seq(Seq(Frame)) /\ more # <<>>
    BY <1>0, QueueType, Zenon
  <2> QED
    BY <2>1, <2>2, <2>3, Zenon
<1>2. n.open => n.pending = b + t
  BY Zenon DEF Exact
<1>3. CASE ~k.open
  BY <1>3, Zenon DEF Exact
<1>4. CASE /\ k.open /\ n.open /\ k.pending = n.pending + f /\ k.buf = n.buf
           /\ k.queue = more
  <2>1. Len(k.buf) = b /\ Total(k.queue) = t + f /\ k.pending = (b + t) + f
    BY <1>1, <1>2, <1>4, Zenon
  <2> HIDE DEF f, b, t
  <2> QED
    BY <1>1, <2>1 DEF Exact
<1>5. CASE /\ k.open /\ n.open /\ k.pending = n.pending + f /\ n.wr = "none"
           /\ k.buf = Head(more) /\ k.queue = Tail(more)
  <2>1. b = 0
    BY <1>5 DEF Drained
  <2>2. Total(more) = Len(Head(more)) + Total(Tail(more))
    BY <1>1, TotalTail, Zenon
  <2>3. Len(k.buf) + Total(k.queue) = t + f /\ k.pending = (b + t) + f
    BY <1>1, <1>2, <1>5, <2>2, Zenon
  <2> HIDE DEF f, b, t
  <2> QED
    BY <1>1, <2>1, <2>3 DEF Exact
<1> QED
  BY <1>3, <1>4, <1>5, Zenon DEF Writes

\* Nothing is written: the count stands.
LEMMA RestsExact ==
  ASSUME NEW n, NEW k, Exact(n), k.open => n.open,
         k.buf = n.buf, k.queue = n.queue, k.pending = n.pending
  PROVE  Exact(k)
  BY Zenon DEF Exact

\* The write handler takes off what has been sent; its clamp at 0 never acts.
LEMMA WriteHandlerExact ==
  ASSUME Inv, Numbering, Exact(net), WriteHandler
  PROVE  Exact(net')
<1> DEFINE left == IF net.pending >= Len(net.buf) THEN net.pending - Len(net.buf) ELSE 0
           n == [net EXCEPT !.wr = "none", !.writes = @ - 1, !.buf = <<>>, !.pending = left]
           m == [n EXCEPT !.writing = FALSE]
           b == Len(net.buf)
           t == Total(net.queue)
<1>0. net \in Net /\ net.buf \in Seq(Frame) /\ net.queue \in Seq(Seq(Frame))
  BY Types, Zenon
<1>1. /\ net' = IF n.queue # <<>> THEN FlushWriteQueue(n)
                ELSE IF closing THEN CloseSocket(m) ELSE DoRead(ResetIdleTimer(m))
      /\ net.wr = "sent"
  BY Zenon DEF WriteHandler
<1>2. /\ n.buf = <<>> /\ n.queue = net.queue /\ n.open = net.open /\ n.pending = left
      /\ m.buf = <<>> /\ m.queue = net.queue /\ m.open = net.open /\ m.pending = left
  BY <1>0, Zenon DEF Net
<1>3. n \in Net /\ m \in Net
  <2>1. net.writes - 1 \in Nat /\ left \in Nat /\ <<>> \in Seq(Frame)
    <3>1. net.writes = 1 /\ net.pending \in Nat
      BY <1>0, <1>1, Types, Zenon DEF Net, OneOperation
    <3>2. Len(net.buf) \in Nat /\ <<>> \in Seq(Frame)
      BY <1>0
    <3> QED
      BY <3>1, <3>2
  <2> QED
    BY <1>0, <2>1, Zenon DEF Net
<1>4. b \in Nat /\ t \in Nat
  <2>1. <<>> \in Seq(Frame)
    OBVIOUS
  <2> QED
    BY <1>0, <2>1, TotalAppend
<1>5. net.open => left = t
  <2>1. net.open => net.pending = b + t
    BY Zenon DEF Exact
  <2>2. left = IF net.pending >= b THEN net.pending - b ELSE 0
    BY Zenon
  <2> HIDE DEF left, b, t
  <2> QED
    BY <1>4, <2>1, <2>2
<1> HIDE DEF n, m, left
<1>6. CASE net.queue # <<>> /\ net.open
  <2>1. /\ net'.buf = Head(net.queue) /\ net'.queue = Tail(net.queue)
        /\ net'.pending = left
    BY <1>1, <1>2, <1>3, <1>6, Zenon DEF FlushWriteQueue, Net
  <2>2. t = Len(Head(net.queue)) + Total(Tail(net.queue))
    BY <1>0, <1>6, TotalTail, Zenon
  <2> QED
    BY <1>5, <1>6, <2>1, <2>2, Zenon DEF Exact
<1>7. CASE net.queue # <<>> /\ ~net.open
  <2>1. ~net'.open
    BY <1>1, <1>2, <1>3, <1>7, Zenon DEF FlushWriteQueue, Net
  <2> QED
    BY <2>1, Zenon DEF Exact
<1>8. CASE net.queue = <<>>
  <2>1. Exact(m)
    <3>1. Len(<<>>) = 0 /\ t = 0
      BY <1>8, TotalEmpty, Zenon
    <3> QED
      BY <1>2, <1>5, <1>8, <3>1 DEF Exact
  <2> DEFINE r == ResetIdleTimer(m)
  <2>2. /\ Rests(m, CloseSocket(m)) /\ Rests(m, r) /\ r \in Net
    <3>1. r \in Net
      BY <1>3, TimerType, Zenon
    <3> QED
      BY <1>3, <3>1, Restful, Zenon
  <2> HIDE DEF r
  <2>3. Rests(r, DoRead(r))
    BY <2>2, Restful, Zenon
  <2>4. net' = CloseSocket(m) \/ net' = DoRead(r)
    BY <1>1, <1>2, <1>8, Zenon DEF r
  <2>5. Exact(r)
    BY <2>1, <2>2, RestsExact, Zenon DEF Rests
  <2> QED
    BY <2>1, <2>2, <2>3, <2>4, <2>5, RestsExact, Zenon DEF Rests
<1> QED
  BY <1>6, <1>7, <1>8, Zenon

\* start() has nothing pending.
LEMMA InitExact == Init => Exact(net)
<1> SUFFICES ASSUME Init PROVE Exact(net)
  BY Zenon
<1> DEFINE r == ResetIdleTimer(Fresh)
<1>1. Fresh \in Net
  BY SMTT(30) DEF Fresh, Net
<1>2. Exact(Fresh)
  <2>1. Len(<<>>) = 0 /\ Total(<<>>) = 0
    BY TotalEmpty, Zenon
  <2>2. Fresh.pending = 0 /\ Fresh.buf = <<>> /\ Fresh.queue = <<>>
    BY Zenon DEF Fresh
  <2> QED
    BY <2>1, <2>2 DEF Exact
<1>3. r \in Net
  BY <1>1, TimerType, Zenon
<1>4. Rests(Fresh, r)
  BY <1>1, Restful, Zenon
<1> HIDE DEF r
<1>5. Rests(r, DoRead(r))
  BY <1>3, Restful, Zenon
<1>6. net = DoRead(r)
  BY Zenon DEF Init, r
<1>7. Exact(r)
  BY <1>2, <1>4, RestsExact, Zenon DEF Rests
<1> QED
  BY <1>5, <1>6, <1>7, RestsExact, Zenon DEF Rests

\* Every step keeps the count.
LEMMA NextExact == Inv /\ Answered /\ Exact(net) /\ [Next]_vars => Exact(net')
<1> SUFFICES ASSUME Inv, Answered, Exact(net), [Next]_vars PROVE Exact(net')
  BY Zenon
<1>0. Numbering /\ Drained(net) /\ net \in Net /\ OneOperation(net) /\ received \in Nat
  BY Types, Zenon DEF Answered, Travels
<1>1. ASSUME NEW frames \in Seq(Frame), net' = DoWrite(net, frames) PROVE Exact(net')
  BY <1>0, <1>1, DoWriteWrites, WritesExact, Zenon
<1>2. ASSUME Rests(net, net') PROVE Exact(net')
  BY <1>2, RestsExact, Zenon DEF Rests
<1>3. CASE \/ \E c \in Chunks : Arrives(c)
           \/ PeerGone \/ SomeSent \/ AllSent \/ SendFails \/ TimerExpires
  <2>1. /\ net'.buf = net.buf /\ net'.queue = net.queue /\ net'.pending = net.pending
        /\ net'.open = net.open
    BY <1>0, <1>3, Zenon DEF Arrives, PeerGone, SomeSent, AllSent, SendFails, TimerExpires, Net
  <2> QED
    BY <2>1, RestsExact, Zenon
<1>4. CASE ReadHandler
  <2> DEFINE x == Answer(received, "batched")
  <2>1. Rests(net, net') \/ Writes(net, net', <<x>>)
    BY <1>0, <1>4, ReadOutput, Zenon
  <2>2. <<x>> \in Seq(Frame)
    BY <1>0 DEF Answer, Frame
  <2> HIDE DEF x
  <2>3. Writes(net, net', <<x>>) => Exact(net')
    BY <1>0, <2>2, WritesExact, Zenon
  <2> QED
    BY <1>2, <2>1, <2>3, Zenon
<1>5. CASE Incomplete \/ Reset \/ Auth \/ Refuse \/ Execute
  BY <1>5, Zenon DEF Incomplete, Reset, Auth, Refuse, Execute
<1>6. CASE Subscribe \/ BadSub \/ Unsubscribe
  <2> DEFINE x == Answer(Head(chunk).id, "direct")
  <2>1. net' = DoWrite(net, <<x>>) /\ chunk # <<>>
    BY <1>6, Zenon DEF Subscribe, BadSub, Unsubscribe, Direct, Turn
  <2>2. Head(chunk).id \in Nat
    <3>1. TypeOK
      BY Zenon DEF Inv
    <3>2. Head(chunk).id = Seen + 1 /\ Seen \in Nat
      BY <1>0, <2>1, <3>1, TakeItem DEF Numbering
    <3> QED
      BY <3>2
  <2>3. <<x>> \in Seq(Frame)
    BY <2>2 DEF Answer, Frame
  <2> HIDE DEF x
  <2> QED
    BY <1>1, <2>1, <2>3, Zenon
<1>7. CASE DataEnd
  <2>1. net' = DoRead(net) \/ net' = DoWrite(net, responses)
    BY <1>7, Zenon DEF DataEnd
  <2>2. responses \in Seq(Frame) /\ Rests(net, DoRead(net))
    BY <1>0, Types, Restful, Zenon
  <2> QED
    BY <1>1, <1>2, <2>1, <2>2, Zenon
<1>8. CASE WriteHandler
  BY <1>0, <1>8, WriteHandlerExact, Zenon
<1>9. CASE ReadError \/ WriteError \/ TimerHandler
  <2>1. Rests(net, net')
    BY <1>0, <1>9, ZenonT(40) DEF ReadError, WriteError, TimerHandler, CloseSocket, Net, Rests
  <2> QED
    BY <1>2, <2>1, Zenon
<1>10. CASE PushHandler
  <2>1. net' = DoWrite(net, <<Push>>)
    BY <1>10, Zenon DEF PushHandler
  <2>2. <<Push>> \in Seq(Frame)
    BY DEF Push, Frame
  <2> QED
    BY <1>1, <2>1, <2>2, Zenon
<1>11. CASE Publish \/ Over \/ UNCHANGED vars
  BY <1>11, Zenon DEF Publish, Over, vars
<1> QED
  BY <1>3, <1>4, <1>5, <1>6, <1>7, <1>8, <1>9, <1>10, <1>11, Zenon DEF Next, Loop

\* While the connection is open pending_output_bytes_ is exactly what is in
\* write_buf_ and in write_queue_, and never over the limit: no order of writes,
\* pushes and completions lets the count drift, so the limit that closes a slow
\* client is neither missed nor met early (connection.cpp:277-333).
THEOREM CountExact == Spec => []PendingExact
<1>1. Inv /\ Exact(net) => PendingExact
  BY Zenon DEF Inv, Exact, PendingExact
<1>2. Inv /\ Answered /\ Exact(net) /\ [Next]_vars => Exact(net)'
  BY NextExact, Zenon
<1> QED
  BY <1>1, <1>2, InitExact, InitAnswered, NextAnswered, Invariance, PTL DEF Spec
=============================================================================
