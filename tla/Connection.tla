----------------------------- MODULE Connection -----------------------------
(***************************************************************************)
(* One client connection (server/connection.cpp).                         *)
(*                                                                         *)
(* All handlers of a connection run on the one thread of the io_context:  *)
(* the completion of the outstanding read, of the outstanding write, of   *)
(* the idle timer, and do_write posted by push_message.  Which of the     *)
(* ready ones runs next is open, and the peer, the kernel and the timer   *)
(* move while a handler runs.  handle_data is one handler; its loop over  *)
(* the pipelined commands is one step per command here, and no other      *)
(* handler runs before it ends.                                           *)
(***************************************************************************)
EXTENDS Integers, Sequences, FiniteSets

CONSTANTS
    Chunks,         \* what one read may bring: sequences of items
    RequirePass,    \* requirepass_ is not empty
    IdleTimeout,    \* idle_timeout_ is not 0
    MaxRequest,     \* max_request_bytes_; every item counts one
    MaxPending,     \* max_pending_write_bytes_; every frame counts one
    MaxCommands,    \* bound on the items a client sends
    MaxPosted       \* bound on the pushes posted and not yet run

ASSUME FlagsAssumption == RequirePass \in BOOLEAN /\ IdleTimeout \in BOOLEAN
ASSUME LimitsAssumption ==
    /\ MaxRequest \in Nat /\ MaxPending \in Nat
    /\ MaxCommands \in Nat /\ MaxPosted \in Nat

\* "part" is a piece of a command whose end has not been read yet; "bad" is a
\* value that is no command, "garbage" one the parser throws on; "throw" is a
\* command whose handler throws.
Items == {"part", "bad", "garbage", "auth", "badauth", "sub", "badsub",
          "unsub", "cmd", "throw"}

ASSUME ChunksAssumption == Chunks \subseteq Seq(Items) \ {<<>>}

(***************************************************************************)
(* A frame on its way to the client: the answer to the client's id-th     *)
(* item, written by its own do_write ("direct") or together with the      *)
(* other answers of the chunk ("batched"), or a pushed message.           *)
(***************************************************************************)
Answer(id, how) == [id |-> id, how |-> how]
Push  == [id |-> 0, how |-> "push"]
Frame == [id : Nat, how : {"direct", "batched", "push"}]

VARIABLES
    net,         \* the socket, its outstanding operations and buffers
    chunk,       \* the items of the current read still to be handled
    mode,        \* "loop", or "data" while handle_data runs
    responses,   \* handle_data's local: the batched answers
    buffered,    \* parser_.buffered_size()
    authed,      \* authenticated_
    closing,     \* close_after_write_
    subscribed,  \* the broker holds a write_fn of this connection
    posted,      \* do_write calls posted by push_message
    received,    \* history: items the client has sent
    handled,     \* history: items the loop of handle_data has answered
    delivered    \* history: answers that have reached the socket

vars == <<net, chunk, mode, responses, buffered, authed, closing, subscribed,
          posted, received, handled, delivered>>

\* reads and writes count the outstanding asynchronous operations; reading and
\* writing are the flags read_in_progress_ and write_in_progress_.
Net == [open : BOOLEAN,
        reads : Nat, reading : BOOLEAN, rd : {"none", "wait", "ready", "failed"},
        writes : Nat, writing : BOOLEAN, wr : {"none", "flight", "sent", "failed"},
        buf : Seq(Frame), queue : Seq(Seq(Frame)), pending : Nat,
        armed : BOOLEAN, fired : BOOLEAN, moved : BOOLEAN, early : BOOLEAN]

Numbered == [kind : Items, id : Nat]

TypeOK ==
    /\ net \in Net
    /\ chunk \in Seq(Numbered)
    /\ mode \in {"loop", "data"}
    /\ responses \in Seq(Frame)
    /\ buffered \in Nat
    /\ authed \in BOOLEAN
    /\ closing \in BOOLEAN
    /\ subscribed \in BOOLEAN
    /\ posted \in Nat
    /\ received \in Nat
    /\ handled \in SUBSET Nat
    /\ delivered \in Seq(Frame)

(***************************************************************************)
(* The private members that handlers call, as functions of net.           *)
(***************************************************************************)

\* The kernel completes what was outstanding with operation_aborted; what has
\* completed already keeps its result, an expired timer included.
CloseSocketLeavesRead(n) ==
    [n EXCEPT !.open = FALSE,
              !.wr = IF @ = "flight" THEN "failed" ELSE @,
              !.armed = FALSE]
CloseSocket(n) ==
    [n EXCEPT !.open = FALSE,
              !.rd = IF @ = "wait" THEN "failed" ELSE @,
              !.wr = IF @ = "flight" THEN "failed" ELSE @,
              !.armed = FALSE]

DoRead(n) ==
    IF n.reading \/ ~n.open THEN n
    ELSE [n EXCEPT !.reading = TRUE, !.reads = @ + 1, !.rd = "wait"]

\* expires_after cancels a pending wait, but not a handler already queued.
ResetIdleTimer(n) ==
    IF ~IdleTimeout \/ ~n.open THEN n
    ELSE [n EXCEPT !.armed = TRUE, !.moved = FALSE]

FlushWriteQueue(n) ==
    IF n.queue = <<>> \/ ~n.open THEN [n EXCEPT !.writing = FALSE]
    ELSE [n EXCEPT !.writing = TRUE, !.writes = @ + 1, !.wr = "flight",
                   !.buf = Head(n.queue), !.queue = Tail(n.queue)]

DoWriteDropsWhenBusy(n, frames) ==
    IF ~n.open \/ n.writing THEN n
    ELSE IF n.pending + Len(frames) > MaxPending THEN CloseSocket(n)
    ELSE FlushWriteQueue([n EXCEPT !.pending = @ + Len(frames),
                                   !.queue = Append(@, frames)])
DoWriteOverlaps(n, frames) ==
    IF ~n.open THEN n
    ELSE IF n.pending + Len(frames) > MaxPending THEN CloseSocket(n)
    ELSE FlushWriteQueue([n EXCEPT !.pending = @ + Len(frames),
                                   !.queue = Append(@, frames)])
DoWriteUncounted(n, frames) ==
    IF ~n.open THEN n
    ELSE IF Len(frames) > MaxPending THEN CloseSocket(n)
    ELSE LET m == [n EXCEPT !.queue = Append(@, frames)]
         IN  IF m.writing THEN m
             ELSE FlushWriteQueue([m EXCEPT !.pending = @ + Len(frames)])
DoWrite(n, frames) ==
    IF ~n.open THEN n
    ELSE IF n.pending + Len(frames) > MaxPending THEN CloseSocket(n)
    ELSE LET m == [n EXCEPT !.pending = @ + Len(frames),
                            !.queue = Append(@, frames)]
         IN  IF m.writing THEN m ELSE FlushWriteQueue(m)

(***************************************************************************)
(* start()                                                                *)
(***************************************************************************)
Fresh == [open |-> TRUE, reads |-> 0, reading |-> FALSE, rd |-> "none",
          writes |-> 0, writing |-> FALSE, wr |-> "none", buf |-> <<>>,
          queue |-> <<>>, pending |-> 0, armed |-> FALSE, fired |-> FALSE,
          moved |-> FALSE, early |-> FALSE]

Init ==
    /\ net = DoRead(ResetIdleTimer(Fresh))
    /\ chunk = <<>>
    /\ mode = "loop"
    /\ responses = <<>>
    /\ buffered = 0
    /\ authed = ~RequirePass
    /\ closing = FALSE
    /\ subscribed = FALSE
    /\ posted = 0
    /\ received = 0
    /\ handled = {}
    /\ delivered = <<>>

(***************************************************************************)
(* The peer, the kernel and the timer.                                    *)
(***************************************************************************)
session == <<mode, responses, buffered, authed, closing, subscribed>>

\* The outstanding read completes with a chunk.
Arrives(c) ==
    /\ net.rd = "wait"
    /\ received + Len(c) <= MaxCommands
    /\ net' = [net EXCEPT !.rd = "ready", !.moved = TRUE]
    /\ chunk' = [i \in 1..Len(c) |-> [kind |-> c[i], id |-> received + i]]
    /\ received' = received + Len(c)
    /\ UNCHANGED <<session, posted, handled, delivered>>

\* End of file, reset, or another error.
PeerGone ==
    /\ net.rd = "wait"
    /\ net' = [net EXCEPT !.rd = "failed"]
    /\ UNCHANGED <<chunk, session, posted, received, handled, delivered>>

\* async_write has moved a part of write_buf_.
SomeSent ==
    /\ net.wr = "flight"
    /\ ~net.moved
    /\ net' = [net EXCEPT !.moved = TRUE]
    /\ UNCHANGED <<chunk, session, posted, received, handled, delivered>>

\* async_write has moved all of it.
AllSent ==
    /\ net.wr = "flight"
    /\ net' = [net EXCEPT !.wr = "sent", !.moved = TRUE]
    /\ delivered' = IF net.buf = <<Push>> THEN delivered ELSE delivered \o net.buf
    /\ UNCHANGED <<chunk, session, posted, received, handled>>

SendFails ==
    /\ net.wr = "flight"
    /\ net' = [net EXCEPT !.wr = "failed"]
    /\ UNCHANGED <<chunk, session, posted, received, handled, delivered>>

\* The wait ends; early records that bytes moved since the timer was set.
TimerExpires ==
    /\ net.armed /\ ~net.fired
    /\ net' = [net EXCEPT !.armed = FALSE, !.fired = TRUE, !.early = net.moved]
    /\ UNCHANGED <<chunk, session, posted, received, handled, delivered>>

(***************************************************************************)
(* The handlers.                                                          *)
(***************************************************************************)

\* The read handler up to the loop of handle_data.
ReadHandler ==
    /\ mode = "loop"
    /\ net.rd = "ready"
    /\ LET n == ResetIdleTimer([net EXCEPT !.rd = "none", !.reading = FALSE,
                                           !.reads = @ - 1])
       IN  IF buffered + Len(chunk) > MaxRequest
           THEN /\ net' = DoWrite(n, <<Answer(received, "batched")>>)
                /\ closing' = TRUE
                /\ buffered' = 0
                /\ chunk' = <<>>
                /\ mode' = mode
           ELSE /\ net' = n
                /\ mode' = "data"
                /\ UNCHANGED <<closing, buffered, chunk>>
    /\ UNCHANGED <<responses, authed, subscribed, posted, received, handled, delivered>>

ReadError ==
    /\ mode = "loop"
    /\ net.rd = "failed"
    /\ net' = CloseSocket([net EXCEPT !.rd = "none", !.reading = FALSE,
                                      !.reads = @ - 1])
    /\ UNCHANGED <<chunk, session, posted, received, handled, delivered>>

\* feed() finds no complete value: the bytes stay in the parser.
Incomplete ==
    /\ mode = "data"
    /\ chunk # <<>> /\ Head(chunk).kind = "part"
    /\ buffered' = buffered + 1
    /\ chunk' = Tail(chunk)
    /\ UNCHANGED <<net, mode, responses, authed, closing, subscribed, posted,
                   received, handled, delivered>>

\* One turn of the loop: a complete value of one of the given kinds.
Turn(kinds) ==
    /\ mode = "data"
    /\ chunk # <<>> /\ Head(chunk).kind \in kinds
    /\ buffered' = 0
    /\ handled' = handled \cup {Head(chunk).id}
    /\ UNCHANGED <<mode, closing, received, delivered>>

BatchedFront == responses' = <<Answer(Head(chunk).id, "batched")>> \o responses
Batched == responses' = Append(responses, Answer(Head(chunk).id, "batched"))

\* A protocol error, or an exception out of feed or of the command: the parser
\* is reset, and what the chunk still holds is dropped.
Reset ==
    /\ \/ Turn({"bad", "garbage"})
       \/ Turn({"throw"}) /\ authed
    /\ Batched
    /\ chunk' = <<>>
    /\ UNCHANGED <<net, authed, subscribed, posted>>

Auth ==
    /\ Turn({"auth", "badauth"})
    /\ authed' = (authed \/ (RequirePass /\ Head(chunk).kind = "auth"))
    /\ Batched
    /\ chunk' = Tail(chunk)
    /\ UNCHANGED <<net, subscribed, posted>>

\* NOAUTH
Refuse ==
    /\ Turn({"sub", "badsub", "unsub", "cmd", "throw"})
    /\ ~authed
    /\ Batched
    /\ chunk' = Tail(chunk)
    /\ UNCHANGED <<net, authed, subscribed, posted>>

\* handle_subscribe and handle_unsubscribe write their answer at once.
DirectUnchecked(kinds) ==
    /\ Turn(kinds)
    /\ net' = DoWrite(net, <<Answer(Head(chunk).id, "direct")>>)
    /\ chunk' = Tail(chunk)
    /\ UNCHANGED <<responses, authed, posted>>
Direct(kinds) ==
    /\ Turn(kinds)
    /\ authed
    /\ net' = DoWrite(net, <<Answer(Head(chunk).id, "direct")>>)
    /\ chunk' = Tail(chunk)
    /\ UNCHANGED <<responses, authed, posted>>

Subscribe   == Direct({"sub"}) /\ subscribed' = TRUE
BadSub      == Direct({"badsub"}) /\ subscribed' = subscribed
Unsubscribe == Direct({"unsub"}) /\ subscribed' = FALSE

\* dispatcher_.dispatch; the command may be a PUBLISH to the client's own channel.
Execute ==
    /\ Turn({"cmd"})
    /\ authed
    /\ Batched
    /\ \/ posted' = posted
       \/ subscribed /\ posted < MaxPosted /\ posted' = posted + 1
    /\ chunk' = Tail(chunk)
    /\ UNCHANGED <<net, authed, subscribed>>

\* The end of handle_data.
DataEndNoRead ==
    /\ mode = "data"
    /\ chunk = <<>>
    /\ net' = IF responses = <<>> THEN net ELSE DoWrite(net, responses)
    /\ responses' = <<>>
    /\ mode' = "loop"
    /\ UNCHANGED <<chunk, buffered, authed, closing, subscribed, posted,
                   received, handled, delivered>>
DataEnd ==
    /\ mode = "data"
    /\ chunk = <<>>
    /\ net' = IF responses = <<>> THEN DoRead(net) ELSE DoWrite(net, responses)
    /\ responses' = <<>>
    /\ mode' = "loop"
    /\ UNCHANGED <<chunk, buffered, authed, closing, subscribed, posted,
                   received, handled, delivered>>

WriteHandlerReads ==
    /\ mode = "loop"
    /\ net.wr = "sent"
    /\ LET bytes == Len(net.buf)
           n == [net EXCEPT !.wr = "none", !.writes = @ - 1, !.buf = <<>>,
                            !.pending = IF @ >= bytes THEN @ - bytes ELSE 0]
           m == [n EXCEPT !.writing = FALSE]
       IN  net' = IF n.queue # <<>> THEN FlushWriteQueue(n)
                  ELSE DoRead(ResetIdleTimer(m))
    /\ UNCHANGED <<chunk, session, posted, received, handled, delivered>>
WriteHandler ==
    /\ mode = "loop"
    /\ net.wr = "sent"
    /\ LET bytes == Len(net.buf)
           n == [net EXCEPT !.wr = "none", !.writes = @ - 1, !.buf = <<>>,
                            !.pending = IF @ >= bytes THEN @ - bytes ELSE 0]
           m == [n EXCEPT !.writing = FALSE]
       IN  net' = IF n.queue # <<>> THEN FlushWriteQueue(n)
                  ELSE IF closing THEN CloseSocket(m)
                  ELSE DoRead(ResetIdleTimer(m))
    /\ UNCHANGED <<chunk, session, posted, received, handled, delivered>>

WriteError ==
    /\ mode = "loop"
    /\ net.wr = "failed"
    /\ net' = CloseSocket([net EXCEPT !.wr = "none", !.writes = @ - 1])
    /\ UNCHANGED <<chunk, session, posted, received, handled, delivered>>

\* The idle timer's handler with success: it closes what is still open.
TimerHandler ==
    /\ mode = "loop"
    /\ net.fired
    /\ net' = IF net.open THEN CloseSocket([net EXCEPT !.fired = FALSE])
              ELSE [net EXCEPT !.fired = FALSE]
    /\ UNCHANGED <<chunk, session, posted, received, handled, delivered>>

\* Another connection's PUBLISH: PubSubBroker::publish calls push_message, which
\* posts a do_write.
Publish ==
    /\ mode = "loop"
    /\ subscribed
    /\ posted < MaxPosted
    /\ posted' = posted + 1
    /\ UNCHANGED <<net, chunk, session, received, handled, delivered>>

PushHandler ==
    /\ mode = "loop"
    /\ posted > 0
    /\ posted' = posted - 1
    /\ net' = DoWrite(net, <<Push>>)
    /\ UNCHANGED <<chunk, session, received, handled, delivered>>

Loop == \/ ReadHandler \/ ReadError \/ Incomplete \/ Reset \/ Auth \/ Refuse
        \/ Subscribe \/ BadSub \/ Unsubscribe \/ Execute \/ DataEnd
        \/ WriteHandler \/ WriteError \/ TimerHandler \/ PushHandler

\* The socket is closed and no handler is outstanding.
Quiet ==
    /\ ~net.open /\ net.rd = "none" /\ net.wr = "none" /\ ~net.fired
    /\ mode = "loop" /\ posted = 0

Over == Quiet /\ UNCHANGED vars

Next ==
    \/ \E c \in Chunks : Arrives(c)
    \/ PeerGone \/ SomeSent \/ AllSent \/ SendFails \/ TimerExpires
    \/ Loop
    \/ Publish
    \/ Over

Spec == Init /\ [][Next]_vars

\* The io_context runs every ready handler, and a started write ends: the peer
\* reads, or the kernel gives up.  Nothing obliges the peer to send.
FairSpec ==
    /\ Spec
    /\ WF_vars(AllSent \/ SendFails)
    /\ WF_vars(mode = "data" /\ Loop)
    /\ SF_vars(ReadHandler) /\ SF_vars(ReadError)
    /\ SF_vars(WriteHandler) /\ SF_vars(WriteError)
    /\ SF_vars(TimerHandler) /\ SF_vars(PushHandler)

(***************************************************************************)
(* Properties.                                                            *)
(***************************************************************************)

\* An open connection always waits for something: between two handlers a read or
\* a write is outstanding, so no sequence of answers, subscriptions, pushes and
\* pipelined errors leaves a client that is never read again
\* (connection.cpp:194-197, 319-330).
NeverStuck == mode = "loop" /\ net.open => net.rd # "none" \/ net.wr # "none"

\* read_buf_ and write_buf_ are each used by one operation at a time: the flags
\* tell exactly whether an operation is outstanding (connection.cpp:111, 289);
\* after a write error write_in_progress_ stays set, on a closed socket.
OneOperation(n) ==
    /\ n.reads = (IF n.rd = "none" THEN 0 ELSE 1)
    /\ n.writes = (IF n.wr = "none" THEN 0 ELSE 1)
    /\ n.reading <=> n.rd # "none"
    /\ n.open => (n.writing <=> n.wr # "none")
OneOperationEach == OneOperation(net)

\* pending_write_bytes_ is what is in write_buf_ and in the queue, so the limit
\* it is compared with bounds the memory of a slow client; the clamp at
\* connection.cpp:314-317 never acts.
PendingBounded == net.pending <= MaxPending
Total(q) ==
    LET sum[i \in 0..Len(q)] == IF i = 0 THEN 0 ELSE sum[i - 1] + Len(q[i])
    IN  sum[Len(q)]
PendingExact ==
    /\ PendingBounded
    /\ net.open => net.pending = Len(net.buf) + Total(net.queue)

\* The answers to pipelined commands leave in the order of the commands, each
\* once, whatever is pushed between them (connection.cpp:184-195, 277-333);
\* so do the answers that SUBSCRIBE and UNSUBSCRIBE write themselves.
AnswersInOrder ==
    \A i, j \in 1..Len(delivered) :
        i < j /\ delivered[i].how = delivered[j].how =>
            delivered[i].id < delivered[j].id

\* When an open connection has nothing left to write and waits for the client,
\* every command its loop has handled has been answered.
AllAnswered ==
    mode = "loop" /\ net.open /\ net.rd = "wait" /\ net.wr = "none" =>
        {delivered[i].id : i \in 1..Len(delivered)} = handled

\* After "max request size exceeded" nothing more is read or executed, although
\* the connection stays open until its queue is written and pushes may keep it
\* busy (connection.cpp:137, 325).
ClosingIsFinal ==
    [][closing => /\ handled' = handled
                  /\ net.reads' = 0]_vars

\* A client that has not authenticated is never subscribed and is sent no
\* message (connection.cpp:164).
NothingBeforeAuth ==
    ~authed => /\ ~subscribed /\ posted = 0
               /\ \A i \in 1..Len(net.buf) : net.buf[i] # Push

\* Of a connection that is no subscriber: the request that exceeded the limit
\* ends it.
ClosingEnds == closing /\ ~subscribed ~> ~net.open

\* Of a connection that is no subscriber: after each request the server reads
\* again, or the connection is closed.
ReadsAgain == net.rd = "none" /\ ~subscribed ~> net.rd # "none" \/ ~net.open \/ subscribed

\* Once closed, every handler that keeps the connection alive runs and goes:
\* only a subscription can still hold it, and handle_data may still enter one
\* for a socket that the output limit has closed under it.
HandlersEnd == ~net.open /\ ~subscribed ~> Quiet \/ subscribed

(***************************************************************************)
(* Statements of the documentation that the code does not keep.           *)
(***************************************************************************)

\* Pipelined commands are answered in the order they were sent, SUBSCRIBE and
\* UNSUBSCRIBE included (COMPATIBILITY.md:11).
PipelineInOrder ==
    \A i, j \in 1..Len(delivered) : i < j => delivered[i].id < delivered[j].id

\* Every complete command of a read buffer is handled (COMPATIBILITY.md:11): when
\* the connection waits for the client again, all that it sent is answered.
PipelineComplete ==
    mode = "loop" /\ net.open /\ net.rd = "wait" /\ net.wr = "none"
        /\ buffered = 0 /\ chunk = <<>> =>
        handled = 1..received

\* Only inactivity ends a connection (README.md:74): the idle timer closes none on
\* which bytes moved since it was set.
IdleMeansIdle == [][TimerHandler /\ net.open => ~net.early]_vars
=============================================================================
